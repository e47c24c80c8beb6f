------------------------ MODULE ClientSessionsProofs ------------------------
(***************************************************************************)
(* Proofs about ClientSessions, for any threads, clients and sessions: the *)
(* two maps agree, however the calls interleave; no broadcast meets a null *)
(* session that nobody added; and two critical sections do as well as one, *)
(* but for the two calls that do something else than their header says.    *)
(***************************************************************************)
EXTENDS ClientSessions, TLAPS

\* The types of the maps; a context that is erased takes its subscription along.
MapTypeOK ==
    /\ present \subseteq Clients
    /\ session \in [Clients -> Sessions \cup {NoSession}]
    /\ subscribed \in [Clients -> BOOLEAN]
    /\ owner \in [Sessions -> Clients \cup {NoClient}]
    /\ names \in [Sessions -> SUBSET Clients]
    /\ nulls \subseteq Clients
    /\ \A id \in Clients \ present : session[id] = NoSession /\ ~subscribed[id]

\* A session that is bound was added under the id it is bound to.
BoundIsNamed == \A id \in Clients, s \in Sessions : session[id] = s => id \in names[s]

\* A client with a null session was added with one.
NullIsKnown == (\E id \in present : session[id] = NoSession) => nulls # {}

MapInv == MapTypeOK /\ BoundIsNamed /\ ReverseSound /\ SessionFindable /\ NullIsKnown

\* What a thread may be in.
Calls == [op : Ops \cup {"none", "sending"}, id : Clients \cup {NoClient},
          to : SUBSET (Sessions \cup {NoSession})]

\* No call about a client has the name of a broadcast, or of no call.
LEMMA OpsNamed == "none" \notin Ops /\ "sending" \notin Ops
BY ClientSessionsAssumption DEF ClientSessionsAssumption, ClientCalls

\* A null session that is still to be sent to was in the list.
SendsKnown == \A t \in Threads : NoSession \in call[t].to => nulls # {}

\* A call about a client has one.
AboutClient == \A t \in Threads : call[t].op \in Ops => call[t].id \in Clients

CallInv == call \in [Threads -> Calls] /\ SendsKnown /\ AboutClient /\ BroadcastSafe

IInv == MapInv /\ CallInv

-----------------------------------------------------------------------------
(* The maps.                                                                *)

\* add_session keeps the two maps in step.
LEMMA AddKeepsMapInv ==
    ASSUME MapInv, NEW t \in Threads, NEW id \in Clients, NEW s \in Sessions \cup {NoSession},
           AddSession(t, id, s)
    PROVE  MapInv'
<1> USE ClientSessionsAssumption DEF MapInv, ClientSessionsAssumption
<1>1. /\ present' = present \cup {id}
      /\ session' = [session EXCEPT ![id] = s]
      /\ subscribed' = subscribed
      /\ nulls' = IF s = NoSession THEN nulls \cup {id} ELSE nulls
  BY DEF AddSession
<1>2. /\ names' \in [Sessions -> SUBSET Clients]
      /\ \A x \in Sessions : names'[x] = IF x = s THEN names[x] \cup {id} ELSE names[x]
  BY DEF AddSession, MapTypeOK
<1>3. /\ owner' \in [Sessions -> Clients \cup {NoClient}]
      /\ \A x \in Sessions : owner'[x] = IF x = s THEN id
                                         ELSE IF x = session[id] THEN NoClient ELSE owner[x]
  <2>1. /\ Unbound(id) \in [Sessions -> Clients \cup {NoClient}]
        /\ \A x \in Sessions : Unbound(id)[x] = IF x = session[id] THEN NoClient ELSE owner[x]
    BY DEF Unbound, MapTypeOK
  <2>2. owner' = IF s = NoSession THEN Unbound(id) ELSE [Unbound(id) EXCEPT ![s] = id]
    BY DEF AddSession
  <2> HIDE DEF MapInv
  <2> QED BY <2>1, <2>2
<1>4. MapTypeOK'
  BY <1>1, <1>2, <1>3 DEF MapTypeOK
<1>5. BoundIsNamed'
  BY <1>1, <1>2 DEF MapTypeOK, BoundIsNamed
<1>6. ReverseSound'
  BY <1>1, <1>3 DEF MapTypeOK, ReverseSound
<1>7. SessionFindable'
  BY <1>1, <1>2, <1>3 DEF MapTypeOK, BoundIsNamed, SessionFindable
<1>8. NullIsKnown'
  BY <1>1 DEF MapTypeOK, NullIsKnown
<1> QED BY <1>4, <1>5, <1>6, <1>7, <1>8

\* remove_session keeps the two maps in step.
LEMMA RemoveKeepsMapInv ==
    ASSUME MapInv, NEW t \in Threads, NEW id \in Clients, RemoveSession(t, id)
    PROVE  MapInv'
<1> USE ClientSessionsAssumption DEF MapInv, ClientSessionsAssumption
<1>1. /\ present' = present \ {id}
      /\ session' = [session EXCEPT ![id] = NoSession]
      /\ subscribed' = [subscribed EXCEPT ![id] = FALSE]
      /\ names' = names /\ nulls' = nulls
      /\ owner' \in [Sessions -> Clients \cup {NoClient}]
      /\ \A x \in Sessions : owner'[x] = IF x = session[id] THEN NoClient ELSE owner[x]
  BY DEF RemoveSession, Unbound, MapTypeOK, history
<1>2. MapTypeOK' /\ BoundIsNamed'
  BY <1>1 DEF MapTypeOK, BoundIsNamed
<1>3. ReverseSound'
  BY <1>1 DEF MapTypeOK, ReverseSound
<1>4. SessionFindable'
  BY <1>1 DEF MapTypeOK, BoundIsNamed, SessionFindable
<1>5. NullIsKnown'
  BY <1>1 DEF MapTypeOK, NullIsKnown
<1> QED BY <1>2, <1>3, <1>4, <1>5

\* subscribe touches neither map's sessions.
LEMMA SubscribeKeepsMapInv ==
    ASSUME MapInv, NEW t \in Threads, Subscribe(t)
    PROVE  MapInv'
<1>1. /\ subscribed' \in [Clients -> BOOLEAN]
      /\ \A id \in Clients \ present : ~subscribed'[id]
      /\ UNCHANGED <<present, session, owner, names, nulls>>
  BY DEF Subscribe, Found, MapInv, MapTypeOK, history
<1> QED BY <1>1 DEF MapInv, MapTypeOK, BoundIsNamed, ReverseSound, SessionFindable, NullIsKnown

-----------------------------------------------------------------------------
(* The calls.                                                               *)

\* A call that returns leaves nothing to be sent.
LEMMA ReturnKeepsCallInv ==
    ASSUME CallInv, NEW t \in Threads, NEW op, NEW of, NEW r, Return(t, op, of, r),
           nulls # {} => nulls' # {}
    PROVE  CallInv'
<1>1. Idle \in Calls /\ Idle.to = {} /\ Idle.op \notin Ops
  BY OpsNamed DEF Idle, Calls
<1>2. call' \in [Threads -> Calls] /\ \A u \in Threads : call'[u] = IF u = t THEN Idle ELSE call[u]
  BY <1>1 DEF CallInv, Return
<1>3. SendsKnown' /\ AboutClient'
  BY <1>1, <1>2 DEF CallInv, SendsKnown, AboutClient
<1>4. BroadcastSafe'
  BY DEF CallInv, BroadcastSafe, Return
<1> QED BY <1>2, <1>3, <1>4 DEF CallInv

\* Nor does a call that goes on to its second half.
LEMMA AtKeepsCallInv ==
    ASSUME CallInv, NEW t \in Threads, NEW op \in Ops, NEW id \in Clients,
           call' = [call EXCEPT ![t] = At(op, id)], UNCHANGED <<crashed, nulls>>
    PROVE  CallInv'
<1>1. At(op, id) \in Calls /\ At(op, id).to = {} /\ At(op, id).id = id
  BY DEF At, Calls
<1>2. call' \in [Threads -> Calls] /\ \A u \in Threads : call'[u] = IF u = t THEN At(op, id) ELSE call[u]
  BY <1>1 DEF CallInv
<1> QED BY <1>1, <1>2 DEF CallInv, SendsKnown, AboutClient, BroadcastSafe

\* A broadcast that goes on to send S may meet a null session only if S is
\* known to hold one.
LEMMA SendingKeepsCallInv ==
    ASSUME CallInv, NEW t \in Threads, NEW S \in SUBSET (Sessions \cup {NoSession}),
           NoSession \in S => nulls # {},
           call' = [call EXCEPT ![t] = Sending(S)],
           nulls' = nulls, crashed' => nulls # {}
    PROVE  CallInv'
<1>1. Sending(S) \in Calls /\ Sending(S).to = S /\ Sending(S).op \notin Ops
  BY OpsNamed DEF Sending, Calls
<1>2. call' \in [Threads -> Calls] /\ \A u \in Threads : call'[u] = IF u = t THEN Sending(S) ELSE call[u]
  BY <1>1 DEF CallInv
<1>3. SendsKnown' /\ AboutClient'
  BY <1>1, <1>2 DEF CallInv, SendsKnown, AboutClient
<1> QED BY <1>2, <1>3 DEF CallInv, BroadcastSafe

\* Both broadcasts take their sessions from the list, where a null is known.
LEMMA BroadcastKeepsCallInv ==
    ASSUME IInv, NEW t \in Threads, BroadcastToSubscribed(t) \/ BroadcastToCertain(t)
    PROVE  CallInv'
<1> USE DEF IInv, MapInv
<1>1. nulls' = nulls /\ (crashed' => nulls # {})
  BY DEF BroadcastToSubscribed, BroadcastToCertain, CallInv, BroadcastSafe, history
<1>2. CASE BroadcastToSubscribed(t)
  <2> DEFINE S == {session[id] : id \in SubscribedClients}
  <2>1. S \in SUBSET (Sessions \cup {NoSession}) /\ (NoSession \in S => nulls # {})
    BY DEF SubscribedClients, MapTypeOK, NullIsKnown
  <2>2. call' = [call EXCEPT ![t] = Sending(S)]
    BY <1>2 DEF BroadcastToSubscribed
  <2> HIDE DEF S
  <2> QED BY <1>1, <2>1, <2>2, SendingKeepsCallInv
<1>3. CASE BroadcastToCertain(t)
  <2> DEFINE S == {session[call[t].id]}
  <2>1. S \in SUBSET (Sessions \cup {NoSession}) /\ (NoSession \in S => nulls # {})
    BY <1>3 DEF BroadcastToCertain, Found, MapTypeOK, NullIsKnown
  <2>2. call' = [call EXCEPT ![t] = Sending(S)]
    BY <1>3 DEF BroadcastToCertain
  <2> HIDE DEF S
  <2> QED BY <1>1, <2>1, <2>2, SendingKeepsCallInv
<1> QED BY <1>2, <1>3

\* SendMsg through one of the sessions that were copied.
LEMMA SendKeepsCallInv ==
    ASSUME CallInv, NEW t \in Threads, NEW s \in Sessions \cup {NoSession}, Send(t, s)
    PROVE  CallInv'
<1> DEFINE S == call[t].to \ {s}
<1>1. call[t] \in Calls /\ s \in call[t].to /\ (NoSession \in call[t].to => nulls # {})
  BY DEF CallInv, SendsKnown, Send
<1>2. S \in SUBSET (Sessions \cup {NoSession}) /\ (NoSession \in S => nulls # {})
  BY <1>1 DEF Calls
<1>3. call' = [call EXCEPT ![t] = Sending(S)]
  BY DEF Send
<1>4. nulls' = nulls /\ (crashed' => nulls # {})
  BY <1>1 DEF Send, history
<1> HIDE DEF S
<1> QED BY <1>2, <1>3, <1>4, SendingKeepsCallInv

-----------------------------------------------------------------------------
(* The whole list.                                                          *)

\* The calls that return and leave the maps alone.
Answer(t) ==
    \/ \E s \in Sessions : FindClientId(t, s)
    \/ Look(t) \/ AtThrows(t) \/ GetSession(t) \/ Unsubscribe(t) \/ IsSubscribed(t)
    \/ OrderCall(t) \/ BroadcastReturns(t)

LEMMA AnswerReturns ==
    ASSUME NEW t \in Threads, Answer(t)
    PROVE  UNCHANGED <<mapVars, history>> /\ \E op, of, r : Return(t, op, of, r)
BY DEF Answer, FindClientId, Look, AtThrows, GetSession, Unsubscribe, IsSubscribed, OrderCall,
       BroadcastReturns

LEMMA UnchangedMapInv == MapInv /\ UNCHANGED <<mapVars, history>> => MapInv'
BY DEF MapInv, MapTypeOK, BoundIsNamed, ReverseSound, SessionFindable, NullIsKnown, mapVars, history

\* Every step of every thread keeps the invariant.
LEMMA NextIInv == IInv /\ [Next]_vars => IInv'
<1> SUFFICES ASSUME IInv, [Next]_vars PROVE IInv'
  OBVIOUS
<1> USE DEF IInv
<1>1. ASSUME NEW t \in Threads, NEW id \in Clients, NEW s \in Sessions \cup {NoSession},
             AddSession(t, id, s)
      PROVE  IInv'
  <2>1. (\E op, of : Return(t, op, of, "void")) /\ (nulls # {} => nulls' # {})
    BY <1>1 DEF AddSession
  <2> QED BY <1>1, <2>1, AddKeepsMapInv, ReturnKeepsCallInv
<1>2. ASSUME NEW t \in Threads, NEW id \in Clients, RemoveSession(t, id) PROVE IInv'
  <2>1. (\E op, of : Return(t, op, of, "void")) /\ (nulls # {} => nulls' # {})
    BY <1>2 DEF RemoveSession, history
  <2> QED BY <1>2, <2>1, RemoveKeepsMapInv, ReturnKeepsCallInv
<1>3. ASSUME NEW t \in Threads, Subscribe(t) PROVE IInv'
  <2>1. (\E op, of : Return(t, op, of, "void")) /\ (nulls # {} => nulls' # {})
    BY <1>3 DEF Subscribe, history
  <2> QED BY <1>3, <2>1, SubscribeKeepsMapInv, ReturnKeepsCallInv
<1>4. ASSUME NEW t \in Threads, Answer(t) PROVE IInv'
  <2>1. UNCHANGED <<mapVars, history>> /\ \E op, of, r : Return(t, op, of, r)
    BY <1>4, AnswerReturns
  <2>2. nulls # {} => nulls' # {}
    BY <2>1 DEF history
  <2> QED BY <2>1, <2>2, UnchangedMapInv, ReturnKeepsCallInv
<1>5. ASSUME NEW t \in Threads, NEW id \in Clients, NEW op \in Ops, HasClient(t, op, id)
      PROVE  IInv'
  <2>1. UNCHANGED <<mapVars, history>>
    BY <1>5 DEF HasClient
  <2>2. CASE id \in present
    BY <1>5, <2>1, <2>2, UnchangedMapInv, AtKeepsCallInv DEF HasClient, history
  <2>3. CASE id \notin present
    BY <1>5, <2>1, <2>3, UnchangedMapInv, ReturnKeepsCallInv DEF HasClient, history
  <2> QED BY <2>2, <2>3
<1>6. ASSUME NEW t \in Threads, BroadcastToSubscribed(t) \/ BroadcastToCertain(t) PROVE IInv'
  <2>1. UNCHANGED <<mapVars, history>>
    BY <1>6 DEF BroadcastToSubscribed, BroadcastToCertain
  <2> QED BY <1>6, <2>1, UnchangedMapInv, BroadcastKeepsCallInv
<1>7. ASSUME NEW t \in Threads, NEW s \in Sessions \cup {NoSession}, Send(t, s) PROVE IInv'
  <2>1. UNCHANGED <<mapVars, history>>
    BY <1>7 DEF Send
  <2> QED BY <1>7, <2>1, UnchangedMapInv, SendKeepsCallInv
<1>8. CASE UNCHANGED vars
  BY <1>8, UnchangedMapInv DEF vars, history, CallInv, SendsKnown, AboutClient, BroadcastSafe
<1> QED BY <1>1, <1>2, <1>3, <1>4, <1>5, <1>6, <1>7, <1>8 DEF Next, Answer

\* An empty list satisfies it.
LEMMA InitIInv == Init => IInv
<1> SUFFICES ASSUME Init PROVE IInv
  OBVIOUS
<1>1. MapInv
  BY ClientSessionsAssumption
     DEF Init, MapInv, MapTypeOK, BoundIsNamed, ReverseSound, SessionFindable, NullIsKnown,
         ClientSessionsAssumption
<1>2. CallInv
  BY OpsNamed DEF Init, CallInv, SendsKnown, AboutClient, BroadcastSafe, Calls, Idle
<1> QED BY <1>1, <1>2 DEF IInv

LEMMA SpecIInv == Spec => []IInv
BY InitIInv, NextIInv, PTL DEF Spec

\* session_to_client_ only leads to clients that have the session.
THEOREM ReverseMapSound == Spec => []ReverseSound
<1>1. IInv => ReverseSound
  BY DEF IInv, MapInv
<1> QED BY <1>1, SpecIInv, PTL

\* A bound session that goes by one id is found.
THEOREM BoundSessionFindable == Spec => []SessionFindable
<1>1. IInv => SessionFindable
  BY DEF IInv, MapInv
<1> QED BY <1>1, SpecIInv, PTL

\* No broadcast dereferences a null pointer unless somebody added a null session.
THEOREM NoNullSent == Spec => []BroadcastSafe
<1>1. IInv => BroadcastSafe
  BY DEF IInv, CallInv
<1> QED BY <1>1, SpecIInv, PTL

-----------------------------------------------------------------------------
(* The refinement.                                                          *)

\* The calls that change the list change it at once.
LEMMA ChangesRefine ==
    ASSUME NEW t \in Threads, NEW id \in Clients, NEW s \in Sessions \cup {NoSession},
           AddSession(t, id, s) \/ RemoveSession(t, id)
    PROVE  Atomic!Next
<1>1. CASE AddSession(t, id, s)
  <2>1. Atomic!Add(id, s)
    BY <1>1 DEF AddSession, Return, Atomic!Add, Atomic!Ended
  <2> QED BY <2>1 DEF Atomic!Next
<1>2. CASE RemoveSession(t, id)
  <2>1. Atomic!Remove(id)
    BY <1>2 DEF RemoveSession, Return, Atomic!Remove, Atomic!Ended
  <2> QED BY <2>1 DEF Atomic!Next
<1> QED BY <1>1, <1>2

\* The second half of a call that found its client acts on the client it finds;
\* unsubscribe does what it should where there is nothing to do.
LEMMA FoundRefines ==
    ASSUME IInv, NEW t \in Threads,
           GetSession(t) \/ Unsubscribe(t) \/ IsSubscribed(t) \/ OrderCall(t) \/ Subscribe(t)
    PROVE  Atomic!Next \/ Departure
<1> DEFINE id == call[t].id
<1>1. id \in present /\ id \in Clients
  BY DEF IInv, MapInv, MapTypeOK, GetSession, Unsubscribe, IsSubscribed, OrderCall, Subscribe, Found
<1> USE DEF Return, mapVars, Atomic!Ended
<1>2. CASE Subscribe(t)
  <2>1. Atomic!Subscribe(id)
    BY <1>1, <1>2 DEF Subscribe, Atomic!Subscribe
  <2> QED BY <1>1, <2>1 DEF Atomic!Next
<1>3. CASE GetSession(t)
  <2>1. Atomic!GetSession(id)
    BY <1>1, <1>3 DEF GetSession, Atomic!GetSession
  <2> QED BY <1>1, <2>1 DEF Atomic!Next
<1>4. CASE IsSubscribed(t)
  <2>1. Atomic!IsSubscribed(id)
    BY <1>1, <1>4 DEF IsSubscribed, Atomic!IsSubscribed
  <2> QED BY <1>1, <2>1 DEF Atomic!Next
<1>5. CASE OrderCall(t)
  <2>1. Atomic!OrderCall(id)
    BY <1>1, <1>5 DEF OrderCall, Atomic!OrderCall
  <2> QED BY <1>1, <2>1 DEF Atomic!Next
<1>6. CASE Unsubscribe(t) /\ subscribed[id]
  <2>1. UnsubscribeIsLost(id)
    BY <1>1, <1>6 DEF Unsubscribe, UnsubscribeIsLost, SubscribedClients
  <2> QED BY <1>1, <2>1 DEF Departure
<1>7. CASE Unsubscribe(t) /\ ~subscribed[id]
  <2>1. subscribed = [subscribed EXCEPT ![id] = FALSE]
    <3>1. subscribed \in [Clients -> BOOLEAN]
      BY DEF IInv, MapInv, MapTypeOK
    <3>2. \A c \in Clients : subscribed[c] = [subscribed EXCEPT ![id] = FALSE][c]
      BY <1>1, <1>7, <3>1
    <3> QED BY <3>1, <3>2
  <2>2. Atomic!Unsubscribe(id)
    BY <1>1, <1>7, <2>1 DEF Unsubscribe, Atomic!Unsubscribe
  <2> QED BY <1>1, <2>2 DEF Atomic!Next
<1> QED BY <1>2, <1>3, <1>4, <1>5, <1>6, <1>7

\* A call that finds no client, at either of its two locks, throws while there is
\* none; broadcast_to_certain with the call it makes.
LEMMA ThrowRefines ==
    ASSUME IInv, NEW t \in Threads,
           AtThrows(t) \/ \E id \in Clients \ present, op \in Ops : HasClient(t, op, id)
    PROVE  Atomic!Next \/ Departure
<1>1. PICK id \in Clients \ present, op \in Ops :
          Return(t, op, id, "throws") /\ UNCHANGED mapVars
  BY DEF AtThrows, HasClient, IInv, CallInv, AboutClient
<1>2. CASE op = "get_session"
  <2>1. GetSessionThrows(id)
    BY <1>1, <1>2 DEF Return, mapVars, GetSessionThrows
  <2> QED BY <2>1 DEF Departure
<1>3. CASE op # "get_session"
  <2>1. op \in {"subscribe", "unsubscribe", "is_subscribed", "orders", "certain"}
    BY <1>3, ClientSessionsAssumption DEF ClientSessionsAssumption, ClientCalls
  <2>2. Atomic!Throw(op, id)
    BY <1>1 DEF Return, mapVars, Atomic!Throw, Atomic!Ended
  <2> QED BY <2>1, <2>2 DEF Atomic!Next
<1> QED BY <1>2, <1>3

\* What is asked of the whole list; a session found belongs to its client by the
\* invariant of the two maps.
LEMMA WholeRefines ==
    ASSUME IInv, NEW t \in Threads,
           Look(t) \/ BroadcastReturns(t) \/ \E s \in Sessions : FindClientId(t, s)
    PROVE  Atomic!Next
<1>1. CASE Look(t) \/ BroadcastReturns(t)
  <2>1. \E op \in {"look", "sending"} : Atomic!Other(op)
    BY <1>1 DEF Look, BroadcastReturns, Return, mapVars, Atomic!Other, Atomic!Ended
  <2> QED BY <2>1 DEF Atomic!Next
<1>2. ASSUME NEW s \in Sessions, FindClientId(t, s) PROVE Atomic!Next
  <2>1. owner[s] \in {id \in present : session[id] = s} \cup {NoClient}
    BY DEF IInv, MapInv, ReverseSound
  <2>2. Atomic!Find(s)
    BY <1>2, <2>1 DEF FindClientId, Return, mapVars, Atomic!Find, Atomic!Ended
  <2> QED BY <2>2 DEF Atomic!Next
<1> QED BY <1>1, <1>2

\* The rest only begins or goes on with a call.
LEMMA StutterRefines ==
    ASSUME NEW t \in Threads,
           \/ \E id \in present, op \in Ops : HasClient(t, op, id)
           \/ BroadcastToSubscribed(t) \/ BroadcastToCertain(t)
           \/ \E s \in Sessions \cup {NoSession} : Send(t, s)
           \/ UNCHANGED vars
    PROVE  UNCHANGED Atomic!vars
BY DEF HasClient, BroadcastToSubscribed, BroadcastToCertain, Send, mapVars, vars, Atomic!vars

\* Every step of the list is a step of the atomic one, one of the two departures
\* from it, or none.
LEMMA StepRefines == IInv /\ [Next]_vars => [Atomic!Next \/ Departure]_(Atomic!vars)
<1> SUFFICES ASSUME IInv, [Next]_vars PROVE Atomic!Next \/ Departure \/ UNCHANGED Atomic!vars
  OBVIOUS
<1>1. CASE UNCHANGED vars
  BY <1>1 DEF vars, mapVars, Atomic!vars
<1>2. CASE Next
  <2>1. PICK t \in Threads :
          \/ \E id \in Clients, s \in Sessions \cup {NoSession} :
               AddSession(t, id, s) \/ RemoveSession(t, id)
          \/ GetSession(t) \/ Unsubscribe(t) \/ IsSubscribed(t) \/ OrderCall(t) \/ Subscribe(t)
          \/ AtThrows(t) \/ \E id \in Clients, op \in Ops : HasClient(t, op, id)
          \/ Look(t) \/ BroadcastReturns(t) \/ \E s \in Sessions : FindClientId(t, s)
          \/ BroadcastToSubscribed(t) \/ BroadcastToCertain(t)
          \/ \E s \in Sessions \cup {NoSession} : Send(t, s)
    BY <1>2 DEF Next
  <2>2. ASSUME NEW id \in Clients, NEW op \in Ops, HasClient(t, op, id)
        PROVE  Atomic!Next \/ Departure \/ UNCHANGED Atomic!vars
    BY <2>2, ThrowRefines, StutterRefines
  <2> QED BY <2>1, <2>2, ChangesRefine, FoundRefines, ThrowRefines, WholeRefines, StutterRefines
<1> QED BY <1>1, <1>2

\* Two critical sections are as good as one: but for get_session of a client that
\* is not there and unsubscribe, every call of client_list.cpp does what
\* client_list.h promises, at an instant.
THEOREM ImplementsAtomic == Spec => AtomicSpec
<1>1. Init => Atomic!Init
  BY DEF Init, Atomic!Init, Atomic!Ended
<1> QED BY <1>1, SpecIInv, StepRefines, PTL DEF Spec, AtomicSpec
=============================================================================
