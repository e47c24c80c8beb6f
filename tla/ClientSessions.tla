--------------------------- MODULE ClientSessions ---------------------------
(***************************************************************************)
(* ClientList of src/src/client_list, its sessions and subscriptions: two  *)
(* maps kept in step under one mutex, clients_ (id to context) and         *)
(* session_to_client_ (session pointer back to id).  add_session,          *)
(* remove_session and what is asked of the whole list are one critical     *)
(* section each; every call about one client first asks has_client, which  *)
(* locks and unlocks, and then locks again.  A broadcast copies the        *)
(* sessions under the lock and sends after it.                             *)
(***************************************************************************)
EXTENDS Integers

CONSTANTS Threads,    \* the threads that call the list
          Clients,    \* client ids
          Sessions,   \* session objects
          Ops,        \* the calls about one client that the threads make
          NoClient,   \* no entry in session_to_client_
          NoSession   \* a null SessionPtr

\* The calls about one client.  add_bid to get_asks are one, "orders": what they
\* do to the orders is in ClientOrders.
ClientCalls == {"get_session", "subscribe", "unsubscribe", "is_subscribed", "orders", "certain"}

ASSUME ClientSessionsAssumption ==
    /\ Ops \subseteq ClientCalls
    /\ NoClient \notin Clients
    /\ NoSession \notin Sessions

VARIABLES
    present,      \* the keys of clients_
    session,      \* ClientContext::session of each client
    subscribed,   \* ClientContext::subscribed of each client
    owner,        \* session_to_client_
    call,         \* the call a thread is in
    last,         \* the call that ended last, and how
    crashed,      \* a null session was dereferenced
    names,        \* history: the ids each session was ever added under
    nulls         \* history: the ids ever added with a null session

mapVars == <<present, session, subscribed, owner>>
history == <<names, nulls>>
vars    == <<mapVars, call, last, crashed, history>>

Idle == [op |-> "none", id |-> NoClient, to |-> {}]

\* The second half of a call about client id, and SendMsg still to be called on
\* these sessions.
At(op, id) == [op |-> op, id |-> id, to |-> {}]
Sending(S) == [op |-> "sending", id |-> NoClient, to |-> S]

Init ==
    /\ present = {}
    /\ session = [id \in Clients |-> NoSession]
    /\ subscribed = [id \in Clients |-> FALSE]
    /\ owner = [s \in Sessions |-> NoClient]
    /\ call = [t \in Threads |-> Idle]
    /\ last = [op |-> "none", of |-> NoClient, out |-> "none"]
    /\ crashed = FALSE
    /\ names = [s \in Sessions |-> {}]
    /\ nulls = {}

-----------------------------------------------------------------------------
(* The calls that are one critical section.                                 *)

\* Mutant: the entry of the session that is replaced stays.
Bound(id) == owner

\* session_to_client_ without the entry of the session id has now.
Unbound(id) == [s \in Sessions |-> IF s = session[id] THEN NoClient ELSE owner[s]]

\* Thread t's call of op, about a client, a session or nothing, ends with outcome r.
Return(t, op, of, r) ==
    /\ call' = [call EXCEPT ![t] = Idle]
    /\ last' = [op |-> op, of |-> of, out |-> r]
    /\ UNCHANGED crashed

\* Mutant: the entry of the old session is erased last, the new one with it
\* when a session introduces itself again.
AddSessionEraseLast(t, id, s) ==
    /\ call[t] = Idle
    /\ present' = present \cup {id}
    /\ session' = [session EXCEPT ![id] = s]
    /\ owner' = [x \in Sessions |-> IF x = session[id] THEN NoClient
                                    ELSE IF x = s THEN id ELSE owner[x]]
    /\ names' = [x \in Sessions |-> IF x = s THEN names[x] \cup {id} ELSE names[x]]
    /\ nulls' = IF s = NoSession THEN nulls \cup {id} ELSE nulls
    /\ Return(t, "add_session", id, "void")
    /\ UNCHANGED subscribed

AddSession(t, id, s) ==
    /\ call[t] = Idle
    /\ present' = present \cup {id}
    /\ session' = [session EXCEPT ![id] = s]
    /\ owner' = IF s = NoSession THEN Unbound(id) ELSE [Unbound(id) EXCEPT ![s] = id]
    /\ names' = [x \in Sessions |-> IF x = s THEN names[x] \cup {id} ELSE names[x]]
    /\ nulls' = IF s = NoSession THEN nulls \cup {id} ELSE nulls
    /\ Return(t, "add_session", id, "void")
    /\ UNCHANGED subscribed

RemoveSession(t, id) ==
    /\ call[t] = Idle
    /\ owner' = Unbound(id)
    /\ present' = present \ {id}
    /\ session' = [session EXCEPT ![id] = NoSession]
    /\ subscribed' = [subscribed EXCEPT ![id] = FALSE]
    /\ Return(t, "remove_session", id, "void")
    /\ UNCHANGED history

\* find_client_id_by_session: the id, or nothing.
FindClientId(t, s) ==
    /\ call[t] = Idle
    /\ Return(t, "find_client_id", s, owner[s])
    /\ UNCHANGED <<mapVars, history>>

\* get_subscribed_clients.
SubscribedClients == {id \in present : subscribed[id]}

\* size and get_all_sessions, and get_subscribed_clients called from outside.
Look(t) ==
    /\ call[t] = Idle
    /\ Return(t, "look", NoClient, "done")
    /\ UNCHANGED <<mapVars, history>>

\* get_subscribed_sessions of broadcast_to_subscribed: a copy, null or not.
BroadcastToSubscribed(t) ==
    /\ call[t] = Idle
    /\ call' = [call EXCEPT ![t] = Sending({session[id] : id \in SubscribedClients})]
    /\ UNCHANGED <<mapVars, last, crashed, history>>

-----------------------------------------------------------------------------
(* The calls about one client.                                              *)

\* has_client: a critical section of its own.
HasClient(t, op, id) ==
    /\ call[t] = Idle
    /\ IF id \in present
       THEN call' = [call EXCEPT ![t] = At(op, id)] /\ UNCHANGED <<last, crashed>>
       ELSE Return(t, op, id, "throws")
    /\ UNCHANGED <<mapVars, history>>

\* The second critical section: at(id) throws for a client that has gone.
AtThrows(t) ==
    /\ call[t].op \in Ops
    /\ call[t].id \notin present
    /\ Return(t, call[t].op, call[t].id, "throws")
    /\ UNCHANGED <<mapVars, history>>

\* It finds the client, and the call is op.
Found(t, op) == call[t].op = op /\ call[t].id \in present

GetSession(t) ==
    /\ Found(t, "get_session")
    /\ Return(t, "get_session", call[t].id, session[call[t].id])
    /\ UNCHANGED <<mapVars, history>>

\* broadcast_to_certain: the session that get_session returns, null or not.
BroadcastToCertain(t) ==
    /\ Found(t, "certain")
    /\ call' = [call EXCEPT ![t] = Sending({session[call[t].id]})]
    /\ UNCHANGED <<mapVars, last, crashed, history>>

\* Mutant: operator[] in place of at() brings a client back that has gone.
SubscribeInserts(t) ==
    /\ call[t].op = "subscribe"
    /\ present' = present \cup {call[t].id}
    /\ subscribed' = [subscribed EXCEPT ![call[t].id] = TRUE]
    /\ Return(t, "subscribe", call[t].id, "void")
    /\ UNCHANGED <<session, owner, history>>

Subscribe(t) ==
    /\ Found(t, "subscribe")
    /\ subscribed' = [subscribed EXCEPT ![call[t].id] = TRUE]
    /\ Return(t, "subscribe", call[t].id, "void")
    /\ UNCHANGED <<present, session, owner, history>>

\* `auto it = clients_.at(id)` is a copy: the flag of the copy is cleared.
Unsubscribe(t) ==
    /\ Found(t, "unsubscribe")
    /\ Return(t, "unsubscribe", call[t].id, "void")
    /\ UNCHANGED <<mapVars, history>>

IsSubscribed(t) ==
    /\ Found(t, "is_subscribed")
    /\ Return(t, "is_subscribed", call[t].id, IF subscribed[call[t].id] THEN "yes" ELSE "no")
    /\ UNCHANGED <<mapVars, history>>

\* add_bid, add_ask, remove_bid, remove_ask, get_bids, get_asks.
OrderCall(t) ==
    /\ Found(t, "orders")
    /\ Return(t, "orders", call[t].id, "void")
    /\ UNCHANGED <<mapVars, history>>

-----------------------------------------------------------------------------
(* SendMsg of each session of a broadcast, after the lock.                  *)

Send(t, s) ==
    /\ s \in call[t].to
    /\ call' = [call EXCEPT ![t] = Sending(@.to \ {s})]
    /\ crashed' = (s = NoSession)
    /\ UNCHANGED <<mapVars, last, history>>

BroadcastReturns(t) ==
    /\ call[t] = Sending({})
    /\ Return(t, "sending", NoClient, "done")
    /\ UNCHANGED <<mapVars, history>>

-----------------------------------------------------------------------------
Next == ~crashed /\ \E t \in Threads :
    \/ \E id \in Clients, s \in Sessions \cup {NoSession} : AddSession(t, id, s)
    \/ \E id \in Clients : RemoveSession(t, id)
    \/ \E s \in Sessions : FindClientId(t, s)
    \/ Look(t)
    \/ BroadcastToSubscribed(t)
    \/ \E id \in Clients, op \in Ops : HasClient(t, op, id)
    \/ AtThrows(t)
    \/ GetSession(t) \/ BroadcastToCertain(t)
    \/ Subscribe(t) \/ Unsubscribe(t) \/ IsSubscribed(t)
    \/ OrderCall(t)
    \/ \E s \in Sessions \cup {NoSession} : Send(t, s)
    \/ BroadcastReturns(t)

Spec == Init /\ [][Next]_vars

-----------------------------------------------------------------------------
(* Properties.                                                              *)

\* An entry of session_to_client_ leads to a client that has just that session:
\* the raw pointers that are its keys belong to sessions clients_ keeps alive,
\* and a disconnect is charged to a client of the session that disconnected.
ReverseSound ==
    \A s \in Sessions : owner[s] # NoClient => owner[s] \in present /\ session[owner[s]] = s

\* A session that is bound can be found by its pointer, so that its disconnect
\* can be noticed, unless it has introduced itself under two ids.
SessionFindable ==
    \A id \in Clients, s \in Sessions :
        session[id] = s /\ names[s] = {id} => owner[s] = id

\* However calls that add, remove and subscribe interleave with the two halves
\* of a call, no broadcast calls SendMsg through a null pointer, unless somebody
\* added a client with a null session.
BroadcastSafe == crashed => nulls # {}

Atomic == INSTANCE AtomicClientList

\* Where the code departs from client_list.h, two calls: get_session of a client
\* that is not there throws and does not return nullptr (client_list.h:44), and
\* unsubscribe leaves a subscription as it is (client_list.h:129).
GetSessionThrows(id) ==
    /\ id \notin present
    /\ last' = [op |-> "get_session", of |-> id, out |-> "throws"]
    /\ UNCHANGED <<present, session, subscribed>>

UnsubscribeIsLost(id) ==
    /\ id \in SubscribedClients
    /\ last' = [op |-> "unsubscribe", of |-> id, out |-> "void"]
    /\ UNCHANGED <<present, session, subscribed>>

Departure == \E id \in Clients : GetSessionThrows(id) \/ UnsubscribeIsLost(id)

\* But for these two, looking a client up and acting on it under two locks is as
\* good as under one: every call does and answers what the header promises, at an
\* instant, on what the list holds then, however the calls interleave.
AtomicSpec == Atomic!Init /\ [][Atomic!Next \/ Departure]_(Atomic!vars)
=============================================================================
