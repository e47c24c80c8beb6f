-------------------------- MODULE AtomicClientList ---------------------------
(***************************************************************************)
(* What client_list.h promises the callers of the client list: every call  *)
(* takes effect at one instant between its beginning and its end, on what  *)
(* the list holds just then.  get_session answers nullptr for a client     *)
(* that is not there (line 44), and unsubscribe ends a subscription (129). *)
(* Of the other calls about a client that is not there the header says     *)
(* nothing: they throw.  ClientSessions, whose calls look the client up    *)
(* under one lock and act under another, is compared with it.              *)
(***************************************************************************)
CONSTANTS Clients, Sessions, NoSession, NoClient

VARIABLES
    present,      \* the clients in the list
    session,      \* their sessions
    subscribed,   \* their subscriptions
    last          \* the call that ended last, and how

vars == <<present, session, subscribed, last>>

\* A call about a client, a session or nothing (NoClient) has ended.
Ended(op, of, out) == [op |-> op, of |-> of, out |-> out]

Init ==
    /\ present = {}
    /\ session = [id \in Clients |-> NoSession]
    /\ subscribed = [id \in Clients |-> FALSE]
    /\ last = Ended("none", NoClient, "none")

Add(id, s) ==
    /\ present' = present \cup {id}
    /\ session' = [session EXCEPT ![id] = s]
    /\ last' = Ended("add_session", id, "void")
    /\ UNCHANGED subscribed

Remove(id) ==
    /\ present' = present \ {id}
    /\ session' = [session EXCEPT ![id] = NoSession]
    /\ subscribed' = [subscribed EXCEPT ![id] = FALSE]
    /\ last' = Ended("remove_session", id, "void")

GetSession(id) ==
    /\ last' = Ended("get_session", id, IF id \in present THEN session[id] ELSE NoSession)
    /\ UNCHANGED <<present, session, subscribed>>

Subscribe(id) ==
    /\ id \in present
    /\ subscribed' = [subscribed EXCEPT ![id] = TRUE]
    /\ last' = Ended("subscribe", id, "void")
    /\ UNCHANGED <<present, session>>

Unsubscribe(id) ==
    /\ id \in present
    /\ subscribed' = [subscribed EXCEPT ![id] = FALSE]
    /\ last' = Ended("unsubscribe", id, "void")
    /\ UNCHANGED <<present, session>>

IsSubscribed(id) ==
    /\ id \in present
    /\ last' = Ended("is_subscribed", id, IF subscribed[id] THEN "yes" ELSE "no")
    /\ UNCHANGED <<present, session, subscribed>>

\* add_bid ... get_asks: what they do to the orders is in ArrivalOrder.
OrderCall(id) ==
    /\ id \in present
    /\ last' = Ended("orders", id, "void")
    /\ UNCHANGED <<present, session, subscribed>>

Throw(op, id) ==
    /\ id \notin present
    /\ last' = Ended(op, id, "throws")
    /\ UNCHANGED <<present, session, subscribed>>

\* Whose session s is: a client that has it now, or nobody.
Find(s) ==
    /\ \E c \in {id \in present : session[id] = s} \cup {NoClient} :
           last' = Ended("find_client_id", s, c)
    /\ UNCHANGED <<present, session, subscribed>>

\* What is sent, or told of the whole list, is not a matter of one client.
Other(op) ==
    /\ last' = Ended(op, NoClient, "done")
    /\ UNCHANGED <<present, session, subscribed>>

Next ==
    \/ \E id \in Clients :
        \/ \E s \in Sessions \cup {NoSession} : Add(id, s)
        \/ Remove(id) \/ GetSession(id) \/ Subscribe(id) \/ Unsubscribe(id)
        \/ IsSubscribed(id) \/ OrderCall(id)
        \/ \E op \in {"subscribe", "unsubscribe", "is_subscribed", "orders", "certain"} : Throw(op, id)
    \/ \E s \in Sessions : Find(s)
    \/ \E op \in {"look", "sending"} : Other(op)

Spec == Init /\ [][Next]_vars
=============================================================================
