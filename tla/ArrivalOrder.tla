----------------------------- MODULE ArrivalOrder -----------------------------
(***************************************************************************)
(* What a side of a client's orders promises: the ids that are live, and   *)
(* which of two arrived before the other; one can be taken out by id, or   *)
(* the one that arrived last.                                              *)
(***************************************************************************)
CONSTANT Ids

VARIABLES live, before

vars == <<live, before>>

Init == live = {} /\ before = {}

Arrive(id) ==
    /\ id \notin live
    /\ live' = live \cup {id}
    /\ before' = before \cup (live \X {id})

Depart(id) ==
    /\ id \in live
    /\ live' = live \ {id}
    /\ before' = before \cap (live' \X live')

\* Nobody arrived after the one that departs.
DepartLast == \E id \in live : Depart(id) /\ \A x \in live : <<id, x>> \notin before

Next == \E id \in Ids : Arrive(id) \/ Depart(id)

Spec == Init /\ [][Next]_vars
=============================================================================
