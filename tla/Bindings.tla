------------------------------ MODULE Bindings ------------------------------
(***************************************************************************)
(* What the translation state promises: a flow that has a session owns one *)
(* external tuple alone, and a reply to that tuple reaches that flow and   *)
(* no other.  Nothing is said of time, timers or the two maps.             *)
(***************************************************************************)
CONSTANTS Flows, Tuples, CanUse(_, _), NoTuple, Nobody

VARIABLES
    bound,     \* the tuple a flow's packets leave from
    reaches    \* the flow that replies to a tuple reach

Init ==
    /\ bound = [f \in Flows |-> NoTuple]
    /\ reaches = [t \in Tuples |-> Nobody]

\* The first packet of f is translated.
Bind(f, t) ==
    /\ CanUse(f, t)
    /\ bound[f] = NoTuple
    /\ reaches[t] = Nobody
    /\ bound' = [bound EXCEPT ![f] = t]
    /\ reaches' = [reaches EXCEPT ![t] = f]

\* The session of f ends.
Release(f) ==
    /\ bound[f] # NoTuple
    /\ bound' = [bound EXCEPT ![f] = NoTuple]
    /\ reaches' = [reaches EXCEPT ![bound[f]] = Nobody]

Next == \E f \in Flows : Release(f) \/ \E t \in Tuples : Bind(f, t)

Spec == Init /\ [][Next]_<<bound, reaches>>

\* Replies to the tuple a flow is bound to reach it.
RepliesReachOwner ==
    \A f \in Flows : bound[f] # NoTuple => reaches[bound[f]] = f
=============================================================================
