--------------------------- MODULE SerialSessions ---------------------------
(***************************************************************************)
(* SessionTable on one CPU, without LRU pressure or failing helpers,       *)
(* implements Bindings.  A flow is bound while its two entries agree: from *)
(* the NAT insert of its first packet to the callback's NAT removal.       *)
(***************************************************************************)
EXTENDS SessionTable

CONSTANTS NoTuple, Nobody

ASSUME SerialAssumption ==
    /\ \E c \in Cpus : Cpus = {c}
    /\ ~ Evictions
    /\ ~ Failures
    /\ NoTuple \notin Tuples
    /\ Nobody \notin Flows

Bound(f) == fwd[f] # None /\ nat[TupleOf(f)].gen = fwd[f].gen

boundBar == [f \in Flows |-> IF Bound(f) THEN TupleOf(f) ELSE NoTuple]
reachesBar ==
    [t \in Tuples |-> IF nat[t] # None THEN nat[t].flow ELSE Nobody]

CanUseBar(f, t) == t[1] = ExternalOf[f]

B == INSTANCE Bindings WITH bound <- boundBar, reaches <- reachesBar,
                            CanUse <- CanUseBar

\* The detailed state implements the bindings: a port is handed to a flow
\* only when no session of another flow holds it, and an expiry takes back
\* what the creation gave (lookup_or_create_mapping, the two NAT inserts,
\* session_timer_callback).
ImplementsBindings == B!Spec

\* Between runs the two maps mirror each other: a forward mapping has the
\* reverse entry of its generation, and no reverse entry is left behind.
MapsMirror ==
    (\A c \in Cpus : ~ Busy(c)) =>
        /\ \A f \in Flows : fwd[f] # None => Bound(f) /\ nat[TupleOf(f)].flow = f
        /\ \A t \in Tuples :
             nat[t] # None => LET f == nat[t].flow IN
                                fwd[f] # None /\ TupleOf(f) = t /\ Bound(f)
=============================================================================
