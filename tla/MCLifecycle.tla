---------------------------- MODULE MCLifecycle ----------------------------
(* Lifecycle with two interfaces, pools of one and two addresses and a     *)
(* timeout field of two bits.                                              *)
EXTENDS Lifecycle, TLC

CONSTANTS br, eth, f, x, y, doc

\* Policies that differ in their pools, without a timeout, with one that is
\* rounded up and one that does not fit, and one for each check of validate.
MCPolicies ==
    {<<<<x>>, 1, 2, <<>>>>, <<<<x, y>>, 2, 2, <<0, 1>>>>, <<<<y>>, 1, 2, <<4, 0>>>>,
     <<<<>>, 1, 2, <<>>>>, <<<<x, y, x>>, 1, 2, <<>>>>, <<<<x>>, 0, 2, <<>>>>,
     <<<<x>>, 2, 1, <<>>>>, <<<<x>>, 1, 2, <<0, 0>>>>}
MCPairs == Injection(Programs, Interfaces)
MCHash == [g \in Flows |-> 1]
Symmetry == Permutations(Interfaces)
=============================================================================
