--------------------------- MODULE MCSessionTable ---------------------------
(* SessionTable on one pool address and two ports.  Flows f1 and f2 have   *)
(* the same remote.                                                        *)
EXTENDS SessionTable, TLC

CONSTANTS c1, c2, f1, f2, ext, rem

MCExternalOf == [f \in Flows |-> ext]
MCRemoteOf == [f \in Flows |-> rem]
Symmetry == Permutations(Cpus) \cup Permutations(Flows)
=============================================================================
