-------------------------- MODULE MCPortAllocator --------------------------
(* PortAllocator with a ring of two, a cursor that wraps at a value the     *)
(* ranges do not divide, a range of one port more than the ring has slots,  *)
(* and one of a single port.                                                *)
EXTENDS PortAllocator

CONSTANTS e1, e2
MCExternals == {e1, e2}
MCRanges == {<<1, 3>>, <<3, 3>>}
=============================================================================
