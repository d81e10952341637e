----------------------------- MODULE MCMetrics -----------------------------
(* Two CPUs.  The first has counted new mappings up to the saturation of   *)
(* their counters; the known mappings are short of it and the replies far. *)
EXTENDS Metrics

MCEarlier ==
    <<[nat64_v6_to_v4_ok |-> 2, nat64_v4_to_v6_ok |-> 0, nat_lookup_hit |-> 1,
       fwd_nat_lookup_hit |-> 0, fwd_nat_insert_ok |-> 2, port_alloc_ok |-> 3],
      Zeros>>
=============================================================================
