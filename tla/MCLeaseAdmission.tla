------------------------- MODULE MCLeaseAdmission -------------------------
(***************************************************************************)
(* Instances of LeaseAdmission: tiers of the configurations                *)
(* impl_sst2_leaselora*.yaml.                                              *)
(***************************************************************************)
EXTENDS LeaseAdmission

Weakest ==
  [budget |-> 3, slowdown |-> 35, uplink |-> 5, throughput |-> 150, memory |-> 1200]
Strongest ==
  [budget |-> 10, slowdown |-> 10, uplink |-> 50, throughput |-> 500, memory |-> 2400]

Extremes == {Weakest, Strongest}
=============================================================================
