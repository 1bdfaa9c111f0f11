----------------------------- MODULE MCTransport -----------------------------
(* Instances of Transport for TLC, with scaled-down Kconfig values: an even  *)
(* and an odd maximum, a base equal to the maximum, the smallest number of   *)
(* retries, one that passes the point where the ceiling of the delay is      *)
(* reached, and one whose base is above the maximum, as Kconfig allows.      *)
EXTENDS Transport

MCConfigs ==
  {[base |-> 3, max |-> 3, attempts |-> 1],
   [base |-> 1, max |-> 8, attempts |-> 5],
   [base |-> 2, max |-> 5, attempts |-> 3],
   [base |-> 5, max |-> 3, attempts |-> 2]}
=============================================================================
