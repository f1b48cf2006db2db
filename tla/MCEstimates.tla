----------------------------- MODULE MCEstimates -----------------------------
(***************************************************************************)
(* Values for TLC: measurements that jump between 0 and 2000.                 *)
(***************************************************************************)
EXTENDS Estimates

MCSamples == {0, 1, 2, 7, 20, 50, 299, 2000}
=============================================================================
