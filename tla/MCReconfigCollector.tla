------------------------ MODULE MCReconfigCollector ------------------------
(* Values for TLC.  A line at most every ms, so that a full buffer of three  *)
(* samples (100 in the code, 10 ms apart) takes longer than the flag is up.  *)
EXTENDS ReconfigCollector

MCRtts == {0, 1, 3}
=============================================================================
