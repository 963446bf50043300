----------------------------- MODULE MCGameSync -----------------------------
(* Model values for the run of GameSync.  It checks liveness, so symmetry  *)
(* is not used.                                                            *)
EXTENDS GameSync

CONSTANTS r1, r2, r3, w1, w2

ThreeReaders == {r1, r2, r3}
TwoWriters == {w1, w2}
=============================================================================
