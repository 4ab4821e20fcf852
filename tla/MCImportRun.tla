---------------------------- MODULE MCImportRun ----------------------------
(* A source of a few emails; the clients are alike, and so are the runs.   *)
EXTENDS ImportRun, TLC

CONSTANTS c1, c2, r1, r2, r3

MCSymmetry == Permutations({c1, c2}) \cup Permutations({r1, r2, r3})
=============================================================================
