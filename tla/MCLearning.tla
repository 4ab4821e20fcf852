---------------------------- MODULE MCLearning -----------------------------
(* Two clients, two emails, two corrections and versions for two sets.     *)
EXTENDS Learning, TLC

CONSTANTS c1, c2, e1, e2, v1, v2

MCClients == {c1, c2}
MCEmails == {e1, e2}
MCVersions == {v1, v2}
Symmetry == Permutations(MCClients) \cup Permutations(MCEmails) \cup Permutations(MCVersions)
=============================================================================
