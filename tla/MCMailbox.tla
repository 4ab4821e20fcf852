----------------------------- MODULE MCMailbox -----------------------------
(* Three messages, the first two with an attachment of the same name.      *)
EXTENDS Mailbox, TLC

CONSTANTS c1, c2

MCFile == <<"si.txt", "si.txt", "bl.txt">>
MCSymmetry == Permutations({c1, c2})
=============================================================================
