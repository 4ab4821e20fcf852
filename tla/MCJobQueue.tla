----------------------------- MODULE MCJobQueue -----------------------------
(* Two workers under two names, for TLC.                                   *)
EXTENDS JobQueue, TLC

CONSTANTS w1, w2

MCIdentityOf == w1 :> "host-1" @@ w2 :> "host-2"
MCIdentity == {"host-1", "host-2"}
=============================================================================
