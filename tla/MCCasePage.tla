----------------------------- MODULE MCCasePage -----------------------------
(* One browser tab and the others' writes, up to the bounds of the cfg.    *)
EXTENDS CasePage
=============================================================================
