---------------------------- MODULE MCCaseReview ----------------------------
(* A case with an SI and a BL, and a second BL that may be uploaded.       *)
EXTENDS CaseReview, TLC

CONSTANTS si, bl1, bl2, weight, vessel

MCDiffers == <<si, bl1>> :> {weight} @@ <<si, bl2>> :> {vessel}
MCReadings == {[category |-> "BL_COMPARISON", offered |-> {}],
               [category |-> "GENERAL", offered |-> {"BL_COMPARISON", "GENERAL"}]}
=============================================================================
