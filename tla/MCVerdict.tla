----------------------------- MODULE MCVerdict -----------------------------
(* Two party fields, in documents that write two organizations in three    *)
(* ways, one of them with its address.                                     *)
EXTENDS Verdict
MCTexts == {"ACME", "acme", "ACME 12 QUAY", "acme 12 quay", "BETA", "beta",
            "SAME AS CONSIGNEE", "same as consignee", "verified_equivalent"}
MCCanon == [t \in MCTexts |->
  CASE t = "ACME" -> "acme" [] t = "ACME 12 QUAY" -> "acme 12 quay" [] t = "BETA" -> "beta"
    [] t = "SAME AS CONSIGNEE" -> "same as consignee" [] OTHER -> t]
MCReadings == [consignee |-> {"ACME", "ACME 12 QUAY", "BETA"},
               notify_party |-> {"ACME", "SAME AS CONSIGNEE"}]
MCAlike == {{"acme", "acme 12 quay"}}
=============================================================================
