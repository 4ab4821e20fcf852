----------------------------- MODULE MCClassify ----------------------------
(* The strongest signal of each category and weaker ones, at their weights. *)
EXTENDS Classify, TLC

MCWeight == [unsubscribe |-> 6, invoice |-> 6, freight |-> 2, instruction |-> 7,
             draft_bl |-> 7, bl |-> 2, holiday |-> 9, update |-> 3]
MCSignals == DOMAIN MCWeight
MCCategoryOf == [unsubscribe |-> "SPAM", invoice |-> "INVOICE_QUERY", freight |-> "INVOICE_QUERY",
                 instruction |-> "SI_REQUEST", draft_bl |-> "BL_COMPARISON", bl |-> "BL_COMPARISON",
                 holiday |-> "GENERAL", update |-> "GENERAL"]
MCRank == [BL_COMPARISON |-> 1, GENERAL |-> 2, INVOICE_QUERY |-> 3, SI_REQUEST |-> 4, SPAM |-> 5]
=============================================================================
