------------------------------ MODULE MCInbox ------------------------------
(* One email of an archive and two of a mailbox, of which one is hidden.   *)
(* "acme asia" normalizes to "acme"; "acme" is part of both longer names,  *)
(* as one weight is part of another; "1.2 t" is the weight 1200.           *)
EXTENDS Inbox

CONSTANTS archived, hidden, shown

MCTexts == {"acme", "acme asia", "acme bv", "1200", "11200", "1.2 t"}

MCCanon ==
  [party |-> [t \in MCTexts |-> IF t = "acme asia" THEN "acme" ELSE t],
   weight |-> [t \in MCTexts |-> IF t \in {"1200", "11200"} THEN t
                          ELSE IF t = "1.2 t" THEN "1200" ELSE "none"]]

MCInside ==
  {<<t, t>> : t \in MCTexts}
    \cup {<<"acme", "acme asia">>, <<"acme", "acme bv">>, <<"1200", "11200">>}

MCFindings ==
  {NoFinding, Compared({}, {}), Compared({"party"}, {}), Compared({}, {"weight"}),
   Blocked("missing_attachment", FALSE), Blocked("unreadable", TRUE)}

Told(field, old, new, why) == [field |-> field, old |-> old, new |-> new, why |-> why]

MCTeachings ==
  {Told("party", "acme asia", "acme bv", TRUE), Told("party", "acme bv", "acme", TRUE),
   Told("party", "acme", "none", TRUE), Told("party", "acme", "acme bv", FALSE),
   Told("weight", "1200", "11200", TRUE)}
=============================================================================
