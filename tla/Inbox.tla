------------------------------- MODULE Inbox -------------------------------
(***************************************************************************)
(* What ClearDraft shows of all its cases at once: the imports and their   *)
(* cases, the case table (list_cases of src/cleardraft/api.py), the funnel *)
(* over it (metrics), and the precedents that reviewers of one case leave  *)
(* for the reviewers of another (find_field_precedent of store.py).        *)
(*                                                                         *)
(* ImportRun, CaseReview and Verdict look at one import or one case and at *)
(* the steps of a request; here a request is one step and what matters is  *)
(* what the views make of many cases in many states.                       *)
(***************************************************************************)
EXTENDS Naturals, Sequences, FiniteSets, FiniteSetsExt

CONSTANTS
  Emails,       (* the emails that may be imported, one case each            *)
  Live,         (* those that come from a mailbox                            *)
  Hidden,       (* those of them numbered below LIVE_MAILBOX_MIN_EMAIL_NUMBER *)
  Categories,   (* the email categories                                      *)
  Comparison,   (* BL_COMPARISON, the only one that is compared              *)
  NoCategory,   (* the case was never processed                              *)
  Findings,     (* what the documents of an email may turn out to be         *)
  Fields,       (* the comparison fields                                     *)
  FreeText,     (* those that are neither counts nor weights                 *)
  Texts,        (* what a document may say, trimmed and in lower case        *)
  NoText,
  Canon,        (* normalize_field, in lower case: [Fields -> [Texts -> ...]] *)
  Inside,       (* pairs of texts of which the first is part of the second   *)
  Long,         (* the texts of at least min_substring_len characters        *)
  Teachings,    (* what reviewers may teach: a field, two texts, a reason    *)
  MaxRows,      (* limit: the most rows that the case table has              *)
  MaxRequests,  (* bound: the requests of a behaviour                        *)
  MaxTaught     (* bound: the equivalences taught                            *)

ReviewReasons == {"missing_attachment", "wrong_doc_type", "unreadable", "missing_value"}
NoReason == "none"

\* A finding: the fields that differ, those that stay unresolved, the reason, and
\* whether a reader failed. No finding at all: nothing was submitted to compare.
NoFinding == [compared |-> FALSE, differ |-> {}, unresolved |-> {},
              reason |-> NoReason, failed |-> FALSE]
Finding == [compared: BOOLEAN, differ: SUBSET Fields, unresolved: SUBSET Fields,
            reason: ReviewReasons \cup {NoReason}, failed: BOOLEAN]

\* What compare_documents makes of a pair that could be read.
Compared(differ, unresolved) ==
  [compared |-> TRUE, differ |-> differ, unresolved |-> unresolved,
   reason |-> IF unresolved # {} THEN "missing_value" ELSE NoReason, failed |-> FALSE]

\* What verify_case makes of a pair that cannot be found or read.
Blocked(reason, failed) ==
  [compared |-> TRUE, differ |-> {}, unresolved |-> Fields, reason |-> reason, failed |-> failed]

Verified ==
  {NoFinding}
    \cup {Compared(d, u) : d \in SUBSET Fields, u \in SUBSET Fields}
    \cup {Blocked(r, FALSE) : r \in ReviewReasons \ {"missing_value"}}
    \cup {Blocked("unreadable", TRUE)}

ASSUME InboxAssumption ==
  /\ IsFiniteSet(Emails)
  /\ Hidden \subseteq Live /\ Live \subseteq Emails
  /\ Comparison \in Categories /\ NoCategory \notin Categories
  /\ Findings \subseteq {f \in Verified : f.differ \cap f.unresolved = {}}
  /\ FreeText \subseteq Fields
  /\ NoText \notin Texts
  /\ Canon \in [Fields -> [Texts -> Texts \cup {NoText}]]
  /\ Teachings \subseteq [field: Fields, old: Texts \cup {NoText},
                         new: Texts \cup {NoText}, why: BOOLEAN]
  /\ Inside \subseteq Texts \X Texts /\ Long \subseteq Texts
  /\ MaxRows \in Nat \ {0}
  /\ MaxRequests \in Nat /\ MaxTaught \in Nat

VARIABLES
  imports,   \* the rows of imports in the order of created_at: mode and email_count
  cases,     \* the cases
  taught,    \* the confirm_equivalence events, oldest first
  requests   \* how many requests were served
vars == <<imports, cases, taught, requests>>

-----------------------------------------------------------------------------
(* A case: the import it is in (0: none yet), what is stored of it, whether *)
(* it was ever verified, the fields that its review events name, and, for  *)
(* the properties, whether a person had a part in the stored finding.      *)

Case == [import: 0..MaxRequests, category: Categories \cup {NoCategory}, asked: BOOLEAN,
         processed: BOOLEAN, verified: BOOLEAN, finding: Finding, closed: BOOLEAN,
         seen: SUBSET Fields, handled: BOOLEAN]

Absent == [import |-> 0, category |-> NoCategory, asked |-> FALSE, processed |-> FALSE,
           verified |-> FALSE, finding |-> NoFinding, closed |-> FALSE, seen |-> {},
           handled |-> FALSE]

Verification(c) ==
  LET f == c.finding IN
  IF ~c.verified THEN "NOT_STARTED"
  ELSE IF ~f.compared THEN "NOT_APPLICABLE"
  ELSE IF f.failed \/ f.unresolved # {} THEN "NEEDS_REVIEW"
  ELSE IF f.differ # {} THEN "MISMATCH" ELSE "MATCH"

Sourceless(c) == c.finding.reason \in {"missing_attachment", "wrong_doc_type"}

\* _state
MutantState(c) ==
  CASE ~c.processed -> "Processing"
    [] c.processed /\ c.closed -> "Closed"
    [] OTHER ->
       IF Sourceless(c) THEN "Awaiting source"
       ELSE IF Verification(c) \in {"MATCH", "MISMATCH", "NOT_APPLICABLE"} THEN "Complete"
       ELSE IF c.asked THEN "Needs classification review"
       ELSE IF c.finding.failed THEN "Failed" ELSE "Needs review"

State(c) ==
  CASE ~c.processed -> "Processing"
    [] c.processed /\ c.closed -> "Closed"
    [] OTHER ->
       IF Sourceless(c) THEN "Awaiting source"
       ELSE IF c.asked THEN "Needs classification review"
       ELSE IF Verification(c) \in {"MATCH", "NOT_APPLICABLE"} THEN "Complete"
       ELSE IF c.finding.failed THEN "Failed" ELSE "Needs review"

-----------------------------------------------------------------------------
(* Which cases a request is about. A query may name an import (0: none)    *)
(* and may ask for the mailbox.                                            *)

Queries == [import: 0..MaxRequests, mailbox: BOOLEAN]

Mailboxes == {i \in DOMAIN imports : imports[i].mode = "mailbox"}

\* The import with most emails, of several the youngest.
Default ==
  {i \in DOMAIN imports : \A j \in DOMAIN imports :
     \/ imports[j].count < imports[i].count
     \/ imports[j].count = imports[i].count /\ j <= i}

\* What list_cases and metrics look into: they try the two parameters in
\* different orders.
Listed(q) ==
  IF q.mailbox THEN Mailboxes ELSE IF q.import # 0 THEN {q.import} ELSE Default
Measured(q) ==
  IF q.import # 0 THEN {q.import} ELSE IF q.mailbox THEN Mailboxes ELSE Default

\* _is_visible_mailbox_email
Visible(q, e) == q.mailbox => e \in Live \ Hidden

Within(S) == {e \in Emails : cases[e].import \in S}

\* list_cases: the table has the first of the rows, in an order that is left open
\* (it is by email or, in the mailbox, by the time of the last change).
Selected(q) == {e \in Within(Listed(q)) : Visible(q, e)}

Tables(q) == IF Cardinality(Selected(q)) <= MaxRows THEN {Selected(q)} ELSE kSubset(MaxRows, Selected(q))

-----------------------------------------------------------------------------
(* metrics: the funnel, as the sets whose sizes it reports.                *)

Counted(q) == {e \in Within(Measured(q)) : Visible(q, e)}

In(S, state) == {e \in S : State(cases[e]) = state}

MutantFunnel(q) ==
  LET comparisons  == {e \in Counted(q) : cases[e].category = Comparison}
      complete     == In(comparisons, "Complete")
      closed       == In(comparisons, "Closed")
      open         == comparisons \ closed
      counterparty == {e \in comparisons : Sourceless(cases[e])}
      arbitration  == In(open, "Needs classification review")
  IN [comparisons |-> comparisons, auto_cleared |-> complete, operator_closed |-> closed,
      counterparty |-> counterparty, arbitration |-> arbitration,
      operator |-> open \ (complete \cup counterparty \cup arbitration)]

Funnel(q) ==
  LET comparisons  == {e \in Counted(q) : cases[e].category = Comparison}
      complete     == In(comparisons, "Complete")
      closed       == In(comparisons, "Closed")
      open         == comparisons \ closed
      counterparty == {e \in open : Sourceless(cases[e])}
      arbitration  == In(open, "Needs classification review")
  IN [comparisons |-> comparisons, auto_cleared |-> complete, operator_closed |-> closed,
      counterparty |-> counterparty, arbitration |-> arbitration,
      operator |-> open \ (complete \cup counterparty \cup arbitration)]

\* The sizes are added up, so a case in two of the lists would count twice.
NeedsHuman(q) ==
  Cardinality(Funnel(q).counterparty) + Cardinality(Funnel(q).operator)
    + Cardinality(Funnel(q).arbitration)

-----------------------------------------------------------------------------
(* find_field_precedent: what was taught before of a pair of texts. Only   *)
(* events with a reason are looked at.                                     *)

Normal(f, t) == IF t = NoText THEN NoText ELSE Canon[f][t]

Both(old, new, si, bl) ==
  {old, new} \subseteq Texts /\ <<si, bl>> \in {<<old, new>>, <<new, old>>}

Near(x, y) ==
  x \in Long /\ y \in Long /\ (<<x, y>> \in Inside \/ <<y, x>> \in Inside)

\* One side may have been taught without the other: then its text alone counts,
\* but only that of the SI.
Loose(t, si, bl) ==
  IF t.old # NoText /\ t.new # NoText
  THEN \/ Near(t.old, si) /\ Near(t.new, bl)
       \/ Near(t.new, si) /\ Near(t.old, bl)
  ELSE /\ {t.old, IF si # NoText THEN si ELSE bl} \subseteq Long
       /\ {<<t.old, si>>, <<t.old, bl>>} \cap Inside # {}

\* On what a teaching applies to a pair, or "none".
MutantOneOrder(t, f, si, bl) ==
  IF t.field # f \/ ~t.why THEN "none"
  ELSE IF Both(t.old, t.new, si, bl) THEN "exact"
  ELSE IF NoText \notin {Normal(f, si), Normal(f, bl)}
          /\ <<Normal(f, si), Normal(f, bl)>> = <<Normal(f, t.old), Normal(f, t.new)>>
  THEN "normalized"
  ELSE IF f \in FreeText /\ Loose(t, si, bl) THEN "substring" ELSE "none"

Basis(t, f, si, bl) ==
  IF t.field # f \/ ~t.why THEN "none"
  ELSE IF Both(t.old, t.new, si, bl) THEN "exact"
  ELSE IF Both(Normal(f, t.old), Normal(f, t.new), Normal(f, si), Normal(f, bl)) THEN "normalized"
  ELSE IF f \in FreeText /\ Loose(t, si, bl) THEN "substring" ELSE "none"

\* The first that applies, from the youngest on.
Applying(f, si, bl) == {i \in DOMAIN taught : Basis(taught[i], f, si, bl) # "none"}
Precedent(f, si, bl) ==
  IF {si, bl} = {NoText} \/ Applying(f, si, bl) = {} THEN "none"
  ELSE Basis(taught[Max(Applying(f, si, bl))], f, si, bl)

-----------------------------------------------------------------------------
Init ==
  /\ imports = <<>>
  /\ cases = [e \in Emails |-> Absent]
  /\ taught = <<>>
  /\ requests = 0

Serve == requests < MaxRequests /\ requests' = requests + 1

\* import_participant of an upload, or of what a mailbox was asked for. The
\* emails are counted in a transaction of its own, which may never come.
Import(S) ==
  /\ Serve
  /\ S # {} /\ \A e \in S : cases[e].import = 0
  /\ S \subseteq Live \/ S \cap Live = {}
  /\ imports' = Append(imports, [mode |-> IF S \subseteq Live THEN "mailbox" ELSE "zip",
                                 count |-> 0])
  /\ cases' = [e \in Emails |-> IF e \in S THEN [Absent EXCEPT !.import = Len(imports) + 1]
                                ELSE cases[e]]
  /\ UNCHANGED taught

Count(i) ==
  /\ imports[i].count = 0
  /\ imports' = [imports EXCEPT ![i].count = Cardinality(Within({i}))]
  /\ UNCHANGED <<cases, taught, requests>>

\* save_case_result, by which a run, a retry or a decision of a person replaces
\* what is stored; the disposition stays.
Save(e, category, asked, handled) ==
  /\ Serve
  /\ cases[e].import # 0
  /\ \E f \in IF category = Comparison THEN Findings ELSE {NoFinding} :
       cases' = [cases EXCEPT ![e] =
         [@ EXCEPT !.category = category, !.asked = asked, !.processed = TRUE,
                   !.verified = TRUE, !.finding = f, !.handled = handled]]
  /\ UNCHANGED <<imports, taught>>

Run(e, category, asked) == Save(e, category, asked, FALSE)

\* resolve_arbitration, correct_case_classification
Decide(e, category) == Save(e, category, FALSE, TRUE)

\* review_case: a field is found to agree, to differ or to be unreadable, and
\* all are compared again.
Reviewed(e, f, differ, unresolved) ==
  cases' = [cases EXCEPT ![e].finding = Compared(differ, unresolved),
                         ![e].seen = @ \cup {f}, ![e].handled = TRUE]

Review(e, f) ==
  LET differ == cases[e].finding.differ
      unresolved == cases[e].finding.unresolved
  IN /\ Serve
     /\ cases[e].finding.compared
     /\ \/ Reviewed(e, f, differ \ {f}, unresolved \ {f})
        \/ Reviewed(e, f, differ \cup {f}, unresolved \ {f})
        \/ Reviewed(e, f, differ \ {f}, unresolved \cup {f})
     /\ UNCHANGED <<imports, taught>>

\* A review that names no field, which any case takes: it counts as processed,
\* and as a comparison if it has no category.
ReviewCase(e) ==
  LET category == IF cases[e].category = NoCategory THEN Comparison ELSE cases[e].category
  IN /\ Serve
     /\ cases[e].import # 0
     /\ cases' = [cases EXCEPT ![e] = [@ EXCEPT !.category = category, !.processed = TRUE]]
     /\ UNCHANGED <<imports, taught>>

\* A confirm_equivalence, which also records the two texts and the reason.
Teach(e, t) ==
  LET finding == cases[e].finding IN
  /\ Serve
  /\ finding.compared
  /\ Len(taught) < MaxTaught
  /\ Reviewed(e, t.field, finding.differ \ {t.field}, finding.unresolved \ {t.field})
  /\ taught' = Append(taught, t)
  /\ UNCHANGED imports

\* close_case: each open field has to be named by some review event.
Close(e) ==
  /\ Serve
  /\ cases[e].import # 0 /\ ~cases[e].closed
  /\ cases[e].finding.differ \cup cases[e].finding.unresolved \subseteq cases[e].seen
  /\ cases' = [cases EXCEPT ![e].closed = TRUE]
  /\ UNCHANGED <<imports, taught>>

Reopen(e) ==
  /\ Serve
  /\ cases[e].closed
  /\ cases' = [cases EXCEPT ![e].closed = FALSE]
  /\ UNCHANGED <<imports, taught>>

Handle(e) ==
  \/ \E category \in Categories, asked \in BOOLEAN : Run(e, category, asked)
  \/ \E category \in Categories : Decide(e, category)
  \/ \E f \in Fields : Review(e, f)
  \/ ReviewCase(e)
  \/ \E t \in Teachings : Teach(e, t)
  \/ Close(e) \/ Reopen(e)

Next ==
  \/ \E S \in SUBSET Emails : Import(S)
  \/ \E i \in DOMAIN imports : Count(i)
  \/ \E e \in Emails : Handle(e)

Spec == Init /\ [][Next]_vars
-----------------------------------------------------------------------------
(* What holds.                                                             *)

\* Every variable keeps its type.
TypeOK ==
  /\ imports \in Seq([mode: {"mailbox", "zip"}, count: Nat])
  /\ cases \in [Emails -> Case]
  /\ taught \in Seq(Teachings)
  /\ requests \in 0..MaxRequests

\* The funnel adds up: whatever mixture of unprocessed, failed, escalated, closed
\* and rerun cases it is asked about, each comparison is in exactly one of its
\* buckets, so that the sum of the three human ones and the two others is the
\* number of comparisons ("they stay out of both buckets", api.py).
FunnelIsAPartition ==
  \A q \in Queries :
    NeedsHuman(q) + Cardinality(Funnel(q).auto_cleared) + Cardinality(Funnel(q).operator_closed)
      = Cardinality(Funnel(q).comparisons)

\* No open work is lost in the numbers: a comparison with a field that differs or
\* is unresolved, or with an open question about its category, is counted among
\* those that need a human by the report about its import, until it is closed.
OpenWorkIsCounted ==
  \A e \in Emails :
    LET c == cases[e]
        funnel == Funnel([import |-> c.import, mailbox |-> FALSE])
    IN /\ c.category = Comparison /\ ~c.closed
       /\ c.finding.differ \cup c.finding.unresolved # {} \/ c.asked
       => e \in funnel.counterparty \cup funnel.operator \cup funnel.arbitration

\* "a taught fix generalizes along the rule the normalizer already encodes ...
\* rather than only ever matching the exact strings originally taught"
\* (store.py): once an equivalence of two texts is on record with a reason, every
\* pair of texts that reads alike, in either order, gets a precedent, no matter
\* what is taught later.
TaughtIsSuggested ==
  \A i \in DOMAIN taught : taught[i].why =>
    LET f == taught[i].field IN
    \A si, bl \in Texts :
      Both(Normal(f, taught[i].old), Normal(f, taught[i].new), Normal(f, si), Normal(f, bl)) =>
        Precedent(f, si, bl) # "none" /\ Precedent(f, bl, si) # "none"

-----------------------------------------------------------------------------
(* What the documentation says and the code does not do.                   *)

\* "Live mail is deliberately kept out of this by default" (api.py): while there
\* is another import, the default view is not a mailbox retrieval. All imports are
\* counted here, so none of them is still under way.
DefaultViewIsNotMail ==
  Mailboxes # DOMAIN imports /\ (\A i \in DOMAIN imports : imports[i].count > 0) =>
    Listed([import |-> 0, mailbox |-> FALSE]) \cap Mailboxes = {}

\* "the funnel/KPI numbers here always agree with what the case table actually
\* shows" (api.py): the two look for their cases on their own, and what is counted
\* is what any table of the same query, about imports that there are, has in its rows.
FunnelCountsTheTable ==
  \A q \in {x \in Queries : x.import <= Len(imports)} : \A rows \in Tables(q) : Counted(q) = rows

\* "never auto-cleared; they stay out ... so the automation rate is not
\* overstated" (api.py): what a person cleared is not counted as cleared by the
\* machine.
AutomationIsNotOverstated ==
  \A q \in Queries : \A e \in Funnel(q).auto_cleared : ~cases[e].handled

\* "Raw substring matching is a fallback tier" (store.py): a pair that was taught
\* as it stands is shown that teaching.
SubstringIsFallback ==
  \A f \in Fields : \A si, bl \in Texts :
    (\E i \in DOMAIN taught : Basis(taught[i], f, si, bl) \in {"exact", "normalized"}) =>
      Precedent(f, si, bl) # "substring"
=============================================================================
