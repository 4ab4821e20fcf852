------------------------------ MODULE Verdict ------------------------------
(***************************************************************************)
(* What ClearDraft finds about one case and what it reports of it: the     *)
(* readings of the SI and the draft BL, their comparison, the reviews that *)
(* change readings, the submission entry and the state shown (verify_case  *)
(* of src/cleardraft/pipeline.py, compare_documents and to_submission of   *)
(* core.py, validate_submission of export.py, review_case and _state of    *)
(* api.py). The entry is stored with a run (runs.result_json) and exported *)
(* from there, apart from the case row that the workspace shows. How       *)
(* requests interleave is CaseReview's subject; here each is one step, and *)
(* what it computes is looked at field by field.                           *)
(***************************************************************************)
EXTENDS Naturals, FiniteSets

CONSTANTS
  Categories,    (* the email categories                                    *)
  Comparison,    (* BL_COMPARISON, the only one that is compared            *)
  NoCategory,    (* the case was never processed                            *)
  Fields,        (* the comparison fields                                   *)
  Parties,       (* those that name an organization                         *)
  Consignee, Notify,
  Texts,         (* what a document may say and what that normalizes to     *)
  NoText,
  Canon,         (* normalize_field: the canonical value of a text          *)
  Readings,      (* the texts that may stand in each field                  *)
  SameAs,        (* the text "same as consignee"                            *)
  Equivalent,    (* the text "verified_equivalent"                          *)
  Alike,         (* pairs of values of which one appends an address         *)
  Provider,      (* whether runs have a model for what local rules miss     *)
  MaxRequests,   (* bound: the runs, decisions and reviews of a behaviour   *)
  MaxRuns        (* bound: a run is among the first so many of them         *)

ASSUME VerdictAssumption ==
  /\ Comparison \in Categories /\ NoCategory \notin Categories
  /\ Parties \subseteq Fields
  /\ Consignee \in Fields /\ Notify \in Fields /\ Consignee # Notify
  /\ NoText \notin Texts
  /\ Canon \in [Texts -> Texts]
  /\ Readings \in [Fields -> SUBSET Texts]
  /\ SameAs \in Texts /\ Equivalent \in Texts
  /\ Alike \subseteq SUBSET Texts
  /\ Provider \in BOOLEAN
  /\ MaxRequests \in Nat /\ MaxRuns \in Nat

VARIABLES
  docs,      \* what became of the pairing and reading of the documents
  local,     \* the observations of the local rules, per side and field
  case,      \* the row of the case and its stored result
  entry,     \* its entry in the result of the latest run that has one
  requests,  \* how many requests were served
  read,      \* history: the observations of the last run or decision
  touched,   \* history: the fields that reviews named since then
  decided    \* history: a person decided the category since the entry was stored
vars == <<docs, local, case, entry, requests, read, touched, decided>>

-----------------------------------------------------------------------------
(* Observations: a status, the text read and its canonical value.          *)

Sides == {"si", "bl"}
Other == [si |-> "bl", bl |-> "si"]

\* AMBIGUOUS is treated as MISSING wherever a status is looked at.
Statuses == {"PRESENT", "MISSING", "UNREADABLE"}

Observation == [status: Statuses, raw: Texts \cup {NoText}, value: Texts \cup {NoText}]

Unread(status) == [status |-> status, raw |-> NoText, value |-> NoText]
Present(text) == [status |-> "PRESENT", raw |-> text, value |-> Canon[text]]

\* extract_fields: what the local rules find in one document, where "same as
\* consignee" stands for the consignee of that document.
Extracted(f) == {Unread("MISSING")} \cup {Present(t) : t \in Readings[f]}

Resolved(obs) ==
  IF obs[Notify].raw = SameAs /\ obs[Consignee].status = "PRESENT"
  THEN [obs EXCEPT ![Notify].value = obs[Consignee].value] ELSE obs

Found == {o \in [Fields -> UNION {Extracted(f) : f \in Fields}] :
            \A f \in Fields : o[f] \in Extracted(f)}

AllMissing == [s \in Sides |-> [f \in Fields |-> Unread("MISSING")]]

\* _merge_ai_observations: the model may fill what the local rules left open.
MutantMerge(obs, model) == model
Merge(obs, model) == [f \in Fields |-> IF obs[f].status = "PRESENT" THEN obs[f] ELSE model[f]]

Answers == {o \in [Fields -> UNION {Extracted(f) : f \in Fields} \cup {Unread("UNREADABLE")}] :
              \A f \in Fields : o[f] \in Extracted(f) \cup {Unread("UNREADABLE")}}

\* What is observed when the case is verified under a category: the model is
\* asked only where a pair is compared.
Completed(s) == {Merge(local[s], answer) : answer \in Answers}

Observed(category) ==
  IF Provider /\ category = Comparison /\ docs = "paired"
  THEN {[s \in Sides |-> IF s = "si" THEN x ELSE y] : x \in Completed("si"), y \in Completed("bl")}
  ELSE {local}

-----------------------------------------------------------------------------
(* compare_documents                                                       *)

Readable(o) == o.status = "PRESENT" /\ o.value # NoText

Agree(f, x, y) ==
  /\ Readable(x) /\ Readable(y)
  /\ x.value = y.value \/ (f \in Parties /\ {x.value, y.value} \in Alike)

Unresolved(obs) ==
  {f \in Fields : ~Agree(f, obs["si"][f], obs["bl"][f]) /\
                  (~Readable(obs["si"][f]) \/ ~Readable(obs["bl"][f]))}
Mismatches(obs) ==
  {f \in Fields : ~Agree(f, obs["si"][f], obs["bl"][f])} \ Unresolved(obs)

Processings == {"QUEUED", "SUCCEEDED", "FAILED"}
Verifications == {"NOT_STARTED", "NOT_APPLICABLE", "MATCH", "MISMATCH", "NEEDS_REVIEW"}
ReviewReasons == {"missing_attachment", "wrong_doc_type", "unreadable", "missing_value"}
NoReason == "none"

Case == [category: Categories \cup {NoCategory}, settled: BOOLEAN, compared: BOOLEAN,
         verification: Verifications, processing: Processings,
         reason: ReviewReasons \cup {NoReason}, obs: [Sides -> [Fields -> Observation]]]

Compared(settled, processing, obs) ==
  [category |-> Comparison, settled |-> settled, compared |-> TRUE,
   processing |-> processing, obs |-> obs,
   verification |-> IF processing # "SUCCEEDED" \/ Unresolved(obs) # {} THEN "NEEDS_REVIEW"
                    ELSE IF Mismatches(obs) # {} THEN "MISMATCH" ELSE "MATCH",
   reason |-> IF Unresolved(obs) # {} THEN "missing_value"
              ELSE IF processing # "SUCCEEDED" THEN "unreadable" ELSE NoReason]

NotCompared(category, settled) ==
  [category |-> category, settled |-> settled, compared |-> FALSE,
   processing |-> "SUCCEEDED", obs |-> AllMissing,
   verification |-> "NOT_APPLICABLE", reason |-> NoReason]

\* The row that add_email makes.
Unprocessed ==
  [NotCompared(NoCategory, TRUE) EXCEPT !.processing = "QUEUED", !.verification = "NOT_STARTED"]

\* What _pair_documents and the readers make of the attachments: a readable pair,
\* or a reason why there is none. "requested" is a request for a draft that
\* declares no attachments.
Blockers == [missing |-> "missing_attachment", wrong |-> "wrong_doc_type",
             empty |-> "unreadable", garbled |-> "unreadable"]
Situations == {"paired", "requested"} \cup DOMAIN Blockers

\* verify_case
Verified(category, settled, obs) ==
  IF category # Comparison \/ docs = "requested" THEN NotCompared(category, settled)
  ELSE IF docs = "paired" THEN Compared(settled, "SUCCEEDED", obs)
  ELSE [Compared(settled, IF docs = "garbled" THEN "FAILED" ELSE "SUCCEEDED", AllMissing)
        EXCEPT !.reason = Blockers[docs]]

-----------------------------------------------------------------------------
(* What is reported of a case: the submission entry, what the export takes *)
(* for one, and the state shown.                                           *)

Entry(c, status, reason, defects) ==
  [category |-> c.category, status |-> status, reason |-> reason, defects |-> defects]

\* to_submission, which reads the lists of the result (they are empty when
\* nothing was compared).
MutantSubmission(c) ==
  LET unresolved == IF c.compared THEN Unresolved(c.obs) ELSE {}
      mismatches == IF c.compared THEN Mismatches(c.obs) ELSE {}
  IN IF c.category # Comparison \/ c.verification = "NOT_APPLICABLE"
     THEN Entry(c, "OK", NoReason, {})
     ELSE IF c.verification = "MATCH" /\ unresolved = {} /\ mismatches = {}
     THEN Entry(c, "OK", NoReason, {})
     ELSE IF mismatches # {}
     THEN Entry(c, "MISMATCH", c.reason, mismatches)
     ELSE Entry(c, "NEEDS_REVIEW", c.reason, {})

Submission(c) ==
  LET unresolved == IF c.compared THEN Unresolved(c.obs) ELSE {}
      mismatches == IF c.compared THEN Mismatches(c.obs) ELSE {}
  IN IF c.category # Comparison \/ c.verification = "NOT_APPLICABLE"
     THEN Entry(c, "OK", NoReason, {})
     ELSE IF c.verification = "MATCH" /\ unresolved = {} /\ mismatches = {}
     THEN Entry(c, "OK", NoReason, {})
     ELSE IF c.verification = "MISMATCH" /\ unresolved = {}
     THEN Entry(c, "MISMATCH", NoReason, mismatches)
     ELSE Entry(c, "NEEDS_REVIEW",
                IF c.reason # NoReason THEN c.reason
                ELSE IF unresolved # {} THEN "missing_value" ELSE "unreadable", {})

\* What stands for an entry where no run has one, and what a review that names no
\* field stores in the place of one.
NoEntry == [status |-> "NONE"]
Reviewed == [status |-> "REVIEWED"]

\* validate_submission, which first looks at the keys.
ValidEntry(x) ==
  /\ DOMAIN x = {"category", "status", "reason", "defects"}
  /\ x.category \in Categories
  /\ x.status \in {"OK", "MISMATCH", "NEEDS_REVIEW"}
  /\ x.status = "OK" => x.reason = NoReason /\ x.defects = {}
  /\ x.status = "MISMATCH" => x.category = Comparison /\ x.reason = NoReason /\ x.defects # {}
  /\ x.status = "NEEDS_REVIEW" =>
       x.category = Comparison /\ x.reason \in ReviewReasons /\ x.defects = {}

\* _state of a case that was not closed.
MutantLabel(c) ==
  IF c.processing \notin {"SUCCEEDED", "FAILED"} THEN "Processing"
  ELSE IF c.reason \in {"missing_attachment", "wrong_doc_type"} THEN "Awaiting source"
  ELSE IF c.verification \in {"MATCH", "NOT_APPLICABLE"} THEN "Complete"
  ELSE IF ~c.settled THEN "Needs classification review"
  ELSE IF c.processing = "FAILED" THEN "Failed" ELSE "Needs review"

Label(c) ==
  IF c.processing \notin {"SUCCEEDED", "FAILED"} THEN "Processing"
  ELSE IF c.reason \in {"missing_attachment", "wrong_doc_type"} THEN "Awaiting source"
  ELSE IF ~c.settled THEN "Needs classification review"
  ELSE IF c.verification \in {"MATCH", "NOT_APPLICABLE"} THEN "Complete"
  ELSE IF c.processing = "FAILED" THEN "Failed" ELSE "Needs review"

-----------------------------------------------------------------------------
Init ==
  /\ docs \in Situations
  /\ local \in IF docs = "paired"
               THEN {[s \in Sides |-> IF s = "si" THEN Resolved(x) ELSE Resolved(y)] :
                       x \in Found, y \in Found}
               ELSE {AllMissing}
  /\ case = Unprocessed
  /\ entry = NoEntry
  /\ requests = 0
  /\ read = AllMissing
  /\ touched = {}
  /\ decided = FALSE

Serve == requests < MaxRequests /\ requests' = requests + 1

\* A run: the gateway settles the category or leaves it to a person, and the
\* documents are verified under it all the same.
Run(category, settled) ==
  /\ Serve /\ requests < MaxRuns
  /\ \E obs \in Observed(category) :
       /\ case' = Verified(category, settled, obs)
       /\ read' = obs
  /\ entry' = Submission(case')
  /\ decided' = FALSE
  /\ touched' = {}
  /\ UNCHANGED <<docs, local>>

\* resolve_arbitration and correct_case_classification: verified again, without
\* a model. The row of the case is written, the result of no run.
Decide(category) ==
  /\ Serve
  /\ case' = Verified(category, TRUE, local)
  /\ read' = local
  /\ touched' = {}
  /\ decided' = TRUE
  /\ UNCHANGED <<docs, local, entry>>

-----------------------------------------------------------------------------
(* review_case of a field: an observation is changed, all are compared,    *)
(* and the entry goes into a run of its own.                               *)

Review(f, obs) ==
  /\ Serve
  /\ case.compared
  /\ case' = Compared(case.settled, "SUCCEEDED", obs)
  /\ entry' = Submission(case')
  /\ decided' = FALSE
  /\ touched' = touched \cup {f}
  /\ UNCHANGED <<docs, local, read>>

ConfirmFinding(f) == Review(f, case.obs)

MutantCorrectReading(f, s, text) ==
  Review(f, [local EXCEPT ![s][f] = Present(text)])
CorrectReading(f, s, text) ==
  Review(f, [case.obs EXCEPT ![s][f] = Present(text)])

CannotRead(f, s) ==
  Review(f, [case.obs EXCEPT ![s][f] = Unread("UNREADABLE")])

\* confirm_equivalence gives both sides one value: the first there is of the
\* other side's value, its text and the own text.
FirstOf(a, b, c, d) ==
  IF a # NoText THEN a ELSE IF b # NoText THEN b ELSE IF c # NoText THEN c ELSE d

ConfirmEquivalence(f, s) ==
  LET other == case.obs[Other[s]][f]
      agreed == FirstOf(other.value, other.raw, case.obs[s][f].raw, Equivalent)
  IN Review(f, [t \in Sides |-> [case.obs[t] EXCEPT
       ![f] = [status |-> "PRESENT", raw |-> @.raw, value |-> agreed]]])

\* review_case of no field, which any case takes: what was found stays, a case
\* without a category gets that of a comparison, one that was never processed
\* counts as such, and no entry is made for the run.
ReviewCase ==
  /\ Serve
  /\ case' = [case EXCEPT
       !.category = IF @ = NoCategory THEN Comparison ELSE @,
       !.processing = IF @ = "QUEUED" THEN "SUCCEEDED" ELSE @]
  /\ entry' = Reviewed
  /\ UNCHANGED <<docs, local, read, touched, decided>>

-----------------------------------------------------------------------------
ReviewField(f) ==
  \/ ConfirmFinding(f)
  \/ \E s \in Sides : \/ CannotRead(f, s)
                      \/ ConfirmEquivalence(f, s)
                      \/ \E text \in Readings[f] : CorrectReading(f, s, text)

Next ==
  \/ \E category \in Categories : Decide(category)
  \/ \E category \in Categories, settled \in BOOLEAN : Run(category, settled)
  \/ \E f \in Fields : ReviewField(f)
  \/ ReviewCase

Spec == Init /\ [][Next]_vars

-----------------------------------------------------------------------------
(* What holds.                                                             *)

Entries ==
  [category: Categories \cup {NoCategory}, status: {"OK", "MISMATCH", "NEEDS_REVIEW"},
   reason: ReviewReasons \cup {NoReason}, defects: SUBSET Fields]

\* Every variable keeps its type.
TypeOK ==
  /\ docs \in Situations
  /\ local \in [Sides -> [Fields -> Observation]]
  /\ case \in Case
  /\ entry \in {NoEntry, Reviewed} \cup Entries
  /\ requests \in 0..MaxRequests
  /\ read \in [Sides -> [Fields -> Observation]]
  /\ touched \subseteq Fields
  /\ decided \in BOOLEAN

\* No false clear: a comparison that is a MATCH agrees in every field, both
\* documents were read, and where the local rules see two values that differ, or
\* nothing, a reviewer or (for nothing) verified evidence of the model says so.
NoFalseClear ==
  case.verification = "MATCH" =>
    \A f \in Fields \ touched :
      /\ docs = "paired"
      /\ Agree(f, read["si"][f], read["bl"][f])
      /\ Readable(local["si"][f]) /\ Readable(local["bl"][f]) =>
           Agree(f, local["si"][f], local["bl"][f])

\* Whatever runs, decisions and reviews a case goes through, what a run or the
\* review of a field stores as its entry is what the export takes. (The review of
\* a whole case stores no entry at all: EveryEntryIsValid, below.)
SubmissionIsValid == entry \notin {NoEntry, Reviewed} => ValidEntry(entry)

\* The entry is stored with the run and the label comes from the row, which later
\* requests go on to change. Until a person decides the category, the two agree:
\* a case that is shown as complete was stored OK and under the category it has,
\* and one stored OK is complete, or waits for its category only. (After a
\* decision they need not: DecisionsReachTheExport, below.)
LabelAgreesWithExport ==
  ValidEntry(entry) /\ ~decided =>
    /\ entry.category = case.category
    /\ Label(case) = "Complete" => case.settled /\ entry.status = "OK"
    /\ entry.status = "OK" => Label(case) \in {"Complete", "Needs classification review"}

\* A notify party may refer to the consignee.
Refers(g, f) ==
  g = Notify /\ f = Consignee /\ \E s \in Sides : case.obs[s][Notify].raw = SameAs

\* "Review of one field preserves unaffected findings" (IMPLEMENTATION_PLAN.md):
\* a review of a field leaves what was observed and found of each field that does
\* not refer to it as it was, earlier reviews included.
ReviewsStayLocal ==
  [][touched' # {} =>
       \E f \in touched' :
         /\ touched' = touched \cup {f}
         /\ \A g \in Fields \ {f} : ~Refers(g, f) =>
              /\ \A s \in Sides : case'.obs[s][g] = case.obs[s][g]
              /\ g \in Mismatches(case'.obs) <=> g \in Mismatches(case.obs)]_vars

-----------------------------------------------------------------------------
(* What the documentation says and the code does not do.                   *)

\* "If a transcription correction changes a field used by another field, such as
\* a consignee referenced by 'same as consignee', recompute its dependency
\* closure" (IMPLEMENTATION_PLAN.md): a notify party that refers to the consignee
\* and has its value follows the consignee that a reviewer corrects.
DependenciesAreRecomputed ==
  [][\A s \in Sides, text \in Readings[Consignee] :
       LET obs == case.obs[s] IN
       /\ CorrectReading(Consignee, s, text)
       /\ obs[Notify].raw = SameAs /\ obs[Notify].value = obs[Consignee].value
       => case'.obs[s][Notify].value = case'.obs[s][Consignee].value]_vars

\* "Reviewer changes create new assisted results" (IMPLEMENTATION_PLAN.md), "so
\* that the operator's decision takes immediate operational effect" (api.py): the
\* entry that is exported after a decision is that of the case as decided.
DecisionsReachTheExport == decided /\ ValidEntry(entry) => entry = Submission(case)

\* "Each entry contains exactly category, status, ..." (IMPLEMENTATION_PLAN.md):
\* whatever a run stores for the case is an entry.
EveryEntryIsValid == entry # NoEntry => ValidEntry(entry)

\* "Do not use SI values ... to repair missing BL data, or the reverse"
\* (IMPLEMENTATION_PLAN.md): what is cleared was read on both sides.
NothingIsRepaired ==
  case.verification = "MATCH" =>
    \A s \in Sides, f \in Fields : case.obs[s][f].raw # NoText

\* "elif processing failed or category/document pairing remains unresolved:
\* verification = NEEDS_REVIEW" (IMPLEMENTATION_PLAN.md).
UnsettledNeedsReview == case.compared /\ ~case.settled => case.verification = "NEEDS_REVIEW"

\* "Choose a primary reason by the closest actionable blocker: physically absent
\* referenced/source attachment first; ..." (IMPLEMENTATION_PLAN.md).
ReasonNamesBlocker ==
  case.verification = "NEEDS_REVIEW" /\ docs \in DOMAIN Blockers => case.reason = Blockers[docs]

\* "a category a person confirms produces exactly the comparison the automated
\* path would have produced for that category" (pipeline.py).
ConfirmedCategoryComparesAlike ==
  [][case.compared /\ touched = {} /\ Decide(Comparison) =>
       case'.verification = case.verification]_vars

\* "normalized values differ" (core.py): of a defect that is found the texts of
\* the two sides normalize to different values.
DefectsDiffer ==
  case.verification = "MISMATCH" =>
    \A f \in Mismatches(case.obs) \ {Notify} :
      LET x == case.obs["si"][f].raw  y == case.obs["bl"][f].raw
      IN x # NoText /\ y # NoText => Canon[x] # Canon[y]
=============================================================================
