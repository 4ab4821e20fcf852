--------------------------- MODULE VerdictProofs ---------------------------
(***************************************************************************)
(* What is reported of a case, for all fields, texts, normalizations,      *)
(* answers of a model, and sequences of runs, decisions and reviews.       *)
(***************************************************************************)
EXTENDS Verdict, TLAPS

Sight == [Sides -> [Fields -> Observation]]

-----------------------------------------------------------------------------
(* Observations and their types.                                           *)

LEMMA UnreadType == ASSUME NEW status \in Statuses PROVE Unread(status) \in Observation
  BY DEF Unread, Observation

LEMMA PresentType == ASSUME NEW text \in Texts PROVE Present(text) \in Observation
<1>1. Canon[text] \in Texts
  BY VerdictAssumption
<1>. QED BY <1>1 DEF Present, Observation, Statuses

LEMMA ExtractedType == ASSUME NEW f \in Fields PROVE Extracted(f) \subseteq Observation
<1>1. Readings[f] \subseteq Texts
  BY VerdictAssumption
<1>2. "MISSING" \in Statuses
  BY DEF Statuses
<1>. QED BY <1>1, <1>2, UnreadType, PresentType DEF Extracted

LEMMA FoundType == ASSUME NEW x \in Found PROVE Resolved(x) \in [Fields -> Observation]
<1>1. x \in [Fields -> Observation]
  BY ExtractedType DEF Found
<1>2. x[Consignee].value \in Texts \cup {NoText}
  BY <1>1, VerdictAssumption DEF Observation
<1>3. [x EXCEPT ![Notify].value = x[Consignee].value] \in [Fields -> Observation]
  <2>1. x[Notify] \in Observation
    BY <1>1, VerdictAssumption
  <2>2. [x[Notify] EXCEPT !.value = x[Consignee].value] \in Observation
    BY <1>2, <2>1 DEF Observation
  <2>. QED BY <1>1, <2>2
<1>. QED BY <1>1, <1>3 DEF Resolved

LEMMA AllMissingType == AllMissing \in Sight
<1>1. "MISSING" \in Statuses
  BY DEF Statuses
<1>. QED BY <1>1, UnreadType DEF AllMissing, Sight

LEMMA AnswersType == ASSUME NEW x \in Answers PROVE x \in [Fields -> Observation]
<1>1. "UNREADABLE" \in Statuses
  BY DEF Statuses
<1>. QED BY <1>1, UnreadType, ExtractedType DEF Answers

\* What the local rules found stays, whatever the model answers.
LEMMA CompletedIsLocal ==
  ASSUME local \in Sight, NEW s \in Sides, NEW x \in Completed(s)
  PROVE  /\ x \in [Fields -> Observation]
         /\ \A f \in Fields : local[s][f].status = "PRESENT" => x[f] = local[s][f]
<1>1. PICK answer \in Answers : x = Merge(local[s], answer)
  BY DEF Completed
<1>2. answer \in [Fields -> Observation] /\ local[s] \in [Fields -> Observation]
  BY AnswersType DEF Sight
<1>. QED BY <1>1, <1>2 DEF Merge

LEMMA ObservedIsLocal ==
  ASSUME local \in Sight, NEW category \in Categories, NEW obs \in Observed(category)
  PROVE  /\ obs \in Sight
         /\ \A s \in Sides, f \in Fields :
              local[s][f].status = "PRESENT" => obs[s][f] = local[s][f]
<1>1. CASE obs = local
  BY <1>1
<1>2. CASE obs # local
  <2>1. PICK x \in Completed("si"), y \in Completed("bl") :
          obs = [s \in Sides |-> IF s = "si" THEN x ELSE y]
    BY <1>2 DEF Observed
  <2>2. \A s \in Sides : obs[s] \in Completed(s)
    BY <2>1 DEF Sides
  <2>3. obs = [s \in Sides |-> obs[s]]
    BY <2>1
  <2>. QED BY <2>2, <2>3, CompletedIsLocal DEF Sight
<1>. QED BY <1>1, <1>2

-----------------------------------------------------------------------------
(* What a comparison says.                                                 *)

Sound(c) ==
  /\ c.verification \notin {"NOT_STARTED", "NOT_APPLICABLE"}
  /\ c.verification = "MATCH" =>
       Unresolved(c.obs) = {} /\ Mismatches(c.obs) = {} /\ c.reason = NoReason
  /\ c.verification = "MISMATCH" => Unresolved(c.obs) = {} /\ Mismatches(c.obs) # {}

LEMMA ComparedType ==
  ASSUME NEW settled \in BOOLEAN, NEW processing \in Processings, NEW obs \in Sight
  PROVE  /\ Compared(settled, processing, obs) \in Case
         /\ Compared(settled, processing, obs).category = Comparison
         /\ Compared(settled, processing, obs).compared
         /\ Compared(settled, processing, obs).processing = processing
         /\ Compared(settled, processing, obs).obs = obs
         /\ Sound(Compared(settled, processing, obs))
<1>. DEFINE c == Compared(settled, processing, obs)
<1>1. c.category = Comparison /\ c.compared /\ c.processing = processing /\ c.obs = obs
      /\ c.settled = settled
  BY DEF Compared
<1>2. c.verification \in Verifications /\ c.reason \in ReviewReasons \cup {NoReason}
  BY DEF Compared, Verifications, ReviewReasons
<1>3. c \in Case
  <2>1. \E v \in Verifications, r \in ReviewReasons \cup {NoReason} :
          c = [category |-> Comparison, settled |-> settled, compared |-> TRUE,
               verification |-> v, processing |-> processing, reason |-> r, obs |-> obs]
    BY <1>2 DEF Compared
  <2>2. Comparison \in Categories \cup {NoCategory} /\ TRUE \in BOOLEAN
    BY VerdictAssumption
  <2>. HIDE DEF c
  <2>. QED BY <2>1, <2>2 DEF Case, Sight
<1>4. Sound(c)
  BY <1>1 DEF Sound, Compared
<1>. QED BY <1>1, <1>3, <1>4

LEMMA NotComparedType ==
  ASSUME NEW category \in Categories \cup {NoCategory}, NEW settled \in BOOLEAN
  PROVE  /\ NotCompared(category, settled) \in Case
         /\ NotCompared(category, settled).category = category
         /\ ~NotCompared(category, settled).compared
         /\ NotCompared(category, settled).processing = "SUCCEEDED"
         /\ NotCompared(category, settled).verification = "NOT_APPLICABLE"
         /\ NotCompared(category, settled).reason = NoReason
<1>1. AllMissing \in Sight
  BY AllMissingType
<1>. QED BY <1>1 DEF NotCompared, Case, Sight, Verifications, Processings

\* Where nothing was read, nothing agrees.
LEMMA NothingAgrees ==
  /\ \A f \in Fields : ~Agree(f, Unread("MISSING"), Unread("MISSING"))
  /\ Unresolved(AllMissing) # {}
<1>1. \A f \in Fields : ~Agree(f, Unread("MISSING"), Unread("MISSING"))
  BY DEF Agree, Readable, Unread
<1>2. Consignee \in Fields /\ ~Readable(Unread("MISSING"))
  BY VerdictAssumption DEF Readable, Unread
<1>3. Consignee \in Unresolved(AllMissing)
  BY <1>1, <1>2 DEF Unresolved, AllMissing, Sides
<1>. QED BY <1>1, <1>3

-----------------------------------------------------------------------------
(* The invariant: what the case says follows from its observations, and    *)
(* those of the fields no review named are the ones of the last run.       *)

\* A row that a request may leave.
RowShape(c) ==
  /\ c \in Case
  /\ c.category # NoCategory => c.processing # "QUEUED"
  /\ ~c.compared =>
       c.verification \in {"NOT_STARTED", "NOT_APPLICABLE"} /\ c.reason = NoReason
  /\ c.compared => c.category = Comparison /\ Sound(c)

\* One that a run, a decision or the review of a field leaves.
Processed(c) ==
  /\ RowShape(c)
  /\ c.category # NoCategory
  /\ c.compared \/ c.verification = "NOT_APPLICABLE"

SightLink ==
  case.compared =>
    \A f \in Fields \ touched : \A s \in Sides :
      IF docs = "paired"
      THEN /\ case.obs[s][f] = read[s][f]
           /\ local[s][f].status = "PRESENT" => read[s][f] = local[s][f]
      ELSE case.obs[s][f] = Unread("MISSING")

CaseTypes ==
  /\ docs \in Situations
  /\ local \in Sight /\ read \in Sight
  /\ requests \in 0..MaxRequests
  /\ touched \subseteq Fields

CaseInv == CaseTypes /\ RowShape(case) /\ SightLink

\* An entry is valid when it is stored, and is that of the row until a person
\* decides the category.
EntryInv ==
  /\ decided \in BOOLEAN
  /\ entry \notin {NoEntry, Reviewed} =>
       /\ entry \in Entries /\ ValidEntry(entry)
       /\ ~decided => Processed(case) /\ entry = Submission(case)

IInv == CaseInv /\ EntryInv

LEMMA Initially == Init => IInv
<1>. SUFFICES ASSUME Init PROVE IInv
  OBVIOUS
<1>. DEFINE c == NotCompared(NoCategory, TRUE)
<1>1. c \in Case /\ c.category = NoCategory /\ ~c.compared /\ c.reason = NoReason
  BY NotComparedType
<1>. HIDE DEF c
<1>2. case = [c EXCEPT !.processing = "QUEUED", !.verification = "NOT_STARTED"]
  BY DEF Init, Unprocessed, c
<1>3. "QUEUED" \in Processings /\ "NOT_STARTED" \in Verifications
  BY DEF Processings, Verifications
<1>4. case \in Case /\ case.category = NoCategory /\ ~case.compared
      /\ case.verification = "NOT_STARTED" /\ case.reason = NoReason
  BY <1>1, <1>2, <1>3 DEF Case
<1>5. local \in Sight
  <2>1. CASE docs # "paired"
    BY <2>1, AllMissingType DEF Init
  <2>2. CASE docs = "paired"
    <3>1. PICK x \in Found, y \in Found :
            local = [s \in Sides |-> IF s = "si" THEN Resolved(x) ELSE Resolved(y)]
      BY <2>2 DEF Init
    <3>. QED BY <3>1, FoundType DEF Sight
  <2>. QED BY <2>1, <2>2
<1>6. CaseTypes
  BY <1>5, AllMissingType, VerdictAssumption DEF Init, CaseTypes
<1>7. EntryInv
  BY DEF Init, EntryInv
<1>. QED BY <1>4, <1>6, <1>7 DEF IInv, CaseInv, RowShape, SightLink

\* verify_case, under a category and with observations that keep what the local
\* rules found.
LEMMA VerifiedInv ==
  ASSUME CaseInv, Serve, NEW category \in Categories, NEW settled \in BOOLEAN, NEW obs \in Sight,
         \A s \in Sides, f \in Fields : local[s][f].status = "PRESENT" => obs[s][f] = local[s][f],
         case' = Verified(category, settled, obs), read' = obs, touched' = {},
         UNCHANGED <<docs, local>>
  PROVE  CaseInv' /\ Processed(case')
<1>1. CaseTypes /\ docs \in Situations /\ local \in Sight
  BY DEF CaseInv, CaseTypes
<1>2. requests' \in 0..MaxRequests
  BY <1>1, VerdictAssumption DEF Serve, CaseTypes
<1>3. Comparison \in Categories /\ category # NoCategory /\ Comparison # NoCategory
  BY VerdictAssumption
<1>4. CASE category # Comparison \/ docs = "requested"
  <2>1. case' = NotCompared(category, settled)
    BY <1>4 DEF Verified
  <2>2. /\ case' \in Case /\ ~case'.compared /\ case'.processing = "SUCCEEDED"
        /\ case'.verification = "NOT_APPLICABLE" /\ case'.reason = NoReason
        /\ case'.category = category
    BY <2>1, NotComparedType
  <2>3. CaseTypes'
    BY <1>1, <1>2 DEF CaseTypes
  <2>. QED BY <1>3, <2>2, <2>3 DEF CaseInv, RowShape, SightLink, Processed
<1>5. CASE category = Comparison /\ docs = "paired"
  <2>1. case' = Compared(settled, "SUCCEEDED", obs)
    BY <1>5 DEF Verified
  <2>2. "SUCCEEDED" \in Processings
    BY DEF Processings
  <2>3. /\ case' \in Case /\ case'.category = Comparison /\ case'.compared
        /\ case'.processing = "SUCCEEDED" /\ case'.obs = obs /\ Sound(case')
    BY <2>1, <2>2, ComparedType
  <2>4. CaseTypes'
    BY <1>1, <1>2 DEF CaseTypes
  <2>5. RowShape(case)'
    BY <2>3 DEF RowShape
  <2>6. SightLink'
    BY <1>5, <2>3 DEF SightLink
  <2>. QED BY <1>3, <2>3, <2>4, <2>5, <2>6 DEF CaseInv, Processed
<1>6. CASE category = Comparison /\ docs \notin {"paired", "requested"}
  <2>. DEFINE processing == IF docs = "garbled" THEN "FAILED" ELSE "SUCCEEDED"
              c == Compared(settled, processing, AllMissing)
  <2>1. processing \in Processings /\ processing # "QUEUED"
    BY DEF Processings
  <2>2. docs \in DOMAIN Blockers
    BY <1>1, <1>6 DEF Situations
  <2>3. Blockers[docs] \in ReviewReasons
    BY <2>2 DEF Blockers, ReviewReasons
  <2>4. case' = [c EXCEPT !.reason = Blockers[docs]]
    BY <1>6 DEF Verified
  <2>5. /\ c \in Case /\ c.category = Comparison /\ c.compared
        /\ c.processing = processing /\ c.obs = AllMissing /\ Sound(c)
    BY <2>1, AllMissingType, ComparedType
  <2>6. c.verification \notin {"MATCH", "MISMATCH", "NOT_STARTED", "NOT_APPLICABLE"}
    BY <2>5, NothingAgrees DEF Sound
  <2>. HIDE DEF c, processing
  <2>7. /\ case' \in Case /\ case'.category = Comparison /\ case'.compared
        /\ case'.processing = processing /\ case'.obs = AllMissing
        /\ case'.verification = c.verification
    BY <2>3, <2>4, <2>5 DEF Case
  <2>8. Sound(case')
    BY <2>6, <2>7 DEF Sound
  <2>9. CaseTypes'
    BY <1>1, <1>2, AllMissingType DEF CaseTypes
  <2>10. RowShape(case)'
    BY <2>1, <2>7, <2>8 DEF RowShape
  <2>11. SightLink'
    BY <1>6, <2>7 DEF SightLink, AllMissing
  <2>. QED BY <1>3, <2>7, <2>9, <2>10, <2>11 DEF CaseInv, Processed
<1>. QED BY <1>4, <1>5, <1>6

LEMMA RunInv ==
  ASSUME CaseInv, NEW category \in Categories, NEW settled \in BOOLEAN, Run(category, settled)
  PROVE  CaseInv' /\ Processed(case')
<1>1. PICK obs \in Observed(category) : case' = Verified(category, settled, obs) /\ read' = obs
  BY DEF Run
<1>2. local \in Sight
  BY DEF CaseInv, CaseTypes
<1>3. /\ obs \in Sight
      /\ \A s \in Sides, f \in Fields : local[s][f].status = "PRESENT" => obs[s][f] = local[s][f]
  BY <1>2, ObservedIsLocal
<1>. QED BY <1>1, <1>3, VerifiedInv DEF Run

LEMMA DecideInv ==
  ASSUME CaseInv, NEW category \in Categories, Decide(category)
  PROVE  CaseInv' /\ Processed(case')
<1>1. local \in Sight
  BY DEF CaseInv, CaseTypes
<1>. QED BY <1>1, VerifiedInv DEF Decide

\* A review of a field, which leaves the observations of all others.
LEMMA ReviewInv ==
  ASSUME CaseInv, NEW f \in Fields, NEW obs \in Sight, Review(f, obs),
         \A s \in Sides, g \in Fields \ {f} : obs[s][g] = case.obs[s][g]
  PROVE  CaseInv' /\ Processed(case')
<1>1. CaseTypes /\ case \in Case /\ case.compared /\ case.settled \in BOOLEAN
  BY DEF CaseInv, CaseTypes, RowShape, Review, Case
<1>2. requests' \in 0..MaxRequests
  BY <1>1, VerdictAssumption DEF Review, Serve, CaseTypes
<1>3. "SUCCEEDED" \in Processings
  BY DEF Processings
<1>4. case' = Compared(case.settled, "SUCCEEDED", obs)
  BY DEF Review
<1>5. /\ case' \in Case /\ case'.category = Comparison /\ case'.compared
      /\ case'.processing = "SUCCEEDED" /\ case'.obs = obs /\ Sound(case')
  BY <1>1, <1>3, <1>4, ComparedType
<1>6. CaseTypes'
  BY <1>1, <1>2 DEF CaseTypes, Review
<1>7. RowShape(case)'
  BY <1>5 DEF RowShape
<1>8. touched' = touched \cup {f} /\ read' = read /\ docs' = docs /\ local' = local
  BY DEF Review
<1>9. SightLink'
  BY <1>1, <1>5, <1>8 DEF CaseInv, SightLink
<1>. QED BY <1>5, <1>6, <1>7, <1>9, VerdictAssumption DEF CaseInv, Processed

\* One observation of a sight changes.
LEMMA SightType ==
  ASSUME NEW sight \in Sight, NEW s \in Sides, NEW f \in Fields, NEW o \in Observation
  PROVE  /\ [sight EXCEPT ![s][f] = o] \in Sight
         /\ \A t \in Sides, g \in Fields \ {f} : [sight EXCEPT ![s][f] = o][t][g] = sight[t][g]
  BY DEF Sight

\* What a review of a field compares: observations that differ in that field only.
SeenAfter(f) ==
  \E obs \in Sight : /\ Review(f, obs)
                     /\ \A s \in Sides, g \in Fields \ {f} : obs[s][g] = case.obs[s][g]

LEMMA ReviewSees == ASSUME CaseInv, NEW f \in Fields, ReviewField(f) PROVE SeenAfter(f)
<1>1. case.obs \in Sight
  BY DEF CaseInv, RowShape, Case, Sight
<1>2. CASE ConfirmFinding(f)
  BY <1>1, <1>2 DEF ConfirmFinding, SeenAfter
<1>3. ASSUME NEW s \in Sides, CannotRead(f, s)
      PROVE  SeenAfter(f)
  <2>1. Unread("UNREADABLE") \in Observation
    BY UnreadType DEF Statuses
  <2>. DEFINE obs == [case.obs EXCEPT ![s][f] = Unread("UNREADABLE")]
  <2>2. Review(f, obs)
    BY <1>3 DEF CannotRead
  <2>3. obs \in Sight /\ \A t \in Sides, g \in Fields \ {f} : obs[t][g] = case.obs[t][g]
    BY <1>1, <2>1, SightType
  <2>. HIDE DEF obs
  <2>. QED BY <2>2, <2>3 DEF SeenAfter
<1>4. ASSUME NEW s \in Sides, NEW text \in Readings[f], CorrectReading(f, s, text)
      PROVE  SeenAfter(f)
  <2>1. Present(text) \in Observation
    BY PresentType, VerdictAssumption
  <2>. DEFINE obs == [case.obs EXCEPT ![s][f] = Present(text)]
  <2>2. Review(f, obs)
    BY <1>4 DEF CorrectReading
  <2>3. obs \in Sight /\ \A t \in Sides, g \in Fields \ {f} : obs[t][g] = case.obs[t][g]
    BY <1>1, <2>1, SightType
  <2>. HIDE DEF obs
  <2>. QED BY <2>2, <2>3 DEF SeenAfter
<1>5. ASSUME NEW s \in Sides, ConfirmEquivalence(f, s)
      PROVE  SeenAfter(f)
  <2>. DEFINE other == case.obs[Other[s]][f]
              agreed == FirstOf(other.value, other.raw, case.obs[s][f].raw, Equivalent)
              obs == [t \in Sides |-> [case.obs[t] EXCEPT
                       ![f] = [status |-> "PRESENT", raw |-> @.raw, value |-> agreed]]]
  <2>1. Other[s] \in Sides
    BY DEF Other, Sides
  <2>2. \A t \in Sides : case.obs[t] \in [Fields -> Observation] /\ case.obs[t][f] \in Observation
    BY <1>1 DEF Sight
  <2>3. \A t \in Sides : case.obs[t][f].raw \in Texts \cup {NoText}
                         /\ case.obs[t][f].value \in Texts \cup {NoText}
    BY <2>2 DEF Observation
  <2>4. agreed \in Texts
    BY <2>1, <2>3, VerdictAssumption DEF FirstOf
  <2>5. Review(f, obs)
    BY <1>5 DEF ConfirmEquivalence
  <2>. HIDE DEF agreed
  <2>6. \A t \in Sides : [status |-> "PRESENT", raw |-> case.obs[t][f].raw, value |-> agreed]
                           \in Observation
    BY <2>3, <2>4 DEF Observation, Statuses
  <2>7. \A t \in Sides : obs[t] \in [Fields -> Observation]
    BY <2>2, <2>6
  <2>8. obs \in Sight
    BY <2>7 DEF Sight
  <2>9. \A t \in Sides, g \in Fields \ {f} : obs[t][g] = case.obs[t][g]
    BY <2>2
  <2>. HIDE DEF obs
  <2>. QED BY <2>5, <2>8, <2>9 DEF SeenAfter
<1>. QED BY <1>2, <1>3, <1>4, <1>5 DEF ReviewField

LEMMA ReviewFieldInv == ASSUME CaseInv, NEW f \in Fields, ReviewField(f) PROVE CaseInv' /\ Processed(case')
<1>1. PICK obs \in Sight :
        /\ Review(f, obs)
        /\ \A s \in Sides, g \in Fields \ {f} : obs[s][g] = case.obs[s][g]
  BY ReviewSees DEF SeenAfter
<1>. QED BY <1>1, ReviewInv

-----------------------------------------------------------------------------
(* The entry of a row, by its verification.                                *)

LEMMA EntryOf ==
  ASSUME NEW c, Processed(c)
  PROVE  /\ ~c.compared \/ c.verification = "MATCH" =>
              Submission(c) = Entry(c, "OK", NoReason, {})
         /\ c.compared /\ c.verification = "MISMATCH" =>
              Submission(c) = Entry(c, "MISMATCH", NoReason, Mismatches(c.obs))
         /\ c.compared /\ c.verification = "NEEDS_REVIEW" =>
              \E reason \in ReviewReasons :
                Submission(c) = Entry(c, "NEEDS_REVIEW", reason, {})
<1>1. c.reason \in ReviewReasons \cup {NoReason}
  BY DEF Processed, RowShape, Case
<1>2. c.compared \/ ~c.compared
  OBVIOUS
<1>3. CASE ~c.compared
  <2>1. c.verification = "NOT_APPLICABLE"
    BY <1>3 DEF Processed
  <2>2. Submission(c) = Entry(c, "OK", NoReason, {})
    BY <2>1 DEF Submission
  <2>. QED BY <1>3, <2>2
<1>4. CASE c.compared
  <2>1. c.category = Comparison /\ Sound(c)
    BY <1>4 DEF Processed, RowShape
  <2>2. CASE c.verification = "MATCH"
    <3>1. Unresolved(c.obs) = {} /\ Mismatches(c.obs) = {}
      BY <2>1, <2>2 DEF Sound
    <3>2. Submission(c) = Entry(c, "OK", NoReason, {})
      BY <1>4, <2>2, <3>1 DEF Submission
    <3>. QED BY <2>2, <3>2
  <2>3. CASE c.verification = "MISMATCH"
    <3>1. Unresolved(c.obs) = {}
      BY <2>1, <2>3 DEF Sound
    <3>2. Submission(c) = Entry(c, "MISMATCH", NoReason, Mismatches(c.obs))
      BY <1>4, <2>1, <2>3, <3>1 DEF Submission
    <3>. QED BY <1>4, <2>3, <3>2
  <2>4. CASE c.verification = "NEEDS_REVIEW"
    <3>. DEFINE reason == IF c.reason # NoReason THEN c.reason
                          ELSE IF Unresolved(c.obs) # {} THEN "missing_value"
                          ELSE "unreadable"
    <3>1. Submission(c) = Entry(c, "NEEDS_REVIEW", reason, {})
      BY <1>4, <2>1, <2>4 DEF Submission
    <3>2. reason \in ReviewReasons
      BY <1>1 DEF ReviewReasons
    <3>. HIDE DEF reason
    <3>. QED BY <1>4, <2>4, <3>1, <3>2
  <2>. QED BY <1>4, <2>2, <2>3, <2>4
<1>. QED BY <1>2, <1>3, <1>4

\* A row that is compared is a match, a mismatch or left for review.
LEMMA Trichotomy ==
  ASSUME NEW c, RowShape(c), c.compared
  PROVE  c.verification \in {"MATCH", "MISMATCH", "NEEDS_REVIEW"}
<1>1. c.verification \in Verifications /\ c.verification \notin {"NOT_STARTED", "NOT_APPLICABLE"}
  BY DEF RowShape, Case, Sound
<1>. QED BY <1>1 DEF Verifications

\* Only a match or a case that is not compared is reported OK.
LEMMA OKEntry ==
  ASSUME NEW c, Processed(c), Submission(c).status = "OK"
  PROVE  ~c.compared \/ c.verification = "MATCH"
<1>. SUFFICES ASSUME c.compared, c.verification # "MATCH" PROVE FALSE
  OBVIOUS
<1>1. CASE c.verification = "MISMATCH"
  <2>1. Submission(c).status = "MISMATCH"
    BY <1>1, EntryOf DEF Entry
  <2>. QED BY <2>1
<1>2. CASE c.verification = "NEEDS_REVIEW"
  <2>1. Submission(c).status = "NEEDS_REVIEW"
    BY <1>2, EntryOf DEF Entry
  <2>. QED BY <2>1
<1>. QED BY <1>1, <1>2, Trichotomy DEF Processed

LEMMA EntryForm ==
  ASSUME NEW c, c.category \in Categories,
         NEW status \in {"OK", "MISMATCH", "NEEDS_REVIEW"},
         NEW reason \in ReviewReasons \cup {NoReason}, NEW defects \in SUBSET Fields
  PROVE  LET x == Entry(c, status, reason, defects) IN
         /\ x \in Entries
         /\ DOMAIN x = {"category", "status", "reason", "defects"}
         /\ x.category = c.category /\ x.status = status
         /\ x.reason = reason /\ x.defects = defects
  BY DEF Entry, Entries

LEMMA Valid ==
  ASSUME NEW c, Processed(c)
  PROVE  Submission(c) \in Entries /\ ValidEntry(Submission(c)) /\ Submission(c).category = c.category
<1>1. c.category \in Categories
  BY DEF Processed, RowShape, Case
<1>2. CASE ~c.compared \/ c.verification = "MATCH"
  <2>1. Submission(c) = Entry(c, "OK", NoReason, {})
    BY <1>2, EntryOf
  <2>. QED BY <1>1, <2>1, EntryForm DEF ValidEntry
<1>3. CASE c.compared /\ c.verification = "MISMATCH"
  <2>1. Submission(c) = Entry(c, "MISMATCH", NoReason, Mismatches(c.obs))
    BY <1>3, EntryOf
  <2>2. c.category = Comparison /\ Mismatches(c.obs) # {}
    BY <1>3 DEF Processed, RowShape, Sound
  <2>3. Mismatches(c.obs) \in SUBSET Fields
    BY DEF Mismatches
  <2>. QED BY <1>1, <2>1, <2>2, <2>3, EntryForm DEF ValidEntry
<1>4. CASE c.compared /\ c.verification = "NEEDS_REVIEW"
  <2>1. PICK reason \in ReviewReasons : Submission(c) = Entry(c, "NEEDS_REVIEW", reason, {})
    BY <1>4, EntryOf
  <2>2. c.category = Comparison
    BY <1>4 DEF Processed, RowShape
  <2>. QED BY <1>1, <2>1, <2>2, EntryForm DEF ValidEntry
<1>. QED BY <1>2, <1>3, <1>4, Trichotomy DEF Processed

-----------------------------------------------------------------------------
(* The invariant is inductive.                                             *)

\* A run or the review of a field stores the entry of the row it leaves.
LEMMA Stored ==
  ASSUME CaseInv' /\ Processed(case'), entry' = Submission(case'), decided' = FALSE
  PROVE  IInv'
<1>1. Submission(case') \in Entries /\ ValidEntry(Submission(case'))
  BY Valid
<1>. QED BY <1>1 DEF IInv, EntryInv

LEMMA ReviewCaseInv == ASSUME IInv, ReviewCase PROVE IInv'
<1>1. CaseTypes /\ RowShape(case) /\ SightLink /\ EntryInv
  BY DEF IInv, CaseInv
<1>2. requests' \in 0..MaxRequests
  BY <1>1, VerdictAssumption DEF ReviewCase, Serve, CaseTypes
<1>3. CaseTypes'
  BY <1>1, <1>2 DEF CaseTypes, ReviewCase
<1>4. /\ case' \in Case
      /\ case'.category # NoCategory /\ case'.processing # "QUEUED"
      /\ case.compared => case'.category = Comparison
      /\ case'.compared = case.compared /\ case'.verification = case.verification
      /\ case'.reason = case.reason /\ case'.obs = case.obs
  <2>1. case \in Case /\ "SUCCEEDED" \in Processings /\ Comparison # NoCategory
        /\ Comparison \in Categories
    BY <1>1, VerdictAssumption DEF RowShape, Processings
  <2>2. case.compared => case.category = Comparison
    BY <1>1 DEF RowShape
  <2>. QED BY <2>1, <2>2 DEF ReviewCase, Case
<1>5. RowShape(case')
  BY <1>1, <1>4 DEF RowShape, Sound
<1>6. SightLink'
  BY <1>1, <1>4 DEF SightLink, ReviewCase
<1>7. EntryInv'
  BY <1>1 DEF EntryInv, ReviewCase
<1>. QED BY <1>3, <1>5, <1>6, <1>7 DEF IInv, CaseInv

LEMMA Inductive == IInv /\ [Next]_vars => IInv'
<1>. SUFFICES ASSUME IInv, [Next]_vars PROVE IInv'
  OBVIOUS
<1>1. CaseInv /\ EntryInv
  BY DEF IInv
<1>2. ASSUME NEW category \in Categories, Decide(category) PROVE IInv'
  <2>1. CaseInv'
    BY <1>1, <1>2, DecideInv
  <2>. QED BY <1>1, <1>2, <2>1 DEF IInv, EntryInv, Decide
<1>3. ASSUME NEW category \in Categories, NEW settled \in BOOLEAN, Run(category, settled)
      PROVE  IInv'
  <2>1. CaseInv' /\ Processed(case')
    BY <1>1, <1>3, RunInv
  <2>. QED BY <1>3, <2>1, Stored DEF Run
<1>4. ASSUME NEW f \in Fields, ReviewField(f) PROVE IInv'
  <2>1. CaseInv' /\ Processed(case')
    BY <1>1, <1>4, ReviewFieldInv
  <2>2. PICK obs \in Sight : Review(f, obs)
    BY <1>1, <1>4, ReviewSees DEF SeenAfter
  <2>. QED BY <2>1, <2>2, Stored DEF Review
<1>5. CASE ReviewCase
  BY <1>5, ReviewCaseInv
<1>6. CASE UNCHANGED vars
  <2>1. CaseInv'
    BY <1>1, <1>6 DEF CaseInv, CaseTypes, SightLink, vars
  <2>2. EntryInv'
    BY <1>1, <1>6 DEF EntryInv, vars
  <2>. QED BY <2>1, <2>2 DEF IInv
<1>. QED BY <1>2, <1>3, <1>4, <1>5, <1>6 DEF Next

THEOREM Invariant == Spec => []IInv
<1>. QED BY Initially, Inductive, PTL DEF Spec

-----------------------------------------------------------------------------
(* What follows of the entry, the label and the clearing of a case.        *)

LEMMA Labelled == ASSUME IInv PROVE LabelAgreesWithExport
<1>. SUFFICES ASSUME ValidEntry(entry), ~decided
              PROVE  /\ entry.category = case.category
                     /\ Label(case) = "Complete" => case.settled /\ entry.status = "OK"
                     /\ entry.status = "OK" =>
                          Label(case) \in {"Complete", "Needs classification review"}
  BY DEF LabelAgreesWithExport
<1>1. entry \notin {NoEntry, Reviewed}
  <2>1. DOMAIN NoEntry = {"status"} /\ DOMAIN Reviewed = {"status"}
    BY DEF NoEntry, Reviewed
  <2>2. "reason" \in DOMAIN entry
    BY DEF ValidEntry
  <2>. QED BY <2>1, <2>2
<1>2. Processed(case) /\ entry = Submission(case)
  BY <1>1 DEF IInv, EntryInv
<1>3. RowShape(case) /\ case.processing \in {"SUCCEEDED", "FAILED"}
  BY <1>2 DEF Processed, RowShape, Case, Processings
<1>4. entry.category = case.category
  BY <1>2, Valid
<1>5. ASSUME Label(case) = "Complete"
      PROVE  case.settled /\ entry.status = "OK"
  <2>1. case.settled /\ case.verification \in {"MATCH", "NOT_APPLICABLE"}
    BY <1>3, <1>5 DEF Label
  <2>2. ~case.compared \/ case.verification = "MATCH"
    BY <1>3, <2>1, Trichotomy
  <2>. QED BY <1>2, <2>1, <2>2, EntryOf DEF Entry
<1>6. ASSUME entry.status = "OK"
      PROVE  Label(case) \in {"Complete", "Needs classification review"}
  <2>1. ~case.compared \/ case.verification = "MATCH"
    BY <1>2, <1>6, OKEntry
  <2>2. case.verification \in {"MATCH", "NOT_APPLICABLE"} /\ case.reason = NoReason
    BY <1>2, <1>3, <2>1 DEF Processed, RowShape, Sound
  <2>3. NoReason \notin {"missing_attachment", "wrong_doc_type"}
    BY DEF NoReason
  <2>. QED BY <1>3, <2>2, <2>3 DEF Label
<1>. QED BY <1>4, <1>5, <1>6

LEMMA Cleared == ASSUME IInv PROVE NoFalseClear
<1>. SUFFICES ASSUME case.verification = "MATCH", NEW f \in Fields \ touched
              PROVE  /\ docs = "paired"
                     /\ Agree(f, read["si"][f], read["bl"][f])
                     /\ Readable(local["si"][f]) /\ Readable(local["bl"][f]) =>
                          Agree(f, local["si"][f], local["bl"][f])
  BY DEF NoFalseClear
<1>1. CaseInv /\ RowShape(case) /\ case.compared
  <2>1. RowShape(case)
    BY DEF IInv, CaseInv
  <2>2. case.compared \in BOOLEAN
    BY <2>1 DEF RowShape, Case
  <2>. QED BY <2>1, <2>2 DEF IInv, RowShape
<1>2. Unresolved(case.obs) = {} /\ Mismatches(case.obs) = {}
  BY <1>1 DEF RowShape, Sound
<1>3. Agree(f, case.obs["si"][f], case.obs["bl"][f])
  BY <1>2 DEF Mismatches
<1>4. "si" \in Sides /\ "bl" \in Sides
  BY DEF Sides
<1>5. docs = "paired"
  <2>. SUFFICES ASSUME docs # "paired" PROVE FALSE
    OBVIOUS
  <2>1. case.obs["si"][f] = Unread("MISSING") /\ case.obs["bl"][f] = Unread("MISSING")
    BY <1>1, <1>4 DEF CaseInv, SightLink
  <2>. QED BY <1>3, <2>1, NothingAgrees
<1>6. \A s \in Sides : /\ case.obs[s][f] = read[s][f]
                       /\ local[s][f].status = "PRESENT" => read[s][f] = local[s][f]
  BY <1>1, <1>5 DEF CaseInv, SightLink
<1>7. Agree(f, read["si"][f], read["bl"][f])
  BY <1>3, <1>4, <1>6
<1>8. ASSUME Readable(local["si"][f]), Readable(local["bl"][f])
      PROVE  Agree(f, local["si"][f], local["bl"][f])
  <2>1. read["si"][f] = local["si"][f] /\ read["bl"][f] = local["bl"][f]
    BY <1>4, <1>6, <1>8 DEF Readable
  <2>. QED BY <1>7, <2>1
<1>. QED BY <1>5, <1>7, <1>8

-----------------------------------------------------------------------------
\* Every variable of a case keeps its type, through runs, decisions and reviews.
THEOREM TypeCorrect == Spec => []TypeOK
<1>1. IInv => TypeOK
  BY DEF IInv, CaseInv, CaseTypes, RowShape, EntryInv, TypeOK, Sight
<1>. QED BY Invariant, <1>1, PTL

\* What a run or the review of a field stores as the entry of a case is one that
\* validate_submission takes, whatever runs, decisions and reviews (those that name
\* no field included, which store no entry) came before.
THEOREM EntriesAreValid == Spec => []SubmissionIsValid
<1>1. IInv => SubmissionIsValid
  BY DEF IInv, EntryInv, SubmissionIsValid
<1>. QED BY Invariant, <1>1, PTL

\* Until a person decides the category, the state that the workspace computes from
\* the row of an open case and the entry that was stored with its run agree.
THEOREM LabelsAgree == Spec => []LabelAgreesWithExport
<1>. QED BY Invariant, Labelled, PTL

\* No comparison is a match unless both documents were read and agree in
\* every field no reviewer has named, whatever a model answered: values the local
\* rules see differ are never cleared by it.
THEOREM NothingIsClearedFalsely == Spec => []NoFalseClear
<1>. QED BY Invariant, Cleared, PTL

LEMMA ReviewIsLocal ==
  ASSUME CaseInv, NEW f \in Fields, ReviewField(f)
  PROVE  /\ touched' = touched \cup {f}
         /\ \A g \in Fields \ {f} :
              /\ \A s \in Sides : case'.obs[s][g] = case.obs[s][g]
              /\ g \in Mismatches(case'.obs) <=> g \in Mismatches(case.obs)
<1>1. PICK obs \in Sight :
        /\ Review(f, obs)
        /\ \A s \in Sides, g \in Fields \ {f} : obs[s][g] = case.obs[s][g]
  BY ReviewSees DEF SeenAfter
<1>2. touched' = touched \cup {f} /\ case'.obs = obs
  BY <1>1 DEF Review, Compared
<1>3. \A g \in Fields \ {f}, s \in Sides : case'.obs[s][g] = case.obs[s][g]
  BY <1>1, <1>2
<1>4. ASSUME NEW g \in Fields \ {f}
      PROVE  g \in Mismatches(case'.obs) <=> g \in Mismatches(case.obs)
  <2>1. case'.obs["si"][g] = case.obs["si"][g] /\ case'.obs["bl"][g] = case.obs["bl"][g]
    BY <1>3 DEF Sides
  <2>. QED BY <2>1 DEF Mismatches, Unresolved
<1>. QED BY <1>2, <1>3, <1>4

\* A review of a field changes no observation and no finding of a field that does
\* not refer to it, those of earlier reviews included.
THEOREM ReviewsTouchOneField == Spec => ReviewsStayLocal
<1>. DEFINE Local ==
       touched' # {} =>
         \E f \in touched' :
           /\ touched' = touched \cup {f}
           /\ \A g \in Fields \ {f} : ~Refers(g, f) =>
                /\ \A s \in Sides : case'.obs[s][g] = case.obs[s][g]
                /\ g \in Mismatches(case'.obs) <=> g \in Mismatches(case.obs)
<1>1. ASSUME IInv, [Next]_vars PROVE [Local]_vars
  <2>0. CaseInv
    BY <1>1 DEF IInv
  <2>1. CASE UNCHANGED vars
    BY <2>1
  <2>2. CASE \E category \in Categories : Decide(category)
    BY <2>2 DEF Decide
  <2>3. CASE \E category \in Categories, settled \in BOOLEAN : Run(category, settled)
    BY <2>3 DEF Run
  <2>4. ASSUME NEW f \in Fields, ReviewField(f) PROVE Local
    <3>1. f \in touched'
      BY <2>0, <2>4, ReviewIsLocal
    <3>. QED BY <2>0, <2>4, <3>1, ReviewIsLocal
  <2>5. CASE ReviewCase
    <3>1. \A s \in Sides, g \in Fields : case'.obs[s][g] = case.obs[s][g]
      BY <2>0, <2>5 DEF ReviewCase, CaseInv, RowShape, Case
    <3>2. case'.obs = case.obs
      BY <2>0, <2>5 DEF ReviewCase, CaseInv, RowShape, Case
    <3>3. touched' = touched /\ touched \subseteq Fields
      BY <2>0, <2>5 DEF ReviewCase, CaseInv, CaseTypes
    <3>. QED BY <3>1, <3>2, <3>3
  <2>. QED BY <1>1, <2>1, <2>2, <2>3, <2>4, <2>5 DEF Next
<1>2. Spec => [][Local]_vars
  BY Invariant, <1>1, PTL DEF Spec
<1>. QED BY <1>2 DEF ReviewsStayLocal
=============================================================================
