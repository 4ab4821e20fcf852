------------------------------ MODULE Gateway ------------------------------
(***************************************************************************)
(* How a run of ClearDraft reads one message: the deterministic rules, the *)
(* language model behind HTTP, and a person, in this order                 *)
(* (src/cleardraft/gateway.py, the calls of providers.py, _process_one and *)
(* the provider part of verify_case in pipeline.py).                       *)
(*                                                                         *)
(* The messages of a run are read by threads that share nothing, so one    *)
(* message is enough. Confidences are percentages.                         *)
(***************************************************************************)
EXTENDS Integers, FiniteSets, Sequences

CONSTANTS
  Categories,          (* the email categories                              *)
  Comparison,          (* the one whose documents are compared              *)
  NoCategory,          (* no runner-up                                      *)
  NoAnswer,            (* the model has not answered                        *)
  Confidences,         (* what the rules may score                          *)
  MaxAlternatives,     (* bound: the categories a model keeps open          *)
  HasProvider,         (* mode live_ai                                      *)
  ReviewBelow,         (* CLASSIFICATION_CONFIDENCE_THRESHOLD of core.py    *)
  LocalAccept, ModelAccept, ConflictFloor,
  HedgeCeiling, AlternativePenalty, UnverifiedCeiling  (* GatewayPolicy     *)

ASSUME GatewayAssumption ==
  /\ Comparison \in Categories /\ NoCategory \notin Categories
  /\ Confidences \subseteq 0..100
  /\ MaxAlternatives \in Nat
  /\ HasProvider \in BOOLEAN
  /\ {ReviewBelow, LocalAccept, ModelAccept, ConflictFloor} \subseteq 0..100
  /\ {HedgeCeiling, AlternativePenalty, UnverifiedCeiling} \subseteq 0..100
  /\ HedgeCeiling < ModelAccept /\ UnverifiedCeiling < ModelAccept

VARIABLES
  reading,    \* what the rules read
  unread,     \* the documents with a field left open that the model was not asked about
  step,       \* what the thread is doing
  call,       \* the request to the provider that is on its way
  answer,     \* the model's classification, when it passed validation
  decision,   \* the gateway's decision
  recovered,  \* the documents of which the model's extraction passed validation
  sent        \* history: the requests sent and what became of them
vars == <<reading, unread, step, call, answer, decision, recovered, sent>>

-----------------------------------------------------------------------------
Documents == {"si", "bl"}

\* The classifier names a runner-up only when it marks its reading for review.
Reading ==
  {r \in [category: Categories, confidence: Confidences, runnerUp: Categories \cup {NoCategory}] :
     r.runnerUp # NoCategory => r.runnerUp # r.category /\ r.confidence < ReviewBelow}

ForReview(r) == r.confidence < ReviewBelow

\* An answer that passed validate_classification: whether it asks for a review,
\* how many alternatives it keeps open, whether a quote of it was found.
Answer == [category: Categories, review: BOOLEAN,
           alternatives: 0..MaxAlternatives, verified: BOOLEAN]

ASSUME AnswerAssumption == NoAnswer \notin Answer

Purposes == {"classify"} \cup Documents
Prompts == {"ask", "repair"}
Outcomes == {"valid", "invalid", "malformed", "transient", "refused", "dropped"}

Call == [purpose: Purposes, prompt: Prompts, attempt: 1..2]

Ask(purpose) == [purpose |-> purpose, prompt |-> "ask", attempt |-> 1]

Decision == [disposition: {"NONE", "ACCEPTED", "HUMAN_REVIEW"}, tier: {"local_rules", "live_ai", "human"},
             category: Categories, options: SUBSET Categories]

Accepted(tier, category) ==
  [disposition |-> "ACCEPTED", tier |-> tier, category |-> category, options |-> {}]

\* The packet offers what the tiers concluded.
ForPerson(category, options) ==
  [disposition |-> "HUMAN_REVIEW", tier |-> "human", category |-> category,
   options |-> options \ {NoCategory}]

Undecided == [disposition |-> "NONE", tier |-> "local_rules",
              category |-> reading.category, options |-> {}]

Init ==
  /\ reading \in Reading
  /\ unread \in SUBSET Documents
  /\ step = "route"
  /\ call = Ask("classify")
  /\ answer = NoAnswer
  /\ decision = Undecided
  /\ recovered = {}
  /\ sent = <<>>

-----------------------------------------------------------------------------
(* The tiers.                                                              *)

\* route_escalation_unavailable
Unavailable == ForPerson(reading.category, {reading.category, reading.runnerUp})

\* score_model_response
AtMost(x, ceiling) == IF x < ceiling THEN x ELSE ceiling

MutantScore(a) ==
  LET asked == IF a.review THEN AtMost(100, HedgeCeiling) ELSE 100
      left == asked - AlternativePenalty * a.alternatives
  IN IF left < 0 THEN 0 ELSE left
Score(a) ==
  LET asked == IF a.review THEN AtMost(100, HedgeCeiling) ELSE 100
      left == asked - AlternativePenalty * a.alternatives
      seen == IF a.verified THEN left ELSE AtMost(left, UnverifiedCeiling)
  IN IF seen < 0 THEN 0 ELSE seen

\* route_model
MutantWeighed(a) ==
  IF /\ Score(a) >= ModelAccept
     /\ a.category = reading.category \/ reading.confidence < ConflictFloor
  THEN Accepted("live_ai", a.category)
  ELSE ForPerson(a.category, {reading.category, reading.runnerUp})
Weighed(a) ==
  IF /\ Score(a) >= ModelAccept
     /\ a.category = reading.category \/ reading.confidence < ConflictFloor
  THEN Accepted("live_ai", a.category)
  ELSE ForPerson(a.category, {reading.category, a.category})

Decide(d) ==
  /\ decision' = d
  /\ step' = "verify"

\* route_local, and who comes next.
RouteLocal ==
  /\ step = "route"
  /\ IF reading.confidence >= LocalAccept /\ ~ForReview(reading)
     THEN Decide(Accepted("local_rules", reading.category))
     ELSE IF HasProvider THEN step' = "calling" /\ UNCHANGED decision
     ELSE Decide(Unavailable)
  /\ UNCHANGED <<reading, unread, call, answer, recovered, sent>>

-----------------------------------------------------------------------------
(* chat_json sends a request up to twice, and classify_email and           *)
(* extract_fields ask once more when an answer does not fit the schema.    *)

\* What chat_json sends again: HTTP 429 and 5xx, an unreachable provider, a
\* timeout. A refusal (another HTTP error), a body or a content that is no
\* JSON, and a connection that breaks after the request raise at once.
MutantAgain(outcome) == call.attempt < 2 /\ outcome \in {"transient", "refused"}
Again(outcome) == call.attempt < 2 /\ outcome = "transient"

\* What the caller asks to repair: an object that fails validation.
Repairable(outcome) == call.prompt = "ask" /\ outcome = "invalid"

Sent(outcome) ==
  sent' = Append(sent, [purpose |-> call.purpose, prompt |-> call.prompt, outcome |-> outcome])

Resend(outcome) ==
  /\ step = "calling"
  /\ Again(outcome)
  /\ Sent(outcome)
  /\ call' = [call EXCEPT !.attempt = @ + 1]
  /\ UNCHANGED <<reading, unread, step, answer, decision, recovered>>

Repair(outcome) ==
  /\ step = "calling"
  /\ Repairable(outcome)
  /\ Sent(outcome)
  /\ call' = [call EXCEPT !.prompt = "repair", !.attempt = 1]
  /\ UNCHANGED <<reading, unread, step, answer, decision, recovered>>

\* The call raises: a person gets the message, or the document stays as it is.
CallFails(outcome) ==
  /\ step = "calling"
  /\ outcome # "valid" /\ ~Again(outcome) /\ ~Repairable(outcome)
  /\ Sent(outcome)
  /\ IF call.purpose = "classify" THEN Decide(Unavailable)
     ELSE step' = "verify" /\ UNCHANGED decision
  /\ UNCHANGED <<reading, unread, call, answer, recovered>>

Classified(a) ==
  /\ step = "calling" /\ call.purpose = "classify"
  /\ Sent("valid")
  /\ answer' = a
  /\ Decide(Weighed(a))
  /\ UNCHANGED <<reading, unread, call, recovered>>

Extracted ==
  /\ step = "calling" /\ call.purpose # "classify"
  /\ Sent("valid")
  /\ recovered' = recovered \cup {call.purpose}
  /\ step' = "verify"
  /\ UNCHANGED <<reading, unread, call, answer, decision>>

-----------------------------------------------------------------------------
(* verify_case: with a model, the SI and then the draft BL are read again  *)
(* where the rules left a field open, also under a provisional category.   *)

ToRead == IF HasProvider /\ decision.category = Comparison THEN unread ELSE {}

Extract(d) ==
  /\ step = "verify"
  /\ d \in ToRead /\ (d = "bl" => "si" \notin ToRead)
  /\ unread' = unread \ {d}
  /\ step' = "calling"
  /\ call' = Ask(d)
  /\ UNCHANGED <<reading, answer, decision, recovered, sent>>

\* The result is compared and saved.
MutantSave ==
  /\ step = "verify"
  /\ unread = {}
  /\ step' = "saved"
  /\ UNCHANGED <<reading, unread, call, answer, decision, recovered, sent>>

Save ==
  /\ step = "verify"
  /\ ToRead = {}
  /\ step' = "saved"
  /\ UNCHANGED <<reading, unread, call, answer, decision, recovered, sent>>

-----------------------------------------------------------------------------
Request ==
  \/ \E outcome \in Outcomes : Resend(outcome) \/ Repair(outcome) \/ CallFails(outcome)
  \/ \E a \in Answer : Classified(a)
  \/ Extracted

Next == RouteLocal \/ Request \/ (\E d \in Documents : Extract(d)) \/ Save

Spec == Init /\ [][Next]_vars

\* The thread goes on, and a request ends: every socket operation has a timeout.
FairSpec == Spec /\ WF_vars(Next)

-----------------------------------------------------------------------------
(* What holds.                                                             *)

\* Every variable keeps its type.
TypeOK ==
  /\ reading \in Reading
  /\ unread \subseteq Documents
  /\ step \in {"route", "calling", "verify", "saved"}
  /\ call \in Call
  /\ answer \in Answer \cup {NoAnswer}
  /\ decision \in Decision
  /\ recovered \subseteq Documents
  /\ sent \in Seq([purpose: Purposes, prompt: Prompts, outcome: Outcomes])

\* "A case is never closed on an answer that no tier was confident in"
\* (gateway.py): what is accepted was read by confident rules, or by a model that
\* does not hedge, has a quote in the message and keeps few categories open,
\* against rules that agree or have nothing to say.
AcceptedIsEarned ==
  decision.disposition = "ACCEPTED" =>
    \/ /\ reading.confidence >= LocalAccept /\ ~ForReview(reading)
       /\ decision.category = reading.category
    \/ /\ answer # NoAnswer
       /\ decision.category = answer.category
       /\ ~answer.review /\ answer.verified
       /\ AlternativePenalty * answer.alternatives <= 100 - ModelAccept
       /\ answer.category = reading.category \/ reading.confidence < ConflictFloor

\* A message that waits for a person offers every category that a tier named as
\* its own, the one it was provisionally verified under included: whatever the
\* requests to the provider came to, its arbitration can confirm what is shown.
PersonCanChoose ==
  decision.disposition = "HUMAN_REVIEW" =>
    /\ decision.category \in decision.options
    /\ reading.category \in decision.options
    /\ answer # NoAnswer => answer.category \in decision.options

\* A request is sent again only for a transient failure and only once, and a
\* repair is asked for at most once, after an answer that failed validation.
ResendsAreJustified ==
  \A i, j \in DOMAIN sent : i < j /\ sent[i].purpose = sent[j].purpose =>
    IF sent[i].prompt = sent[j].prompt
    THEN sent[i].outcome = "transient" /\ j = i + 1
    ELSE /\ sent[i].prompt = "ask"
         /\ sent[j - 1].outcome = "invalid" \/ sent[j - 1].prompt = "repair"

\* A message is always saved in the end, with a decision: no answer of the
\* provider keeps a thread, or loops it.
EveryMessageIsDecided == <>(step = "saved" /\ decision.disposition # "NONE")

-----------------------------------------------------------------------------
(* What the documentation says and the code does not do.                   *)

\* "at most two extraction attempts per unresolved document stage, one
\* schema-repair attempt within that budget" (IMPLEMENTATION_PLAN.md).
ExtractionWithinBudget ==
  \A d \in Documents : Cardinality({i \in DOMAIN sent : sent[i].purpose = d}) <= 2

\* "The caller's repair prompt (a different request) is the intended recovery
\* path" for malformed output (providers.py).
MalformedIsRepaired ==
  step = "saved" =>
    \A i \in DOMAIN sent : sent[i].prompt = "ask" /\ sent[i].outcome = "malformed" =>
      \E j \in DOMAIN sent : sent[j].purpose = sent[i].purpose /\ sent[j].prompt = "repair"

\* "One bounded retry ... for failures that are plausibly transient (rate limit,
\* server error, timeout/connection drop)" (providers.py).
DropIsRetried ==
  step = "saved" =>
    \A i \in DOMAIN sent : sent[i].outcome = "dropped" =>
      \E j \in DOMAIN sent : j # i /\ sent[j].purpose = sent[i].purpose
                             /\ sent[j].prompt = sent[i].prompt
=============================================================================
