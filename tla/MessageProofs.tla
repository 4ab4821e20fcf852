------------------------ MODULE MessageProofs -----------------------------
(***************************************************************************)
(* Proofs about what is made of a message: how it is classified, and what  *)
(* its attachments are found to say. First the gateway (Gateway):          *)
(* what it decides and what it sends, for every policy whose ceilings lie  *)
(* below its accept threshold, every set of categories and whatever the    *)
(* provider answers. Then the local rules (Classify): the scores of any    *)
(* patterns and categories, for any text. Last the attachments (Reading,   *)
(* Challenges): roles, fields, comparisons and challenges, for documents   *)
(* of any words, numbers, spellings and addresses.                         *)
(***************************************************************************)
EXTENDS Gateway, Classify, Challenges, FiniteSetTheorems, WellFoundedInduction, TLAPS

\* Before the gateway has decided there is neither an answer nor a decision.
Early == step = "route" \/ (step = "calling" /\ call.purpose = "classify")

NothingYet == Early => answer = NoAnswer /\ decision.disposition = "NONE"

IInv == TypeOK /\ NothingYet /\ AcceptedIsEarned /\ PersonCanChoose

\* What was sent so far for the purpose of the call: an attempt like the one that
\* is under way only if this is the second one and that was the request before it
\* and a transient failure; another one only before a repair, which answers an
\* invalid answer or follows its own first attempt.
Asked(p) == {i \in DOMAIN sent : sent[i].purpose = p}

CallIsNext ==
  \A i \in Asked(call.purpose) :
    IF sent[i].prompt = call.prompt
    THEN call.attempt = 2 /\ i = Len(sent) /\ sent[i].outcome = "transient"
    ELSE /\ call.prompt = "repair"
         /\ sent[Len(sent)].outcome = "invalid" \/ sent[Len(sent)].prompt = "repair"

\* The purposes that are still to come were never asked for.
FreshPurposes ==
  /\ call.purpose \notin unread /\ \A d \in unread : Asked(d) = {}
  /\ step \in {"route", "calling"} => CallIsNext

SInv == TypeOK /\ FreshPurposes /\ ResendsAreJustified

-----------------------------------------------------------------------------
(* Types of what the actions build.                                        *)

LEMMA ReadingType ==
  ASSUME NEW r \in Reading
  PROVE  /\ r.category \in Categories
         /\ r.confidence \in 0..100
         /\ r.runnerUp \in Categories \cup {NoCategory}
  BY GatewayAssumption DEF Reading

LEMMA AcceptedType ==
  ASSUME NEW tier \in {"local_rules", "live_ai", "human"}, NEW category \in Categories
  PROVE  /\ Accepted(tier, category) \in Decision
         /\ Accepted(tier, category).disposition = "ACCEPTED"
         /\ Accepted(tier, category).category = category
  BY DEF Accepted, Decision

LEMMA ForPersonType ==
  ASSUME NEW category \in Categories,
         NEW options \in SUBSET (Categories \cup {NoCategory})
  PROVE  /\ ForPerson(category, options) \in Decision
         /\ ForPerson(category, options).disposition = "HUMAN_REVIEW"
         /\ ForPerson(category, options).category = category
         /\ ForPerson(category, options).options = options \ {NoCategory}
  BY DEF ForPerson, Decision

LEMMA UnavailableType ==
  ASSUME reading \in Reading
  PROVE  /\ Unavailable \in Decision
         /\ Unavailable.disposition = "HUMAN_REVIEW"
         /\ Unavailable.category = reading.category
         /\ reading.category \in Unavailable.options
<1>1. /\ reading.category \in Categories
      /\ {reading.category, reading.runnerUp} \in SUBSET (Categories \cup {NoCategory})
  BY ReadingType
<1>2. reading.category # NoCategory
  BY <1>1, GatewayAssumption
<1>. QED BY <1>1, <1>2, ForPersonType DEF Unavailable

-----------------------------------------------------------------------------
(* A score at the accept threshold was earned: each of the ceilings alone  *)
(* keeps an answer below it, and alternatives are paid for one by one.     *)

LEMMA ScoreIsEarned ==
  ASSUME NEW a \in Answer, Score(a) >= ModelAccept
  PROVE  ~a.review /\ a.verified /\ AlternativePenalty * a.alternatives <= 100 - ModelAccept
<1>. DEFINE paid == AlternativePenalty * a.alternatives
<1>1. /\ HedgeCeiling \in Int /\ UnverifiedCeiling \in Int /\ ModelAccept \in Int
      /\ HedgeCeiling >= 0 /\ HedgeCeiling <= 100
      /\ HedgeCeiling < ModelAccept /\ UnverifiedCeiling < ModelAccept
  BY GatewayAssumption
<1>2. AlternativePenalty \in Nat /\ a.alternatives \in Nat /\ a.review \in BOOLEAN /\ a.verified \in BOOLEAN
  BY GatewayAssumption DEF Answer
<1>3. paid \in Nat
  BY <1>2
<1>4. ModelAccept > 0
  BY <1>1
<1>5. Score(a) = LET asked == IF a.review THEN AtMost(100, HedgeCeiling) ELSE 100
                     left == asked - paid
                     seen == IF a.verified THEN left ELSE AtMost(left, UnverifiedCeiling)
                 IN IF seen < 0 THEN 0 ELSE seen
  BY DEF Score
<1>. HIDE DEF paid
<1>6. ~a.review
  BY <1>1, <1>2, <1>3, <1>4, <1>5 DEF AtMost
<1>7. a.verified
  BY <1>1, <1>2, <1>3, <1>4, <1>5 DEF AtMost
<1>8. paid <= 100 - ModelAccept
  BY <1>1, <1>2, <1>3, <1>4, <1>5, <1>6, <1>7 DEF AtMost
<1>. QED BY <1>6, <1>7, <1>8 DEF paid

-----------------------------------------------------------------------------
(* The invariant.                                                          *)

LEMMA Initially == Init => IInv
<1>. SUFFICES ASSUME Init PROVE IInv
  OBVIOUS
<1>1. Undecided \in Decision /\ Undecided.disposition = "NONE"
  BY ReadingType DEF Init, Undecided, Decision
<1>2. Ask("classify") \in Call
  BY DEF Ask, Call, Purposes, Prompts
<1>3. TypeOK
  BY <1>1, <1>2 DEF Init, TypeOK
<1>. QED BY <1>1, <1>3 DEF Init, IInv, NothingYet, AcceptedIsEarned, PersonCanChoose

\* A step that leaves answer and decision alone, once the gateway has decided or
\* before it decides.
LEMMA Untouched ==
  ASSUME IInv, TypeOK', reading' = reading, answer' = answer, decision' = decision,
         Early' => Early
  PROVE  IInv'
<1>1. NothingYet'
  BY DEF IInv, NothingYet
<1>2. AcceptedIsEarned'
  BY DEF IInv, AcceptedIsEarned, ForReview
<1>3. PersonCanChoose'
  BY DEF IInv, PersonCanChoose
<1>. QED BY <1>1, <1>2, <1>3 DEF IInv

\* A message that gets a person because there is no second opinion.
LEMMA GivenUp ==
  ASSUME IInv, TypeOK', reading' = reading, answer' = answer, Early, Decide(Unavailable)
  PROVE  IInv'
<1>1. answer = NoAnswer /\ reading \in Reading
  BY DEF IInv, NothingYet, TypeOK
<1>2. ~Early'
  BY DEF Decide, Early
<1>3. /\ decision'.disposition = "HUMAN_REVIEW"
      /\ decision'.category = reading.category
      /\ reading.category \in decision'.options
  BY <1>1, UnavailableType DEF Decide
<1>. QED BY <1>1, <1>2, <1>3 DEF IInv, NothingYet, AcceptedIsEarned, PersonCanChoose

\* The rules, who decide or pass on.
LEMMA RouteLocalInv == ASSUME IInv, RouteLocal PROVE IInv'
<1>. DEFINE confident == reading.confidence >= LocalAccept /\ ~ForReview(reading)
<1>1. Early /\ reading \in Reading /\ TypeOK
  BY DEF RouteLocal, Early, IInv, TypeOK
<1>2. CASE confident
  <2>1. Decide(Accepted("local_rules", reading.category))
    BY <1>2 DEF RouteLocal
  <2>2. /\ decision' \in Decision /\ decision'.disposition = "ACCEPTED"
        /\ decision'.category = reading.category
    BY <1>1, <2>1, ReadingType, AcceptedType DEF Decide
  <2>3. TypeOK'
    BY <1>1, <2>1, <2>2 DEF RouteLocal, TypeOK, Decide
  <2>4. ~Early'
    BY <2>1 DEF Decide, Early
  <2>5. AcceptedIsEarned'
    BY <1>2, <2>2 DEF RouteLocal, AcceptedIsEarned, ForReview
  <2>. QED BY <2>2, <2>3, <2>4, <2>5 DEF IInv, NothingYet, PersonCanChoose
<1>3. CASE ~confident /\ HasProvider
  <2>1. step' = "calling" /\ decision' = decision
    BY <1>3 DEF RouteLocal
  <2>2. TypeOK'
    BY <1>1, <2>1 DEF RouteLocal, TypeOK
  <2>. QED BY <1>1, <2>1, <2>2, Untouched DEF RouteLocal
<1>4. CASE ~confident /\ ~HasProvider
  <2>1. Decide(Unavailable)
    BY <1>4 DEF RouteLocal
  <2>2. TypeOK'
    BY <1>1, <2>1, UnavailableType DEF RouteLocal, TypeOK, Decide
  <2>. QED BY <1>1, <2>1, <2>2, GivenUp DEF RouteLocal
<1>. QED BY <1>2, <1>3, <1>4

LEMMA SentType ==
  ASSUME TypeOK, NEW outcome \in Outcomes, Sent(outcome)
  PROVE  sent' \in Seq([purpose: Purposes, prompt: Prompts, outcome: Outcomes])
<1>1. [purpose |-> call.purpose, prompt |-> call.prompt, outcome |-> outcome]
        \in [purpose: Purposes, prompt: Prompts, outcome: Outcomes]
  BY DEF TypeOK, Call
<1>. QED BY <1>1 DEF TypeOK, Sent

\* A request that is sent again or repaired changes the call only.
LEMMA ResendInv == ASSUME IInv, NEW outcome \in Outcomes, Resend(outcome) PROVE IInv'
<1>1. TypeOK /\ call \in Call /\ call.attempt < 2
  BY DEF IInv, TypeOK, Resend, Again
<1>2. call' \in Call /\ call'.purpose = call.purpose
  BY <1>1 DEF Resend, Call
<1>3. sent' \in Seq([purpose: Purposes, prompt: Prompts, outcome: Outcomes])
  BY <1>1, SentType DEF Resend
<1>4. TypeOK'
  BY <1>1, <1>2, <1>3 DEF Resend, TypeOK
<1>. QED BY <1>2, <1>4, Untouched DEF Resend, Early

LEMMA RepairInv == ASSUME IInv, NEW outcome \in Outcomes, Repair(outcome) PROVE IInv'
<1>1. TypeOK /\ call \in Call
  BY DEF IInv, TypeOK
<1>2. call' \in Call /\ call'.purpose = call.purpose
  <2>1. "repair" \in Prompts /\ 1 \in 1..2
    BY DEF Prompts
  <2>2. call' = [call EXCEPT !.prompt = "repair", !.attempt = 1]
    BY DEF Repair
  <2>. QED BY <1>1, <2>1, <2>2 DEF Call
<1>3. sent' \in Seq([purpose: Purposes, prompt: Prompts, outcome: Outcomes])
  BY <1>1, SentType DEF Repair
<1>4. TypeOK'
  BY <1>1, <1>2, <1>3 DEF Repair, TypeOK
<1>. QED BY <1>2, <1>4, Untouched DEF Repair, Early

LEMMA CallFailsInv == ASSUME IInv, NEW outcome \in Outcomes, CallFails(outcome) PROVE IInv'
<1>1. TypeOK /\ reading \in Reading /\ step = "calling"
  BY DEF IInv, TypeOK, CallFails
<1>2. sent' \in Seq([purpose: Purposes, prompt: Prompts, outcome: Outcomes])
  BY <1>1, SentType DEF CallFails
<1>3. CASE call.purpose = "classify"
  <2>1. Early /\ Decide(Unavailable)
    BY <1>1, <1>3 DEF Early, CallFails
  <2>2. TypeOK'
    BY <1>1, <1>2, <2>1, UnavailableType DEF CallFails, TypeOK, Decide
  <2>. QED BY <2>1, <2>2, GivenUp DEF CallFails
<1>4. CASE call.purpose # "classify"
  <2>1. step' = "verify" /\ decision' = decision
    BY <1>4 DEF CallFails
  <2>2. TypeOK'
    BY <1>1, <1>2, <2>1 DEF CallFails, TypeOK
  <2>. QED BY <2>1, <2>2, Untouched DEF CallFails, Early
<1>. QED BY <1>3, <1>4

\* The model has answered: what is accepted was earned, and a person is offered
\* both readings.
LEMMA ClassifiedInv == ASSUME IInv, NEW a \in Answer, Classified(a) PROVE IInv'
<1>. DEFINE good == /\ Score(a) >= ModelAccept
                    /\ a.category = reading.category \/ reading.confidence < ConflictFloor
<1>1. TypeOK /\ reading \in Reading /\ reading.category \in Categories /\ a.category \in Categories
  BY ReadingType DEF IInv, TypeOK, Answer
<1>2. reading.category # NoCategory /\ a.category # NoCategory
  BY <1>1, GatewayAssumption
<1>3. sent' \in Seq([purpose: Purposes, prompt: Prompts, outcome: Outcomes])
  BY <1>1, SentType DEF Classified, Outcomes
<1>4. ~Early' /\ answer' = a /\ reading' = reading /\ decision' = Weighed(a)
  BY DEF Classified, Decide, Early
<1>5. CASE good
  <2>1. /\ decision' \in Decision /\ decision'.disposition = "ACCEPTED"
        /\ decision'.category = a.category
    BY <1>1, <1>4, <1>5, AcceptedType DEF Weighed
  <2>2. TypeOK'
    BY <1>1, <1>3, <1>4, <2>1 DEF Classified, Decide, TypeOK
  <2>3. ~a.review /\ a.verified /\ AlternativePenalty * a.alternatives <= 100 - ModelAccept
    BY <1>5, ScoreIsEarned
  <2>4. AcceptedIsEarned'
    BY <1>4, <1>5, <2>1, <2>3, AnswerAssumption DEF AcceptedIsEarned
  <2>. QED BY <1>4, <2>1, <2>2, <2>4 DEF IInv, NothingYet, PersonCanChoose
<1>6. CASE ~good
  <2>1. decision' = ForPerson(a.category, {reading.category, a.category})
    BY <1>4, <1>6 DEF Weighed
  <2>2. /\ decision' \in Decision /\ decision'.disposition = "HUMAN_REVIEW"
        /\ decision'.category = a.category
        /\ decision'.options = {reading.category, a.category} \ {NoCategory}
    BY <1>1, <2>1, ForPersonType
  <2>3. TypeOK'
    BY <1>1, <1>3, <1>4, <2>2 DEF Classified, Decide, TypeOK
  <2>4. PersonCanChoose'
    BY <1>2, <1>4, <2>2 DEF PersonCanChoose
  <2>. QED BY <1>4, <2>2, <2>3, <2>4 DEF IInv, NothingYet, AcceptedIsEarned
<1>. QED BY <1>5, <1>6

LEMMA ExtractedInv == ASSUME IInv, Extracted PROVE IInv'
<1>1. TypeOK /\ call \in Call
  BY DEF IInv, TypeOK
<1>2. call.purpose \in Documents
  BY <1>1 DEF Extracted, Call, Purposes
<1>3. sent' \in Seq([purpose: Purposes, prompt: Prompts, outcome: Outcomes])
  BY <1>1, SentType DEF Extracted, Outcomes
<1>4. TypeOK'
  BY <1>1, <1>2, <1>3 DEF Extracted, TypeOK
<1>. QED BY <1>4, Untouched DEF Extracted, Early

LEMMA ExtractInv == ASSUME IInv, NEW d \in Documents, Extract(d) PROVE IInv'
<1>1. TypeOK
  BY DEF IInv
<1>2. call' \in Call /\ call'.purpose # "classify"
  BY DEF Extract, Ask, Call, Purposes, Prompts, Documents
<1>3. TypeOK'
  BY <1>1, <1>2 DEF Extract, TypeOK
<1>. QED BY <1>2, <1>3, Untouched DEF Extract, Early

LEMMA SaveInv == ASSUME IInv, Save PROVE IInv'
<1>1. TypeOK'
  BY DEF IInv, Save, TypeOK
<1>. QED BY <1>1, Untouched DEF Save, Early

LEMMA Inductive == IInv /\ [Next]_vars => IInv'
<1>. SUFFICES ASSUME IInv, [Next]_vars PROVE IInv'
  OBVIOUS
<1>1. CASE RouteLocal
  BY <1>1, RouteLocalInv
<1>2. CASE Request
  BY <1>2, ResendInv, RepairInv, CallFailsInv, ClassifiedInv, ExtractedInv DEF Request
<1>3. CASE \E d \in Documents : Extract(d)
  BY <1>3, ExtractInv
<1>4. CASE Save
  BY <1>4, SaveInv
<1>5. CASE UNCHANGED vars
  <2>1. TypeOK'
    BY <1>5 DEF IInv, TypeOK, vars
  <2>. QED BY <1>5, <2>1, Untouched DEF vars, Early
<1>. QED BY <1>1, <1>2, <1>3, <1>4, <1>5 DEF Next

THEOREM Invariant == Spec => []IInv
<1>. QED BY Initially, Inductive, PTL DEF Spec

\* Every variable of the gateway keeps its type: in particular no request is a
\* third attempt, and a decision names categories only.
THEOREM TypeCorrect == Spec => []TypeOK
<1>1. IInv => TypeOK
  BY DEF IInv
<1>. QED BY Invariant, <1>1, PTL

\* No message is closed on an answer that no tier was confident in, for every
\* policy whose hedge and unverified ceilings lie below model_accept.
THEOREM NothingIsGuessed == Spec => []AcceptedIsEarned
<1>1. IInv => AcceptedIsEarned
  BY DEF IInv
<1>. QED BY Invariant, <1>1, PTL

\* The arbitration of a message offers what each tier concluded, whatever the
\* provider answered.
THEOREM PeopleCanChoose == Spec => []PersonCanChoose
<1>1. IInv => PersonCanChoose
  BY DEF IInv
<1>. QED BY Invariant, <1>1, PTL

-----------------------------------------------------------------------------
(* The requests of one purpose: each was justified by the one before it.   *)

LEMMA SentAdds ==
  ASSUME TypeOK, NEW outcome \in Outcomes, Sent(outcome)
  PROVE  /\ Len(sent) \in Nat /\ DOMAIN sent = 1..Len(sent)
         /\ Len(sent') = Len(sent) + 1 /\ DOMAIN sent' = 1..(Len(sent) + 1)
         /\ \A i \in DOMAIN sent : sent'[i] = sent[i]
         /\ sent'[Len(sent) + 1] = [purpose |-> call.purpose, prompt |-> call.prompt, outcome |-> outcome]
<1>1. /\ sent \in Seq([purpose: Purposes, prompt: Prompts, outcome: Outcomes])
      /\ sent' \in Seq([purpose: Purposes, prompt: Prompts, outcome: Outcomes])
  BY SentType DEF TypeOK
<1>. QED BY <1>1 DEF Sent

\* An entry is one that was there before, or the last.
LEMMA SentSplit ==
  ASSUME TypeOK, NEW outcome \in Outcomes, Sent(outcome), NEW j \in DOMAIN sent'
  PROVE  \/ j \in DOMAIN sent /\ sent'[j] = sent[j]
         \/ /\ j = Len(sent') /\ j = Len(sent) + 1
            /\ sent'[j].purpose = call.purpose
            /\ sent'[j].prompt = call.prompt
            /\ sent'[j].outcome = outcome
<1>. DEFINE n == Len(sent)
<1>1. /\ n \in Nat /\ DOMAIN sent = 1..n /\ Len(sent') = n + 1 /\ DOMAIN sent' = 1..(n + 1)
      /\ \A i \in DOMAIN sent : sent'[i] = sent[i]
      /\ sent'[n + 1] = [purpose |-> call.purpose, prompt |-> call.prompt, outcome |-> outcome]
  BY SentAdds
<1>. HIDE DEF n
<1>2. j \in 1..n \/ j = n + 1
  BY <1>1
<1>3. QED BY <1>1, <1>2 DEF n

LEMMA SentLast ==
  ASSUME TypeOK, NEW outcome \in Outcomes, Sent(outcome)
  PROVE  /\ sent'[Len(sent')].purpose = call.purpose
         /\ sent'[Len(sent')].prompt = call.prompt
         /\ sent'[Len(sent')].outcome = outcome
<1>. DEFINE n == Len(sent)
<1>1. /\ n \in Nat /\ Len(sent') = n + 1
      /\ sent'[n + 1] = [purpose |-> call.purpose, prompt |-> call.prompt, outcome |-> outcome]
  BY SentAdds
<1>. HIDE DEF n
<1>2. QED BY <1>1

\* The request that is on its way joins the others.
LEMMA SentIsJustified ==
  ASSUME SInv, CallIsNext, NEW outcome \in Outcomes, Sent(outcome)
  PROVE  ResendsAreJustified'
<1>. DEFINE n == Len(sent)
<1>1. TypeOK /\ ResendsAreJustified /\ call \in Call
  BY DEF SInv, TypeOK
<1>2. \A i \in DOMAIN sent : sent[i].prompt \in Prompts
  <2>. DEFINE R == [purpose: Purposes, prompt: Prompts, outcome: Outcomes]
  <2>1. sent \in Seq(R)
    BY <1>1 DEF TypeOK
  <2>. HIDE DEF R
  <2>2. \A i \in DOMAIN sent : sent[i] \in R
    BY <2>1
  <2>. QED BY <2>2 DEF R
<1>. SUFFICES ASSUME NEW i \in DOMAIN sent', NEW j \in DOMAIN sent', i < j,
                     sent'[i].purpose = sent'[j].purpose
              PROVE  IF sent'[i].prompt = sent'[j].prompt
                     THEN sent'[i].outcome = "transient" /\ j = i + 1
                     ELSE /\ sent'[i].prompt = "ask"
                          /\ sent'[j - 1].outcome = "invalid" \/ sent'[j - 1].prompt = "repair"
  BY DEF ResendsAreJustified
<1>3. i \in DOMAIN sent /\ sent'[i] = sent[i] /\ j - 1 \in DOMAIN sent /\ sent'[j - 1] = sent[j - 1]
  <2>1. /\ n \in Nat /\ DOMAIN sent = 1..n /\ DOMAIN sent' = 1..(n + 1)
        /\ \A k \in DOMAIN sent : sent'[k] = sent[k]
    BY <1>1, SentAdds
  <2>. HIDE DEF n
  <2>2. i \in 1..n /\ j - 1 \in 1..n
    BY <2>1
  <2>. QED BY <2>1, <2>2
<1>4. CASE j \in DOMAIN sent /\ sent'[j] = sent[j]
  BY <1>1, <1>3, <1>4 DEF ResendsAreJustified
<1>5. CASE /\ j = n + 1
           /\ sent'[j].purpose = call.purpose /\ sent'[j].prompt = call.prompt
  <2>1. sent'[j].purpose = call.purpose /\ sent'[j].prompt = call.prompt /\ j - 1 = n
    <3>1. n \in Nat
      BY <1>1, SentAdds
    <3>. HIDE DEF n
    <3>. QED BY <1>5, <3>1
  <2>2. i \in Asked(call.purpose)
    BY <1>3, <2>1 DEF Asked
  <2>3. CASE sent[i].prompt = call.prompt
    BY <1>3, <1>5, <2>1, <2>2, <2>3 DEF CallIsNext
  <2>4. CASE sent[i].prompt # call.prompt
    BY <1>2, <1>3, <2>1, <2>2, <2>4 DEF CallIsNext, Prompts
  <2>. QED BY <2>3, <2>4
<1>. QED BY <1>1, <1>4, <1>5, SentSplit

LEMMA SentKeepsFresh ==
  ASSUME SInv, NEW outcome \in Outcomes, Sent(outcome), unread' = unread
  PROVE  \A d \in unread' : Asked(d)' = {}
<1>1. TypeOK /\ call.purpose \notin unread /\ \A d \in unread : Asked(d) = {}
  BY DEF SInv, FreshPurposes
<1>. SUFFICES ASSUME NEW d \in unread, NEW i \in DOMAIN sent', sent'[i].purpose = d
              PROVE  FALSE
  BY DEF Asked
<1>2. i \notin DOMAIN sent \/ sent'[i] # sent[i]
  BY <1>1 DEF Asked
<1>. QED BY <1>1, <1>2, SentSplit

\* A request that ends its stage: nothing is under way any more.
LEMMA Ended ==
  ASSUME SInv, TypeOK', step = "calling", NEW outcome \in Outcomes, Sent(outcome),
         step' = "verify", call' = call, unread' = unread
  PROVE  SInv'
<1>1. CallIsNext /\ call.purpose \notin unread
  BY DEF SInv, FreshPurposes
<1>2. FreshPurposes'
  BY <1>1, SentKeepsFresh DEF FreshPurposes
<1>. QED BY <1>1, <1>2, SentIsJustified DEF SInv

\* A step that sends nothing and leaves the call alone.
LEMMA Quiet ==
  ASSUME SInv, TypeOK', sent' = sent, call' = call, unread' = unread,
         step' \in {"route", "calling"} => step \in {"route", "calling"}
  PROVE  SInv'
<1>1. FreshPurposes'
  BY DEF SInv, FreshPurposes, Asked, CallIsNext
<1>2. ResendsAreJustified'
  BY DEF SInv, ResendsAreJustified
<1>. QED BY <1>1, <1>2 DEF SInv

\* The second attempt: the one before it is the only one with this prompt.
LEMMA ResendJustified == ASSUME SInv, TypeOK', NEW outcome \in Outcomes, Resend(outcome) PROVE SInv'
<1>1. TypeOK /\ CallIsNext /\ call \in Call /\ call.purpose \notin unread
  BY DEF SInv, FreshPurposes, TypeOK, Resend
<1>2. call.attempt = 1 /\ outcome = "transient" /\ Sent(outcome)
  BY <1>1 DEF Resend, Again, Call
<1>3. call'.purpose = call.purpose /\ call'.prompt = call.prompt /\ call'.attempt = 2
  BY <1>1, <1>2 DEF Resend, Call
<1>4. CallIsNext'
  <2>. SUFFICES ASSUME NEW i \in DOMAIN sent', sent'[i].purpose = call.purpose
                PROVE  IF sent'[i].prompt = call.prompt
                       THEN i = Len(sent') /\ sent'[i].outcome = "transient"
                       ELSE call.prompt = "repair" /\ sent'[Len(sent')].prompt = "repair"
    BY <1>3 DEF CallIsNext, Asked
  <2>1. CASE i \in DOMAIN sent /\ sent'[i] = sent[i]
    <3>1. i \in Asked(call.purpose)
      BY <2>1 DEF Asked
    <3>2. sent[i].prompt # call.prompt /\ call.prompt = "repair"
      BY <1>1, <1>2, <3>1 DEF CallIsNext
    <3>. QED BY <1>1, <1>2, <2>1, <3>2, SentLast
  <2>2. CASE i = Len(sent') /\ sent'[i].prompt = call.prompt /\ sent'[i].outcome = outcome
    BY <1>2, <2>2
  <2>. QED BY <1>1, <1>2, <2>1, <2>2, SentSplit
<1>5. FreshPurposes'
  BY <1>1, <1>2, <1>3, <1>4, SentKeepsFresh DEF FreshPurposes, Resend
<1>. QED BY <1>1, <1>2, <1>5, SentIsJustified DEF SInv

\* The repair: whatever was asked before it was the first question.
LEMMA RepairJustified == ASSUME SInv, TypeOK', NEW outcome \in Outcomes, Repair(outcome) PROVE SInv'
<1>1. TypeOK /\ CallIsNext /\ call \in Call /\ call.purpose \notin unread
  BY DEF SInv, FreshPurposes, TypeOK, Repair
<1>2. call.prompt = "ask" /\ outcome = "invalid" /\ Sent(outcome)
  BY DEF Repair, Repairable
<1>3. call'.purpose = call.purpose /\ call'.prompt = "repair" /\ call'.attempt = 1
  BY <1>1 DEF Repair, Call
<1>4. CallIsNext'
  <2>. SUFFICES ASSUME NEW i \in DOMAIN sent', sent'[i].purpose = call.purpose
                PROVE  sent'[i].prompt # "repair" /\ sent'[Len(sent')].outcome = "invalid"
    BY <1>3 DEF CallIsNext, Asked
  <2>1. CASE i \in DOMAIN sent /\ sent'[i] = sent[i]
    <3>1. i \in Asked(call.purpose)
      BY <2>1 DEF Asked
    <3>2. sent[i].prompt = "ask"
      BY <1>1, <1>2, <3>1 DEF CallIsNext
    <3>. QED BY <1>1, <1>2, <2>1, <3>2, SentLast
  <2>2. CASE i = Len(sent') /\ sent'[i].prompt = call.prompt /\ sent'[i].outcome = outcome
    BY <1>2, <2>2
  <2>. QED BY <1>1, <1>2, <2>1, <2>2, SentSplit
<1>5. FreshPurposes'
  BY <1>1, <1>2, <1>3, <1>4, SentKeepsFresh DEF FreshPurposes, Repair
<1>. QED BY <1>1, <1>2, <1>5, SentIsJustified DEF SInv

\* A document is taken up once, so nothing was asked about it.
LEMMA ExtractJustified == ASSUME SInv, TypeOK', NEW d \in Documents, Extract(d) PROVE SInv'
<1>1. d \in unread /\ unread' = unread \ {d} /\ sent' = sent
  BY DEF Extract, ToRead
<1>2. call'.purpose = d
  BY DEF Extract, Ask
<1>3. Asked(d)' = {} /\ \A e \in unread' : Asked(e)' = {}
  BY <1>1 DEF SInv, FreshPurposes, Asked
<1>4. FreshPurposes'
  BY <1>1, <1>2, <1>3 DEF FreshPurposes, CallIsNext
<1>5. ResendsAreJustified'
  BY <1>1 DEF SInv, ResendsAreJustified
<1>. QED BY <1>4, <1>5 DEF SInv

LEMMA InitiallyJustified == Init => SInv
<1>. SUFFICES ASSUME Init PROVE SInv
  OBVIOUS
<1>1. TypeOK
  BY Initially DEF IInv
<1>2. call.purpose = "classify" /\ sent = <<>> /\ unread \subseteq Documents
  BY DEF Init, Ask
<1>3. \A p : Asked(p) = {}
  BY <1>2 DEF Asked
<1>4. FreshPurposes
  BY <1>2, <1>3 DEF FreshPurposes, CallIsNext, Documents
<1>5. ResendsAreJustified
  BY <1>2 DEF ResendsAreJustified
<1>. QED BY <1>1, <1>4, <1>5 DEF SInv

LEMMA RequestsJustified == SInv /\ TypeOK' /\ [Next]_vars => SInv'
<1>. SUFFICES ASSUME SInv, TypeOK', [Next]_vars PROVE SInv'
  OBVIOUS
<1>1. CASE RouteLocal
  BY <1>1, Quiet DEF RouteLocal
<1>2. ASSUME NEW outcome \in Outcomes, CallFails(outcome) PROVE SInv'
  BY <1>2, Ended DEF CallFails, Decide
<1>3. ASSUME NEW a \in Answer, Classified(a) PROVE SInv'
  BY <1>3, Ended DEF Classified, Decide, Outcomes
<1>4. CASE Extracted
  BY <1>4, Ended DEF Extracted, Outcomes
<1>5. CASE Request
  BY <1>2, <1>3, <1>4, <1>5, ResendJustified, RepairJustified DEF Request
<1>6. CASE \E d \in Documents : Extract(d)
  BY <1>6, ExtractJustified
<1>7. CASE Save
  BY <1>7, Quiet DEF Save
<1>8. CASE UNCHANGED vars
  BY <1>8, Quiet DEF vars
<1>. QED BY <1>1, <1>5, <1>6, <1>7, <1>8 DEF Next

\* For every provider: a request is repeated once at most and only after a
\* transient failure, a repair is asked for once at most and only after an
\* invalid answer, and no document and no message is taken up a second time.
THEOREM ResendsHold == Spec => []ResendsAreJustified
<1>1. SInv => ResendsAreJustified
  BY DEF SInv
<1>. QED BY InitiallyJustified, RequestsJustified, TypeCorrect, <1>1, PTL DEF Spec

-----------------------------------------------------------------------------
(* Sums over finite sets of signals.                                       *)

\* The community modules add up a set by taking one element after the other, by a
\* recursive function on its subsets; that there is one is shown here.
Pick(s) == CHOOSE x \in s : TRUE
Added(g, D, i) == [s \in D |-> IF s = {} THEN 0 ELSE g[Pick(s)] + i[s \ {Pick(s)}]]

LEMMA LeastNumber ==
  ASSUME NEW T \in SUBSET Nat, T # {}
  PROVE  \E x \in T : \A y \in T : x <= y
<1> DEFINE R == OpToRel(<, Nat)
<1>1. IsWellFoundedOn(R, Nat)
  BY NatLessThanWellFounded
<1>2. \A x, y \in Nat : x < y => <<x, y>> \in R
  BY DEF OpToRel
<1> HIDE DEF R
<1>3. PICK x \in T : \A y \in T : ~(<<y, x>> \in R)
  BY <1>1, WFMin
<1>4. \A y \in T : ~(y < x)
  BY <1>2, <1>3
<1>5. \A y \in T : x <= y
  BY <1>4
<1>6. QED
  BY <1>5

\* A property of all subsets that holds if it holds of the smaller ones.
LEMMA SmallestSubset ==
  ASSUME NEW S, IsFiniteSet(S), NEW B \in SUBSET (SUBSET S), B # {}
  PROVE  \E T \in B : \A U \in B : ~(U \subseteq T /\ U # T)
<1> DEFINE N == {Cardinality(T) : T \in B}
<1>1. \A T \in SUBSET S : IsFiniteSet(T) /\ Cardinality(T) \in Nat
  BY FS_Subset, FS_CardinalityType
<1>2. N \in SUBSET Nat /\ N # {}
  BY <1>1
<1>3. PICK n \in N : \A m \in N : n <= m
  <2> HIDE DEF N
  <2>1. QED
    BY <1>2, LeastNumber
<1>4. PICK T \in B : n = Cardinality(T)
  BY <1>3
<1>5. ASSUME NEW U \in B, U \subseteq T, U # T PROVE FALSE
  <2>1. Cardinality(U) <= Cardinality(T) /\ Cardinality(U) # Cardinality(T)
    BY <1>1, <1>5, FS_Subset
  <2>2. Cardinality(T) <= Cardinality(U)
    BY <1>3, <1>4
  <2>3. QED
    BY <1>1, <2>1, <2>2
<1>6. QED
  BY <1>5

LEMMA Picked == ASSUME NEW s, s # {} PROVE Pick(s) \in s
  BY DEF Pick

LEMMA SumIs ==
  ASSUME NEW g, NEW S, IsFiniteSet(S)
  PROVE  \E i : i = Added(g, SUBSET S, i) /\ SumFunctionOnSet(g, S) = i[S]
<1> DEFINE Small(n) == {s \in SUBSET S : Cardinality(s) <= n}
           Sums(n, i) == i = Added(g, Small(n), i)
           Bad == {n \in Nat : ~\E i : Sums(n, i)}
<1>1. \A s \in SUBSET S : IsFiniteSet(s) /\ Cardinality(s) \in Nat /\ Cardinality(s) <= Cardinality(S)
  BY FS_Subset, FS_CardinalityType
<1>2. \A n \in Nat : \A s \in Small(n + 1) : s # {} => s \ {Pick(s)} \in Small(n)
  BY <1>1, Picked, FS_RemoveElement
<1>3. Sums(0, [s \in Small(0) |-> 0])
  <2>1. \A s \in Small(0) : s = {}
    BY <1>1, FS_EmptySet
  <2>2. QED
    BY <2>1 DEF Added
<1>4. ASSUME NEW n \in Nat, NEW i, Sums(n, i) PROVE \E j : Sums(n + 1, j)
  <2> DEFINE j == Added(g, Small(n + 1), i)
  <2>1. ASSUME NEW s \in Small(n) PROVE j[s] = i[s]
    <3>1. s \in Small(n + 1)
      BY <1>1
    <3>2. i[s] = IF s = {} THEN 0 ELSE g[Pick(s)] + i[s \ {Pick(s)}]
      BY <1>4 DEF Added
    <3>3. j[s] = IF s = {} THEN 0 ELSE g[Pick(s)] + i[s \ {Pick(s)}]
      BY <3>1 DEF Added
    <3>4. QED
      BY <3>2, <3>3
  <2>2. ASSUME NEW s \in Small(n + 1)
        PROVE  (IF s = {} THEN 0 ELSE g[Pick(s)] + i[s \ {Pick(s)}])
               = (IF s = {} THEN 0 ELSE g[Pick(s)] + j[s \ {Pick(s)}])
    <3> HIDE DEF Small, j
    <3>1. QED
      BY <1>2, <2>1
  <2>3. j = Added(g, Small(n + 1), j)
    <3> HIDE DEF Small
    <3> DEFINE k == j
    <3>1. k = [s \in Small(n + 1) |-> IF s = {} THEN 0 ELSE g[Pick(s)] + i[s \ {Pick(s)}]]
      BY DEF Added
    <3>2. \A s \in Small(n + 1) :
            (IF s = {} THEN 0 ELSE g[Pick(s)] + i[s \ {Pick(s)}])
            = (IF s = {} THEN 0 ELSE g[Pick(s)] + k[s \ {Pick(s)}])
      BY <2>2
    <3> HIDE DEF k
    <3>3. k = Added(g, Small(n + 1), k)
      BY <3>1, <3>2 DEF Added
    <3>4. QED
      BY <3>3 DEF k
  <2>4. QED
    BY <2>3
<1>5. Bad = {}
  <2> SUFFICES ASSUME Bad # {} PROVE FALSE
    OBVIOUS
  <2>1. PICK n \in Bad : \A m \in Bad : n <= m
    <3>1. Bad \in SUBSET Nat
      OBVIOUS
    <3> HIDE DEF Bad
    <3>2. QED
      BY <3>1, LeastNumber
  <2>2. n # 0 /\ n \in Nat
    BY <1>3
  <2>3. n - 1 \in Nat /\ n - 1 \notin Bad /\ n = (n - 1) + 1
    <3>1. n - 1 \in Nat /\ ~(n <= n - 1) /\ n = (n - 1) + 1
      BY <2>2
    <3> HIDE DEF Bad
    <3>2. QED
      BY <2>1, <3>1
  <2> HIDE DEF Sums
  <2>4. QED
    BY <1>4, <2>1, <2>3
<1>6. Small(Cardinality(S)) = SUBSET S /\ Cardinality(S) \in Nat
  BY <1>1, FS_CardinalityType
<1>7. \E i : i = Added(g, SUBSET S, i)
  <2>1. PICK i : Sums(Cardinality(S), i)
    <3> HIDE DEF Sums
    <3>1. QED
      BY <1>5, <1>6
  <2>2. i = Added(g, SUBSET S, i)
    <3> HIDE DEF Small
    <3>1. QED
      BY <1>6, <2>1
  <2>3. QED
    BY <2>2
<1>8. SumFunctionOnSet(g, S) = (CHOOSE i : i = Added(g, SUBSET S, i))[S]
  BY DEF SumFunctionOnSet, FoldFunctionOnSet, MapThenFoldSet, Added, Pick
<1>9. QED
  BY <1>7, <1>8

\* What a sum is, by the elements: smaller terms have a smaller sum, and a sum with
\* one term that is not zero is that term.
LEMMA SumsCompare ==
  ASSUME NEW S, IsFiniteSet(S), NEW g, NEW h,
         \A x \in S : g[x] \in Nat /\ h[x] \in Nat /\ g[x] <= h[x]
  PROVE  /\ SumFunctionOnSet(g, S) \in Nat /\ SumFunctionOnSet(h, S) \in Nat
         /\ SumFunctionOnSet(g, S) <= SumFunctionOnSet(h, S)
<1>1. PICK i : i = Added(g, SUBSET S, i) /\ SumFunctionOnSet(g, S) = i[S]
  BY SumIs
<1>2. PICK j : j = Added(h, SUBSET S, j) /\ SumFunctionOnSet(h, S) = j[S]
  BY SumIs
<1> DEFINE Good(T) == i[T] \in Nat /\ j[T] \in Nat /\ i[T] <= j[T]
           B == {T \in SUBSET S : ~Good(T)}
<1>3. \A T \in SUBSET S : i[T] = IF T = {} THEN 0 ELSE g[Pick(T)] + i[T \ {Pick(T)}]
  BY <1>1 DEF Added
<1>4. \A T \in SUBSET S : j[T] = IF T = {} THEN 0 ELSE h[Pick(T)] + j[T \ {Pick(T)}]
  BY <1>2 DEF Added
<1>5. ASSUME NEW T \in B, \A U \in B : ~(U \subseteq T /\ U # T) PROVE FALSE
  <2>1. T # {}
    <3> SUFFICES ASSUME T = {} PROVE FALSE
      OBVIOUS
    <3>1. i[T] = 0 /\ j[T] = 0
      BY <1>3, <1>4
    <3>2. QED
      BY <3>1
  <2>2. Pick(T) \in T /\ Pick(T) \in S
    BY <2>1, Picked
  <2>3. Good(T \ {Pick(T)})
    BY <1>5, <2>2
  <2>4. /\ i[T] = g[Pick(T)] + i[T \ {Pick(T)}]
        /\ j[T] = h[Pick(T)] + j[T \ {Pick(T)}]
    BY <1>3, <1>4, <2>1
  <2>5. Good(T)
    BY <2>2, <2>3, <2>4
  <2>6. QED
    BY <2>5
<1>6. B = {}
  <2>1. B \in SUBSET (SUBSET S)
    OBVIOUS
  <2> HIDE DEF B
  <2>2. QED
    BY <1>5, <2>1, SmallestSubset
<1>7. Good(S)
  BY <1>6
<1>8. QED
  BY <1>1, <1>2, <1>7

LEMMA SumOfOne ==
  ASSUME NEW S, IsFiniteSet(S), NEW g, NEW e \in S, g[e] \in Nat,
         \A x \in S : x # e => g[x] = 0
  PROVE  SumFunctionOnSet(g, S) = g[e]
<1>1. PICK i : i = Added(g, SUBSET S, i) /\ SumFunctionOnSet(g, S) = i[S]
  BY SumIs
<1> DEFINE Good(T) == i[T] = IF e \in T THEN g[e] ELSE 0
           B == {T \in SUBSET S : ~Good(T)}
<1>2. \A T \in SUBSET S : i[T] = IF T = {} THEN 0 ELSE g[Pick(T)] + i[T \ {Pick(T)}]
  BY <1>1 DEF Added
<1>3. ASSUME NEW T \in B, \A U \in B : ~(U \subseteq T /\ U # T) PROVE FALSE
  <2>1. T # {}
    BY <1>2
  <2>2. Pick(T) \in T /\ Pick(T) \in S
    BY <2>1, Picked
  <2>3. Good(T \ {Pick(T)})
    BY <1>3, <2>2
  <2>4. Good(T)
    BY <1>2, <2>1, <2>2, <2>3
  <2>5. QED
    BY <2>4
<1>4. B = {}
  <2>1. B \in SUBSET (SUBSET S)
    OBVIOUS
  <2> HIDE DEF B
  <2>2. QED
    BY <1>3, <2>1, SmallestSubset
<1>5. QED
  BY <1>1, <1>4

\* A sum is at least each of its terms.
LEMMA SumAtLeast ==
  ASSUME NEW S, IsFiniteSet(S), NEW g, \A x \in S : g[x] \in Nat, NEW e \in S
  PROVE  g[e] <= SumFunctionOnSet(g, S)
<1> DEFINE h == [x \in S |-> IF x = e THEN g[e] ELSE 0]
<1>1. \A x \in S : h[x] \in Nat /\ h[x] <= g[x]
  OBVIOUS
<1>2. h[e] = g[e] /\ \A x \in S : x # e => h[x] = 0
  OBVIOUS
<1> HIDE DEF h
<1>3. SumFunctionOnSet(h, S) = g[e]
  BY <1>1, <1>2, SumOfOne
<1>4. QED
  BY <1>1, <1>3, SumsCompare

-----------------------------------------------------------------------------
(* The order of the categories, and the confidence.                        *)

Leads(score, c, d) == score[c] > score[d] \/ (score[c] = score[d] /\ Rank[c] <= Rank[d])

LEMMA SomeBest ==
  ASSUME NEW score \in [Labels -> Nat], NEW among \in SUBSET Labels, among # {}
  PROVE  \E c \in among : \A d \in among : Leads(score, c, d)
<1> DEFINE Led(T) == \E c \in T : \A d \in T : Leads(score, c, d)
           B == {T \in SUBSET Labels : T # {} /\ ~Led(T)}
<1>1. IsFiniteSet(Labels) /\ Rank \in [Labels -> Nat]
  BY ClassifyAssumption
<1>2. ASSUME NEW T \in B, \A U \in B : ~(U \subseteq T /\ U # T) PROVE FALSE
  <2>1. PICK x \in T : TRUE
    OBVIOUS
  <2>2. T \ {x} # {} => Led(T \ {x})
    <3>1. T \ {x} \in SUBSET Labels /\ T \ {x} \subseteq T /\ T \ {x} # T
      BY <2>1
    <3> HIDE DEF Led
    <3>2. QED
      BY <1>2, <3>1
  <2>3. CASE T = {x}
    <3>1. Leads(score, x, x)
      BY <1>1 DEF Leads
    <3>2. QED
      BY <2>3, <3>1
  <2>4. CASE Led(T \ {x})
    <3>1. PICK b \in T \ {x} : \A d \in T \ {x} : Leads(score, b, d)
      BY <2>4
    <3>2. /\ score[x] \in Nat /\ Rank[x] \in Nat /\ score[b] \in Nat /\ Rank[b] \in Nat
          /\ \A d \in T : score[d] \in Nat /\ Rank[d] \in Nat
      BY <1>1
    <3>3. Leads(score, b, x) \/ Leads(score, x, b)
      BY <3>2 DEF Leads
    <3>4. CASE Leads(score, b, x)
      BY <3>1, <3>4
    <3>5. CASE Leads(score, x, b)
      <4>1. \A d \in T \ {x} : Leads(score, x, d)
        BY <3>1, <3>2, <3>5 DEF Leads
      <4>2. Leads(score, x, x)
        BY <3>2 DEF Leads
      <4>3. QED
        BY <2>1, <4>1, <4>2
    <3>6. QED
      BY <3>3, <3>4, <3>5
  <2>5. QED
    BY <2>1, <2>2, <2>3, <2>4
<1>3. B = {}
  <2>1. B \in SUBSET (SUBSET Labels)
    OBVIOUS
  <2> HIDE DEF B
  <2>2. QED
    BY <1>1, <1>2, <2>1, SmallestSubset
<1>4. QED
  BY <1>3

\* The first in the order is the only one.
LEMMA BestIs ==
  ASSUME NEW score \in [Labels -> Nat], NEW among \in SUBSET Labels, among # {}
  PROVE  /\ Best(score, among) \in among
         /\ \A d \in among : Leads(score, Best(score, among), d) /\ score[d] <= score[Best(score, among)]
         /\ \A c \in among : (\A d \in among : Leads(score, c, d)) => c = Best(score, among)
<1> DEFINE b == Best(score, among)
<1>1. b \in among /\ \A d \in among : Leads(score, b, d)
  BY SomeBest DEF Best, Leads
<1> HIDE DEF b
<1>2. \A d \in among : /\ score[d] \in Nat /\ Rank[d] \in Nat
                       /\ \A c \in among : Rank[c] = Rank[d] => c = d
  BY ClassifyAssumption
<1>3. \A d \in among : score[d] <= score[b]
  BY <1>1, <1>2 DEF Leads
<1>4. ASSUME NEW c \in among, \A d \in among : Leads(score, c, d) PROVE c = b
  <2>1. Leads(score, c, b) /\ Leads(score, b, c)
    BY <1>1, <1>4
  <2>2. QED
    BY <1>1, <1>2, <2>1 DEF Leads
<1>5. QED
  BY <1>1, <1>3, <1>4 DEF b

LEMMA DivisionKeepsOrder ==
  ASSUME NEW a \in Nat, NEW b \in Nat, NEW k \in Nat \ {0}, a <= b
  PROVE  a \div k \in Nat /\ a \div k <= b \div k
<1> DEFINE p == a \div k
           q == b \div k
           x == a % k
           y == b % k
<1>1. p \in Nat /\ x \in 0..(k - 1) /\ a = k * p + x
  OBVIOUS
<1>2. q \in Nat /\ y \in 0..(k - 1) /\ b = k * q + y
  OBVIOUS
<1> HIDE DEF p, q, x, y
<1>3. ASSUME p > q PROVE FALSE
  <2>1. p >= q + 1
    BY <1>1, <1>2, <1>3
  <2>2. k * p >= k * (q + 1) /\ k * (q + 1) = k * q + k
    BY <1>1, <1>2, <2>1
  <2> DEFINE m == k * p
             n == k * q
  <2>3. m \in Nat /\ n \in Nat /\ m >= n + k /\ a = m + x /\ b = n + y
    BY <1>1, <1>2, <2>2
  <2> HIDE DEF m, n
  <2>4. QED
    BY <1>1, <1>2, <2>3
<1>4. p \in Nat /\ p <= q
  BY <1>1, <1>2, <1>3
<1>5. QED
  BY <1>4 DEF p, q

\* A stronger runner-up makes no answer surer.
LEMMA ConfidenceFalls ==
  ASSUME NEW t \in Nat, NEW r \in 0..t, NEW s \in r..t
  PROVE  /\ Confidence(t, r) \in Nat /\ Confidence(t, s) \in Nat
         /\ Confidence(t, s) <= Confidence(t, r)
<1>1. CASE t = 0
  BY <1>1 DEF Confidence
<1>2. CASE t # 0
  <2> DEFINE f == Full(t)
             d == Saturation * t
  <2>1. f \in Nat /\ d \in Nat \ {0}
    BY <1>2 DEF Full, Saturation
  <2>2. Confidence(t, r) = (2000 * (f * (t - r)) + d) \div (2 * d)
        /\ Confidence(t, s) = (2000 * (f * (t - s)) + d) \div (2 * d)
    BY <1>2 DEF Confidence
  <2> HIDE DEF f, d
  <2>3. t - r \in Nat /\ t - s \in Nat /\ t - s <= t - r
    OBVIOUS
  <2>4. f * (t - r) \in Nat /\ f * (t - s) \in Nat /\ f * (t - s) <= f * (t - r)
    BY <2>1, <2>3
  <2> DEFINE x == f * (t - r)
             y == f * (t - s)
  <2>5. x \in Nat /\ y \in Nat /\ y <= x
    BY <2>4
  <2> HIDE DEF x, y
  <2>6. 2000 * x + d \in Nat /\ 2000 * y + d \in Nat /\ 2000 * y + d <= 2000 * x + d
        /\ 2 * d \in Nat \ {0}
    BY <2>1, <2>5
  <2>7. /\ (2000 * x + d) \div (2 * d) \in Nat /\ (2000 * y + d) \div (2 * d) \in Nat
        /\ (2000 * y + d) \div (2 * d) <= (2000 * x + d) \div (2 * d)
    BY <2>6, DivisionKeepsOrder
  <2>8. QED
    BY <2>2, <2>7 DEF x, y
<1>3. QED
  BY <1>1, <1>2

\* Three quarters of a point for each half that a subject's signal weighs, against
\* a point and a half: never enough for 800 thousandths.
LEMMA SubjectAlone ==
  ASSUME NEW w \in 1..9, 6 <= 3 * w
  PROVE  Confidence(3 * w, 6) < 800
<1>1. w \in {2, 3, 4, 5, 6, 7, 8, 9}
  OBVIOUS
<1>2. QED
  BY <1>1 DEF Confidence, Full, Saturation

-----------------------------------------------------------------------------
(* Scores and what is decided on them.                                     *)

ClassifyInv ==
  /\ at \in [Signals -> SUBSET Places]
  /\ scores = Scored(at) /\ classification = Decided(scores)

PointsOf(placed) == [s \in Signals |-> Points(s, placed[s])]

LEMMA PointsAre ==
  ASSUME NEW s \in Signals, NEW P, NEW Q, P \subseteq Q
  PROVE  /\ Points(s, P) \in Nat /\ Points(s, Q) \in Nat /\ Points(s, P) <= Points(s, Q)
         /\ (IF "current_body" \in P THEN 2 * Weight[s] ELSE 0) \in Nat
         /\ (IF "current_body" \in P THEN 2 * Weight[s] ELSE 0) <= Points(s, P)
<1>1. Weight[s] \in 1..9
  BY ClassifyAssumption
<1>2. QED
  BY <1>1 DEF Points

LEMMA SignalsOf ==
  ASSUME NEW c \in Labels
  PROVE  IsFiniteSet(Of(c)) /\ Of(c) \subseteq Signals
  BY ClassifyAssumption, FS_Subset DEF Of

LEMMA ScoredIs ==
  ASSUME NEW placed
  PROVE  /\ Scored(placed) \in [Labels -> Nat]
         /\ \A c \in Labels : Scored(placed)[c] = SumFunctionOnSet(PointsOf(placed), Of(c))
<1>1. \A s \in Signals : PointsOf(placed)[s] \in Nat
  BY PointsAre DEF PointsOf
<1>2. \A c \in Labels : SumFunctionOnSet(PointsOf(placed), Of(c)) \in Nat
  BY <1>1, SignalsOf, SumsCompare
<1>3. Scored(placed) = [c \in Labels |-> SumFunctionOnSet(PointsOf(placed), Of(c))]
  BY DEF Scored, PointsOf
<1>4. QED
  BY <1>2, <1>3

LEMMA OtherLabels == ASSUME NEW c \in Labels PROVE Labels \ {c} # {}
  BY ClassifyAssumption

Winner(score) == Best(score, Labels)
RunnerUp(score) == Best(score, Labels \ {Winner(score)})

LEMMA DecidedIs ==
  ASSUME NEW score \in [Labels -> Nat]
  PROVE  /\ Winner(score) \in Labels /\ RunnerUp(score) \in Labels \ {Winner(score)}
         /\ score[Winner(score)] \in Nat /\ score[RunnerUp(score)] \in 0..score[Winner(score)]
         /\ \A c \in Labels : score[c] <= score[Winner(score)]
         /\ \A c \in Labels \ {Winner(score)} : score[c] <= score[RunnerUp(score)]
         /\ Decided(score).category = IF score[Winner(score)] = 0 THEN General ELSE Winner(score)
         /\ Decided(score).confidence = Confidence(score[Winner(score)], score[RunnerUp(score)])
         /\ Decided(score).escalated <=> Decided(score).confidence < 800
<1>1. Winner(score) \in Labels /\ \A c \in Labels : score[c] <= score[Winner(score)]
  BY BestIs, ClassifyAssumption DEF Winner
<1>2. /\ RunnerUp(score) \in Labels \ {Winner(score)}
      /\ \A c \in Labels \ {Winner(score)} : score[c] <= score[RunnerUp(score)]
  BY <1>1, BestIs, OtherLabels DEF RunnerUp
<1>3. /\ Decided(score).category = IF score[Winner(score)] = 0 THEN General ELSE Winner(score)
      /\ Decided(score).confidence = Confidence(score[Winner(score)], score[RunnerUp(score)])
      /\ Decided(score).escalated <=> Decided(score).confidence < 800
  BY DEF Decided, Winner, RunnerUp
<1>4. QED
  BY <1>1, <1>2, <1>3

-----------------------------------------------------------------------------
(* Subjects.                                                               *)

LEMMA SubjectsAlone == ClassifyInv => SubjectAloneOverrulesNoBody
<1> DEFINE heard == {s \in Of(classification.category) : at[s] # {}}
<1> SUFFICES ASSUME ClassifyInv, Cardinality(heard) = 1, \A s \in heard : at[s] = {"subject"},
                    NEW c \in Labels \ {classification.category}, Body(c) >= 6
             PROVE  classification.escalated
  BY DEF SubjectAloneOverrulesNoBody
<1> DEFINE top == Winner(scores)
           second == RunnerUp(scores)
<1>1. scores \in [Labels -> Nat]
  BY ScoredIs DEF ClassifyInv
<1>2. /\ top \in Labels /\ second \in Labels \ {top}
      /\ scores[top] \in Nat /\ scores[second] \in 0..scores[top]
      /\ \A d \in Labels \ {top} : scores[d] <= scores[second]
      /\ classification.category = IF scores[top] = 0 THEN General ELSE top
      /\ classification.confidence = Confidence(scores[top], scores[second])
      /\ classification.escalated <=> classification.confidence < 800
  BY <1>1, DecidedIs DEF ClassifyInv
<1> HIDE DEF top, second
<1>3. CASE scores[top] = 0
  BY <1>2, <1>3 DEF Confidence
<1>4. CASE scores[top] # 0
  <2>1. classification.category = top /\ c # top
    BY <1>2, <1>4
  <2>2. heard = {s \in Of(top) : at[s] # {}} /\ IsFiniteSet(Of(top)) /\ Of(top) \subseteq Signals
    BY <1>2, <2>1, SignalsOf
  <2>3. PICK s : heard = {s}
    <3>1. IsFiniteSet(heard)
      BY <2>2, FS_Subset
    <3> HIDE DEF heard
    <3>2. QED
      BY <3>1, FS_Singleton
  <2>4. s \in Of(top) /\ at[s] = {"subject"} /\ \A x \in Of(top) : x # s => at[x] = {}
    BY <2>2, <2>3
  <2>5. Weight[s] \in 1..9 /\ PointsOf(at)[s] = 3 * Weight[s]
        /\ \A x \in Of(top) : x # s => PointsOf(at)[x] = 0
    BY <2>2, <2>4, ClassifyAssumption DEF PointsOf, Points
  <2>6. scores[top] = 3 * Weight[s]
    <3>1. SumFunctionOnSet(PointsOf(at), Of(top)) = PointsOf(at)[s]
      BY <2>2, <2>4, <2>5, SumOfOne
    <3>2. QED
      BY <1>2, <2>5, <3>1, ScoredIs DEF ClassifyInv
  <2>7. scores[c] >= 6
    <3> DEFINE b == [x \in Signals |-> IF "current_body" \in at[x] THEN 2 * Weight[x] ELSE 0]
    <3>1. \A x \in Of(c) : b[x] \in Nat /\ PointsOf(at)[x] \in Nat /\ b[x] <= PointsOf(at)[x]
      BY SignalsOf, PointsAre DEF PointsOf
    <3>2. Body(c) = SumFunctionOnSet(b, Of(c))
      BY DEF Body
    <3> HIDE DEF b
    <3>3. Body(c) \in Nat /\ Body(c) <= SumFunctionOnSet(PointsOf(at), Of(c))
      BY <3>1, <3>2, SignalsOf, SumsCompare
    <3>4. scores[c] = SumFunctionOnSet(PointsOf(at), Of(c)) /\ scores[c] \in Nat
      BY <1>1, ScoredIs DEF ClassifyInv
    <3>5. QED
      BY <3>3, <3>4
  <2>8. 6 <= scores[second] /\ scores[second] <= scores[top]
    BY <1>1, <1>2, <2>1, <2>7
  <2>9. Confidence(scores[top], 6) < 800
    BY <2>5, <2>6, <2>8, <1>2, SubjectAlone
  <2>10. /\ Confidence(scores[top], scores[second]) \in Nat /\ Confidence(scores[top], 6) \in Nat
         /\ Confidence(scores[top], scores[second]) <= Confidence(scores[top], 6)
    <3>1. 6 \in 0..scores[top] /\ scores[second] \in 6..scores[top]
      BY <1>2, <2>8
    <3>2. QED
      BY <1>2, <3>1, ConfidenceFalls
  <2>11. QED
    BY <1>2, <2>9, <2>10
<1>5. QED
  BY <1>3, <1>4

-----------------------------------------------------------------------------
(* Evidence.                                                               *)

LEMMA ClassifyInitially == ClassifyInit => ClassifyInv
  BY DEF ClassifyInit, ClassifyInv

LEMMA MentionInv ==
  ASSUME ClassifyInv, NEW s \in Signals, NEW p \in Places, Mention(s, p)
  PROVE  ClassifyInv'
  BY DEF ClassifyInv, Mention, Reclassify

\* One more signal: its category gains and has points, the others keep theirs.
LEMMA MentionScores ==
  ASSUME ClassifyInv, NEW s \in Signals, NEW p \in Places, Mention(s, p)
  PROVE  /\ scores \in [Labels -> Nat] /\ scores' \in [Labels -> Nat]
         /\ \A c \in Labels : scores[c] <= scores'[c]
         /\ \A c \in Labels \ {CategoryOf[s]} : scores'[c] = scores[c]
         /\ scores'[CategoryOf[s]] > 0
<1>1. /\ at' = [at EXCEPT ![s] = @ \cup {p}] /\ at \in [Signals -> SUBSET Places]
      /\ scores = Scored(at) /\ scores' = Scored(at')
  BY DEF ClassifyInv, Mention, Reclassify
<1>2. scores \in [Labels -> Nat] /\ scores' \in [Labels -> Nat]
  BY <1>1, ScoredIs
<1>3. \A c \in Labels : /\ scores[c] = SumFunctionOnSet(PointsOf(at), Of(c))
                        /\ scores'[c] = SumFunctionOnSet(PointsOf(at'), Of(c))
  BY <1>1, ScoredIs
<1>4. ASSUME NEW x \in Signals
      PROVE  /\ PointsOf(at)[x] \in Nat /\ PointsOf(at')[x] \in Nat
             /\ PointsOf(at)[x] <= PointsOf(at')[x]
             /\ x # s => PointsOf(at)[x] = PointsOf(at')[x]
  <2>1. at[x] \subseteq at'[x] /\ (x # s => at'[x] = at[x])
    BY <1>1
  <2>2. PointsOf(at)[x] = Points(x, at[x]) /\ PointsOf(at')[x] = Points(x, at'[x])
    BY DEF PointsOf
  <2>3. QED
    BY <2>1, <2>2, PointsAre
<1>5. \A c \in Labels : scores[c] <= scores'[c]
  BY <1>3, <1>4, SignalsOf, SumsCompare
<1>6. ASSUME NEW c \in Labels \ {CategoryOf[s]} PROVE scores'[c] = scores[c]
  <2>1. \A x \in Of(c) : x \in Signals /\ x # s
    BY DEF Of
  <2>2. SumFunctionOnSet(PointsOf(at'), Of(c)) <= SumFunctionOnSet(PointsOf(at), Of(c))
    BY <1>4, <2>1, SignalsOf, SumsCompare
  <2>3. scores'[c] <= scores[c] /\ scores[c] <= scores'[c]
    BY <1>3, <1>5, <2>2
  <2>4. QED
    BY <1>2, <2>3
<1>7. scores'[CategoryOf[s]] > 0
  <2>1. s \in Of(CategoryOf[s]) /\ CategoryOf[s] \in Labels
    BY ClassifyAssumption DEF Of
  <2>2. PointsOf(at')[s] \in Nat \ {0}
    <3>1. Weight[s] \in 1..9 /\ PointsOf(at')[s] = Points(s, at'[s])
          /\ ("subject" \in at'[s] \/ "current_body" \in at'[s])
      BY <1>1, ClassifyAssumption DEF PointsOf, Places
    <3>2. QED
      BY <3>1 DEF Points
  <2>3. PointsOf(at')[s] <= SumFunctionOnSet(PointsOf(at'), Of(CategoryOf[s]))
    BY <1>4, <2>1, SignalsOf, SumAtLeast
  <2>4. scores'[CategoryOf[s]] \in Nat /\ PointsOf(at')[s] <= scores'[CategoryOf[s]]
    BY <1>2, <1>3, <2>1, <2>3
  <2>5. QED
    BY <2>2, <2>4
<1>8. QED
  BY <1>2, <1>5, <1>6, <1>7

\* A category that wins without having gained has won before, against a weaker
\* runner-up.
LEMMA WinnersStay ==
  ASSUME NEW score \in [Labels -> Nat], NEW more \in [Labels -> Nat], NEW g \in Labels,
         \A c \in Labels : score[c] <= more[c], \A c \in Labels \ {g} : more[c] = score[c],
         more[g] > 0, Winner(more) # g
  PROVE  /\ Winner(more) = Winner(score) /\ score[Winner(score)] > 0
         /\ Decided(more).category = Decided(score).category
         /\ Decided(more).confidence <= Decided(score).confidence
<1> DEFINE w == Winner(more)
<1>1. /\ w \in Labels \ {g} /\ \A d \in Labels : Leads(more, w, d) /\ more[d] <= more[w]
  BY BestIs, ClassifyAssumption DEF Winner
<1>2. \A d \in Labels : more[d] \in Nat /\ score[d] \in Nat /\ Rank[d] \in Nat
  BY ClassifyAssumption
<1>3. \A d \in Labels : Leads(score, w, d)
  <2> HIDE DEF w
  <2>1. QED
    BY <1>1, <1>2 DEF Leads
<1>4. w = Winner(score)
  <2> HIDE DEF w
  <2>1. QED
    BY <1>1, <1>3, BestIs, ClassifyAssumption DEF Winner
<1>5. more[w] = score[w] /\ more[w] > 0
  <2>1. more[g] <= more[w] /\ more[w] \in Nat /\ more[g] \in Nat
    BY <1>1, <1>2
  <2>2. QED
    BY <1>1, <2>1
<1> DEFINE r == RunnerUp(score)
           q == RunnerUp(more)
<1>6. /\ r \in Labels \ {w} /\ q \in Labels \ {w}
      /\ score[r] \in 0..score[w] /\ more[q] \in 0..score[w]
      /\ \A c \in Labels \ {w} : more[c] <= more[q]
  <2> HIDE DEF w, r, q
  <2>1. QED
    BY <1>4, <1>5, DecidedIs DEF w, r, q
<1>7. score[r] <= more[q]
  <2> HIDE DEF w, r, q
  <2>1. score[r] <= more[r] /\ more[r] <= more[q] /\ more[r] \in Nat /\ more[q] \in Nat
    BY <1>2, <1>6
  <2>2. QED
    BY <1>2, <1>6, <2>1
<1>8. /\ Decided(score).category = w /\ Decided(more).category = w
      /\ Decided(score).confidence = Confidence(score[w], score[r])
      /\ Decided(more).confidence = Confidence(score[w], more[q])
  BY <1>4, <1>5, DecidedIs
<1> HIDE DEF w, r, q
<1>9. Confidence(score[w], more[q]) <= Confidence(score[w], score[r])
  <2>1. more[q] \in score[r]..score[w] /\ score[w] \in Nat
    BY <1>1, <1>2, <1>6, <1>7
  <2>2. QED
    BY <1>6, <2>1, ConfidenceFalls
<1>10. QED
  BY <1>4, <1>5, <1>8, <1>9 DEF w

LEMMA Speaks ==
  ASSUME ClassifyInv, NEW s \in Signals, NEW p \in Places, Mention(s, p)
  PROVE  /\ classification'.category \in {classification.category, CategoryOf[s]}
         /\ classification'.category # CategoryOf[s] =>
              classification'.confidence <= classification.confidence
<1>1. /\ scores \in [Labels -> Nat] /\ scores' \in [Labels -> Nat] /\ CategoryOf[s] \in Labels
      /\ \A c \in Labels : scores[c] <= scores'[c]
      /\ \A c \in Labels \ {CategoryOf[s]} : scores'[c] = scores[c]
      /\ scores'[CategoryOf[s]] > 0
  BY MentionScores, ClassifyAssumption
<1>2. classification = Decided(scores) /\ classification' = Decided(scores')
  BY DEF ClassifyInv, Mention, Reclassify
<1>3. CASE Winner(scores') = CategoryOf[s]
  BY <1>1, <1>2, <1>3, DecidedIs
<1>4. CASE Winner(scores') # CategoryOf[s]
  BY <1>1, <1>2, <1>4, WinnersStay
<1>5. QED
  BY <1>3, <1>4

LEMMA ClassifyStep == ClassifyInv /\ [ClassifyNext]_classifyVars => ClassifyInv'
<1> SUFFICES ASSUME ClassifyInv, [ClassifyNext]_classifyVars PROVE ClassifyInv'
  OBVIOUS
<1>1. ASSUME NEW s \in Signals, NEW p \in Places, Mention(s, p) PROVE ClassifyInv'
  BY <1>1, MentionInv
<1>2. CASE UNCHANGED classifyVars
  BY <1>2 DEF classifyVars, ClassifyInv
<1>3. QED
  BY <1>1, <1>2 DEF ClassifyNext

THEOREM ScoresFollowTheText == ClassifySpec => []ClassifyInv
  BY ClassifyInitially, ClassifyStep, PTL DEF ClassifySpec

\* A subject line with one signal of any strength does not decide against a body
\* that speaks for something else with a point and a half, whatever the patterns
\* and their categories, if none weighs more than 4.5 points (core.py:249-251).
THEOREM SubjectsDoNotOverrule == ClassifySpec => []SubjectAloneOverrulesNoBody
  BY ScoresFollowTheText, SubjectsAlone, PTL

\* One more signal gives a message to its own category or to nobody else, and makes
\* no other answer surer (classify_email of core.py:361-395).
THEOREM EvidenceSpeaks == ClassifySpec => EvidenceSpeaksForItsCategory
<1> DEFINE Fair(s) ==
      at'[s] # at[s] =>
        /\ classification'.category \in {classification.category, CategoryOf[s]}
        /\ classification'.category # CategoryOf[s] =>
             classification'.confidence <= classification.confidence
<1>1. ClassifyInv /\ [ClassifyNext]_classifyVars => [\A s \in Signals : Fair(s)]_classifyVars
  <2> SUFFICES ASSUME ClassifyInv, NEW x \in Signals, NEW p \in Places, Mention(x, p),
                      NEW s \in Signals, at'[s] # at[s]
               PROVE  Fair(s)
    BY DEF ClassifyNext
  <2>1. s = x
    BY DEF ClassifyInv, Mention
  <2>2. QED
    BY <2>1, Speaks
<1>2. QED
  BY ScoresFollowTheText, <1>1, PTL DEF ClassifySpec, EvidenceSpeaksForItsCategory

\* Confidences are thousandths: the gain on the runner-up is at most the score.
LEMMA ConfidenceRange ==
  ASSUME NEW t \in Nat, NEW r \in 0..t
  PROVE  Confidence(t, r) \in 0..1000
<1>1. CASE t = 0
  BY <1>1 DEF Confidence
<1>2. CASE t # 0
  <2> DEFINE n == Full(t) * (t - r)
             d == Saturation * t
             q == (2000 * n + d) \div (2 * d)
             x == (2000 * n + d) % (2 * d)
  <2>1. Full(t) \in 0..20 /\ t - r \in 0..t /\ Saturation = 20 /\ d \in Nat \ {0}
    BY <1>2 DEF Full, Saturation
  <2>2. n \in Nat /\ n <= d
    BY <2>1
  <2>3. Confidence(t, r) = q
    BY <1>2 DEF Confidence
  <2> HIDE DEF n, d
  <2>4. q \in Nat /\ x \in Nat /\ 2000 * n + d = (2 * d) * q + x
    BY <2>1, <2>2
  <2> HIDE DEF q, x
  <2>5. ASSUME q >= 1001 PROVE FALSE
    <3>1. (2 * d) * q >= (2 * d) * 1001
      BY <2>1, <2>4, <2>5
    <3>2. QED
      BY <2>1, <2>2, <2>4, <3>1
  <2>6. QED
    BY <2>3, <2>4, <2>5
<1>3. QED
  BY <1>1, <1>2

\* What the rules read is what the gateway takes for a reading: a category, a
\* confidence, and other categories only where the message is escalated (a runner-up
\* is named only when the reading is marked for review, core.py:414-417).
Readable ==
  /\ classification.category \in Labels /\ classification.confidence \in 0..1000
  /\ classification.alternatives \subseteq Labels \ {classification.category}
  /\ classification.alternatives # {} => classification.escalated

THEOREM RulesGiveReadings == ClassifySpec => []Readable
<1>1. ClassifyInv => Readable
  <2> SUFFICES ASSUME ClassifyInv PROVE Readable
    OBVIOUS
  <2> DEFINE w == Winner(scores)
             r == RunnerUp(scores)
  <2>1. scores \in [Labels -> Nat] /\ classification = Decided(scores)
    BY ScoredIs DEF ClassifyInv
  <2>2. /\ w \in Labels /\ scores[w] \in Nat /\ scores[r] \in 0..scores[w]
        /\ \A c \in Labels : scores[c] \in Nat /\ scores[c] <= scores[w]
        /\ classification.category = IF scores[w] = 0 THEN General ELSE w
        /\ classification.confidence = Confidence(scores[w], scores[r])
        /\ classification.escalated <=> classification.confidence < 800
    BY <2>1, DecidedIs
  <2>3. classification.alternatives =
          IF classification.confidence < 800 THEN {c \in Labels \ {w} : scores[c] > 0} ELSE {}
    BY <2>1 DEF Decided, Winner
  <2> HIDE DEF w, r
  <2>4. classification.confidence \in 0..1000
    <3>1. Confidence(scores[w], scores[r]) \in 0..1000
      BY <2>2, ConfidenceRange
    <3>2. QED
      BY <2>2, <3>1
  <2>5. classification.category \in Labels
    BY <2>2, ClassifyAssumption
  <2>6. classification.alternatives \subseteq Labels \ {classification.category}
    BY <2>2, <2>3
  <2>7. QED
    BY <2>2, <2>3, <2>4, <2>5, <2>6 DEF Readable
<1>2. QED
  BY ScoresFollowTheText, <1>1, PTL

-----------------------------------------------------------------------------
(* Attachments: the readers, the fields and the comparison of Reading, for *)
(* documents of any words.                                                 *)

LEMMA FirstIs ==
  ASSUME NEW S \in SUBSET Nat, S # {}
  PROVE  First(S) \in S /\ \A j \in S : First(S) <= j
<1>1. \E i \in S : \A j \in S : i <= j
  BY LeastNumber
<1>2. QED
  BY <1>1, Zenon DEF First

LEMMA PositionsFinite ==
  ASSUME NEW n \in Nat, NEW places \in SUBSET (1..n)
  PROVE  IsFiniteSet(places) /\ Cardinality(places) \in Nat
<1>1. places \in SUBSET Nat /\ \A i \in places : i <= n
  OBVIOUS
<1>2. QED
  BY <1>1, FS_BoundedSetOfNaturals, FS_CardinalityType

Upto(places, i) == {j \in places : j <= i}

\* One position after the other is among those up to a bound.
LEMMA PositionsUpto ==
  ASSUME NEW n \in Nat, NEW places \in SUBSET (1..n)
  PROVE  /\ Upto(places, n) = places
         /\ Upto(places, 0) = {}
         /\ \A i \in (1..n) \ places : Upto(places, i) = Upto(places, i - 1)
         /\ \A i \in places : Upto(places, i) = Upto(places, i - 1) \cup {i}
<1>1. \A j \in places : j \in Nat /\ 1 <= j /\ j <= n
  OBVIOUS
<1>2. Upto(places, n) = places
  BY <1>1 DEF Upto
<1>3. Upto(places, 0) = {}
  <2>1. \A j \in places : ~(j <= 0)
    BY <1>1
  <2>2. QED
    BY <2>1 DEF Upto
<1>4. ASSUME NEW i \in 1..n, i \notin places
      PROVE  Upto(places, i) = Upto(places, i - 1)
  <2>1. \A j \in places : j <= i <=> j <= i - 1
    BY <1>1, <1>4
  <2>2. QED
    BY <2>1 DEF Upto
<1>5. ASSUME NEW i \in places
      PROVE  Upto(places, i) = Upto(places, i - 1) \cup {i}
  <2>1. \A j \in places : j <= i <=> j <= i - 1 \/ j = i
    BY <1>1
  <2>2. QED
    BY <2>1 DEF Upto
<1>6. QED
  BY <1>2, <1>3, <1>4, <1>5

\* Among the positions there is a k-th one, for every k up to their number.
LEMMA RankedIn ==
  ASSUME NEW n \in Nat, NEW places \in SUBSET (1..n), NEW k \in 1..Cardinality(places)
  PROVE  Ranked(places, k) \in places
<1> DEFINE R(i) == Cardinality(Upto(places, i))
           Big == {i \in 0..n : k <= R(i)}
<1>1. \A i \in 0..n : Upto(places, i) \in SUBSET (1..n) /\ IsFiniteSet(Upto(places, i)) /\ R(i) \in Nat
  <2>1. \A i \in 0..n : Upto(places, i) \in SUBSET (1..n)
    BY DEF Upto
  <2>2. QED
    BY <2>1, PositionsFinite
<1>2. Cardinality(places) \in Nat /\ k \in Nat /\ 1 <= k /\ k <= Cardinality(places)
  <2>1. Cardinality(places) \in Nat
    BY PositionsFinite
  <2>2. QED
    BY <2>1
<1>3. /\ Upto(places, n) = places /\ Upto(places, 0) = {}
      /\ \A i \in (1..n) \ places : Upto(places, i) = Upto(places, i - 1)
      /\ \A i \in places : Upto(places, i) = Upto(places, i - 1) \cup {i}
  BY PositionsUpto
<1>4. R(n) = Cardinality(places) /\ R(0) = 0
  BY <1>3, FS_EmptySet
<1>5. Big \in SUBSET Nat /\ n \in Big
  BY <1>2, <1>4
<1>6. PICK i \in Big : \A j \in Big : i <= j
  <2> HIDE DEF Big
  <2>1. QED
    BY <1>5, LeastNumber
<1>7. i \in 1..n /\ k <= R(i)
  <2>1. i \in 0..n /\ k <= R(i) /\ i # 0
    BY <1>2, <1>4, <1>6
  <2> HIDE DEF R
  <2>2. QED
    BY <2>1
<1>8. i - 1 \in 0..n /\ R(i - 1) \in Nat /\ R(i) \in Nat /\ R(i - 1) < k
  <2>1. i - 1 \in 0..n /\ i \in 0..n
    BY <1>7
  <2>2. i - 1 \notin Big
    <3>1. ~(i <= i - 1)
      BY <1>7
    <3>2. QED
      BY <1>6, <3>1
  <2>3. R(i - 1) \in Nat /\ R(i) \in Nat
    BY <1>1, <2>1
  <2>4. ~(k <= R(i - 1))
    BY <2>1, <2>2
  <2> HIDE DEF R
  <2>5. QED
    BY <1>2, <2>1, <2>3, <2>4
<1>9. i \in places
  <2> SUFFICES ASSUME i \notin places PROVE FALSE
    OBVIOUS
  <2>1. Upto(places, i) = Upto(places, i - 1)
    <3>1. i \in (1..n) \ places
      BY <1>7
    <3>2. QED
      BY <1>3, <3>1
  <2>2. R(i) = R(i - 1)
    BY <2>1
  <2> HIDE DEF R
  <2>3. QED
    BY <1>2, <1>7, <1>8, <2>2
<1>10. R(i) = k
  <2>1. Upto(places, i) = Upto(places, i - 1) \cup {i} /\ i \notin Upto(places, i - 1)
    <3>1. Upto(places, i) = Upto(places, i - 1) \cup {i}
      BY <1>3, <1>9
    <3>2. ~(i <= i - 1)
      BY <1>7
    <3>3. QED
      BY <3>1, <3>2 DEF Upto
  <2>2. IsFiniteSet(Upto(places, i - 1))
    BY <1>1, <1>8
  <2>3. R(i) = R(i - 1) + 1
    BY <2>1, <2>2, FS_AddElement
  <2> HIDE DEF R
  <2>4. QED
    BY <1>2, <1>7, <1>8, <2>3
<1>11. \E e \in places : Cardinality({j \in places : j <= e}) = k
  BY <1>9, <1>10 DEF Upto
<1>12. QED
  BY <1>11, Zenon DEF Ranked

LEMMA ChosenType ==
  ASSUME NEW S, NEW s \in Seq(S), NEW places \in SUBSET (DOMAIN s)
  PROVE  Chosen(s, places) \in Seq(S)
<1>1. Len(s) \in Nat /\ DOMAIN s = 1..Len(s)
  OBVIOUS
<1>2. Cardinality(places) \in Nat
  BY <1>1, PositionsFinite
<1>3. ASSUME NEW k \in 1..Cardinality(places) PROVE s[Ranked(places, k)] \in S
  <2>1. places \in SUBSET (1..Len(s))
    BY <1>1
  <2>2. Ranked(places, k) \in places
    BY <1>1, <2>1, RankedIn
  <2>3. QED
    BY <2>2
<1>4. QED
  BY <1>2, <1>3 DEF Chosen

LEMMA WithoutNone ==
  ASSUME NEW s, NEW x, ~Found(x, s)
  PROVE  Without(s, x) = s
<1>1. {i \in DOMAIN s : s[i] # x} = DOMAIN s
  BY DEF Found
<1>2. QED
  BY <1>1 DEF Without, Chosen

LEMMA SeenType == ASSUME NEW doc \in Document PROVE Seen(doc) \in Seq(Line)
<1>1. doc.lines \in Seq(Line) /\ doc.broken \in BOOLEAN
  BY DEF Document
<1>2. \A place : At(doc, place) \in Seq(Line)
  BY <1>1, ChosenType DEF At
<1>3. Chosen(doc.lines, {i \in DOMAIN doc.lines : doc.lines[i].place # "unseen"}) \in Seq(Line)
  BY <1>1, ChosenType
<1>4. At(doc, "body") \o At(doc, "table") \o At(doc, "margin") \in Seq(Line)
  BY <1>2
<1>5. <<>> \in Seq(Line)
  OBVIOUS
<1>6. CASE doc.broken
  BY <1>5, <1>6 DEF Seen
<1>7. CASE ~doc.broken /\ doc.format = "docx"
  BY <1>4, <1>7 DEF Seen
<1>8. CASE ~doc.broken /\ doc.format = "txt"
  BY <1>1, <1>8 DEF Seen
<1>9. CASE ~doc.broken /\ doc.format \notin {"txt", "docx"}
  BY <1>3, <1>9 DEF Seen
<1>10. QED
  BY <1>6, <1>7, <1>8, <1>9

-----------------------------------------------------------------------------
(* The values of the fields.                                               *)

LEMMA StrippedStays ==
  ASSUME NEW words \in Seq(STRING), words # <<>> => words[1] \notin Markers
  PROVE  Stripped(words) = words
  BY DEF Stripped, Markers

LEMMA FoldedType ==
  ASSUME NEW words \in Seq(STRING)
  PROVE  /\ DOMAIN Folded(words) = 1..Len(words) /\ Len(Folded(words)) = Len(words)
         /\ words = <<>> => Folded(words) = <<>>
  BY DEF Folded

LEMMA NothingWithout == ASSUME NEW x PROVE Without(<<>>, x) = <<>>
<1>1. ~Found(x, <<>>)
  BY DEF Found
<1>2. QED
  BY <1>1, WithoutNone

\* Text that has no marker and no bar is only folded.
LEMMA PlainText ==
  ASSUME NEW words \in Seq(STRING), words # <<>> => words[1] \notin Markers,
         ~Found(Bar, words), Text(words) # <<>>
  PROVE  Text(words) = Folded(words)
<1>1. Stripped(words) = words /\ Without(words, Bar) = words
  BY StrippedStays, WithoutNone
<1>2. QED
  BY <1>1 DEF Text

LEMMA UnaddressedWords ==
  ASSUME NEW words, Unaddressed(words)
  PROVE  \A i \in DOMAIN words : words[i] \notin Addresses /\ Folded(words)[i] \notin Addresses
<1>1. DOMAIN Folded(words) = DOMAIN words
  BY DEF Folded
<1>2. QED
  BY <1>1 DEF Unaddressed, ToSet

\* An organization is what stands before the bar, if no address does.
LEMMA OrganizationIs ==
  ASSUME NEW words \in Seq(STRING), Unaddressed(BeforeBar(words))
  PROVE  /\ BeforeBar(words) \in Seq(STRING) /\ ~Found(Bar, BeforeBar(words))
         /\ BeforeBar(words) # <<>> => BeforeBar(words)[1] = words[1]
         /\ Organization(words) = Folded(BeforeBar(words))
<1> DEFINE bars == {i \in DOMAIN words : words[i] = Bar}
           ends == {i \in DOMAIN words : words[i] = Bar \/ words[i] \in Addresses}
           p == First(bars)
<1>1. DOMAIN words = 1..Len(words) /\ Len(words) \in Nat
  OBVIOUS
<1>2. CASE ~Found(Bar, words)
  <2>1. BeforeBar(words) = words
    BY <1>2 DEF BeforeBar
  <2>2. ends = {}
    BY <1>2, <2>1, UnaddressedWords DEF Found
  <2>3. Organization(words) = Folded(words)
    BY <2>2 DEF Organization
  <2>4. QED
    BY <1>2, <2>1, <2>3
<1>3. CASE Found(Bar, words)
  <2>1. bars \in SUBSET Nat /\ bars # {}
    BY <1>1, <1>3 DEF Found
  <2>2. p \in bars /\ \A j \in bars : p <= j
    <3> HIDE DEF bars
    <3>1. QED
      BY <2>1, FirstIs
  <2> HIDE DEF p
  <2>3. p \in 1..Len(words) /\ words[p] = Bar
    BY <1>1, <2>2
  <2>4. BeforeBar(words) = SubSeq(words, 1, p - 1)
    BY <1>3 DEF BeforeBar, p
  <2> DEFINE w == SubSeq(words, 1, p - 1)
  <2>5. w \in Seq(STRING) /\ Len(w) = p - 1 /\ DOMAIN w = 1..p - 1 /\ \A i \in 1..p - 1 : w[i] = words[i]
    BY <1>1, <2>3
  <2>6. \A i \in 1..p - 1 : i \in DOMAIN words /\ words[i] # Bar
    <3>1. ASSUME NEW i \in 1..p - 1 PROVE i \in DOMAIN words /\ ~(p <= i)
      BY <1>1, <2>3, <3>1
    <3>2. QED
      BY <2>2, <3>1
  <2>7. ~Found(Bar, w)
    <3> HIDE DEF w
    <3>1. QED
      BY <2>5, <2>6 DEF Found
  <2>8. \A i \in 1..p - 1 : words[i] \notin Addresses
    <3>1. \A i \in DOMAIN w : w[i] \notin Addresses
      BY <2>4, UnaddressedWords
    <3> HIDE DEF w
    <3>2. QED
      BY <2>5, <3>1
  <2>9. ends \in SUBSET Nat /\ p \in ends
    BY <1>1, <2>3
  <2>10. First(ends) = p
    <3>1. First(ends) \in ends /\ First(ends) <= p
      <4> HIDE DEF ends
      <4>1. QED
        BY <2>9, FirstIs
    <3>2. First(ends) \notin 1..p - 1
      BY <2>6, <2>8, <3>1
    <3>3. First(ends) \in 1..Len(words)
      BY <1>1, <3>1
    <3> HIDE DEF ends
    <3>4. QED
      BY <2>3, <3>1, <3>2, <3>3
  <2>11. Organization(words) = Folded(w)
    BY <2>9, <2>10 DEF Organization
  <2>12. w # <<>> => w[1] = words[1]
    <3> HIDE DEF w
    <3>1. QED
      BY <2>3, <2>5
  <2>13. QED
    BY <2>4, <2>5, <2>7, <2>11, <2>12
<1>4. QED
  BY <1>2, <1>3

\* A sum over one position.
LEMMA TotalOfOne ==
  ASSUME NEW words, NEW i, Numeral[words[i]][1] \in Nat
  PROVE  Total(words, {i}) = Numeral[words[i]][1]
<1> DEFINE g == [j \in {i} |-> Numeral[words[j]][1]]
<1>1. IsFiniteSet({i})
  BY FS_Singleton
<1>2. g[i] \in Nat /\ \A j \in {i} : j # i => g[j] = 0
  OBVIOUS
<1>3. SumFunctionOnSet(g, {i}) = g[i]
  <2> HIDE DEF g
  <2>1. QED
    BY <1>1, <1>2, SumOfOne
<1>4. QED
  BY <1>3 DEF Total

LEMMA FirstOfOne == ASSUME NEW i \in Nat PROVE First({i}) = i
<1>1. First({i}) \in {i}
  BY FirstIs
<1>2. QED
  BY <1>1

\* The one number of a line.
LEMMA OneNumber ==
  ASSUME NEW words \in Seq(STRING), Cardinality(Numbers(words)) = 1
  PROVE  \E i \in DOMAIN words :
           /\ Numbers(words) = {i} /\ Sized(words) \in {{}, {i}}
           /\ First({i}) = i /\ Numeral[words[i]] \in Nat \X Nat
           /\ Total(words, {i}) = Numeral[words[i]][1]
<1>1. Numbers(words) \in SUBSET (1..Len(words)) /\ Len(words) \in Nat
  BY DEF Numbers
<1>2. IsFiniteSet(Numbers(words))
  BY <1>1, PositionsFinite
<1>3. PICK i : Numbers(words) = {i}
  BY <1>2, FS_Singleton
<1>4. i \in DOMAIN words /\ i \in Nat /\ words[i] \in DOMAIN Numeral
  BY <1>1, <1>3 DEF Numbers
<1>5. Numeral[words[i]] \in Nat \X Nat
  BY <1>4, ReadingAssumption
<1>6. Sized(words) \in {{}, {i}}
  BY <1>3 DEF Sized
<1>7. First({i}) = i
  BY <1>4, FirstOfOne
<1>8. Total(words, {i}) = Numeral[words[i]][1]
  BY <1>5, TotalOfOne
<1>9. QED
  BY <1>3, <1>4, <1>5, <1>6, <1>7, <1>8

LEMMA PartiesSay ==
  ASSUME NEW f \in PartyFields, NEW words \in Seq(STRING), Plainly(f, words), Canon(f, words) # <<>>
  PROVE  /\ Says(f, words) = Canon(f, words)
         /\ \A i \in DOMAIN Canon(f, words) : Canon(f, words)[i] \notin Addresses
         /\ \E n \in Nat : Len(Canon(f, words)) = n /\ DOMAIN Canon(f, words) = 1..n
<1> DEFINE w == BeforeBar(words)
<1>1. Unaddressed(w) /\ words[1] \notin Markers
  BY DEF Plainly
<1>2. /\ w \in Seq(STRING) /\ ~Found(Bar, w) /\ Organization(words) = Folded(w)
      /\ w # <<>> => w[1] = words[1]
  BY <1>1, OrganizationIs
<1>3. Canon(f, words) = Text(w) /\ Says(f, words) = Organization(words)
  BY DEF Canon, Says, PartyFields
<1> HIDE DEF w
<1>4. Text(w) = Folded(w)
  BY <1>1, <1>2, <1>3, PlainText
<1>5. \A i \in DOMAIN Folded(w) : Folded(w)[i] \notin Addresses
  <2>1. DOMAIN Folded(w) = DOMAIN w
    BY DEF Folded
  <2>2. QED
    BY <1>1, <2>1, UnaddressedWords
<1>6. Len(w) \in Nat /\ Len(Folded(w)) = Len(w) /\ DOMAIN Folded(w) = 1..Len(w)
  BY <1>2, FoldedType
<1>7. QED
  BY <1>2, <1>3, <1>4, <1>5, <1>6

LEMMA PortsSay ==
  ASSUME NEW words \in Seq(STRING), Plainly("port_of_loading", words), Canon("port_of_loading", words) # <<>>
  PROVE  Says("port_of_loading", words) = Canon("port_of_loading", words)
<1>1. ~Found(Bar, words) /\ Unaddressed(words) /\ words[1] \notin Markers
  BY DEF Plainly
<1>2. /\ Canon("port_of_loading", words) = Without(Text(words), "port")
      /\ Says("port_of_loading", words) = Without(Organization(words), "port")
  BY DEF Canon, Says, PartyFields
<1>3. Text(words) # <<>>
  BY <1>2, NothingWithout
<1>4. Text(words) = Folded(words)
  BY <1>1, <1>3, PlainText
<1>5. BeforeBar(words) = words
  BY <1>1 DEF BeforeBar
<1>6. Organization(words) = Folded(words)
  BY <1>1, <1>5, OrganizationIs
<1>7. QED
  BY <1>2, <1>4, <1>6

LEMMA CountsSay ==
  ASSUME NEW words \in Seq(STRING), Plainly("container_count", words)
  PROVE  Says("container_count", words) = Canon("container_count", words)
<1>1. Cardinality(Numbers(words)) = 1
  BY DEF Plainly
<1>2. PICK i \in DOMAIN words :
        /\ Numbers(words) = {i} /\ Sized(words) \in {{}, {i}}
        /\ First({i}) = i /\ Numeral[words[i]] \in Nat \X Nat
        /\ Total(words, {i}) = Numeral[words[i]][1]
  BY <1>1, OneNumber
<1>3. Canon("container_count", words) = <<Numeral[words[i]][1]>>
  BY <1>2 DEF Canon, PartyFields
<1>4. Says("container_count", words) = <<Total(words, {i})>>
  BY <1>2 DEF Says, PartyFields
<1>5. QED
  BY <1>2, <1>3, <1>4

\* A weight is what it is in kilograms; decimals are on the left only.
LEMMA WeightsSay ==
  ASSUME NEW words \in Seq(STRING), Plainly("gross_weight_kg", words), Canon("gross_weight_kg", words) # <<>>
  PROVE  Says("gross_weight_kg", words) = <<Canon("gross_weight_kg", words)[1]>>
<1>1. Cardinality(Numbers(words)) = 1
  BY DEF Plainly
<1>2. PICK i \in DOMAIN words :
        /\ Numbers(words) = {i} /\ Sized(words) \in {{}, {i}}
        /\ First({i}) = i /\ Numeral[words[i]] \in Nat \X Nat
        /\ Total(words, {i}) = Numeral[words[i]][1]
  BY <1>1, OneNumber
<1> DEFINE n == Numeral[words[i]]
<1>3. Canon("gross_weight_kg", words) = IF Found("t", words) THEN <<n[1] * 1000, n[2]>>
                                       ELSE IF Found("lb", words) THEN <<>> ELSE n
  <2>1. Numbers(words) # {} /\ First(Numbers(words)) = i
    BY <1>2
  <2>2. QED
    BY <2>1 DEF Canon, PartyFields
<1>4. Says("gross_weight_kg", words) =
        <<IF Found("t", words) THEN n[1] * 1000
          ELSE IF Found("lb", words) THEN (n[1] * 454) \div 1000 ELSE n[1]>>
  BY <1>2 DEF Says, PartyFields
<1>5. Found("t", words) \/ ~Found("lb", words)
  BY <1>3
<1> HIDE DEF n
<1>6. CASE Found("t", words)
  BY <1>3, <1>4, <1>6
<1>7. CASE ~Found("t", words) /\ ~Found("lb", words)
  BY <1>3, <1>4, <1>7
<1>8. QED
  BY <1>5, <1>6, <1>7

\* Names without addresses only agree if they are the same.
LEMMA NoExtension ==
  ASSUME NEW x, NEW y, NEW n \in Nat, Len(x) = n, DOMAIN x = 1..n, Len(y) \in Nat,
         \A i \in DOMAIN x : x[i] \notin Addresses
  PROVE  ~Extends(x, y)
  BY DEF Extends

\* What two plain lines agree on they mean alike, also if one of them stands for the
\* line of another party.
Alike(f, g) == g = f \/ (f = "notify_party" /\ g = "consignee")

LEMMA AgreementIsMeant ==
  ASSUME NEW f \in Fields, NEW g, NEW h, Alike(f, g), Alike(f, h),
         NEW v \in Seq(STRING), NEW w \in Seq(STRING),
         Plainly(g, v), Plainly(h, w), Canon(g, v) # <<>>, Canon(h, w) # <<>>,
         NEW x, NEW y, x.value = Canon(g, v), y.value = Canon(h, w), Agree(f, x, y)
  PROVE  Says(g, v) = Says(h, w)
<1>1. CASE f \in PartyFields
  <2>0. g \in PartyFields /\ h \in PartyFields
    BY <1>1 DEF Alike, PartyFields
  <2>1. Says(g, v) = Canon(g, v) /\ Says(h, w) = Canon(h, w)
    BY <2>0, PartiesSay
  <2>2. ~Extends(Canon(g, v), Canon(h, w)) /\ ~Extends(Canon(h, w), Canon(g, v))
    BY <2>0, PartiesSay, NoExtension
  <2>3. QED
    BY <2>1, <2>2 DEF Agree
<1>2. CASE f \notin PartyFields
  <2>0. g = f /\ h = f
    BY <1>2 DEF Alike, PartyFields
  <2>1. Canon(f, v) = Canon(f, w)
    BY <1>2, <2>0 DEF Agree
  <2>2. f \in {"port_of_loading", "container_count", "gross_weight_kg"}
    BY <1>2, ReadingAssumption
  <2>3. QED
    BY <2>0, <2>1, <2>2, PortsSay, CountsSay, WeightsSay
<1>3. QED
  BY <1>1, <1>2

-----------------------------------------------------------------------------
(* What is found in a field, and compared.                                 *)

PlainLines(lines, f) == \A i \in Labelled(lines, f) : Plainly(f, lines[i].words)

LEMMA LabelsSpeak ==
  ASSUME NEW lines \in Seq(Line), NEW f, PlainLines(lines, f), NEW i \in Labelled(lines, f)
  PROVE  /\ lines[i].words \in Seq(STRING) /\ lines[i].words # <<>>
         /\ Entry(lines, i) = lines[i].words
<1>1. lines[i] \in Line
  BY DEF Labelled
<1>2. lines[i].words \in Seq(STRING)
  BY <1>1 DEF Line
<1>3. lines[i].words # <<>> /\ lines[i].words[1] \notin Markers
  BY DEF PlainLines, Plainly
<1>4. Stripped(lines[i].words) = lines[i].words
  BY <1>2, <1>3, StrippedStays
<1>5. QED
  BY <1>2, <1>3, <1>4 DEF Entry

LEMMA EntriesAre ==
  ASSUME NEW lines \in Seq(Line), NEW f, PlainLines(lines, f)
  PROVE  /\ Entries(lines, f) = {lines[i].words : i \in Labelled(lines, f)}
         /\ IsFiniteSet(Entries(lines, f))
<1>1. \A i \in Labelled(lines, f) : Entry(lines, i) = lines[i].words /\ lines[i].words # <<>>
  BY LabelsSpeak
<1>2. Entries(lines, f) = {v \in {Entry(lines, i) : i \in Labelled(lines, f)} : v # <<>> \/ f \in PartyFields}
  BY DEF Entries, Labelled
<1>3. Entries(lines, f) = {lines[i].words : i \in Labelled(lines, f)}
  BY <1>1, <1>2
<1>4. Labelled(lines, f) \in SUBSET (1..Len(lines)) /\ Len(lines) \in Nat
  BY DEF Labelled
<1>5. IsFiniteSet(Labelled(lines, f))
  BY <1>4, PositionsFinite
<1>6. IsFiniteSet({lines[i].words : i \in Labelled(lines, f)})
  <2> DEFINE g == [i \in Labelled(lines, f) |-> lines[i].words]
             T == {lines[i].words : i \in Labelled(lines, f)}
  <2>1. g \in Surjection(Labelled(lines, f), T)
    BY DEF Surjection
  <2> HIDE DEF g, T
  <2>2. IsFiniteSet(T)
    BY <1>5, <2>1, FS_Surjection
  <2>3. QED
    BY <2>2 DEF T
<1>7. QED
  BY <1>3, <1>6

\* A value is read where all lines of the field have the same words.
LEMMA OneEntry ==
  ASSUME NEW lines \in Seq(Line), NEW f, PlainLines(lines, f),
         ReadingOf(f, Entries(lines, f)).value # <<>>
  PROVE  \E v \in Seq(STRING) :
           /\ Plainly(f, v) /\ Canon(f, v) # <<>>
           /\ ReadingOf(f, Entries(lines, f)) = [status |-> "PRESENT", raw |-> v, value |-> Canon(f, v)]
           /\ \A i \in Labelled(lines, f) : lines[i].words = v
<1> DEFINE E == Entries(lines, f)
<1>1. E = {lines[i].words : i \in Labelled(lines, f)} /\ IsFiniteSet(E)
  BY EntriesAre
<1>2. \A i \in Labelled(lines, f) : lines[i].words \in Seq(STRING) /\ Plainly(f, lines[i].words)
  BY LabelsSpeak DEF PlainLines
<1> HIDE DEF E
<1>3. E # {} /\ ~(Cardinality(E) > 1)
  BY DEF ReadingOf, Missing, E
<1>4. Cardinality(E) \in Nat /\ Cardinality(E) # 0
  BY <1>1, <1>3, FS_CardinalityType, FS_EmptySet
<1>5. Cardinality(E) = 1
  BY <1>3, <1>4
<1>6. PICK v : E = {v}
  BY <1>1, <1>5, FS_Singleton
<1>7. v \in Seq(STRING) /\ Plainly(f, v) /\ \A i \in Labelled(lines, f) : lines[i].words = v
  BY <1>1, <1>2, <1>6
<1>8. (CHOOSE w \in E : TRUE) = v
  BY <1>6
<1>9. ReadingOf(f, E) = IF Canon(f, v) = <<>> THEN Missing
                        ELSE [status |-> "PRESENT", raw |-> v, value |-> Canon(f, v)]
  BY <1>3, <1>8 DEF ReadingOf
<1>10. /\ ReadingOf(f, E) = [status |-> "PRESENT", raw |-> v, value |-> Canon(f, v)]
       /\ Canon(f, v) # <<>>
  BY <1>9 DEF Missing, E
<1>11. QED
  BY <1>7, <1>10 DEF E

LEMMA ExtractedFields ==
  ASSUME NEW lines, NEW f \in Fields, f # "notify_party"
  PROVE  ExtractFields(lines)[f] = ReadingOf(f, Entries(lines, f))
<1> DEFINE obs == [g \in Fields |-> ReadingOf(g, Entries(lines, g))]
<1>1. obs[f] = ReadingOf(f, Entries(lines, f)) /\ DOMAIN obs = Fields
  OBVIOUS
<1>2. ExtractFields(lines) = obs \/
      ExtractFields(lines) = [obs EXCEPT !["notify_party"].value = obs["consignee"].value]
  BY DEF ExtractFields
<1> HIDE DEF obs
<1>3. QED
  BY <1>1, <1>2

\* All lines of a field, or the lines that they refer to, say one thing.
MeantBy(lines, f, what) ==
  \A i \in Labelled(lines, f) :
    IF Refers(f, lines[i].words)
    THEN \A j \in Labelled(lines, "consignee") : Says("consignee", lines[j].words) = what
    ELSE Says(f, lines[i].words) = what

\* The value of a plain document is that of one line, in the field or in the one that
\* is referred to.
LEMMA DocumentMeans ==
  ASSUME NEW lines \in Seq(Line), NEW f \in Fields,
         \A g \in Fields : PlainLines(lines, g) /\ ExtractFields(lines)[g].value # <<>>
  PROVE  \E g, v :
           /\ Alike(f, g) /\ v \in Seq(STRING) /\ Plainly(g, v) /\ Canon(g, v) # <<>>
           /\ ExtractFields(lines)[f].value = Canon(g, v)
           /\ MeantBy(lines, f, Says(g, v))
<1> DEFINE obs == [g \in Fields |-> ReadingOf(g, Entries(lines, g))]
           Refer == /\ {"consignee", "notify_party"} \subseteq Fields
                    /\ obs["notify_party"].status = "PRESENT" /\ obs["consignee"].status = "PRESENT"
                    /\ Found("same as consignee", obs["notify_party"].raw)
<1>1. ExtractFields(lines) = IF Refer THEN [obs EXCEPT !["notify_party"].value = obs["consignee"].value]
                             ELSE obs
  BY DEF ExtractFields
<1>2. \A g \in Fields : obs[g] = ReadingOf(g, Entries(lines, g))
  OBVIOUS
<1>3. ASSUME NEW g \in Fields, obs[g].value # <<>>
      PROVE  \E v \in Seq(STRING) :
               /\ Plainly(g, v) /\ Canon(g, v) # <<>>
               /\ obs[g] = [status |-> "PRESENT", raw |-> v, value |-> Canon(g, v)]
               /\ \A i \in Labelled(lines, g) : lines[i].words = v
  BY <1>2, <1>3, OneEntry
<1>4. "consignee" \in Fields => obs["consignee"].value # <<>>
  <2>1. "consignee" \in Fields => ExtractFields(lines)["consignee"] = ReadingOf("consignee", Entries(lines, "consignee"))
    BY ExtractedFields
  <2>2. QED
    BY <1>2, <2>1
<1>5. DOMAIN obs = Fields
  OBVIOUS
<1> HIDE DEF obs
<1>6. CASE f = "notify_party" /\ Refer
  <2>0. /\ f = "notify_party" /\ "consignee" \in Fields
        /\ obs[f].status = "PRESENT" /\ Found("same as consignee", obs[f].raw)
    BY <1>6
  <2>1. PICK c \in Seq(STRING) :
          /\ Plainly("consignee", c) /\ Canon("consignee", c) # <<>>
          /\ obs["consignee"] = [status |-> "PRESENT", raw |-> c, value |-> Canon("consignee", c)]
          /\ \A i \in Labelled(lines, "consignee") : lines[i].words = c
    BY <1>3, <1>4, <2>0
  <2>2. obs[f].value # <<>>
    <3> DEFINE E == Entries(lines, f)
               w == CHOOSE u \in E : TRUE
               read == [status |-> "PRESENT", raw |-> w, value |-> Canon(f, w)]
    <3>1. obs[f] = ReadingOf(f, E)
      BY <1>2
    <3>2. \/ obs[f] = Missing
          \/ obs[f] = [Missing EXCEPT !.status = "AMBIGUOUS"]
          \/ obs[f] = read /\ Canon(f, w) # <<>>
      BY <3>1 DEF ReadingOf
    <3>3. Missing.status # "PRESENT" /\ [Missing EXCEPT !.status = "AMBIGUOUS"].status # "PRESENT"
      BY DEF Missing
    <3>4. obs[f] = read /\ Canon(f, w) # <<>>
      BY <2>0, <3>2, <3>3
    <3> HIDE DEF w
    <3>5. QED
      BY <3>4
  <2>3. PICK v \in Seq(STRING) :
          /\ obs[f] = [status |-> "PRESENT", raw |-> v, value |-> Canon(f, v)]
          /\ \A i \in Labelled(lines, f) : lines[i].words = v
    BY <1>3, <2>2
  <2>4. \A i \in Labelled(lines, f) : Refers(f, lines[i].words)
    <3>1. obs[f].raw = v
      BY <2>3
    <3>2. QED
      BY <2>0, <2>3, <3>1 DEF Refers
  <2>5. ExtractFields(lines)[f].value = Canon("consignee", c)
    <3>1. ExtractFields(lines) = [obs EXCEPT !["notify_party"].value = obs["consignee"].value]
      BY <1>1, <1>6
    <3>2. obs["consignee"].value = Canon("consignee", c)
      BY <2>1
    <3>3. QED
      BY <1>5, <2>0, <2>3, <3>1, <3>2
  <2>6. MeantBy(lines, f, Says("consignee", c))
    BY <2>1, <2>4 DEF MeantBy
  <2>7. Alike(f, "consignee")
    BY <2>0 DEF Alike
  <2>8. QED
    BY <2>1, <2>5, <2>6, <2>7
<1>7. CASE ~(f = "notify_party" /\ Refer)
  <2>1. ExtractFields(lines)[f] = obs[f]
    BY <1>1, <1>5, <1>7
  <2>2. PICK v \in Seq(STRING) :
          /\ Plainly(f, v) /\ Canon(f, v) # <<>>
          /\ obs[f] = [status |-> "PRESENT", raw |-> v, value |-> Canon(f, v)]
          /\ \A i \in Labelled(lines, f) : lines[i].words = v
    BY <1>3, <2>1
  <2>3. ASSUME NEW i \in Labelled(lines, f), Refers(f, lines[i].words)
        PROVE  Labelled(lines, "consignee") = {}
    <3>1. f = "notify_party" /\ Found("same as consignee", v)
      BY <2>2, <2>3 DEF Refers
    <3>2. "consignee" \notin Fields
      <4> SUFFICES ASSUME "consignee" \in Fields PROVE FALSE
        OBVIOUS
      <4>1. PICK c \in Seq(STRING) :
              obs["consignee"] = [status |-> "PRESENT", raw |-> c, value |-> Canon("consignee", c)]
        BY <1>3, <1>4
      <4>2. obs["consignee"].status = "PRESENT"
        BY <4>1
      <4>3. obs[f].status = "PRESENT" /\ obs[f].raw = v
        BY <2>2
      <4>4. QED
        BY <1>7, <3>1, <4>2, <4>3
    <3>3. \A j \in DOMAIN lines : lines[j].field \in Fields \cup {NoField}
      <4>1. \A j \in DOMAIN lines : lines[j] \in Line
        OBVIOUS
      <4>2. QED
        BY <4>1 DEF Line
    <3>4. QED
      BY <3>2, <3>3 DEF Labelled, NoField
  <2>4. MeantBy(lines, f, Says(f, v))
    BY <2>2, <2>3 DEF MeantBy
  <2>5. ExtractFields(lines)[f].value = Canon(f, v)
    BY <2>1, <2>2
  <2>6. Alike(f, f)
    BY DEF Alike
  <2>7. QED
    BY <2>2, <2>4, <2>5, <2>6
<1>8. QED
  BY <1>6, <1>7

\* A field that two plain documents agree on means the same on all their lines.
LEMMA FieldMatches ==
  ASSUME NEW si \in Seq(Line), NEW bl \in Seq(Line), NEW f \in Fields,
         \A g \in Fields : /\ PlainLines(si, g) /\ PlainLines(bl, g)
                           /\ FieldState(g, ExtractFields(si)[g], ExtractFields(bl)[g]) = "MATCH"
  PROVE  \E what : MeantBy(si, f, what) /\ MeantBy(bl, f, what)
<1> DEFINE x == ExtractFields(si)
           y == ExtractFields(bl)
<1>1. \A g \in Fields : x[g].value # <<>> /\ y[g].value # <<>> /\ Agree(g, x[g], y[g])
  BY DEF FieldState
<1>2. PICK g, v : /\ Alike(f, g) /\ v \in Seq(STRING) /\ Plainly(g, v) /\ Canon(g, v) # <<>>
                  /\ x[f].value = Canon(g, v) /\ MeantBy(si, f, Says(g, v))
  BY <1>1, DocumentMeans
<1>3. PICK h, w : /\ Alike(f, h) /\ w \in Seq(STRING) /\ Plainly(h, w) /\ Canon(h, w) # <<>>
                  /\ y[f].value = Canon(h, w) /\ MeantBy(bl, f, Says(h, w))
  BY <1>1, DocumentMeans
<1> HIDE DEF x, y
<1>4. Says(g, v) = Says(h, w)
  BY <1>1, <1>2, <1>3, AgreementIsMeant
<1>5. QED
  BY <1>2, <1>3, <1>4

-----------------------------------------------------------------------------
(* Documents and pairs.                                                    *)

LEMMA RolesFinite ==
  ASSUME NEW attachments \in Seq(Document), NEW role
  PROVE  IsFiniteSet(InRole(attachments, role)) /\ InRole(attachments, role) \subseteq DOMAIN attachments
<1>1. InRole(attachments, role) \in SUBSET (1..Len(attachments)) /\ Len(attachments) \in Nat
  BY DEF InRole
<1>2. QED
  BY <1>1, PositionsFinite DEF InRole

\* A verdict on a pair is one on the only documents of their roles.
LEMMA PairIsKnown ==
  ASSUME NEW attachments \in Seq(Document), Verified(attachments).pair # NoPair
  PROVE  LET pair == Verified(attachments).pair
             x == ExtractFields(Seen(attachments[pair.si]))
             y == ExtractFields(Seen(attachments[pair.bl]))
         IN /\ InRole(attachments, "SI") = {pair.si} /\ InRole(attachments, "DRAFT_BL") = {pair.bl}
            /\ pair.si \in DOMAIN attachments /\ pair.bl \in DOMAIN attachments
            /\ Verified(attachments).verification = "MATCH" =>
                 \A f \in Fields : FieldState(f, x[f], y[f]) = "MATCH"
<1> DEFINE pair == Pair(attachments)
           si == attachments[pair.si]
           bl == attachments[pair.bl]
           x == ExtractFields(Seen(si))
           y == ExtractFields(Seen(bl))
           states == [f \in Fields |-> FieldState(f, x[f], y[f])]
           reason == IF \E f \in Fields : states[f] = "UNRESOLVED" THEN "missing_value" ELSE "none"
           issues == Warned(si) \/ Warned(bl)
           S(role) == InRole(attachments, role)
<1>1. \A any, why, was : Verdict(any, why, NoPair, was).pair = NoPair
  BY DEF Verdict
<1>2. pair.si # 0 /\ pair.bl # 0 /\ Verified(attachments) = Verdict(states, reason, pair, issues)
  BY <1>1 DEF Verified
<1>3. Verified(attachments).pair = pair
  BY <1>2 DEF Verdict
<1>4. Cardinality(S("SI")) = 1 /\ Cardinality(S("DRAFT_BL")) = 1
  BY <1>2 DEF Pair
<1>5. pair.si = First(S("SI")) /\ pair.bl = First(S("DRAFT_BL"))
  BY <1>4 DEF Pair
<1>6. ASSUME NEW role, Cardinality(S(role)) = 1
      PROVE  S(role) = {First(S(role))} /\ First(S(role)) \in DOMAIN attachments
  <2>1. IsFiniteSet(S(role)) /\ S(role) \subseteq DOMAIN attachments
    BY RolesFinite
  <2>2. PICK d : S(role) = {d}
    <3> HIDE DEF S
    <3>1. QED
      BY <1>6, <2>1, FS_Singleton
  <2>3. d \in DOMAIN attachments /\ d \in Nat
    BY <2>1, <2>2
  <2>4. First(S(role)) = d
    BY <2>2, <2>3, FirstOfOne
  <2>5. QED
    BY <2>2, <2>3, <2>4
<1>7. ASSUME Verified(attachments).verification = "MATCH", NEW f \in Fields
      PROVE  FieldState(f, x[f], y[f]) = "MATCH"
  <2> DEFINE all == {states[g] : g \in Fields}
  <2>1. "UNRESOLVED" \notin all /\ "MISMATCH" \notin all
    <3> HIDE DEF states
    <3>1. QED
      BY <1>2, <1>7 DEF Verdict
  <2>2. states[f] = FieldState(f, x[f], y[f]) /\ states[f] \in all
    OBVIOUS
  <2>3. FieldState(f, x[f], y[f]) \in {"UNRESOLVED", "MATCH", "MISMATCH"}
    BY DEF FieldState
  <2> HIDE DEF all, states
  <2>4. QED
    BY <2>1, <2>2, <2>3
<1> HIDE DEF pair, S
<1>8. S("SI") = {pair.si} /\ S("DRAFT_BL") = {pair.bl} /\ pair.si \in DOMAIN attachments /\ pair.bl \in DOMAIN attachments
  BY <1>4, <1>5, <1>6
<1>9. QED
  BY <1>3, <1>7, <1>8 DEF S

LEMMA TitledInRole ==
  ASSUME docs \in Seq(Document), NEW d \in DOMAIN docs, NEW title \in Titles, Titled(d, title)
  PROVE  d \in InRole(docs, IF title = "shipping instruction" THEN "SI" ELSE "DRAFT_BL")
<1> DEFINE lines == Seen(docs[d])
<1>1. PICK i \in DOMAIN lines : i <= 8 /\ lines[i].field = NoField /\ lines[i].words = <<title>>
  BY DEF Titled
<1>2. \A j \in DOMAIN lines : lines[j].words # <<>> => lines[j].words[1] \notin Titles \ {title}
  BY DEF Titled
<1> HIDE DEF lines
<1>3. Headed(lines, title)
  <2>1. <<title>> # <<>> /\ <<title>>[1] = title /\ Len(<<title>>) = 1
    OBVIOUS
  <2>2. lines[i].words # <<>> /\ lines[i].words[1] = title /\ Len(lines[i].words) = 1
    BY <1>1, <2>1
  <2>3. QED
    BY <1>1, <2>2 DEF Headed
<1>4. \A other \in Titles \ {title} : ~Headed(lines, other)
  BY <1>2 DEF Headed
<1>5. CASE title = "shipping instruction"
  BY <1>3, <1>5 DEF Identify, InRole, lines
<1>6. CASE title = "bill of lading"
  <2>1. ~Headed(lines, "shipping instruction")
    BY <1>4, <1>6 DEF Titles
  <2>2. QED
    BY <1>3, <1>6, <2>1 DEF Identify, InRole, lines
<1>7. QED
  BY <1>5, <1>6 DEF Titles

-----------------------------------------------------------------------------
(* What is stored of the attachments, while they come and go.              *)

\* The attachments are documents, and what was stored is what they are found to be now.
AttachmentsOK == docs \in Seq(Document)

StoredIsNow ==
  /\ stored.kind = "verdict" => stored.verdict = Verified(docs)
  /\ stored.kind = "challenge" =>
       /\ stored.mutation \in Mutations /\ stored.base = Verified(docs)
       /\ \E mutated \in Mutated(stored.mutation) :
            stored.passed = Passes(stored.mutation, stored.base, Verified(mutated))

CInv == AttachmentsOK /\ StoredIsNow

LEMMA Unasked == NotAsked.kind = "none"
  BY DEF NotAsked

LEMMA LinesWritten ==
  ASSUME AttachmentsOK, NEW d \in DOMAIN docs, NEW new \in Seq(Line),
         NEW changed, changed = [docs EXCEPT ![d] = [docs[d] EXCEPT !.lines = new]]
  PROVE  changed \in Seq(Document)
<1>1. docs \in Seq(Document) /\ docs[d] \in Document
  BY DEF AttachmentsOK
<1>2. [docs[d] EXCEPT !.lines = new] \in Document
  BY <1>1 DEF Document
<1>3. QED
  BY <1>1, <1>2

LEMMA SendKeeps ==
  ASSUME NEW attachments \in Seq(Document), Send(attachments)
  PROVE  CInv'
  BY Unasked DEF Send, CInv, AttachmentsOK, StoredIsNow

LEMMA LineEditsKeep ==
  ASSUME CInv, NEW d \in DOMAIN docs, NEW l \in Lines,
         \/ \E i \in 1..Len(docs[d].lines) + 1 : AddLine(d, i, l)
         \/ \E i \in DOMAIN docs[d].lines : ReplaceLine(d, i, l)
  PROVE  CInv'
<1> DEFINE lines == docs[d].lines
<1>1. docs \in Seq(Document) /\ docs[d] \in Document /\ AttachmentsOK
  BY DEF CInv, AttachmentsOK
<1>2. lines \in Seq(Line) /\ l \in Line
  BY <1>1, ChallengesAssumption DEF Document
<1>3. ASSUME NEW i \in 1..Len(lines) + 1, AddLine(d, i, l) PROVE CInv'
  <2> DEFINE new == InsertAt(lines, i, l)
             changed == [docs EXCEPT ![d].lines = InsertAt(@, i, l)]
  <2>1. new \in Seq(Line)
    <3> HIDE DEF lines
    <3>1. QED
      BY <1>2 DEF InsertAt
  <2>2. changed = [docs EXCEPT ![d] = [docs[d] EXCEPT !.lines = new]]
    OBVIOUS
  <2>3. Send(changed)
    BY <1>3 DEF AddLine
  <2> HIDE DEF new, changed
  <2>4. changed \in Seq(Document)
    BY <1>1, <2>1, <2>2, LinesWritten
  <2>5. QED
    BY <2>3, <2>4, SendKeeps
<1>4. ASSUME NEW i \in DOMAIN lines, ReplaceLine(d, i, l) PROVE CInv'
  <2> DEFINE new == [lines EXCEPT ![i] = l]
             changed == [docs EXCEPT ![d].lines[i] = l]
  <2>1. new \in Seq(Line)
    <3> HIDE DEF lines
    <3>1. QED
      BY <1>2
  <2>2. changed = [docs EXCEPT ![d] = [docs[d] EXCEPT !.lines = new]]
    OBVIOUS
  <2>3. Send(changed)
    BY <1>4 DEF ReplaceLine
  <2> HIDE DEF new, changed
  <2>4. changed \in Seq(Document)
    BY <1>1, <2>1, <2>2, LinesWritten
  <2>5. QED
    BY <2>3, <2>4, SendKeeps
<1>5. QED
  BY <1>3, <1>4

LEMMA PlacesKeep ==
  ASSUME CInv, NEW d \in DOMAIN docs, NEW i \in DOMAIN docs[d].lines,
         DropLine(d, i) \/ \E place \in {"table", "margin", "unseen"} : MoveLines(d, i, place)
  PROVE  CInv'
<1> DEFINE lines == docs[d].lines
<1>1. docs \in Seq(Document) /\ docs[d] \in Document /\ AttachmentsOK
  BY DEF CInv, AttachmentsOK
<1>2. lines \in Seq(Line)
  BY <1>1 DEF Document
<1>3. CASE DropLine(d, i)
  <2> DEFINE new == RemoveAt(lines, i)
             changed == [docs EXCEPT ![d].lines = RemoveAt(@, i)]
  <2>1. new \in Seq(Line)
    <3>1. i \in DOMAIN lines
      OBVIOUS
    <3> HIDE DEF lines
    <3>2. QED
      BY <1>2, <3>1 DEF RemoveAt
  <2>2. changed = [docs EXCEPT ![d] = [docs[d] EXCEPT !.lines = new]]
    OBVIOUS
  <2>3. Send(changed)
    BY <1>3 DEF DropLine
  <2> HIDE DEF new, changed
  <2>4. changed \in Seq(Document)
    BY <1>1, <2>1, <2>2, LinesWritten
  <2>5. QED
    BY <2>3, <2>4, SendKeeps
<1>4. ASSUME NEW place \in {"table", "margin", "unseen"}, MoveLines(d, i, place) PROVE CInv'
  <2> DEFINE new == [j \in DOMAIN lines |-> IF j < i THEN lines[j] ELSE [lines[j] EXCEPT !.place = place]]
             changed == [docs EXCEPT ![d].lines = [j \in DOMAIN @ |-> IF j < i THEN @[j]
                                                                     ELSE [@[j] EXCEPT !.place = place]]]
  <2>1. new \in Seq(Line)
    <3> HIDE DEF lines
    <3>1. ASSUME NEW l \in Line PROVE [l EXCEPT !.place = place] \in Line
      BY DEF Line
    <3>2. QED
      BY <1>2, <3>1
  <2>2. changed = [docs EXCEPT ![d] = [docs[d] EXCEPT !.lines = new]]
    OBVIOUS
  <2>3. Send(changed)
    BY <1>4 DEF MoveLines
  <2> HIDE DEF new, changed
  <2>4. changed \in Seq(Document)
    BY <1>1, <2>1, <2>2, LinesWritten
  <2>5. QED
    BY <2>3, <2>4, SendKeeps
<1>5. QED
  BY <1>3, <1>4

LEMMA FilesKeep ==
  ASSUME CInv, NEW d \in DOMAIN docs,
         Break(d) \/ Detach(d) \/ \E name \in DOMAIN Hints : Name(d, name)
  PROVE  CInv'
<1>1. docs \in Seq(Document) /\ docs[d] \in Document
  BY DEF CInv, AttachmentsOK
<1>2. CASE Break(d)
  <2>1. [docs[d] EXCEPT !.broken = TRUE] \in Document
    BY <1>1 DEF Document
  <2>2. [docs EXCEPT ![d] = [docs[d] EXCEPT !.broken = TRUE]] \in Seq(Document)
    BY <1>1, <2>1
  <2>3. Send([docs EXCEPT ![d] = [docs[d] EXCEPT !.broken = TRUE]])
    BY <1>2 DEF Break
  <2>4. QED
    BY <2>2, <2>3, SendKeeps
<1>3. ASSUME NEW name \in DOMAIN Hints, Name(d, name) PROVE CInv'
  <2>1. [docs[d] EXCEPT !.name = name] \in Document
    BY <1>1 DEF Document
  <2>2. [docs EXCEPT ![d] = [docs[d] EXCEPT !.name = name]] \in Seq(Document)
    BY <1>1, <2>1
  <2>3. Send([docs EXCEPT ![d] = [docs[d] EXCEPT !.name = name]])
    BY <1>3 DEF Name
  <2>4. QED
    BY <2>2, <2>3, SendKeeps
<1>4. CASE Detach(d)
  <2>1. RemoveAt(docs, d) \in Seq(Document)
    BY <1>1 DEF RemoveAt
  <2>2. QED
    BY <1>4, <2>1, SendKeeps DEF Detach
<1>5. QED
  BY <1>2, <1>3, <1>4

LEMMA MutatedStays == ASSUME docs' = docs, NEW m PROVE Mutated(m)' = Mutated(m)
  BY DEF Mutated, Renamed, Replaced, Respelled, Relabelled, Incremented, Emptied, Rewritten, InText

LEMMA ChallengesInvNext == CInv /\ [ChallengesNext]_challengesVars => CInv'
<1> SUFFICES ASSUME CInv, [ChallengesNext]_challengesVars PROVE CInv'
  OBVIOUS
<1>1. docs \in Seq(Document)
  BY DEF CInv, AttachmentsOK
<1>2. ASSUME NEW doc \in Extra, Attach(doc) PROVE CInv'
  <2>1. Append(docs, doc) \in Seq(Document)
    BY <1>1, ChallengesAssumption
  <2>2. QED
    BY <1>2, <2>1, SendKeeps DEF Attach
<1>3. CASE Edit
  BY <1>2, <1>3, LineEditsKeep, PlacesKeep, FilesKeep DEF Edit
<1>4. CASE Run
  BY <1>1, <1>4 DEF Run, CInv, AttachmentsOK, StoredIsNow
<1>5. ASSUME NEW m \in Mutations, ExecuteChallenge(m) PROVE CInv'
  <2>1. PICK mutated \in Mutated(m) :
          stored' = [kind |-> "challenge", mutation |-> m, base |-> Verified(docs),
                     passed |-> Passes(m, Verified(docs), Verified(mutated))]
    BY <1>5 DEF ExecuteChallenge
  <2>2. docs' = docs
    BY <1>5 DEF ExecuteChallenge
  <2>3. /\ stored'.kind = "challenge" /\ stored'.mutation = m /\ stored'.base = Verified(docs)
        /\ stored'.passed = Passes(m, Verified(docs), Verified(mutated))
    BY <2>1
  <2>4. Mutated(m)' = Mutated(m)
    BY <2>2, MutatedStays
  <2>5. StoredIsNow'
    BY <2>2, <2>3, <2>4 DEF StoredIsNow
  <2>6. QED
    BY <1>1, <2>2, <2>5 DEF CInv, AttachmentsOK
<1>6. CASE UNCHANGED challengesVars
  <2>1. docs' = docs /\ stored' = stored
    BY <1>6 DEF challengesVars
  <2>2. \A m : Mutated(m)' = Mutated(m)
    BY <2>1, MutatedStays
  <2>3. QED
    BY <2>1, <2>2 DEF CInv, AttachmentsOK, StoredIsNow
<1>7. QED
  BY <1>3, <1>4, <1>5, <1>6 DEF ChallengesNext

LEMMA ChallengesInitInv == ChallengesInit => CInv
  BY Unasked, ChallengesAssumption DEF ChallengesInit, CInv, AttachmentsOK, StoredIsNow

\* The attachments stay documents, and what is stored of them is what they would be found
\* to be if they were compared again (a changed attachment has the case run anew).
THEOREM StoredStaysTrue == ChallengesSpec => []CInv
  BY ChallengesInitInv, ChallengesInvNext, PTL DEF ChallengesSpec

LEMMA MeantIs ==
  ASSUME NEW d, NEW f, NEW what, MeantBy(Seen(docs[d]), f, what)
  PROVE  \A x \in Meant(d, f) : x = what
<1> SUFFICES ASSUME NEW x \in Meant(d, f) PROVE x = what
  OBVIOUS
<1> DEFINE lines == Seen(docs[d])
<1>1. PICK i \in Saying(d, f) :
        x \in IF Refers(f, lines[i].words) THEN Said(d, "consignee") ELSE {Says(f, lines[i].words)}
  BY DEF Meant
<1>2. i \in Labelled(lines, f)
  BY DEF Saying, Labelled
<1>3. CASE Refers(f, lines[i].words)
  <2>1. PICK j \in Saying(d, "consignee") : x = Says("consignee", lines[j].words)
    BY <1>1, <1>3 DEF Said
  <2>2. j \in Labelled(lines, "consignee")
    BY DEF Saying, Labelled
  <2>3. QED
    BY <1>2, <1>3, <2>1, <2>2 DEF MeantBy
<1>4. CASE ~Refers(f, lines[i].words)
  BY <1>1, <1>2, <1>4 DEF MeantBy
<1>5. QED
  BY <1>3, <1>4

LEMMA PlainIs ==
  ASSUME NEW d, Plain(d), NEW f \in Fields
  PROVE  PlainLines(Seen(docs[d]), f)
  BY DEF Plain, PlainLines, Labelled, ToSet

\* No plain pair is cleared of which two lines mean different things by a field, where a
\* notify party that refers to the consignee means who that is: for documents of any
\* words, numbers, spellings and addresses (extract_fields, normalize_field and
\* compare_documents of core.py).
THEOREM ClearsAreMeant == ChallengesSpec => []ClearsMeanTheSame
<1>1. CInv => ClearsMeanTheSame
  <2> DEFINE pair == stored.verdict.pair
             si == Seen(docs[pair.si])
             bl == Seen(docs[pair.bl])
  <2> SUFFICES ASSUME CInv, Compared, stored.verdict.verification = "MATCH",
                      Plain(pair.si), Plain(pair.bl), NEW f \in Fields
               PROVE  \A x, y \in Meant(pair.si, f) \cup Meant(pair.bl, f) : x = y
    BY DEF ClearsMeanTheSame
  <2>1. docs \in Seq(Document) /\ stored.verdict = Verified(docs) /\ pair # NoPair
    BY DEF CInv, AttachmentsOK, StoredIsNow, Compared
  <2>2. /\ pair.si \in DOMAIN docs /\ pair.bl \in DOMAIN docs
        /\ \A g \in Fields : FieldState(g, ExtractFields(si)[g], ExtractFields(bl)[g]) = "MATCH"
    BY <2>1, PairIsKnown
  <2>3. si \in Seq(Line) /\ bl \in Seq(Line)
    BY <2>1, <2>2, SeenType
  <2>4. \A g \in Fields : PlainLines(si, g) /\ PlainLines(bl, g)
    BY PlainIs
  <2>5. PICK what : MeantBy(si, f, what) /\ MeantBy(bl, f, what)
    <3> HIDE DEF si, bl
    <3>1. QED
      BY <2>2, <2>3, <2>4, FieldMatches
  <2>6. (\A x \in Meant(pair.si, f) : x = what) /\ (\A x \in Meant(pair.bl, f) : x = what)
    BY <2>5, MeantIs
  <2> HIDE DEF pair
  <2>7. QED
    BY <2>6
<1>2. QED
  BY <1>1, StoredStaysTrue, PTL

\* No version of a document is picked: where two attachments bear one title, nothing is
\* compared (_pair_documents of pipeline.py).
THEOREM VersionsAreNotPicked == ChallengesSpec => []NoVersionIsPicked
<1>1. CInv => NoVersionIsPicked
  <2> SUFFICES ASSUME CInv, Compared, NEW title \in Titles
               PROVE  Cardinality({d \in DOMAIN docs : Titled(d, title)}) <= 1
    BY DEF NoVersionIsPicked
  <2> DEFINE titled == {d \in DOMAIN docs : Titled(d, title)}
             role == IF title = "shipping instruction" THEN "SI" ELSE "DRAFT_BL"
  <2>1. docs \in Seq(Document) /\ stored.verdict = Verified(docs) /\ stored.verdict.pair # NoPair
    BY DEF CInv, AttachmentsOK, StoredIsNow, Compared
  <2>2. PICK d : InRole(docs, role) = {d}
    BY <2>1, PairIsKnown
  <2>3. titled \in SUBSET {d}
    BY <2>1, <2>2, TitledInRole
  <2> HIDE DEF titled
  <2>4. IsFiniteSet({d}) /\ Cardinality({d}) = 1
    BY FS_Singleton
  <2>5. QED
    BY <2>3, <2>4, FS_Subset, FS_CardinalityType DEF titled
<1>2. QED
  BY <1>1, StoredStaysTrue, PTL

-----------------------------------------------------------------------------
(* Challenges whose mutation is of files, and not of words.                *)

\* A case that compares clean has a pair, and both sides of it were read.
LEMMA MatchHasPair ==
  ASSUME NEW attachments, Verified(attachments).verification = "MATCH"
  PROVE  /\ Verified(attachments).pair # NoPair
         /\ Seen(attachments[Verified(attachments).pair.si]) # <<>>
         /\ Seen(attachments[Verified(attachments).pair.bl]) # <<>>
<1>1. \A why, pair, was : Verdict(Open, why, pair, was).verification = "NEEDS_REVIEW"
  BY ReadingAssumption DEF Verdict, Open
<1> DEFINE pair == Pair(attachments)
           si == Seen(attachments[pair.si])
           bl == Seen(attachments[pair.bl])
<1>2. pair.si # 0 /\ pair.bl # 0 /\ si # <<>> /\ bl # <<>>
  BY <1>1 DEF Verified
<1>3. \E states, why, was : Verified(attachments) = Verdict(states, why, pair, was)
  BY <1>1 DEF Verified
<1>4. Verified(attachments).pair = pair
  BY <1>3 DEF Verdict
<1>5. pair # NoPair
  <2> HIDE DEF pair
  <2>1. QED
    BY <1>2 DEF NoPair
<1>6. QED
  BY <1>2, <1>4, <1>5

\* The name of a file only matters where its content has no role.
LEMMA RenamingKeeps ==
  ASSUME AttachmentsOK, NEW d \in DOMAIN docs, docs[d].name = "bl_draft",
         Identify(docs[d]) \in {"SI", "DRAFT_BL"}
  PROVE  Verified([docs EXCEPT ![d].name = "x_bl"]) = Verified(docs)
<1> DEFINE old == docs[d]
           new == [old EXCEPT !.name = "x_bl"]
           renamed == [docs EXCEPT ![d].name = "x_bl"]
<1>1. old \in Document /\ DOMAIN docs = 1..Len(docs)
  BY DEF AttachmentsOK
<1>2. /\ new.lines = old.lines /\ new.format = old.format /\ new.broken = old.broken
      /\ new.name = "x_bl" /\ old.name = "bl_draft"
  BY <1>1 DEF Document
<1> HIDE DEF new, old
<1>3. Seen(new) = Seen(old) /\ Warned(new) = Warned(old)
  BY <1>2 DEF Seen, Warned, At
<1>4. Hints["bl_draft"] = "UNKNOWN"
  BY DEF Hints
<1>5. Identify(new) = Identify(old)
  <2>1. Identify(old) \in {"SI", "DRAFT_BL"}
    BY DEF old
  <2>2. QED
    BY <1>2, <1>3, <1>4, <2>1 DEF Identify
<1>6. DOMAIN renamed = DOMAIN docs /\ renamed[d] = new /\ \A e \in DOMAIN docs : e # d => renamed[e] = docs[e]
  BY DEF new, old
<1> HIDE DEF renamed
<1>7. \A e \in DOMAIN docs : /\ Seen(renamed[e]) = Seen(docs[e]) /\ Warned(renamed[e]) = Warned(docs[e])
                             /\ Identify(renamed[e]) = Identify(docs[e])
  BY <1>3, <1>5, <1>6 DEF old
<1>8. \A role : InRole(renamed, role) = InRole(docs, role)
  BY <1>6, <1>7 DEF InRole
<1>9. Pair(renamed) = Pair(docs) /\ Wrong(renamed) = Wrong(docs)
  BY <1>8 DEF Pair, Wrong
<1>10. /\ Pair(docs).si # 0 => Pair(docs).si \in DOMAIN docs
       /\ Pair(docs).bl # 0 => Pair(docs).bl \in DOMAIN docs
  <2>1. \A role : Cardinality(InRole(docs, role)) = 1 => First(InRole(docs, role)) \in DOMAIN docs
    <3> SUFFICES ASSUME NEW role, Cardinality(InRole(docs, role)) = 1
                 PROVE  First(InRole(docs, role)) \in DOMAIN docs
      OBVIOUS
    <3>1. InRole(docs, role) \in SUBSET Nat /\ InRole(docs, role) \subseteq DOMAIN docs
      BY <1>1 DEF InRole
    <3>2. InRole(docs, role) # {}
      BY FS_EmptySet
    <3>3. QED
      BY <3>1, <3>2, FirstIs
  <2>2. QED
    BY <2>1 DEF Pair
<1>11. QED
  BY <1>7, <1>9, <1>10 DEF Verified, renamed

LEMMA RenamedPasses ==
  ASSUME AttachmentsOK, Verified(docs).verification = "MATCH",
         1 \in {Verified(docs).pair.si, Verified(docs).pair.bl}, NEW mutated \in Renamed
  PROVE  Verified(mutated) = Verified(docs)
<1>1. 1 \in DOMAIN docs /\ Identify(docs[1]) \in {"SI", "DRAFT_BL"}
  <2>1. docs \in Seq(Document) /\ Verified(docs).pair # NoPair
    BY MatchHasPair DEF AttachmentsOK
  <2>2. 1 \in InRole(docs, "SI") \cup InRole(docs, "DRAFT_BL")
    BY <2>1, PairIsKnown
  <2>3. QED
    BY <2>2 DEF InRole
<1>2. mutated = [docs EXCEPT ![1].name = IF docs[1].name = "bl_draft" THEN "x_bl" ELSE docs[1].name]
  BY <1>1 DEF Renamed
<1>3. docs[1] \in Document
  BY <1>1 DEF AttachmentsOK
<1>4. CASE docs[1].name = "bl_draft"
  BY <1>1, <1>2, <1>4, RenamingKeeps
<1>5. CASE docs[1].name # "bl_draft"
  <2>1. mutated = docs
    BY <1>1, <1>2, <1>3, <1>5 DEF AttachmentsOK, Document
  <2>2. QED
    BY <2>1
<1>6. QED
  BY <1>4, <1>5

\* An invoice in the place of the draft BL.
LEMMA OneElement ==
  ASSUME NEW x
  PROVE  DOMAIN <<x>> = {1} /\ <<x>>[1] = x /\ ToSet(<<x>>) = {x}
<1>1. DOMAIN <<x>> = {1}
  <2>1. DOMAIN <<x>> = 1..1
    OBVIOUS
  <2>2. 1..1 = {1}
    OBVIOUS
  <2>3. QED
    BY <2>1, <2>2, Zenon
<1>2. <<x>>[1] = x
  OBVIOUS
<1>3. ToSet(<<x>>) = {x}
  <2>1. ToSet(<<x>>) = {<<x>>[i] : i \in {1}}
    BY <1>1, Zenon DEF ToSet
  <2>2. QED
    BY <1>2, <2>1, Zenon
<1>4. QED
  BY <1>1, <1>2, <1>3

LEMMA NoneIsFew == 0 < 2
OBVIOUS

LEMMA InvoiceIsOther ==
  ASSUME NEW doc, NEW line, doc.lines = <<line>>, ~doc.broken, doc.format = "txt",
         line.field = NoField, line.words = <<"commercial invoice">>, line.place = "body"
  PROVE  Identify(doc) = "OTHER"
<1> DEFINE lines == <<line>>
<1>1. DOMAIN lines = {1} /\ lines[1] = line /\ ToSet(lines) = {line}
  BY OneElement
<1> HIDE DEF lines
<1>2. doc.lines = lines
  BY DEF lines
<1>3. Seen(doc) = lines
  BY <1>2 DEF Seen
<1>4. ToSet(line.words) = {"commercial invoice"} /\ line.words[1] = "commercial invoice"
  BY OneElement
<1>5. ASSUME NEW title \in {"shipping instruction", "bill of lading"}
      PROVE  ~Headed(lines, title)
  <2>1. \A i \in DOMAIN lines : lines[i].words[1] # title
    BY <1>1, <1>4
  <2>2. QED
    BY <2>1 DEF Headed
<1>6. Mentioned(lines) = {NoField, "commercial invoice"}
  <2>1. Terms("commercial invoice") = {"commercial invoice"}
    BY DEF Terms
  <2>2. UNION {Terms(w) : w \in {"commercial invoice"}} = {"commercial invoice"}
    BY <2>1, Zenon
  <2>3. Mentioned(lines) = UNION {{l.field} \cup UNION {Terms(w) : w \in ToSet(l.words)} : l \in {line}}
    BY <1>1 DEF Mentioned
  <2>4. Mentioned(lines) = {line.field} \cup UNION {Terms(w) : w \in ToSet(line.words)}
    BY <2>3
  <2>5. QED
    BY <1>4, <2>2, <2>4
<1>7. Cardinality(Mentioned(lines) \cap BLTerms) = 0
  <2>1. Mentioned(lines) \cap BLTerms = {}
    BY <1>6 DEF BLTerms, NoField
  <2>2. QED
    BY <2>1, FS_EmptySet
<1>8. "commercial invoice" \in Mentioned(lines) /\ Cardinality(Mentioned(lines) \cap BLTerms) < 2
  <2>1. "commercial invoice" \in Mentioned(lines)
    BY <1>6, Zenon
  <2>2. Cardinality(Mentioned(lines) \cap BLTerms) < 2
    BY <1>7, NoneIsFew, Zenon
  <2>3. QED
    BY <2>1, <2>2, Zenon
<1>9. ~Headed(lines, "shipping instruction") /\ ~Headed(lines, "bill of lading")
  BY <1>5
<1> DEFINE si == Cardinality(Mentioned(lines) \cap SITerms)
<1> HIDE DEF si
<1>10. QED
  BY <1>3, <1>8, <1>9, Zenon DEF Identify

LEMMA ReplacedPasses ==
  ASSUME AttachmentsOK, Verified(docs).verification = "MATCH",
         NEW d \in InText("DRAFT_BL"), NEW mutated \in Replaced(d)
  PROVE  Verified(mutated).verification = "NEEDS_REVIEW" /\ Verified(mutated).reason = "wrong_doc_type"
<1> DEFINE line == [field |-> NoField, words |-> <<"commercial invoice">>, place |-> "body"]
           new == [docs[d] EXCEPT !.lines = <<line>>]
<1>1. docs \in Seq(Document) /\ Verified(docs).pair # NoPair /\ Seen(docs[Verified(docs).pair.bl]) # <<>>
  BY MatchHasPair DEF AttachmentsOK
<1>2. InRole(docs, "DRAFT_BL") = {Verified(docs).pair.bl}
  BY <1>1, PairIsKnown
<1>3. d \in InRole(docs, "DRAFT_BL") /\ docs[d].format = "txt"
  BY DEF InText
<1>4. InRole(docs, "DRAFT_BL") = {d} /\ Seen(docs[d]) # <<>>
  BY <1>1, <1>2, <1>3
<1>5. d \in DOMAIN docs /\ docs[d] \in Document
  BY <1>1, <1>3 DEF InRole
<1>6. docs[d].broken = FALSE
  BY <1>4, <1>5 DEF Seen, Document
<1>7. line.field = NoField /\ line.words = <<"commercial invoice">> /\ line.place = "body"
  OBVIOUS
<1>8. mutated = [docs EXCEPT ![d] = new]
  BY <1>5 DEF Replaced, Rewritten
<1> HIDE DEF line
<1>9. new.lines = <<line>> /\ ~new.broken /\ new.format = "txt"
  BY <1>3, <1>5, <1>6 DEF Document
<1>10. Identify(new) = "OTHER"
  BY <1>7, <1>9, InvoiceIsOther
<1> HIDE DEF new
<1>11. DOMAIN mutated = DOMAIN docs /\ mutated[d] = new /\ \A e \in DOMAIN docs : e # d => mutated[e] = docs[e]
  BY <1>5, <1>8
<1>12. InRole(mutated, "DRAFT_BL") = {} /\ d \in InRole(mutated, "OTHER")
  <2>1. \A e \in DOMAIN docs : Identify(docs[e]) = "DRAFT_BL" => e = d
    BY <1>4 DEF InRole
  <2>2. QED
    BY <1>5, <1>10, <1>11, <2>1 DEF InRole
<1>13. Pair(mutated).bl = 0 /\ Wrong(mutated)
  BY <1>12, FS_EmptySet DEF Pair, Wrong
<1>14. Verified(mutated) = Verdict(Open, "wrong_doc_type", NoPair, TRUE)
  BY <1>13 DEF Verified
<1>15. QED
  BY <1>14, ReadingAssumption DEF Verdict, Open

-----------------------------------------------------------------------------
(* Challenges whose mutation is of words: the weight is taken out.         *)

\* The verdict on the only documents of their roles.
LEMMA VerdictOfPair ==
  ASSUME NEW attachments, NEW s \in Nat \ {0}, NEW b \in Nat \ {0},
         InRole(attachments, "SI") = {s}, InRole(attachments, "DRAFT_BL") = {b},
         Seen(attachments[s]) # <<>>, Seen(attachments[b]) # <<>>
  PROVE  LET x == ExtractFields(Seen(attachments[s]))
             y == ExtractFields(Seen(attachments[b]))
             v == Verified(attachments)
         IN /\ v.fields = [f \in Fields |-> FieldState(f, x[f], y[f])]
            /\ v.verification = IF \E f \in Fields : FieldState(f, x[f], y[f]) = "UNRESOLVED" THEN "NEEDS_REVIEW"
                                ELSE IF \E f \in Fields : FieldState(f, x[f], y[f]) = "MISMATCH" THEN "MISMATCH"
                                ELSE "MATCH"
<1> DEFINE si == attachments[s]
           bl == attachments[b]
           x == ExtractFields(Seen(si))
           y == ExtractFields(Seen(bl))
           state(f) == FieldState(f, x[f], y[f])
           states == [f \in Fields |-> state(f)]
           reason == IF \E f \in Fields : states[f] = "UNRESOLVED" THEN "missing_value" ELSE "none"
           issues == Warned(si) \/ Warned(bl)
           all == {states[f] : f \in Fields}
<1>1. Cardinality({s}) = 1 /\ Cardinality({b}) = 1 /\ First({s}) = s /\ First({b}) = b
  BY FS_Singleton, FirstOfOne
<1>2. Pair(attachments).si = s /\ Pair(attachments).bl = b
  BY <1>1 DEF Pair
<1>3. Verified(attachments) = Verdict(states, reason, Pair(attachments), issues)
  BY <1>2 DEF Verified
<1>4. \A word : word \in all <=> \E f \in Fields : state(f) = word
  <2> HIDE DEF state
  <2>1. QED
    OBVIOUS
<1> HIDE DEF states, reason, issues
<1>5. /\ Verified(attachments).fields = states
      /\ Verified(attachments).verification = IF "UNRESOLVED" \in all THEN "NEEDS_REVIEW"
                                              ELSE IF "MISMATCH" \in all THEN "MISMATCH" ELSE "MATCH"
  BY <1>3 DEF Verdict
<1>6. QED
  BY <1>4, <1>5 DEF states

\* The text file of a role is the one of the pair, and all of its lines are seen.
LEMMA TextOfPair ==
  ASSUME AttachmentsOK, Verified(docs).verification = "MATCH",
         NEW role \in {"SI", "DRAFT_BL"}, NEW d \in InText(role)
  PROVE  /\ d \in DOMAIN docs /\ d \in Nat \ {0} /\ docs[d] \in Document
         /\ InRole(docs, role) = {d} /\ Identify(docs[d]) = role
         /\ docs[d].format = "txt" /\ ~docs[d].broken
         /\ Seen(docs[d]) = docs[d].lines /\ docs[d].lines \in Seq(Line) /\ docs[d].lines # <<>>
<1> DEFINE pair == Verified(docs).pair
<1>1. docs \in Seq(Document) /\ pair # NoPair
  BY MatchHasPair DEF AttachmentsOK
<1>2. /\ InRole(docs, "SI") = {pair.si} /\ InRole(docs, "DRAFT_BL") = {pair.bl}
      /\ Seen(docs[pair.si]) # <<>> /\ Seen(docs[pair.bl]) # <<>>
  BY <1>1, PairIsKnown, MatchHasPair
<1>3. d \in InRole(docs, role) /\ docs[d].format = "txt"
  BY DEF InText
<1>4. InRole(docs, role) = {d} /\ Seen(docs[d]) # <<>>
  <2> HIDE DEF pair
  <2>1. QED
    BY <1>2, <1>3
<1>5. d \in DOMAIN docs /\ d \in Nat \ {0} /\ docs[d] \in Document /\ Identify(docs[d]) = role
  BY <1>1, <1>3 DEF InRole
<1>6. ~docs[d].broken
  BY <1>4 DEF Seen
<1>7. Seen(docs[d]) = docs[d].lines
  BY <1>3, <1>6 DEF Seen
<1>8. docs[d].lines \in Seq(Line)
  BY <1>5 DEF Document
<1>9. QED
  BY <1>3, <1>4, <1>5, <1>6, <1>7, <1>8

\* The other document of the pair.
LEMMA CleanPair ==
  ASSUME AttachmentsOK, Verified(docs).verification = "MATCH"
  PROVE  LET pair == Verified(docs).pair
             x == ExtractFields(Seen(docs[pair.si]))
             y == ExtractFields(Seen(docs[pair.bl]))
         IN /\ InRole(docs, "SI") = {pair.si} /\ InRole(docs, "DRAFT_BL") = {pair.bl}
            /\ pair.si \in DOMAIN docs /\ pair.si \in Nat \ {0}
            /\ pair.bl \in DOMAIN docs /\ pair.bl \in Nat \ {0}
            /\ pair.si # pair.bl
            /\ Seen(docs[pair.si]) # <<>> /\ Seen(docs[pair.bl]) # <<>>
            /\ \A f \in Fields : FieldState(f, x[f], y[f]) = "MATCH"
<1> DEFINE pair == Verified(docs).pair
<1>1. docs \in Seq(Document) /\ pair # NoPair
  BY MatchHasPair DEF AttachmentsOK
<1>2. InRole(docs, "SI") = {pair.si} /\ InRole(docs, "DRAFT_BL") = {pair.bl}
  BY <1>1, PairIsKnown
<1>3. pair.si # pair.bl
  BY <1>2 DEF InRole
<1>4. QED
  BY <1>1, <1>2, <1>3, PairIsKnown, MatchHasPair

\* A text that is rewritten shows its new lines, and the other files stay.
LEMMA RewrittenIs ==
  ASSUME AttachmentsOK, NEW d \in DOMAIN docs, docs[d].format = "txt", ~docs[d].broken, NEW lines
  PROVE  LET rewritten == Rewritten(d, lines)
         IN /\ DOMAIN rewritten = DOMAIN docs
            /\ Seen(rewritten[d]) = lines /\ rewritten[d].name = docs[d].name
            /\ \A e \in DOMAIN docs : e # d => rewritten[e] = docs[e]
            /\ \A role : InRole(rewritten, role) \ {d} = InRole(docs, role) \ {d}
            /\ \A role : d \in InRole(rewritten, role) <=> Identify(rewritten[d]) = role
<1> DEFINE rewritten == Rewritten(d, lines)
           new == [docs[d] EXCEPT !.lines = lines]
<1>1. docs[d] \in Document /\ DOMAIN docs = 1..Len(docs)
  BY DEF AttachmentsOK
<1>2. new.lines = lines /\ new.format = "txt" /\ ~new.broken /\ new.name = docs[d].name
  BY <1>1 DEF Document
<1>3. rewritten = [docs EXCEPT ![d] = new]
  BY DEF Rewritten
<1> HIDE DEF new
<1>4. DOMAIN rewritten = DOMAIN docs /\ rewritten[d] = new /\ \A e \in DOMAIN docs : e # d => rewritten[e] = docs[e]
  BY <1>3
<1> HIDE DEF rewritten
<1>5. Seen(new) = lines
  BY <1>2 DEF Seen
<1>6. \A role : InRole(rewritten, role) \ {d} = InRole(docs, role) \ {d}
  BY <1>4 DEF InRole
<1>7. \A role : d \in InRole(rewritten, role) <=> Identify(rewritten[d]) = role
  BY <1>4 DEF InRole
<1>8. QED
  BY <1>2, <1>4, <1>5, <1>6, <1>7 DEF rewritten

LEMMA EntriesFinite ==
  ASSUME NEW lines, NEW n \in Nat, DOMAIN lines = 1..n, NEW f
  PROVE  IsFiniteSet(Entries(lines, f))
<1> DEFINE T == {Entry(lines, i) : i \in Labelled(lines, f)}
           g == [i \in Labelled(lines, f) |-> Entry(lines, i)]
<1>1. Labelled(lines, f) \in SUBSET (1..n)
  BY DEF Labelled
<1>2. IsFiniteSet(Labelled(lines, f))
  BY <1>1, PositionsFinite
<1>3. g \in Surjection(Labelled(lines, f), T)
  BY DEF Surjection
<1>4. Entries(lines, f) \subseteq T
  BY DEF Entries, Labelled
<1> HIDE DEF g, T
<1>5. QED
  BY <1>2, <1>3, <1>4, FS_Surjection, FS_Subset

\* A field with one entry is read where that can be normalized.
LEMMA ReadingOfOne ==
  ASSUME NEW f, NEW v
  PROVE  ReadingOf(f, {v}) = IF Canon(f, v) = <<>> THEN Missing
                             ELSE [status |-> "PRESENT", raw |-> v, value |-> Canon(f, v)]
<1>1. Cardinality({v}) = 1 /\ {v} # {} /\ (CHOOSE w \in {v} : TRUE) = v
  BY FS_Singleton
<1>2. ~(1 > 1)
  OBVIOUS
<1>3. QED
  BY <1>1, <1>2 DEF ReadingOf

LEMMA NoReading ==
  ASSUME NEW f, NEW entries, IsFiniteSet(entries), NEW v \in entries, Canon(f, v) = <<>>
  PROVE  ReadingOf(f, entries).value = <<>>
<1>1. CASE Cardinality(entries) > 1
  <2>1. entries # {}
    OBVIOUS
  <2>2. ReadingOf(f, entries) = [Missing EXCEPT !.status = "AMBIGUOUS"]
    BY <1>1, <2>1 DEF ReadingOf
  <2>3. QED
    BY <2>2 DEF Missing
<1>2. CASE ~(Cardinality(entries) > 1)
  <2>1. Cardinality(entries) \in Nat /\ Cardinality(entries) # 0
    BY FS_CardinalityType, FS_EmptySet
  <2>2. Cardinality(entries) = 1
    BY <1>2, <2>1
  <2>3. PICK w : entries = {w}
    BY <2>2, FS_Singleton
  <2>4. entries = {v} /\ (CHOOSE u \in entries : TRUE) = v
    BY <2>3
  <2>5. ReadingOf(f, entries) = Missing
    BY <1>2, <2>4 DEF ReadingOf
  <2>6. QED
    BY <2>5 DEF Missing
<1>3. QED
  BY <1>1, <1>2

\* N/A is no number, and a weight of it is missing.
LEMMA NoWeight ==
  /\ Stripped(<<"N/A">>) = <<"N/A">> /\ <<"N/A">> # <<>>
  /\ Canon("gross_weight_kg", <<"N/A">>) = <<>>
<1> DEFINE w == <<"N/A">>
<1>1. Len(w) = 1 /\ DOMAIN w = {1} /\ w[1] = "N/A" /\ w # <<"(?)">> /\ w # <<>>
  BY OneElement
<1>2. ~(1 >= 2)
  OBVIOUS
<1>3. "N/A" \notin DOMAIN Numeral
  BY VocabularyAssumption DEF Unknown
<1> HIDE DEF w
<1>4. Stripped(w) = w
  BY <1>1, <1>2 DEF Stripped
<1>5. Numbers(w) = {}
  BY <1>1, <1>3 DEF Numbers
<1>6. Canon("gross_weight_kg", w) = <<>>
  BY <1>5 DEF Canon, PartyFields
<1>7. QED
  BY <1>1, <1>4, <1>6 DEF w

\* The weight taken out of the SI, which may lose its role with it.
LEMMA EmptiedPasses ==
  ASSUME AttachmentsOK, Verified(docs).verification = "MATCH",
         NEW d \in InText("SI"), NEW mutated \in Emptied(d)
  PROVE  /\ Verified(mutated).verification = "NEEDS_REVIEW"
         /\ Verified(mutated).fields["gross_weight_kg"] = "UNRESOLVED"
<1> DEFINE lines == docs[d].lines
           pair == Verified(docs).pair
           g == "gross_weight_kg"
<1>1. /\ d \in DOMAIN docs /\ d \in Nat \ {0} /\ InRole(docs, "SI") = {d}
      /\ docs[d].format = "txt" /\ ~docs[d].broken
      /\ lines \in Seq(Line) /\ lines # <<>>
  BY TextOfPair
<1>2. /\ InRole(docs, "DRAFT_BL") = {pair.bl} /\ pair.bl \in DOMAIN docs
      /\ pair.bl \in Nat \ {0} /\ d # pair.bl
      /\ Seen(docs[pair.bl]) # <<>>
  BY <1>1, CleanPair DEF pair
<1> HIDE DEF pair
<1>3. PICK i \in Weights(lines) : mutated = Rewritten(d, [lines EXCEPT ![i].words = <<"N/A">>])
  BY DEF Emptied
<1> DEFINE new == [lines EXCEPT ![i].words = <<"N/A">>]
<1>4. i \in DOMAIN lines /\ lines[i] \in Line /\ lines[i].field = g
  BY <1>1, <1>3 DEF Weights
<1>5. /\ DOMAIN new = 1..Len(lines) /\ Len(lines) \in Nat /\ new # <<>>
      /\ i \in Labelled(new, g) /\ new[i].words = <<"N/A">>
  <2>1. [lines[i] EXCEPT !.words = <<"N/A">>].words = <<"N/A">> /\ [lines[i] EXCEPT !.words = <<"N/A">>].field = g
    BY <1>4 DEF Line
  <2>2. DOMAIN new = DOMAIN lines /\ new[i] = [lines[i] EXCEPT !.words = <<"N/A">>]
    BY <1>4
  <2>3. DOMAIN lines = 1..Len(lines) /\ Len(lines) \in Nat
    BY <1>1
  <2> HIDE DEF new
  <2>4. new # <<>>
    BY <1>4, <2>2
  <2>5. QED
    BY <1>4, <2>1, <2>2, <2>3, <2>4 DEF Labelled
<1> HIDE DEF new
<1>6. /\ Seen(mutated[d]) = new
      /\ \A e \in DOMAIN docs : e # d => mutated[e] = docs[e]
      /\ InRole(mutated, "SI") \subseteq {d}
      /\ InRole(mutated, "DRAFT_BL") \ {d} = {pair.bl}
      /\ \A role : d \in InRole(mutated, role) <=> Identify(mutated[d]) = role
  <2>1. mutated = Rewritten(d, new)
    BY <1>3 DEF new
  <2>2. QED
    BY <1>1, <1>2, <2>1, RewrittenIs
<1>7. g \in Fields
  BY <1>4 DEF Line, NoField
<1>8. CASE InRole(mutated, "SI") = {}
  <2>1. Pair(mutated).si = 0
    BY <1>8, FS_EmptySet DEF Pair
  <2>2. \E why : Verified(mutated) = Verdict(Open, why, NoPair, TRUE)
    BY <2>1 DEF Verified
  <2>3. QED
    BY <1>7, <2>2 DEF Verdict, Open
<1>9. CASE InRole(mutated, "SI") = {d}
  <2> DEFINE x == ExtractFields(new)
             y == ExtractFields(Seen(mutated[pair.bl]))
  <2>1. d \notin InRole(mutated, "DRAFT_BL")
    BY <1>6, <1>9
  <2>2. InRole(mutated, "DRAFT_BL") = {pair.bl} /\ Seen(mutated[pair.bl]) # <<>>
    BY <1>2, <1>6, <2>1
  <2>3. x[g].value = <<>>
    <3>1. x[g] = ReadingOf(g, Entries(new, g))
      BY <1>7, ExtractedFields
    <3>2. <<"N/A">> \in Entries(new, g)
      <4>1. Entry(new, i) = <<"N/A">>
        BY <1>5, NoWeight DEF Entry
      <4>2. QED
        BY <1>5, <4>1, NoWeight DEF Entries, Labelled
    <3>3. QED
      BY <1>5, <3>1, <3>2, EntriesFinite, NoReading, NoWeight
  <2>4. FieldState(g, x[g], y[g]) = "UNRESOLVED"
    BY <2>3 DEF FieldState
  <2>5. /\ Verified(mutated).fields = [f \in Fields |-> FieldState(f, x[f], y[f])]
        /\ (\E f \in Fields : FieldState(f, x[f], y[f]) = "UNRESOLVED")
             => Verified(mutated).verification = "NEEDS_REVIEW"
    <3>1. Seen(mutated[d]) # <<>>
      BY <1>5, <1>6
    <3>2. InRole(mutated, "SI") = {d} /\ InRole(mutated, "DRAFT_BL") = {pair.bl}
      BY <1>9, <2>2
    <3>3. /\ Verified(mutated).fields = [f \in Fields |-> FieldState(f, ExtractFields(Seen(mutated[d]))[f], y[f])]
          /\ Verified(mutated).verification =
               IF \E f \in Fields : FieldState(f, ExtractFields(Seen(mutated[d]))[f], y[f]) = "UNRESOLVED"
               THEN "NEEDS_REVIEW"
               ELSE IF \E f \in Fields : FieldState(f, ExtractFields(Seen(mutated[d]))[f], y[f]) = "MISMATCH"
               THEN "MISMATCH" ELSE "MATCH"
      BY <1>1, <1>2, <2>2, <3>1, <3>2, VerdictOfPair
    <3>4. QED
      BY <1>6, <3>3
  <2> HIDE DEF x, y
  <2>6. QED
    BY <1>7, <2>4, <2>5
<1>10. QED
  BY <1>6, <1>8, <1>9

-----------------------------------------------------------------------------
(* The role of a text whose numbers or port are written anew.              *)

\* Words that tell nothing of the role of a document, and texts that differ in them alone.
Silent == DOMAIN Numeral \cup PortKlang
Telling == SITerms \cup BLTerms \cup {"commercial invoice"}
Word == STRING \cup Silent

SpeakAlike(u, v) ==
  /\ u \in Seq(Word) /\ v \in Seq(Word) /\ Len(u) = Len(v)
  /\ \A k \in 1..Len(u) : u[k] = v[k] \/ (u[k] \in Silent /\ v[k] \in Silent)

LinesAlike(a, b) ==
  /\ DOMAIN a = DOMAIN b
  /\ \A i \in DOMAIN a : a[i].field = b[i].field /\ SpeakAlike(a[i].words, b[i].words)

LEMMA SilentWords ==
  ASSUME NEW w \in Silent
  PROVE  /\ Terms(w) = {w} /\ w \notin Telling /\ w \notin Titles
         /\ w \notin Markers /\ w \notin Unknown /\ w # Bar /\ w # "same as consignee"
<1>1. CASE w \in DOMAIN Numeral
  <2>1. w \notin Markers \cup Unknown \cup SITerms \cup BLTerms \cup {Bar, "same as consignee", "commercial invoice"}
    BY <1>1, VocabularyAssumption
  <2>2. w \notin Titles /\ w # "shipping instruction"
    BY <2>1 DEF Titles, SITerms, BLTerms
  <2>3. QED
    BY <2>1, <2>2 DEF Terms, Telling
<1>2. CASE w \in PortKlang
  BY <1>2 DEF PortKlang, Terms, Telling, Titles, Markers, Unknown, Bar, SITerms, BLTerms
<1>3. QED
  BY <1>1, <1>2 DEF Silent

LEMMA MentionedIs ==
  ASSUME NEW lines, NEW t
  PROVE  t \in Mentioned(lines) <=>
           \E i \in DOMAIN lines :
             t = lines[i].field \/ \E k \in DOMAIN lines[i].words : t \in Terms(lines[i].words[k])
<1> DEFINE Parts(l) == {l.field} \cup UNION {Terms(w) : w \in ToSet(l.words)}
<1>1. \A l : t \in Parts(l) <=> t = l.field \/ \E k \in DOMAIN l.words : t \in Terms(l.words[k])
  BY DEF ToSet
<1>2. t \in Mentioned(lines) <=> \E i \in DOMAIN lines : t \in Parts(lines[i])
  BY DEF Mentioned, ToSet
<1> HIDE DEF Parts
<1>3. QED
  BY <1>1, <1>2

LEMMA MentionsKept ==
  ASSUME NEW a, NEW b, LinesAlike(a, b), NEW t \in Telling, t \in Mentioned(a)
  PROVE  t \in Mentioned(b)
<1>1. PICK i \in DOMAIN a : t = a[i].field \/ \E k \in DOMAIN a[i].words : t \in Terms(a[i].words[k])
  BY MentionedIs
<1>2. i \in DOMAIN b /\ a[i].field = b[i].field /\ SpeakAlike(a[i].words, b[i].words)
  BY DEF LinesAlike
<1>3. ASSUME NEW k \in DOMAIN a[i].words, t \in Terms(a[i].words[k])
      PROVE  k \in DOMAIN b[i].words /\ t \in Terms(b[i].words[k])
  <2>1. /\ k \in DOMAIN b[i].words
        /\ a[i].words[k] = b[i].words[k] \/ a[i].words[k] \in Silent
    BY <1>2 DEF SpeakAlike
  <2>2. a[i].words[k] \notin Silent
    BY <1>3, SilentWords
  <2>3. QED
    BY <1>3, <2>1, <2>2
<1>4. QED
  BY <1>1, <1>2, <1>3, MentionedIs

LEMMA AlikeBack == ASSUME NEW a, NEW b, LinesAlike(a, b) PROVE LinesAlike(b, a)
  BY DEF LinesAlike, SpeakAlike

LEMMA SecondOf == ASSUME NEW n \in Nat, 1 \in 1..n, n # 1 PROVE 2 \in 1..n
OBVIOUS

LEMMA HeadingKept ==
  ASSUME NEW a, NEW b, LinesAlike(a, b), NEW title \in Titles, Headed(a, title)
  PROVE  Headed(b, title)
<1>1. PICK i \in DOMAIN a :
        /\ i <= 8 /\ a[i].field = NoField /\ a[i].words # <<>> /\ a[i].words[1] = title
        /\ Len(a[i].words) = 1 \/ a[i].words[2] \in {Bar} \cup Markers
  BY DEF Headed
<1> DEFINE u == a[i].words
           v == b[i].words
<1>2. i \in DOMAIN b /\ b[i].field = NoField /\ SpeakAlike(u, v)
  BY <1>1 DEF LinesAlike
<1> HIDE DEF u, v
<1>3. /\ u \in Seq(Word) /\ v \in Seq(Word) /\ Len(u) = Len(v) /\ u # <<>>
      /\ \A k \in 1..Len(u) : u[k] \notin Silent => u[k] = v[k]
  BY <1>1, <1>2 DEF SpeakAlike, u
<1>4. v # <<>> /\ 1 \in 1..Len(u) /\ Len(u) \in Nat
  BY <1>3
<1>5. v[1] = title
  BY <1>1, <1>3, <1>4, SilentWords DEF u
<1>6. Len(v) = 1 \/ v[2] \in {Bar} \cup Markers
  <2>1. CASE Len(u) = 1
    BY <1>3, <2>1
  <2>2. CASE Len(u) # 1
    <3>1. u[2] \in {Bar} \cup Markers
      BY <1>1, <2>2 DEF u
    <3>2. 2 \in 1..Len(u)
      BY <1>4, <2>2, SecondOf
    <3>3. QED
      BY <1>3, <3>1, <3>2, SilentWords
  <2>3. QED
    BY <2>1, <2>2
<1>7. QED
  BY <1>1, <1>2, <1>4, <1>5, <1>6 DEF Headed, v

\* The role of a document is told by other words.
LEMMA RoleKept ==
  ASSUME NEW old, NEW new, new.name = old.name, LinesAlike(Seen(old), Seen(new))
  PROVE  Identify(new) = Identify(old)
<1> DEFINE a == Seen(old)
           b == Seen(new)
<1>1. LinesAlike(a, b) /\ LinesAlike(b, a)
  BY AlikeBack
<1> HIDE DEF a, b
<1>2. \A t \in Telling : t \in Mentioned(a) <=> t \in Mentioned(b)
  BY <1>1, MentionsKept
<1>3. /\ Mentioned(a) \cap SITerms = Mentioned(b) \cap SITerms
      /\ Mentioned(a) \cap BLTerms = Mentioned(b) \cap BLTerms
      /\ "commercial invoice" \in Mentioned(a) <=> "commercial invoice" \in Mentioned(b)
  BY <1>2 DEF Telling
<1>4. \A title \in Titles : Headed(a, title) <=> Headed(b, title)
  BY <1>1, HeadingKept
<1>5. /\ Headed(a, "shipping instruction") <=> Headed(b, "shipping instruction")
      /\ Headed(a, "bill of lading") <=> Headed(b, "bill of lading")
  BY <1>4 DEF Titles
<1> DEFINE si == Cardinality(Mentioned(a) \cap SITerms)
           bl == Cardinality(Mentioned(a) \cap BLTerms)
           si2 == Cardinality(Mentioned(b) \cap SITerms)
           bl2 == Cardinality(Mentioned(b) \cap BLTerms)
<1>6. si2 = si /\ bl2 = bl
  BY <1>3
<1> HIDE DEF si, bl, si2, bl2
<1> DEFINE count(x, y, doc) == IF x > y THEN "SI" ELSE IF y >= 2 THEN "DRAFT_BL" ELSE Hints[doc.name]
           few(x) == x < 2
           role(lines, x, counted) ==
             IF Headed(lines, "shipping instruction") THEN "SI"
             ELSE IF Headed(lines, "bill of lading") THEN "DRAFT_BL"
             ELSE IF "commercial invoice" \in Mentioned(lines) /\ few(x) THEN "OTHER" ELSE counted
<1>7. Identify(old) = role(a, bl, count(si, bl, old))
  BY DEF Identify, a, si, bl
<1>8. Identify(new) = role(b, bl2, count(si2, bl2, new))
  BY DEF Identify, b, si2, bl2
<1>9. count(si2, bl2, new) = count(si, bl, old) /\ few(bl2) = few(bl)
  BY <1>6, Zenon
<1> HIDE DEF count, few
<1>10. role(a, bl, count(si, bl, old)) = role(b, bl, count(si, bl, old))
  BY <1>3, <1>5
<1> HIDE DEF role
<1>11. QED
  BY <1>6, <1>7, <1>8, <1>9, <1>10

\* A rewritten draft BL that speaks alike makes the same pair.
LEMMA PairKept ==
  ASSUME AttachmentsOK, Verified(docs).verification = "MATCH",
         NEW d \in InText("DRAFT_BL"), NEW new, LinesAlike(docs[d].lines, new)
  PROVE  LET mutated == Rewritten(d, new)
             s == Verified(docs).pair.si
         IN /\ Verified(docs).pair.bl = d /\ s \in DOMAIN docs /\ s # d
            /\ s \in Nat \ {0} /\ d \in Nat \ {0}
            /\ InRole(mutated, "SI") = {s} /\ InRole(mutated, "DRAFT_BL") = {d}
            /\ Seen(mutated[s]) = Seen(docs[s]) /\ Seen(mutated[s]) # <<>>
            /\ Seen(mutated[d]) = new /\ Seen(docs[d]) = docs[d].lines /\ new # <<>>
<1> DEFINE mutated == Rewritten(d, new)
           pair == Verified(docs).pair
<1>1. /\ d \in DOMAIN docs /\ d \in Nat \ {0} /\ InRole(docs, "DRAFT_BL") = {d}
      /\ docs[d].format = "txt" /\ ~docs[d].broken /\ Seen(docs[d]) = docs[d].lines
      /\ docs[d].lines # <<>> /\ docs[d].lines \in Seq(Line) /\ Identify(docs[d]) = "DRAFT_BL"
  BY TextOfPair
<1>2. /\ InRole(docs, "SI") = {pair.si} /\ InRole(docs, "DRAFT_BL") = {pair.bl}
      /\ pair.si \in DOMAIN docs /\ pair.si \in Nat \ {0}
      /\ pair.si # pair.bl /\ Seen(docs[pair.si]) # <<>>
  BY CleanPair
<1>3. pair.bl = d
  BY <1>1, <1>2
<1> HIDE DEF pair
<1>4. /\ Seen(mutated[d]) = new /\ mutated[d].name = docs[d].name
      /\ \A e \in DOMAIN docs : e # d => mutated[e] = docs[e]
      /\ \A role : InRole(mutated, role) \ {d} = InRole(docs, role) \ {d}
      /\ \A role : d \in InRole(mutated, role) <=> Identify(mutated[d]) = role
  BY <1>1, RewrittenIs
<1> HIDE DEF mutated
<1>5. Identify(mutated[d]) = "DRAFT_BL"
  BY <1>1, <1>4, RoleKept
<1>6. InRole(mutated, "SI") = {pair.si} /\ InRole(mutated, "DRAFT_BL") = {d}
  <2>1. d \notin InRole(mutated, "SI") /\ d \in InRole(mutated, "DRAFT_BL")
    BY <1>4, <1>5
  <2>2. InRole(mutated, "SI") \ {d} = {pair.si} \ {d} /\ InRole(mutated, "DRAFT_BL") \ {d} = {}
    BY <1>1, <1>2, <1>4
  <2>3. QED
    BY <1>2, <1>3, <2>1, <2>2
<1>7. new # <<>>
  <2>1. DOMAIN docs[d].lines = DOMAIN new
    BY DEF LinesAlike
  <2>2. 1 \in DOMAIN docs[d].lines
    BY <1>1
  <2>3. QED
    BY <2>1, <2>2
<1>8. QED
  BY <1>1, <1>2, <1>3, <1>4, <1>6, <1>7 DEF mutated, pair

-----------------------------------------------------------------------------
(* The lines under a label.                                                *)

\* Lines as they may be rewritten, and those that stand under a label.
WideLine == [field: Fields \cup {NoField}, words: Seq(Word), place: {"body", "table", "margin", "unseen"}]

NextLabels(lines, i) == {j \in DOMAIN lines : j > i /\ lines[j].field # NoField}
LastUnder(lines, i) == IF NextLabels(lines, i) = {} THEN Len(lines) ELSE First(NextLabels(lines, i)) - 1
Under(lines, i) == {j \in i + 1..LastUnder(lines, i) : lines[j].words # <<>>}

LEMMA WordsAreWide == ASSUME NEW lines \in Seq(Line) PROVE lines \in Seq(WideLine)
<1>1. Seq(STRING) \subseteq Seq(Word)
  BY DEF Word
<1>2. Line \subseteq WideLine
  BY <1>1 DEF Line, WideLine
<1>3. QED
  BY <1>2

LEMMA RewrittenLine ==
  ASSUME NEW lines \in Seq(WideLine), NEW i \in DOMAIN lines, NEW words \in Seq(Word)
  PROVE  LET new == [lines EXCEPT ![i].words = words]
         IN /\ new \in Seq(WideLine) /\ DOMAIN new = DOMAIN lines /\ Len(new) = Len(lines)
            /\ new[i].words = words /\ new[i].field = lines[i].field
            /\ \A j \in DOMAIN lines : j # i => new[j] = lines[j]
<1> DEFINE line == [lines[i] EXCEPT !.words = words]
           new == [lines EXCEPT ![i].words = words]
<1>1. lines[i] \in WideLine
  OBVIOUS
<1>2. line \in WideLine /\ line.words = words /\ line.field = lines[i].field
  BY <1>1 DEF WideLine
<1>3. new = [lines EXCEPT ![i] = line]
  OBVIOUS
<1> HIDE DEF line
<1>4. [lines EXCEPT ![i] = line] \in Seq(WideLine)
  BY <1>2
<1>5. QED
  BY <1>2, <1>3, <1>4

\* The lines under a label: none of them, nor any in between, has a label.
LEMMA UnderIs ==
  ASSUME NEW lines \in Seq(WideLine), NEW i \in DOMAIN lines
  PROVE  /\ Under(lines, i) \subseteq DOMAIN lines /\ i \notin Under(lines, i)
         /\ \A j \in DOMAIN lines :
              j \in Under(lines, i) <=>
                /\ i < j /\ lines[j].words # <<>>
                /\ \A k \in DOMAIN lines : i < k /\ k <= j => lines[k].field = NoField
<1> DEFINE n == Len(lines)
           N == NextLabels(lines, i)
           last == LastUnder(lines, i)
<1>1. DOMAIN lines = 1..n /\ n \in Nat /\ i \in 1..n /\ i \in Nat
  OBVIOUS
<1>2. \A k \in DOMAIN lines : k \in N <=> k > i /\ lines[k].field # NoField
  BY DEF NextLabels
<1>3. N \subseteq 1..n
  BY <1>1 DEF NextLabels
<1>4. last \in Int /\ last <= n /\ (\A k \in 1..n : i < k => (k <= last <=> \A m \in N : k < m))
  <2>1. CASE N = {}
    BY <1>1, <2>1 DEF LastUnder
  <2>2. CASE N # {}
    <3>1. First(N) \in N /\ \A m \in N : First(N) <= m
      BY <1>3, <2>2, FirstIs
    <3>2. last = First(N) - 1
      BY <2>2 DEF LastUnder
    <3>3. First(N) \in 1..n /\ \A m \in N : m \in 1..n
      BY <1>3, <3>1
    <3> HIDE DEF N, last
    <3> DEFINE first == First(N)
    <3> HIDE DEF first
    <3>4. first \in 1..n /\ last = first - 1 /\ first \in N /\ \A m \in N : first <= m /\ m \in 1..n
      BY <3>1, <3>2, <3>3 DEF first
    <3>5. QED
      BY <1>1, <3>4
  <2>3. QED
    BY <2>1, <2>2
<1>5. \A j : j \in Under(lines, i) <=> j \in i + 1..last /\ lines[j].words # <<>>
  BY DEF Under
<1> HIDE DEF N, last, n
<1>6. ASSUME NEW j \in 1..n
      PROVE  j \in Under(lines, i) <=>
                /\ i < j /\ lines[j].words # <<>>
                /\ \A k \in 1..n : i < k /\ k <= j => lines[k].field = NoField
  <2>1. j \in i + 1..last <=> i < j /\ j <= last
    BY <1>1, <1>4
  <2>2. i < j => (j <= last <=> \A m \in N : j < m)
    BY <1>4
  <2>3. (\A m \in N : j < m) <=> \A k \in 1..n : i < k /\ k <= j => lines[k].field = NoField
    <3>1. \A m \in N : m \in 1..n /\ m \in Nat
      BY <1>3
    <3>2. \A k \in 1..n : k \in N <=> i < k /\ lines[k].field # NoField
      BY <1>1, <1>2
    <3>3. \A k \in 1..n : ~(j < k) <=> k <= j
      BY <1>1
    <3>4. QED
      BY <3>1, <3>2, <3>3
  <2>4. QED
    BY <1>5, <2>1, <2>2, <2>3
<1>7. Under(lines, i) \subseteq 1..n /\ i \notin Under(lines, i)
  BY <1>1, <1>4, <1>5
<1>8. QED
  BY <1>1, <1>6, <1>7

LEMMA UnderKept ==
  ASSUME NEW a \in Seq(WideLine), NEW b \in Seq(WideLine), LinesAlike(a, b), NEW i \in DOMAIN a
  PROVE  Under(b, i) = Under(a, i)
<1>1. DOMAIN a = DOMAIN b /\ \A j \in DOMAIN a : a[j].field = b[j].field
  BY DEF LinesAlike
<1>2. \A j \in DOMAIN a : a[j].words = <<>> <=> b[j].words = <<>>
  <2> SUFFICES ASSUME NEW j \in DOMAIN a PROVE a[j].words = <<>> <=> b[j].words = <<>>
    OBVIOUS
  <2>1. SpeakAlike(a[j].words, b[j].words)
    BY DEF LinesAlike
  <2>2. QED
    BY <2>1 DEF SpeakAlike
<1>3. /\ Under(a, i) \subseteq DOMAIN a
      /\ \A j \in DOMAIN a :
           j \in Under(a, i) <=>
             /\ i < j /\ a[j].words # <<>>
             /\ \A k \in DOMAIN a : i < k /\ k <= j => a[k].field = NoField
  BY UnderIs
<1>4. /\ Under(b, i) \subseteq DOMAIN a
      /\ \A j \in DOMAIN a :
           j \in Under(b, i) <=>
             /\ i < j /\ b[j].words # <<>>
             /\ \A k \in DOMAIN a : i < k /\ k <= j => b[k].field = NoField
  <2>1. i \in DOMAIN b
    BY <1>1
  <2>2. QED
    BY <1>1, <2>1, UnderIs
<1>5. \A j \in DOMAIN a : j \in Under(a, i) <=> j \in Under(b, i)
  BY <1>1, <1>2, <1>3, <1>4
<1>6. QED
  BY <1>3, <1>4, <1>5

\* The elements at some of the positions are those there.
LEMMA ChosenIs ==
  ASSUME NEW s, NEW n \in Nat, DOMAIN s = 1..n, NEW places \in SUBSET (1..n), places # 1..n
  PROVE  /\ Chosen(s, places) = [k \in 1..Cardinality(places) |-> s[Ranked(places, k)]]
         /\ Cardinality(places) \in Nat
         /\ \A k \in 1..Cardinality(places) : Ranked(places, k) \in places
  BY RankedIn, PositionsFinite DEF Chosen

LEMMA FirstRanked ==
  ASSUME NEW n \in Nat, NEW places \in SUBSET (1..n), NEW i \in places, \A j \in places : i <= j
  PROVE  Ranked(places, 1) = i /\ 1 \in 1..Cardinality(places)
<1>1. \A j \in places : j \in Nat
  OBVIOUS
<1>2. {j \in places : j <= i} = {i}
  <2>1. \A j \in places : j <= i <=> j = i
    BY <1>1
  <2>2. QED
    BY <2>1
<1>3. Cardinality({j \in places : j <= i}) = 1
  BY <1>2, FS_Singleton
<1>4. ASSUME NEW r \in places, Cardinality({j \in places : j <= r}) = 1 PROVE r = i
  <2> DEFINE upto == {j \in places : j <= r}
  <2>1. upto \in SUBSET (1..n)
    OBVIOUS
  <2>2. IsFiniteSet(upto)
    BY <2>1, PositionsFinite
  <2>3. PICK e : upto = {e}
    <3> HIDE DEF upto
    <3>1. QED
      BY <1>4, <2>2, FS_Singleton DEF upto
  <2>4. i \in upto /\ r \in upto
    BY <1>1
  <2>5. QED
    BY <2>3, <2>4
<1>5. Ranked(places, 1) = i
  <2>1. \E e \in places : Cardinality({j \in places : j <= e}) = 1
    BY <1>3
  <2>2. Ranked(places, 1) \in places /\ Cardinality({j \in places : j <= Ranked(places, 1)}) = 1
    BY <2>1, Zenon DEF Ranked
  <2>3. QED
    BY <1>4, <2>2
<1>6. 1 \in 1..Cardinality(places)
  <2>1. IsFiniteSet(places) /\ Cardinality(places) \in Nat
    BY PositionsFinite
  <2>2. Cardinality(places) # 0
    BY <2>1, FS_EmptySet
  <2>3. QED
    BY <2>1, <2>2
<1>7. QED
  BY <1>5, <1>6

\* What a label has for its value.
Worth(f, inline, below) ==
  IF inline # <<>> \/ below = <<>> THEN inline
  ELSE CASE f \in PartyFields -> FlattenSeq([k \in DOMAIN below |-> below[k].words])
         [] f = "gross_weight_kg" -> IF Scalar(below[1].words) THEN below[1].words ELSE <<>>
         [] OTHER -> below[1].words

LEMMA EntryIs ==
  ASSUME NEW lines, NEW i
  PROVE  Entry(lines, i) = Worth(lines[i].field, Stripped(lines[i].words), Chosen(lines, Under(lines, i)))
  BY DEF Entry, Worth, Under, LastUnder, NextLabels

\* Entries are kept where neither the line of a label nor one under it is written anew.
LEMMA EntryKept ==
  ASSUME NEW a \in Seq(WideLine), NEW b \in Seq(WideLine), LinesAlike(a, b), NEW j \in DOMAIN a,
         a[j] = b[j], \A k \in Under(a, j) : a[k] = b[k]
  PROVE  Entry(b, j) = Entry(a, j)
<1> DEFINE n == Len(a)
           under == Under(a, j)
<1>1. n \in Nat /\ DOMAIN a = 1..n /\ DOMAIN b = 1..n
  BY DEF LinesAlike
<1>2. under \in SUBSET (1..n) /\ under # 1..n
  BY <1>1, UnderIs
<1>3. Under(b, j) = under
  BY UnderKept
<1> HIDE DEF n, under
<1>4. \A k \in 1..Cardinality(under) : a[Ranked(under, k)] = b[Ranked(under, k)]
  BY <1>1, <1>2, ChosenIs DEF under
<1>5. Chosen(a, under) = Chosen(b, under)
  <2>1. Chosen(a, under) = [k \in 1..Cardinality(under) |-> a[Ranked(under, k)]]
    BY <1>1, <1>2, ChosenIs
  <2>2. Chosen(b, under) = [k \in 1..Cardinality(under) |-> b[Ranked(under, k)]]
    BY <1>1, <1>2, ChosenIs
  <2>3. QED
    BY <1>4, <2>1, <2>2
<1>6. QED
  BY <1>3, <1>5, EntryIs DEF under

LEMMA EntriesKept ==
  ASSUME NEW a, NEW b, LinesAlike(a, b), NEW f, \A j \in Labelled(a, f) : Entry(b, j) = Entry(a, j)
  PROVE  Entries(b, f) = Entries(a, f)
<1>1. Labelled(b, f) = Labelled(a, f)
  BY DEF Labelled, LinesAlike
<1>2. {Entry(b, j) : j \in Labelled(b, f)} = {Entry(a, j) : j \in Labelled(a, f)}
  BY <1>1
<1>3. QED
  BY <1>2 DEF Entries, Labelled

-----------------------------------------------------------------------------
(* One container more.                                                     *)

LEMMA OnlyLabel ==
  ASSUME NEW lines, NEW n \in Nat, DOMAIN lines = 1..n, NEW f,
         Cardinality(Labelled(lines, f)) <= 1, NEW i \in Labelled(lines, f)
  PROVE  Labelled(lines, f) = {i}
<1> DEFINE L == Labelled(lines, f)
<1>1. L \in SUBSET (1..n)
  BY DEF Labelled
<1> HIDE DEF L
<1>2. IsFiniteSet(L) /\ Cardinality(L) \in Nat
  BY <1>1, PositionsFinite
<1>3. Cardinality(L) # 0 /\ i \in L
  BY <1>2, FS_EmptySet DEF L
<1>4. Cardinality(L) = 1
  BY <1>2, <1>3 DEF L
<1>5. PICK e : L = {e}
  BY <1>2, <1>4, FS_Singleton
<1>6. QED
  BY <1>3, <1>5 DEF L

\* The containers of a text whose count is incremented: the label and its one value.
LEMMA CountIs ==
  ASSUME NEW lines \in Seq(WideLine), NEW i \in Counts(lines),
         Cardinality(Labelled(lines, "container_count")) <= 1
  PROVE  LET words == lines[i].words
         IN /\ Entries(lines, "container_count") = {words}
            /\ words \in Seq(Word) /\ 1 \in 1..Len(words) /\ words[1] \in DOMAIN Numeral
            /\ Canon("container_count", words) = <<Numeral[words[1]][1]>>
<1> DEFINE words == lines[i].words
           cc == "container_count"
<1>1. i \in DOMAIN lines /\ lines[i] \in WideLine /\ 1 \in Sized(words)
  BY DEF Counts
<1>2. words \in Seq(Word)
  BY <1>1 DEF WideLine
<1>3. cc \notin PartyFields /\ cc # "gross_weight_kg" /\ cc # NoField
  BY DEF PartyFields, NoField
<1>4. \/ lines[i].field = cc
      \/ i > 1 /\ lines[i].field = NoField /\ lines[i - 1].field = cc /\ lines[i - 1].words = <<>>
  BY DEF Counts
<1> HIDE DEF words, cc
<1>5. 1 \in 1..Len(words) /\ words[1] \in DOMAIN Numeral /\ words # <<>>
  <2>1. 1 \in DOMAIN words /\ words[1] \in DOMAIN Numeral
    BY <1>1 DEF Sized, Numbers
  <2>2. QED
    BY <1>2, <2>1
<1>6. Stripped(words) = words
  <2>1. words[1] \notin Markers
    BY <1>5, SilentWords DEF Silent
  <2>2. words # <<"(?)">>
    <3>1. <<"(?)">>[1] = "(?)"
      OBVIOUS
    <3>2. QED
      BY <2>1, <3>1 DEF Markers
  <2>3. QED
    BY <2>1, <2>2 DEF Stripped
<1>7. \E label \in Labelled(lines, cc) : Entry(lines, label) = words
  <2>1. CASE lines[i].field = cc
    <3>1. Entry(lines, i) = words
      BY <1>5, <1>6, EntryIs DEF Worth, words
    <3>2. i \in Labelled(lines, cc)
      BY <1>1, <2>1 DEF Labelled
    <3>3. QED
      BY <3>1, <3>2
  <2>2. CASE i > 1 /\ lines[i].field = NoField /\ lines[i - 1].field = cc /\ lines[i - 1].words = <<>>
    <3> DEFINE label == i - 1
               under == Under(lines, label)
               n == Len(lines)
    <3>1. n \in Nat /\ DOMAIN lines = 1..n /\ label \in 1..n /\ i \in 1..n
      BY <1>1, <2>2
    <3>2. \A k \in 1..n : label < k /\ k <= i => k = i
      BY <3>1
    <3>3. label < i
      BY <3>1
    <3> HIDE DEF n, label
    <3>4. i \in under
      BY <1>5, <2>2, <3>1, <3>2, <3>3, UnderIs DEF words
    <3>5. \A j \in under : i <= j
      <4>1. \A j \in under : label < j /\ j \in 1..n
        BY <3>1, UnderIs
      <4>2. \A j \in 1..n : label < j => i <= j
        BY <3>1 DEF label
      <4>3. QED
        BY <4>1, <4>2
    <3>6. under \in SUBSET (1..n) /\ under # 1..n
      BY <3>1, UnderIs
    <3> HIDE DEF under
    <3>7. Ranked(under, 1) = i /\ 1 \in 1..Cardinality(under)
      BY <3>1, <3>4, <3>5, <3>6, FirstRanked
    <3> DEFINE below == Chosen(lines, under)
    <3>8. below = [k \in 1..Cardinality(under) |-> lines[Ranked(under, k)]]
      BY <3>1, <3>6, ChosenIs
    <3>9. below[1].words = words /\ 1 \in DOMAIN below
      BY <3>7, <3>8 DEF words
    <3> HIDE DEF below
    <3>10. below # <<>>
      BY <3>9
    <3>11. Stripped(<<>>) = <<>>
      <4>1. <<>> # <<"(?)">> /\ ~(Len(<<>>) >= 2)
        OBVIOUS
      <4>2. QED
        BY <4>1 DEF Stripped
    <3>12. Entry(lines, label) = Worth(cc, <<>>, below)
      BY <2>2, <3>11, EntryIs DEF label, under, below
    <3>13. Entry(lines, label) = words
      BY <1>3, <3>9, <3>10, <3>12 DEF Worth
    <3>14. label \in Labelled(lines, cc)
      BY <2>2, <3>1 DEF Labelled, label
    <3>15. QED
      BY <3>13, <3>14
  <2>3. QED
    BY <1>4, <2>1, <2>2
<1>8. PICK label \in Labelled(lines, cc) : Entry(lines, label) = words
  BY <1>7
<1>9. Labelled(lines, cc) = {label}
  <2>1. Len(lines) \in Nat /\ DOMAIN lines = 1..Len(lines)
    OBVIOUS
  <2>2. QED
    BY <2>1, OnlyLabel DEF cc
<1>10. Entries(lines, cc) = {words}
  BY <1>5, <1>8, <1>9 DEF Entries, Labelled
<1>11. Canon(cc, words) = <<Numeral[words[1]][1]>>
  <2>1. Sized(words) # {} /\ Sized(words) \in SUBSET Nat /\ Numbers(words) # {} /\ Sized(words) \subseteq 1..Len(words)
    <3>1. 1 \in Sized(words)
      BY <1>1 DEF words
    <3>2. Sized(words) \subseteq Numbers(words) /\ Numbers(words) \subseteq DOMAIN words
      BY DEF Sized, Numbers
    <3>3. DOMAIN words = 1..Len(words)
      BY <1>2
    <3>4. QED
      BY <3>1, <3>2, <3>3
  <2>2. First(Sized(words)) \in Sized(words) /\ First(Sized(words)) <= 1
    BY <1>1, <2>1, FirstIs DEF words
  <2>3. First(Sized(words)) = 1
    BY <1>2, <2>1, <2>2
  <2>4. cc = "container_count"
    BY DEF cc
  <2>5. QED
    BY <2>1, <2>3, <2>4 DEF Canon, PartyFields
<1>12. QED
  BY <1>2, <1>5, <1>10, <1>11 DEF words, cc

\* A field that is read anew changes no other: only a notify party refers to another field.
LEMMA ExtractKept ==
  ASSUME NEW a, NEW b, NEW changed, changed \notin {"consignee", "notify_party"},
         \A g \in Fields \ {changed} : Entries(b, g) = Entries(a, g),
         NEW f \in Fields \ {changed}
  PROVE  ExtractFields(b)[f] = ExtractFields(a)[f]
<1> DEFINE x == [g \in Fields |-> ReadingOf(g, Entries(a, g))]
           y == [g \in Fields |-> ReadingOf(g, Entries(b, g))]
           refers(obs) == /\ {"consignee", "notify_party"} \subseteq Fields
                          /\ obs["notify_party"].status = "PRESENT" /\ obs["consignee"].status = "PRESENT"
                          /\ Found("same as consignee", obs["notify_party"].raw)
           resolved(obs) == IF refers(obs) THEN [obs EXCEPT !["notify_party"].value = obs["consignee"].value] ELSE obs
<1>1. ExtractFields(a) = resolved(x) /\ ExtractFields(b) = resolved(y)
  BY DEF ExtractFields
<1>2. DOMAIN x = Fields /\ DOMAIN y = Fields /\ \A g \in Fields \ {changed} : y[g] = x[g]
  OBVIOUS
<1> HIDE DEF x, y
<1>3. refers(x) <=> refers(y)
  <2>1. {"consignee", "notify_party"} \subseteq Fields =>
          y["consignee"] = x["consignee"] /\ y["notify_party"] = x["notify_party"]
    BY <1>2
  <2>2. QED
    BY <2>1
<1>4. CASE refers(x)
  <2>1. /\ resolved(x) = [x EXCEPT !["notify_party"].value = x["consignee"].value]
        /\ resolved(y) = [y EXCEPT !["notify_party"].value = y["consignee"].value]
    BY <1>3, <1>4
  <2>2. "consignee" \in Fields \ {changed} /\ "notify_party" \in Fields \ {changed}
    BY <1>4
  <2>3. y["consignee"] = x["consignee"] /\ y[f] = x[f] /\ y["notify_party"] = x["notify_party"]
    BY <1>2, <2>2
  <2> HIDE DEF resolved, refers
  <2>4. resolved(x)[f] = resolved(y)[f]
    BY <1>2, <2>1, <2>2, <2>3
  <2>5. QED
    BY <1>1, <2>4
<1>5. CASE ~refers(x)
  BY <1>1, <1>2, <1>3, <1>5
<1>6. QED
  BY <1>4, <1>5

\* Arithmetic and tuples, each where nothing else distracts from it.
LEMMA OneMore == ASSUME NEW n \in Nat PROVE n + 1000 # n
OBVIOUS

LEMMA OneAndOne == 1 + 1 = 2
OBVIOUS

LEMMA FromTwo == ASSUME NEW n \in Nat, 1 < n PROVE 2 \in 2..n
OBVIOUS

LEMMA OneIsSome == ASSUME NEW x PROVE <<x>> # <<>>
OBVIOUS

LEMMA PairOfOne == ASSUME NEW x, NEW y, <<x>> = <<y>> PROVE x = y
OBVIOUS

\* One container more in the draft BL is a mismatch of the count, and of nothing else.
LEMMA IncrementedPasses ==
  ASSUME AttachmentsOK, Verified(docs).verification = "MATCH",
         \A f \in Fields : Cardinality(Labelled(Seen(docs[Verified(docs).pair.bl]), f)) <= 1,
         NEW d \in InText("DRAFT_BL"), NEW mutated \in Incremented(d)
  PROVE  Verified(mutated).verification = "MISMATCH" /\ "container_count" \in Mismatched(Verified(mutated))
<1> DEFINE lines == docs[d].lines
           cc == "container_count"
           s == Verified(docs).pair.si
<1>1. PICK i \in Counts(lines), w \in DOMAIN Numeral :
        /\ Numeral[w] = <<Numeral[lines[i].words[1]][1] + 1000, 0>>
        /\ mutated = Rewritten(d, [lines EXCEPT ![i].words[1] = w])
  <2> DEFINE one(i) == {x \in DOMAIN Numeral : Numeral[x] = <<Numeral[lines[i].words[1]][1] + 1000, 0>>}
             rewritings(i) == {Rewritten(d, [lines EXCEPT ![i].words[1] = w]) : w \in one(i)}
             spot == {j \in Counts(lines) : j = First(Counts(lines))}
  <2>1. Incremented(d) = UNION {rewritings(i) : i \in spot}
    BY DEF Incremented
  <2> HIDE DEF rewritings
  <2>2. PICK i \in spot : mutated \in rewritings(i)
    BY <2>1
  <2>3. PICK w \in one(i) : mutated = Rewritten(d, [lines EXCEPT ![i].words[1] = w])
    BY <2>2 DEF rewritings
  <2>4. QED
    BY <2>2, <2>3
<1> DEFINE words == lines[i].words
           more == [words EXCEPT ![1] = w]
           new == [lines EXCEPT ![i].words = more]
<1>2. lines \in Seq(Line) /\ Seen(docs[d]) = lines /\ InRole(docs, "DRAFT_BL") = {d}
  BY TextOfPair
<1>3. lines \in Seq(WideLine)
  BY <1>2, WordsAreWide
<1>4. i \in DOMAIN lines /\ lines[i] \in WideLine /\ lines[i].field \in {cc, NoField} /\ words \in Seq(Word)
  <2>1. i \in DOMAIN lines /\ lines[i].field \in {cc, NoField}
    BY DEF Counts
  <2>2. lines[i] \in WideLine
    BY <1>3, <2>1
  <2>3. QED
    BY <2>1, <2>2 DEF WideLine
<1>5. 1 \in 1..Len(words) /\ words[1] \in DOMAIN Numeral /\ 1 \in Sized(words)
  <2>1. 1 \in Sized(words)
    BY DEF Counts
  <2>2. 1 \in DOMAIN words /\ words[1] \in DOMAIN Numeral
    BY <2>1 DEF Sized, Numbers
  <2>3. QED
    BY <1>4, <2>1, <2>2
<1>6. mutated = Rewritten(d, new)
  BY <1>1
<1> HIDE DEF s, lines, words
<1>7. more \in Seq(Word) /\ Len(more) = Len(words) /\ more[1] = w /\ \A k \in 2..Len(words) : more[k] = words[k]
  <2>1. w \in Word
    BY DEF Word, Silent
  <2>2. QED
    BY <1>4, <1>5, <2>1
<1> HIDE DEF more
<1>8. /\ new \in Seq(WideLine) /\ DOMAIN new = DOMAIN lines /\ Len(new) = Len(lines)
      /\ new[i].words = more /\ new[i].field = lines[i].field
      /\ \A j \in DOMAIN lines : j # i => new[j] = lines[j]
  BY <1>3, <1>4, <1>7, RewrittenLine DEF words
<1> HIDE DEF new
<1>9. LinesAlike(lines, new)
  <2>1. \A k \in 1..Len(words) : words[k] = more[k] \/ (words[k] \in Silent /\ more[k] \in Silent)
    <3>1. words[1] \in Silent /\ more[1] \in Silent
      BY <1>5, <1>7 DEF Silent
    <3>2. \A k \in 1..Len(words) : k = 1 \/ k \in 2..Len(words)
      BY <1>4
    <3>3. QED
      BY <1>7, <3>1, <3>2
  <2>2. SpeakAlike(words, more)
    BY <1>4, <1>7, <2>1 DEF SpeakAlike
  <2>3. ASSUME NEW j \in DOMAIN lines PROVE SpeakAlike(lines[j].words, lines[j].words)
    <3>1. lines[j] \in WideLine
      BY <1>3
    <3>2. lines[j].words \in Seq(Word)
      BY <3>1 DEF WideLine
    <3>3. QED
      BY <3>2 DEF SpeakAlike
  <2>4. QED
    BY <1>8, <2>2, <2>3 DEF LinesAlike, words
<1>10. i \in Counts(new)
  <2>1. 1 \in Sized(more)
    <3>1. 1 \in DOMAIN more /\ more[1] \in DOMAIN Numeral
      BY <1>5, <1>7
    <3>2. 1 < Len(words) /\ words[2] = "x 20GP"
      BY <1>5, OneAndOne DEF Sized
    <3>3. 2 \in 2..Len(words)
      <4>1. Len(words) \in Nat
        BY <1>4
      <4>2. QED
        BY <3>2, <4>1, FromTwo, Zenon
    <3>4. 1 < Len(more) /\ more[2] = "x 20GP"
      BY <1>7, <3>2, <3>3
    <3>5. 1 \in Numbers(more)
      BY <3>1 DEF Numbers
    <3>6. QED
      BY <3>4, <3>5, OneAndOne DEF Sized
  <2>2. CASE lines[i].field = cc
    BY <1>4, <1>8, <2>1, <2>2 DEF Counts
  <2>3. CASE lines[i].field # cc
    <3>1. i > 1 /\ lines[i].field = NoField /\ lines[i - 1].field = cc /\ lines[i - 1].words = <<>>
      BY <2>3 DEF Counts, lines
    <3>2. i - 1 \in DOMAIN lines /\ i - 1 # i
      BY <1>3, <1>4, <3>1
    <3>3. QED
      BY <1>4, <1>8, <2>1, <3>1, <3>2 DEF Counts
  <2>4. QED
    BY <2>2, <2>3
<1>11. cc \in Fields /\ cc \notin PartyFields /\ NoField \notin Fields
  <2>1. NoField \notin Fields /\ cc \notin PartyFields /\ cc # NoField
    BY ReadingAssumption DEF NoField, PartyFields
  <2>2. \E j \in DOMAIN lines : lines[j].field = cc
    <3>1. \/ lines[i].field = cc
          \/ i > 1 /\ lines[i].field = NoField /\ lines[i - 1].field = cc /\ lines[i - 1].words = <<>>
      BY DEF Counts, lines
    <3>2. i > 1 => i - 1 \in DOMAIN lines
      BY <1>3, <1>4
    <3>3. QED
      BY <1>4, <3>1, <3>2
  <2>3. \A j \in DOMAIN lines : lines[j].field \in Fields \cup {NoField}
    <3>1. \A j \in DOMAIN lines : lines[j] \in Line
      BY <1>2
    <3>2. QED
      BY <3>1 DEF Line
  <2>4. QED
    BY <2>1, <2>2, <2>3
<1>12. /\ Verified(docs).pair.bl = d
       /\ s \in Nat \ {0} /\ d \in Nat \ {0}
       /\ InRole(mutated, "SI") = {s} /\ InRole(mutated, "DRAFT_BL") = {d}
       /\ Seen(mutated[s]) = Seen(docs[s]) /\ Seen(mutated[s]) # <<>>
       /\ Seen(mutated[d]) = new /\ new # <<>>
  BY <1>6, <1>9, PairKept DEF lines, s
<1>13. Cardinality(Labelled(lines, cc)) <= 1 /\ Cardinality(Labelled(new, cc)) <= 1
  <2>1. Cardinality(Labelled(lines, cc)) <= 1
    BY <1>2, <1>11, <1>12
  <2>2. Labelled(new, cc) = Labelled(lines, cc)
    BY <1>9 DEF Labelled, LinesAlike
  <2>3. QED
    BY <2>1, <2>2
<1> DEFINE x == ExtractFields(Seen(docs[s]))
           y == ExtractFields(lines)
           z == ExtractFields(new)
<1>14. y[cc].value = <<Numeral[words[1]][1]>> /\ z[cc].value = <<Numeral[w][1]>>
  <2>1. /\ Entries(lines, cc) = {words} /\ Canon(cc, words) = <<Numeral[words[1]][1]>>
        /\ Entries(new, cc) = {more} /\ Canon(cc, more) = <<Numeral[w][1]>>
    <3>1. i \in Counts(lines)
      BY DEF lines
    <3>2. QED
      BY <1>3, <1>7, <1>8, <1>10, <1>13, <3>1, CountIs DEF words
  <2>2. y[cc] = ReadingOf(cc, {words}) /\ z[cc] = ReadingOf(cc, {more})
    BY <1>11, <2>1, ExtractedFields
  <2>3. Canon(cc, words) # <<>> /\ Canon(cc, more) # <<>>
    BY <2>1, OneIsSome, Zenon
  <2>4. /\ ReadingOf(cc, {words}) = [status |-> "PRESENT", raw |-> words, value |-> Canon(cc, words)]
        /\ ReadingOf(cc, {more}) = [status |-> "PRESENT", raw |-> more, value |-> Canon(cc, more)]
    BY <2>3, ReadingOfOne
  <2>5. ReadingOf(cc, {words}).value = Canon(cc, words) /\ ReadingOf(cc, {more}).value = Canon(cc, more)
    BY <2>4
  <2> HIDE DEF y, z
  <2>6. QED
    BY <2>1, <2>2, <2>5, Zenon
<1>15. \A f \in Fields \ {cc} : z[f] = y[f]
  <2>1. ASSUME NEW f \in Fields \ {cc} PROVE Entries(new, f) = Entries(lines, f)
    <3>1. ASSUME NEW j \in Labelled(lines, f) PROVE Entry(new, j) = Entry(lines, j)
      <4>1. j \in DOMAIN lines /\ lines[j].field = f /\ f # NoField /\ j # i
        BY <1>4, <1>11 DEF Labelled
      <4>2. i \notin Under(lines, j)
        <5> SUFFICES ASSUME i \in Under(lines, j) PROVE FALSE
          OBVIOUS
        <5>1. j < i /\ \A k \in DOMAIN lines : j < k /\ k <= i => lines[k].field = NoField
          BY <1>3, <1>4, <4>1, UnderIs
        <5>2. i \in Nat /\ j \in Nat /\ i <= i
          BY <1>3, <1>4, <4>1
        <5>3. lines[i].field = NoField
          BY <1>4, <5>1, <5>2
        <5>4. lines[i - 1].field = cc /\ i > 1
          BY <5>3, <1>11 DEF Counts, lines
        <5>5. j # i - 1
          BY <4>1, <5>4
        <5>6. i - 1 \in DOMAIN lines /\ j < i - 1 /\ i - 1 <= i
          BY <1>3, <1>4, <4>1, <5>1, <5>2, <5>4, <5>5
        <5>7. QED
          BY <1>11, <5>1, <5>4, <5>6
      <4>3. \A k \in Under(lines, j) : k \in DOMAIN lines /\ k # i
        BY <1>3, <4>1, <4>2, UnderIs
      <4>4. lines[j] = new[j] /\ \A k \in Under(lines, j) : lines[k] = new[k]
        BY <1>8, <4>1, <4>3
      <4>5. QED
        BY <1>3, <1>8, <1>9, <4>1, <4>4, EntryKept
    <3>2. QED
      BY <1>9, <3>1, EntriesKept
  <2>2. cc \notin {"consignee", "notify_party"}
    OBVIOUS
  <2>3. QED
    BY <2>1, <2>2, ExtractKept
<1> HIDE DEF x, y, z
<1>16. \A f \in Fields : FieldState(f, x[f], y[f]) = "MATCH"
  BY <1>2, <1>12, CleanPair DEF x, y, s
<1>17. \A f \in Fields \ {cc} : FieldState(f, x[f], z[f]) = "MATCH"
  BY <1>15, <1>16
<1>18. FieldState(cc, x[cc], z[cc]) = "MISMATCH"
  <2>1. Numeral[words[1]] \in Nat \X Nat /\ Numeral[w] = <<Numeral[words[1]][1] + 1000, 0>>
    BY <1>1, <1>5, ReadingAssumption DEF words, lines
  <2>2. Numeral[w][1] # Numeral[words[1]][1]
    BY <2>1, OneMore
  <2>3. z[cc].value # y[cc].value /\ z[cc].value # <<>>
    BY <1>14, <2>2, PairOfOne
  <2>4. x[cc].value = y[cc].value /\ x[cc].value # <<>>
    BY <1>11, <1>16 DEF FieldState, Agree
  <2>5. QED
    BY <1>11, <2>3, <2>4 DEF FieldState, Agree
<1>19. /\ Verified(mutated).fields = [f \in Fields |-> FieldState(f, x[f], z[f])]
       /\ Verified(mutated).verification =
            IF \E f \in Fields : FieldState(f, x[f], z[f]) = "UNRESOLVED" THEN "NEEDS_REVIEW"
            ELSE IF \E f \in Fields : FieldState(f, x[f], z[f]) = "MISMATCH" THEN "MISMATCH" ELSE "MATCH"
  BY <1>12, VerdictOfPair DEF x, z
<1>20. ~\E f \in Fields : FieldState(f, x[f], z[f]) = "UNRESOLVED"
  BY <1>17, <1>18
<1>21. Verified(mutated).fields[cc] = "MISMATCH"
  BY <1>11, <1>18, <1>19
<1>22. QED
  BY <1>11, <1>18, <1>19, <1>20, <1>21 DEF Mismatched

-----------------------------------------------------------------------------
(* Another spelling of the port.                                           *)

\* The other spellings that a mutation writes, and the words that it leaves alone.
SpeltAlike(x, y) ==
  \/ x = y
  \/ x \in {"port", "PORT"} /\ y \in {"port", "PORT"}
  \/ x \in {"klang", "KLANG"} /\ y \in {"klang", "KLANG"}

Respelt(u, v) ==
  /\ u \in Seq(Word) /\ v \in Seq(Word) /\ Len(u) = Len(v)
  /\ \A k \in 1..Len(u) : SpeltAlike(u[k], v[k])

Fixed == Markers \cup Unknown \cup Units \cup {Bar, "same as consignee", "x 20GP"} \cup DOMAIN Numeral

LEMMA FixedWords ==
  ASSUME NEW x, NEW y, SpeltAlike(x, y)
  PROVE  /\ \A word \in Fixed : x = word <=> y = word
         /\ x \in Fixed \/ y \in Fixed => x = y
         /\ (IF x \in DOMAIN Fold THEN Fold[x] ELSE x) = (IF y \in DOMAIN Fold THEN Fold[y] ELSE y)
<1>1. PortKlang \cap Fixed = {}
  <2>1. PortKlang \cap DOMAIN Numeral = {}
    BY VocabularyAssumption
  <2>2. PortKlang \cap (Markers \cup Unknown \cup Units \cup {Bar, "same as consignee", "x 20GP"}) = {}
    BY DEF PortKlang, Markers, Unknown, Units, Bar
  <2>3. QED
    BY <2>1, <2>2 DEF Fixed
<1>2. x = y \/ (x \in PortKlang /\ y \in PortKlang)
  BY DEF SpeltAlike, PortKlang
<1>3. (IF x \in DOMAIN Fold THEN Fold[x] ELSE x) = (IF y \in DOMAIN Fold THEN Fold[y] ELSE y)
  <2>1. /\ "PORT" \in DOMAIN Fold /\ "KLANG" \in DOMAIN Fold
        /\ "port" \notin DOMAIN Fold /\ "klang" \notin DOMAIN Fold
        /\ Fold["PORT"] = "port" /\ Fold["KLANG"] = "klang"
    BY VocabularyAssumption
  <2>2. QED
    BY <2>1 DEF SpeltAlike
<1>4. QED
  BY <1>1, <1>2, <1>3

\* A text in another spelling has every other word where it was.
LEMMA RespeltBasics ==
  ASSUME NEW u, NEW v, Respelt(u, v)
  PROVE  /\ Len(u) \in Nat /\ DOMAIN u = 1..Len(u) /\ DOMAIN v = 1..Len(u) /\ Len(v) = Len(u)
         /\ u = <<>> <=> v = <<>>
         /\ \A word \in Fixed : {k \in DOMAIN u : u[k] = word} = {k \in DOMAIN v : v[k] = word}
         /\ \A word \in Fixed : Found(word, u) <=> Found(word, v)
         /\ \A k \in DOMAIN u : \A word \in Fixed : u[k] = word <=> v[k] = word
         /\ \A k \in DOMAIN u : u[k] \in Fixed \/ v[k] \in Fixed => u[k] = v[k]
<1>1. Len(u) \in Nat /\ DOMAIN u = 1..Len(u) /\ DOMAIN v = 1..Len(u) /\ Len(v) = Len(u)
  BY DEF Respelt
<1>2. u = <<>> <=> v = <<>>
  BY DEF Respelt
<1>3. \A k \in DOMAIN u : \A word \in Fixed : u[k] = word <=> v[k] = word
  BY <1>1, FixedWords DEF Respelt
<1>4. \A k \in DOMAIN u : u[k] \in Fixed \/ v[k] \in Fixed => u[k] = v[k]
  BY <1>1, FixedWords DEF Respelt
<1>5. \A word \in Fixed : {k \in DOMAIN u : u[k] = word} = {k \in DOMAIN v : v[k] = word}
  BY <1>1, <1>3
<1>6. \A word \in Fixed : Found(word, u) <=> Found(word, v)
  BY <1>1, <1>3 DEF Found
<1>7. QED
  BY <1>1, <1>2, <1>3, <1>4, <1>5, <1>6

LEMMA RespeltFrom ==
  ASSUME NEW u, NEW v, Respelt(u, v), NEW i \in Nat, NEW j \in Nat,
         1 <= i, j <= Len(u)
  PROVE  Respelt(SubSeq(u, i, j), SubSeq(v, i, j))
<1>1. /\ u \in Seq(Word) /\ v \in Seq(Word) /\ Len(v) = Len(u) /\ Len(u) \in Nat
      /\ \A k \in 1..Len(u) : SpeltAlike(u[k], v[k])
  BY DEF Respelt
<1> DEFINE a == SubSeq(u, i, j)
           b == SubSeq(v, i, j)
<1>2. a \in Seq(Word) /\ b \in Seq(Word) /\ Len(a) = Len(b)
  BY <1>1
<1>3. \A k \in 1..Len(a) : a[k] = u[i + k - 1] /\ b[k] = v[i + k - 1] /\ i + k - 1 \in 1..Len(u)
  BY <1>1
<1> HIDE DEF a, b
<1>4. QED
  BY <1>1, <1>2, <1>3 DEF Respelt, a, b

LEMMA RespeltChosen ==
  ASSUME NEW u, NEW v, Respelt(u, v), NEW places \in SUBSET (1..Len(u))
  PROVE  Respelt(Chosen(u, places), Chosen(v, places))
<1>1. /\ u \in Seq(Word) /\ v \in Seq(Word) /\ Len(v) = Len(u) /\ Len(u) \in Nat
      /\ DOMAIN u = 1..Len(u) /\ DOMAIN v = 1..Len(u)
      /\ \A k \in 1..Len(u) : SpeltAlike(u[k], v[k])
  BY DEF Respelt
<1>2. CASE places = 1..Len(u)
  BY <1>1, <1>2 DEF Chosen
<1>3. CASE places # 1..Len(u)
  <2> DEFINE a == Chosen(u, places)
             b == Chosen(v, places)
  <2>1. a \in Seq(Word) /\ b \in Seq(Word)
    BY <1>1, ChosenType
  <2>2. /\ a = [k \in 1..Cardinality(places) |-> u[Ranked(places, k)]]
        /\ b = [k \in 1..Cardinality(places) |-> v[Ranked(places, k)]]
        /\ Cardinality(places) \in Nat
        /\ \A k \in 1..Cardinality(places) : Ranked(places, k) \in places
    BY <1>1, <1>3, ChosenIs
  <2> HIDE DEF a, b
  <2>3. Len(a) = Len(b) /\ Len(a) = Cardinality(places)
    BY <2>1, <2>2
  <2>4. \A k \in 1..Len(a) : SpeltAlike(a[k], b[k])
    BY <1>1, <2>2, <2>3
  <2>5. QED
    BY <2>1, <2>3, <2>4 DEF Respelt, a, b
<1>4. QED
  BY <1>2, <1>3

LEMMA RespeltWithout ==
  ASSUME NEW u, NEW v, Respelt(u, v)
  PROVE  Respelt(Without(u, Bar), Without(v, Bar))
<1>1. /\ DOMAIN u = 1..Len(u) /\ DOMAIN v = DOMAIN u /\ Bar \in Fixed
      /\ \A k \in DOMAIN u : u[k] # Bar <=> v[k] # Bar
  BY RespeltBasics DEF Fixed
<1>2. {k \in DOMAIN u : u[k] # Bar} = {k \in DOMAIN v : v[k] # Bar}
  BY <1>1
<1>3. {k \in DOMAIN u : u[k] # Bar} \in SUBSET (1..Len(u))
  BY <1>1
<1>4. QED
  BY <1>2, <1>3, RespeltChosen DEF Without

LEMMA ThirdFrom == ASSUME NEW n \in Nat, n >= 2 PROVE 1 \in 1..n /\ 2 \in 1..n /\ 3 \in Nat /\ 1 <= 3 /\ n <= n
OBVIOUS

LEMMA RespeltStripped ==
  ASSUME NEW u, NEW v, Respelt(u, v)
  PROVE  Respelt(Stripped(u), Stripped(v))
<1>1. /\ Len(u) \in Nat /\ DOMAIN u = 1..Len(u) /\ Len(v) = Len(u) /\ DOMAIN v = DOMAIN u
      /\ \A k \in DOMAIN u : \A word \in Fixed : u[k] = word <=> v[k] = word
  BY RespeltBasics
<1>2. CASE Len(u) >= 2
  <2>1. 1 \in DOMAIN u /\ 2 \in DOMAIN u
    BY <1>1, <1>2, ThirdFrom
  <2>2. u[1] \in Markers /\ u[2] = Bar <=> v[1] \in Markers /\ v[2] = Bar
    <3>1. Markers \subseteq Fixed /\ Bar \in Fixed
      BY DEF Fixed
    <3>2. u[1] \in Markers <=> v[1] \in Markers
      BY <1>1, <2>1, <3>1
    <3>3. u[2] = Bar <=> v[2] = Bar
      BY <1>1, <2>1, <3>1
    <3>4. QED
      BY <3>2, <3>3
  <2>3. Respelt(SubSeq(u, 3, Len(u)), SubSeq(v, 3, Len(v)))
    BY <1>1, <1>2, ThirdFrom, RespeltFrom
  <2>4. u # <<"(?)">> /\ v # <<"(?)">>
    <3>1. Len(<<"(?)">>) = 1
      OBVIOUS
    <3>2. Len(u) # 1 /\ Len(v) # 1
      BY <1>1, <1>2
    <3>3. QED
      BY <3>1, <3>2, Zenon
  <2>5. QED
    BY <1>1, <1>2, <2>2, <2>3, <2>4 DEF Stripped
<1>3. CASE ~(Len(u) >= 2)
  <2>1. u = <<"(?)">> <=> v = <<"(?)">>
    <3>1. ASSUME NEW s, NEW t, Respelt(s, t), s = <<"(?)">> PROVE t = <<"(?)">>
      <4>1. Len(s) = 1 /\ s[1] = "(?)"
        BY <3>1, OneElement
      <4>2. t \in Seq(Word) /\ Len(t) = 1 /\ 1 \in 1..Len(s)
        <5>1. t \in Seq(Word) /\ Len(t) = Len(s)
          BY <3>1 DEF Respelt
        <5>2. 1 \in 1..1
          OBVIOUS
        <5>3. QED
          BY <4>1, <5>1, <5>2, Zenon
      <4>3. t[1] = "(?)"
        <5>1. SpeltAlike(s[1], t[1])
          BY <3>1, <4>2 DEF Respelt
        <5>2. QED
          BY <4>1, <5>1, FixedWords DEF Fixed, Markers
      <4>4. QED
        BY <4>2, <4>3
    <3>2. Respelt(v, u)
      BY DEF Respelt, SpeltAlike
    <3>3. QED
      BY <3>1, <3>2
  <2>2. Respelt(<<>>, <<>>)
    BY DEF Respelt
  <2>3. QED
    BY <1>1, <1>3, <2>1, <2>2 DEF Stripped
<1>4. QED
  BY <1>2, <1>3

LEMMA FoldedSame ==
  ASSUME NEW u, NEW v, Respelt(u, v)
  PROVE  Folded(u) = Folded(v)
<1> DEFINE folds(x) == IF x \in DOMAIN Fold THEN Fold[x] ELSE x
<1>1. DOMAIN u = DOMAIN v /\ DOMAIN u = 1..Len(u)
  BY RespeltBasics
<1>2. \A k \in DOMAIN u : folds(u[k]) = folds(v[k])
  BY <1>1, FixedWords DEF Respelt
<1>3. Folded(u) = [k \in DOMAIN u |-> folds(u[k])] /\ Folded(v) = [k \in DOMAIN v |-> folds(v[k])]
  BY DEF Folded
<1> HIDE DEF folds
<1>4. QED
  BY <1>1, <1>2, <1>3

LEMMA TextSame ==
  ASSUME NEW u, NEW v, Respelt(u, v)
  PROVE  Text(u) = Text(v)
<1> DEFINE a == Stripped(u)
           b == Stripped(v)
<1>1. Respelt(a, b)
  BY RespeltStripped
<1> HIDE DEF a, b
<1>2. Folded(Without(a, Bar)) = Folded(Without(b, Bar))
  BY <1>1, RespeltWithout, FoldedSame
<1>3. Len(a) = 1 /\ a[1] \in Unknown <=> Len(b) = 1 /\ b[1] \in Unknown
  <2>1. Len(a) = Len(b) /\ DOMAIN a = 1..Len(a)
    BY <1>1, RespeltBasics
  <2>2. Len(a) = 1 => 1 \in DOMAIN a
    BY <2>1
  <2>3. Len(a) = 1 => \A word \in Fixed : a[1] = word <=> b[1] = word
    BY <1>1, <2>2, RespeltBasics
  <2>4. QED
    BY <2>1, <2>3 DEF Fixed
<1>4. QED
  BY <1>2, <1>3 DEF Text, a, b

LEMMA BeforeBarRespelt ==
  ASSUME NEW u, NEW v, Respelt(u, v)
  PROVE  Respelt(BeforeBar(u), BeforeBar(v))
<1> DEFINE bars == {k \in DOMAIN u : u[k] = Bar}
<1>1. /\ Len(u) \in Nat /\ DOMAIN u = 1..Len(u) /\ Len(v) = Len(u) /\ Bar \in Fixed
      /\ bars = {k \in DOMAIN v : v[k] = Bar} /\ (Found(Bar, u) <=> Found(Bar, v))
  <2>1. Bar \in Fixed
    BY DEF Fixed
  <2>2. QED
    BY <2>1, RespeltBasics
<1>2. CASE Found(Bar, u)
  <2>1. bars # {} /\ bars \in SUBSET Nat /\ bars \subseteq 1..Len(u)
    BY <1>1, <1>2 DEF Found
  <2>2. BeforeBar(u) = SubSeq(u, 1, First(bars) - 1) /\ BeforeBar(v) = SubSeq(v, 1, First(bars) - 1)
    BY <1>1, <1>2 DEF BeforeBar
  <2> HIDE DEF bars
  <2>3. First(bars) \in 1..Len(u)
    BY <2>1, FirstIs
  <2>4. First(bars) - 1 \in Nat /\ First(bars) - 1 <= Len(u) /\ 1 \in Nat /\ 1 <= 1
    BY <1>1, <2>3
  <2>5. QED
    BY <2>2, <2>4, RespeltFrom
<1>3. CASE ~Found(Bar, u)
  BY <1>1, <1>3 DEF BeforeBar
<1>4. QED
  BY <1>2, <1>3

\* The numbers of a text stand where they stood.
LEMMA NumbersSame ==
  ASSUME NEW u, NEW v, Respelt(u, v)
  PROVE  /\ Numbers(v) = Numbers(u) /\ Sized(v) = Sized(u)
         /\ Numbers(u) \subseteq DOMAIN u /\ Sized(u) \subseteq Numbers(u)
         /\ \A k \in Numbers(u) : Numeral[u[k]] = Numeral[v[k]]
<1>1. /\ Len(u) \in Nat /\ DOMAIN u = 1..Len(u) /\ DOMAIN v = DOMAIN u /\ Len(v) = Len(u)
      /\ \A k \in DOMAIN u : \A word \in Fixed : u[k] = word <=> v[k] = word
      /\ \A k \in DOMAIN u : u[k] \in Fixed \/ v[k] \in Fixed => u[k] = v[k]
  BY RespeltBasics
<1>2. DOMAIN Numeral \subseteq Fixed /\ "x 20GP" \in Fixed
  BY DEF Fixed
<1>3. Numbers(v) = Numbers(u) /\ Numbers(u) \subseteq DOMAIN u /\ \A k \in Numbers(u) : u[k] = v[k]
  BY <1>1, <1>2 DEF Numbers
<1>4. Sized(v) = Sized(u)
  <2>1. \A k \in Numbers(u) : k < Len(u) => k + 1 \in DOMAIN u
    BY <1>1, <1>3
  <2>2. \A k \in Numbers(u) : k < Len(u) => (u[k + 1] = "x 20GP" <=> v[k + 1] = "x 20GP")
    BY <1>1, <1>2, <2>1
  <2>3. QED
    BY <1>1, <1>3, <2>2 DEF Sized
<1>5. Sized(u) \subseteq Numbers(u)
  BY DEF Sized
<1>6. QED
  BY <1>3, <1>4, <1>5

\* A value that is spelt in another way is normalized to the same.
LEMMA CanonSame ==
  ASSUME NEW u, NEW v, Respelt(u, v), NEW f \in Fields
  PROVE  Canon(f, u) = Canon(f, v)
<1>1. Text(u) = Text(v) /\ Text(BeforeBar(u)) = Text(BeforeBar(v))
  BY TextSame, BeforeBarRespelt
<1>2. /\ Numbers(v) = Numbers(u) /\ Sized(v) = Sized(u)
      /\ Numbers(u) \subseteq DOMAIN u /\ Sized(u) \subseteq Numbers(u)
      /\ \A k \in Numbers(u) : Numeral[u[k]] = Numeral[v[k]]
  BY NumbersSame
<1>3. Found("t", u) <=> Found("t", v)
  BY RespeltBasics DEF Fixed, Units
<1>4. Found("lb", u) <=> Found("lb", v)
  BY RespeltBasics DEF Fixed, Units
<1>5. DOMAIN u = 1..Len(u)
  BY RespeltBasics
<1>6. Numbers(u) # {} => First(Numbers(u)) \in Numbers(u)
  BY <1>2, <1>5, FirstIs
<1>7. Sized(u) # {} => First(Sized(u)) \in Numbers(u)
  BY <1>2, <1>5, FirstIs
<1>8. CASE f \in PartyFields
  BY <1>1, <1>8 DEF Canon, PartyFields
<1>9. CASE f = "port_of_loading"
  BY <1>1, <1>9 DEF Canon, PartyFields
<1>10. CASE f = "container_count"
  <2> DEFINE spot == First(IF Sized(u) # {} THEN Sized(u) ELSE Numbers(u))
  <2>1. Canon(f, u) = IF Numbers(u) = {} THEN <<>> ELSE <<Numeral[u[spot]][1]>>
    BY <1>10 DEF Canon, PartyFields
  <2>2. Canon(f, v) = IF Numbers(u) = {} THEN <<>> ELSE <<Numeral[v[spot]][1]>>
    BY <1>2, <1>10 DEF Canon, PartyFields
  <2>3. Numbers(u) # {} => spot \in Numbers(u)
    BY <1>6, <1>7
  <2> HIDE DEF spot
  <2>4. QED
    BY <1>2, <2>1, <2>2, <2>3
<1>11. CASE f = "gross_weight_kg"
  <2> DEFINE spot == First(Numbers(u))
             kilos(n, t, lb) == IF t THEN <<n[1] * 1000, n[2]>> ELSE IF lb THEN <<>> ELSE n
  <2>1. Canon(f, u) = IF Numbers(u) = {} THEN <<>> ELSE kilos(Numeral[u[spot]], Found("t", u), Found("lb", u))
    BY <1>11 DEF Canon, PartyFields
  <2>2. Canon(f, v) = IF Numbers(u) = {} THEN <<>> ELSE kilos(Numeral[v[spot]], Found("t", v), Found("lb", v))
    BY <1>2, <1>11 DEF Canon, PartyFields
  <2>3. Numbers(u) # {} => Numeral[u[spot]] = Numeral[v[spot]]
    BY <1>2, <1>6
  <2>4. \A n : kilos(n, Found("t", u), Found("lb", u)) = kilos(n, Found("t", v), Found("lb", v))
    BY <1>3, <1>4
  <2> HIDE DEF spot, kilos
  <2>5. QED
    BY <2>1, <2>2, <2>3, <2>4
<1>12. QED
  BY <1>8, <1>9, <1>10, <1>11, ReadingAssumption

LEMMA ScalarSame ==
  ASSUME NEW u, NEW v, Respelt(u, v)
  PROVE  Scalar(u) <=> Scalar(v)
<1>1. /\ Len(u) \in Nat /\ DOMAIN u = 1..Len(u) /\ Len(v) = Len(u) /\ (u = <<>> <=> v = <<>>)
      /\ \A k \in DOMAIN u : u[k] \in Fixed \/ v[k] \in Fixed => u[k] = v[k]
  BY RespeltBasics
<1>2. DOMAIN Numeral \subseteq Fixed /\ Units \subseteq Fixed
  BY DEF Fixed
<1>3. CASE u = <<>>
  BY <1>1, <1>3
<1>4. CASE u # <<>>
  <2>1. 1 \in DOMAIN u
    BY <1>1, <1>4 DEF Respelt
  <2>2. u[1] \in DOMAIN Numeral <=> v[1] \in DOMAIN Numeral
    BY <1>1, <1>2, <2>1
  <2>3. Len(u) = 2 => (u[2] \in Units <=> v[2] \in Units)
    <3>1. Len(u) = 2 => 2 \in DOMAIN u
      BY <1>1
    <3>2. QED
      BY <1>1, <1>2, <3>1
  <2>4. QED
    BY <1>1, <2>2, <2>3 DEF Scalar
<1>5. QED
  BY <1>3, <1>4

-----------------------------------------------------------------------------
(* The lines under a label are joined by a recursive function, which there *)
(* is for every number of them.                                            *)
Joining(s, n, f) == [i \in 1..n |-> IF i = 1 THEN s[i] ELSE f[i - 1] \o s[i]]

LEMMA JoinedIs ==
  ASSUME NEW s, NEW n \in Nat, n # 0, Len(s) = n
  PROVE  \E f : f = Joining(s, n, f) /\ FlattenSeq(s) = f[n]
<1> DEFINE Joins(m, f) == f = Joining(s, m, f)
           Bad == {m \in Nat : ~\E f : Joins(m, f)}
<1>1. \E f : Joins(0, f)
  <2> DEFINE f == [i \in 1..0 |-> s[i]]
  <2>1. \A i \in 1..0 : FALSE
    OBVIOUS
  <2>2. \A g : Joining(s, 0, g) = f
    BY <2>1 DEF Joining
  <2> HIDE DEF f
  <2>3. Joins(0, f)
    BY <2>2
  <2>4. QED
    BY <2>3
<1>2. ASSUME NEW m \in Nat, NEW f, Joins(m, f) PROVE \E g : Joins(m + 1, g)
  <2> DEFINE g == Joining(s, m + 1, f)
             value(h, i) == IF i = 1 THEN s[i] ELSE h[i - 1] \o s[i]
  <2>1. \A h, k : Joining(s, k, h) = [i \in 1..k |-> value(h, i)]
    BY DEF Joining
  <2>2. \A i \in 1..m : f[i] = value(f, i) /\ i \in 1..(m + 1)
    <3>1. f = [i \in 1..m |-> value(f, i)]
      BY <1>2 DEF Joining
    <3> HIDE DEF value
    <3>2. \A i \in 1..m : f[i] = value(f, i)
      BY <3>1, Zenon
    <3>3. QED
      BY <3>2
  <2>3. \A i \in 1..(m + 1) : g[i] = value(f, i)
    <3>1. g = [i \in 1..(m + 1) |-> value(f, i)]
      BY <2>1
    <3> HIDE DEF g, value
    <3>2. QED
      BY <3>1, Zenon
  <2> HIDE DEF g
  <2>4. \A i \in 1..m : g[i] = f[i]
    BY <2>2, <2>3
  <2>5. \A i \in 1..(m + 1) : value(f, i) = value(g, i)
    <3>1. \A i \in 1..(m + 1) : i # 1 => i - 1 \in 1..m
      OBVIOUS
    <3>2. QED
      BY <2>4, <3>1
  <2>6. g = [i \in 1..(m + 1) |-> value(f, i)]
    BY <2>1 DEF g
  <2> HIDE DEF value
  <2>7. g = [i \in 1..(m + 1) |-> value(g, i)]
    BY <2>5, <2>6
  <2>8. Joins(m + 1, g)
    BY <2>1, <2>7, Zenon
  <2>9. QED
    BY <2>8
<1>3. Bad = {}
  <2> SUFFICES ASSUME Bad # {} PROVE FALSE
    OBVIOUS
  <2>1. PICK m \in Bad : \A k \in Bad : m <= k
    <3>1. Bad \in SUBSET Nat
      OBVIOUS
    <3> HIDE DEF Bad
    <3>2. QED
      BY <3>1, LeastNumber
  <2>2. m # 0 /\ m \in Nat
    BY <1>1
  <2>3. m - 1 \in Nat /\ m - 1 \notin Bad /\ m = (m - 1) + 1
    <3>1. m - 1 \in Nat /\ ~(m <= m - 1) /\ m = (m - 1) + 1
      BY <2>2
    <3> HIDE DEF Bad
    <3>2. QED
      BY <2>1, <3>1
  <2> HIDE DEF Joins
  <2>4. QED
    BY <1>2, <2>1, <2>3
<1>4. PICK f : Joins(n, f)
  <2> HIDE DEF Joins
  <2>1. QED
    BY <1>3
<1>5. FlattenSeq(s) = (CHOOSE g : Joins(n, g))[n]
  BY DEF FlattenSeq, Joining
<1>6. Joins(n, CHOOSE g : Joins(n, g))
  <2> HIDE DEF Joins
  <2>1. QED
    BY <1>4
<1>7. QED
  BY <1>5, <1>6

LEMMA RespeltJoined ==
  ASSUME NEW u, NEW v, Respelt(u, v), NEW p, NEW q, Respelt(p, q)
  PROVE  Respelt(u \o p, v \o q)
<1>1. /\ u \in Seq(Word) /\ v \in Seq(Word) /\ Len(v) = Len(u) /\ Len(u) \in Nat
      /\ \A k \in 1..Len(u) : SpeltAlike(u[k], v[k])
  BY DEF Respelt
<1>2. /\ p \in Seq(Word) /\ q \in Seq(Word) /\ Len(q) = Len(p) /\ Len(p) \in Nat
      /\ \A k \in 1..Len(p) : SpeltAlike(p[k], q[k])
  BY DEF Respelt
<1>3. u \o p \in Seq(Word) /\ v \o q \in Seq(Word) /\ Len(u \o p) = Len(u) + Len(p) /\ Len(v \o q) = Len(u) + Len(p)
  BY <1>1, <1>2
<1>4. ASSUME NEW k \in 1..(Len(u) + Len(p)) PROVE SpeltAlike((u \o p)[k], (v \o q)[k])
  <2>1. CASE k <= Len(u)
    BY <1>1, <1>2, <2>1
  <2>2. CASE ~(k <= Len(u))
    <3>1. k - Len(u) \in 1..Len(p)
      BY <1>1, <1>2, <2>2
    <3>2. (u \o p)[k] = p[k - Len(u)] /\ (v \o q)[k] = q[k - Len(u)]
      BY <1>1, <1>2, <2>2
    <3>3. QED
      BY <1>2, <3>1, <3>2
  <2>3. QED
    BY <2>1, <2>2
<1>5. QED
  BY <1>3, <1>4 DEF Respelt

LEMMA FlattenRespelt ==
  ASSUME NEW s, NEW t, NEW n \in Nat, n # 0, Len(s) = n, Len(t) = n,
         \A k \in 1..n : Respelt(s[k], t[k])
  PROVE  Respelt(FlattenSeq(s), FlattenSeq(t))
<1>1. PICK f : f = Joining(s, n, f) /\ FlattenSeq(s) = f[n]
  BY JoinedIs
<1>2. PICK g : g = Joining(t, n, g) /\ FlattenSeq(t) = g[n]
  BY JoinedIs
<1>3. \A i \in 1..n : /\ f[i] = IF i = 1 THEN s[i] ELSE f[i - 1] \o s[i]
                      /\ g[i] = IF i = 1 THEN t[i] ELSE g[i - 1] \o t[i]
  BY <1>1, <1>2, Zenon DEF Joining
<1> DEFINE Bad == {i \in 1..n : ~Respelt(f[i], g[i])}
<1>4. Bad = {}
  <2> SUFFICES ASSUME Bad # {} PROVE FALSE
    OBVIOUS
  <2>1. PICK i \in Bad : \A k \in Bad : i <= k
    <3>1. Bad \in SUBSET Nat
      OBVIOUS
    <3> HIDE DEF Bad
    <3>2. QED
      BY <3>1, LeastNumber
  <2>2. i \in 1..n /\ ~Respelt(f[i], g[i])
    OBVIOUS
  <2>3. CASE i = 1
    BY <1>3, <2>2, <2>3
  <2>4. CASE i # 1
    <3>1. i - 1 \in 1..n /\ ~(i <= i - 1)
      BY <2>2, <2>4
    <3>2. i - 1 \notin Bad
      BY <2>1, <3>1
    <3>3. Respelt(f[i - 1], g[i - 1]) /\ Respelt(s[i], t[i])
      BY <2>2, <3>1, <3>2
    <3>4. Respelt(f[i - 1] \o s[i], g[i - 1] \o t[i])
      BY <3>3, RespeltJoined
    <3>5. f[i] = f[i - 1] \o s[i] /\ g[i] = g[i - 1] \o t[i]
      BY <1>3, <2>2, <2>4
    <3>6. QED
      BY <2>2, <3>4, <3>5
  <2>5. QED
    BY <2>3, <2>4
<1>5. n \in 1..n
  OBVIOUS
<1>6. Respelt(f[n], g[n])
  BY <1>4, <1>5
<1>7. QED
  BY <1>1, <1>2, <1>6

LinesRespelt(a, b) ==
  /\ DOMAIN a = DOMAIN b
  /\ \A i \in DOMAIN a : a[i].field = b[i].field /\ Respelt(a[i].words, b[i].words)

LEMMA RespeltSpeak == ASSUME NEW a, NEW b, LinesRespelt(a, b) PROVE LinesAlike(a, b)
<1>1. PortKlang \subseteq Silent
  BY DEF Silent
<1>2. \A x, y : SpeltAlike(x, y) => x = y \/ (x \in Silent /\ y \in Silent)
  BY <1>1 DEF SpeltAlike, PortKlang
<1>3. \A u, v : Respelt(u, v) => SpeakAlike(u, v)
  BY <1>2 DEF Respelt, SpeakAlike
<1>4. QED
  BY <1>3 DEF LinesRespelt, LinesAlike

LEMMA NoneRespelt == Respelt(<<>>, <<>>)
  BY DEF Respelt

\* What stands at a label is spelt in another way, or the same.
LEMMA EntryRespelt ==
  ASSUME NEW a \in Seq(WideLine), NEW b \in Seq(WideLine), LinesRespelt(a, b), NEW j \in DOMAIN a
  PROVE  Respelt(Entry(a, j), Entry(b, j))
<1> DEFINE n == Len(a)
           under == Under(a, j)
           inline == Stripped(a[j].words)
           other == Stripped(b[j].words)
           c == Cardinality(under)
           below == Chosen(a, under)
           beneath == Chosen(b, under)
           f == a[j].field
<1>1. n \in Nat /\ DOMAIN a = 1..n /\ DOMAIN b = 1..n /\ LinesAlike(a, b)
  BY RespeltSpeak DEF LinesRespelt
<1>2. Under(b, j) = under /\ under \in SUBSET (1..n) /\ under # 1..n
  BY <1>1, UnderKept, UnderIs
<1>3. Respelt(inline, other) /\ b[j].field = f
  BY RespeltStripped DEF LinesRespelt
<1>4. inline = <<>> <=> other = <<>>
  BY <1>3, RespeltBasics
<1> HIDE DEF n, under, inline, other
<1>5. /\ below = [k \in 1..c |-> a[Ranked(under, k)]] /\ beneath = [k \in 1..c |-> b[Ranked(under, k)]]
      /\ c \in Nat /\ \A k \in 1..c : Ranked(under, k) \in under
  BY <1>1, <1>2, ChosenIs
<1>6. Entry(a, j) = Worth(f, inline, below) /\ Entry(b, j) = Worth(f, other, beneath)
  BY <1>2, <1>3, EntryIs DEF under, inline, other
<1> HIDE DEF below, beneath, c, f
<1>7. below \in Seq(WideLine) /\ beneath \in Seq(WideLine) /\ Len(below) = c /\ Len(beneath) = c
  <2>1. below \in Seq(WideLine) /\ beneath \in Seq(WideLine)
    BY <1>1, <1>2, ChosenType DEF below, beneath
  <2>2. QED
    BY <1>5, <2>1
<1>8. \A k \in 1..c : Respelt(below[k].words, beneath[k].words)
  BY <1>1, <1>2, <1>5 DEF LinesRespelt
<1>9. below = <<>> <=> beneath = <<>>
  BY <1>7
<1>10. CASE inline # <<>> \/ below = <<>>
  BY <1>3, <1>4, <1>6, <1>9, <1>10 DEF Worth
<1>11. CASE ~(inline # <<>> \/ below = <<>>)
  <2>1. /\ Worth(f, inline, below) =
             CASE f \in PartyFields -> FlattenSeq([k \in DOMAIN below |-> below[k].words])
               [] f = "gross_weight_kg" -> IF Scalar(below[1].words) THEN below[1].words ELSE <<>>
               [] OTHER -> below[1].words
        /\ Worth(f, other, beneath) =
             CASE f \in PartyFields -> FlattenSeq([k \in DOMAIN beneath |-> beneath[k].words])
               [] f = "gross_weight_kg" -> IF Scalar(beneath[1].words) THEN beneath[1].words ELSE <<>>
               [] OTHER -> beneath[1].words
    BY <1>4, <1>9, <1>11 DEF Worth
  <2>2. c # 0 /\ 1 \in 1..c /\ DOMAIN below = 1..c /\ DOMAIN beneath = 1..c
    BY <1>5, <1>7, <1>11
  <2>3. Respelt(below[1].words, beneath[1].words)
    BY <1>8, <2>2
  <2>4. Scalar(below[1].words) <=> Scalar(beneath[1].words)
    BY <2>3, ScalarSame
  <2>5. CASE f \in PartyFields
    <3> DEFINE s == [k \in 1..c |-> below[k].words]
               t == [k \in 1..c |-> beneath[k].words]
    <3>1. Len(s) = c /\ Len(t) = c
      BY <1>5
    <3>2. \A k \in 1..c : Respelt(s[k], t[k])
      BY <1>8
    <3>3. Worth(f, inline, below) = FlattenSeq(s) /\ Worth(f, other, beneath) = FlattenSeq(t)
      <4>1. /\ [k \in DOMAIN below |-> below[k].words] = s
            /\ [k \in DOMAIN beneath |-> beneath[k].words] = t
        BY <2>2
      <4> HIDE DEF s, t
      <4>2. f # "gross_weight_kg"
        BY <2>5 DEF PartyFields
      <4>3. QED
        BY <2>1, <2>5, <4>1, <4>2
    <3> HIDE DEF s, t
    <3>4. Respelt(FlattenSeq(s), FlattenSeq(t))
      BY <1>5, <2>2, <3>1, <3>2, FlattenRespelt
    <3>5. QED
      BY <1>6, <3>3, <3>4
  <2>6. CASE f = "gross_weight_kg"
    <3>1. f \notin PartyFields
      BY <2>6 DEF PartyFields
    <3>2. QED
      BY <1>6, <2>1, <2>3, <2>4, <2>6, <3>1, NoneRespelt
  <2>7. CASE f \notin PartyFields /\ f # "gross_weight_kg"
    BY <1>6, <2>1, <2>3, <2>7
  <2>8. QED
    BY <2>5, <2>6, <2>7
<1>12. QED
  BY <1>10, <1>11

\* A label that is not repeated is read alike in both spellings.
LEMMA ReadingRespelt ==
  ASSUME NEW a \in Seq(WideLine), NEW b \in Seq(WideLine), LinesRespelt(a, b), NEW f \in Fields,
         Cardinality(Labelled(a, f)) <= 1
  PROVE  LET x == ReadingOf(f, Entries(a, f))
             y == ReadingOf(f, Entries(b, f))
         IN /\ y.status = x.status /\ y.value = x.value
            /\ x.status = "PRESENT" => Respelt(x.raw, y.raw)
<1>1. Labelled(b, f) = Labelled(a, f)
  BY DEF Labelled, LinesRespelt
<1>2. /\ Entries(a, f) = {v \in {Entry(a, i) : i \in Labelled(a, f)} : v # <<>> \/ f \in PartyFields}
      /\ Entries(b, f) = {v \in {Entry(b, i) : i \in Labelled(a, f)} : v # <<>> \/ f \in PartyFields}
  BY <1>1 DEF Entries, Labelled
<1>3. ASSUME Entries(a, f) = {}, Entries(b, f) = {}
      PROVE  ReadingOf(f, Entries(a, f)) = Missing /\ ReadingOf(f, Entries(b, f)) = Missing
  <2>1. ReadingOf(f, {}) = Missing
    <3>1. Cardinality({}) = 0 /\ ~(0 > 1)
      BY FS_EmptySet
    <3>2. QED
      BY <3>1 DEF ReadingOf
  <2>2. QED
    BY <1>3, <2>1
<1>4. Missing.status = "MISSING"
  BY DEF Missing
<1>5. CASE Labelled(a, f) = {}
  <2>1. Entries(a, f) = {} /\ Entries(b, f) = {}
    BY <1>2, <1>5
  <2>2. QED
    BY <1>3, <1>4, <2>1
<1>6. ASSUME NEW i \in Labelled(a, f) PROVE Labelled(a, f) = {i} /\ Respelt(Entry(a, i), Entry(b, i))
  <2>1. Len(a) \in Nat /\ DOMAIN a = 1..Len(a) /\ i \in DOMAIN a
    BY DEF Labelled
  <2>2. Labelled(a, f) = {i}
    BY <2>1, OnlyLabel
  <2>3. QED
    BY <2>1, <2>2, EntryRespelt
<1>7. CASE Labelled(a, f) # {}
  <2>1. PICK i \in Labelled(a, f) : Labelled(a, f) = {i} /\ Respelt(Entry(a, i), Entry(b, i))
    BY <1>6, <1>7
  <2> DEFINE v == Entry(a, i)
             w == Entry(b, i)
  <2>2. Respelt(v, w) /\ (v = <<>> <=> w = <<>>) /\ Canon(f, w) = Canon(f, v)
    BY <2>1, RespeltBasics, CanonSame
  <2>3. /\ Entries(a, f) = {e \in {v} : e # <<>> \/ f \in PartyFields}
        /\ Entries(b, f) = {e \in {w} : e # <<>> \/ f \in PartyFields}
    BY <1>2, <2>1
  <2> HIDE DEF v, w
  <2>4. CASE v # <<>> \/ f \in PartyFields
    <3>1. Entries(a, f) = {v} /\ Entries(b, f) = {w}
      BY <2>2, <2>3, <2>4
    <3>2. CASE Canon(f, v) = <<>>
      BY <1>4, <2>2, <3>1, <3>2, ReadingOfOne
    <3>3. CASE Canon(f, v) # <<>>
      <4>1. /\ ReadingOf(f, {v}) = [status |-> "PRESENT", raw |-> v, value |-> Canon(f, v)]
            /\ ReadingOf(f, {w}) = [status |-> "PRESENT", raw |-> w, value |-> Canon(f, v)]
        BY <2>2, <3>3, ReadingOfOne
      <4>2. QED
        BY <2>2, <3>1, <4>1
    <3>4. QED
      BY <3>2, <3>3
  <2>5. CASE ~(v # <<>> \/ f \in PartyFields)
    <3>1. Entries(a, f) = {} /\ Entries(b, f) = {}
      BY <2>2, <2>3, <2>5
    <3>2. QED
      BY <1>3, <1>4, <3>1
  <2>6. QED
    BY <2>4, <2>5
<1>8. QED
  BY <1>5, <1>7

\* All fields have the values they had, a notify party that refers to the consignee too.
LEMMA ExtractRespelt ==
  ASSUME NEW a \in Seq(WideLine), NEW b \in Seq(WideLine), LinesRespelt(a, b),
         \A f \in Fields : Cardinality(Labelled(a, f)) <= 1, NEW g \in Fields
  PROVE  ExtractFields(b)[g].value = ExtractFields(a)[g].value
<1> DEFINE x == [f \in Fields |-> ReadingOf(f, Entries(a, f))]
           y == [f \in Fields |-> ReadingOf(f, Entries(b, f))]
           refers(obs) == /\ {"consignee", "notify_party"} \subseteq Fields
                          /\ obs["notify_party"].status = "PRESENT" /\ obs["consignee"].status = "PRESENT"
                          /\ Found("same as consignee", obs["notify_party"].raw)
           resolved(obs) == IF refers(obs) THEN [obs EXCEPT !["notify_party"].value = obs["consignee"].value] ELSE obs
<1>1. ExtractFields(a) = resolved(x) /\ ExtractFields(b) = resolved(y)
  BY DEF ExtractFields
<1>2. DOMAIN x = Fields /\ DOMAIN y = Fields
  OBVIOUS
<1>3. \A f \in Fields : /\ y[f].status = x[f].status /\ y[f].value = x[f].value
                        /\ x[f].status = "PRESENT" => Respelt(x[f].raw, y[f].raw)
  BY ReadingRespelt
<1>4. /\ \A f \in Fields : \E r, s, v : x[f] = [status |-> s, raw |-> r, value |-> v]
      /\ \A f \in Fields : \E r, s, v : y[f] = [status |-> s, raw |-> r, value |-> v]
  BY DEF ReadingOf, Missing
<1> HIDE DEF x, y
<1>5. refers(x) <=> refers(y)
  <2>1. "same as consignee" \in Fixed
    BY DEF Fixed
  <2>2. \A u, v : Respelt(u, v) => (Found("same as consignee", u) <=> Found("same as consignee", v))
    BY <2>1, RespeltBasics
  <2>3. ASSUME {"consignee", "notify_party"} \subseteq Fields
        PROVE  /\ y["notify_party"].status = x["notify_party"].status
               /\ y["consignee"].status = x["consignee"].status
               /\ x["notify_party"].status = "PRESENT" =>
                    (Found("same as consignee", x["notify_party"].raw)
                     <=> Found("same as consignee", y["notify_party"].raw))
    <3>1. "consignee" \in Fields /\ "notify_party" \in Fields
      BY <2>3
    <3>2. QED
      BY <1>3, <2>2, <3>1
  <2>4. QED
    BY <2>3
<1>6. CASE ~refers(x)
  BY <1>1, <1>3, <1>5, <1>6
<1>7. CASE refers(x)
  <2>1. /\ resolved(x) = [x EXCEPT !["notify_party"].value = x["consignee"].value]
        /\ resolved(y) = [y EXCEPT !["notify_party"].value = y["consignee"].value]
    BY <1>5, <1>7
  <2>2. "notify_party" \in Fields /\ "consignee" \in Fields
    BY <1>7
  <2> HIDE DEF resolved, refers
  <2>3. CASE g = "notify_party"
    <3>1. resolved(x)[g].value = x["consignee"].value /\ resolved(y)[g].value = y["consignee"].value
      BY <1>2, <1>4, <2>1, <2>2, <2>3
    <3>2. QED
      BY <1>1, <1>3, <2>2, <3>1
  <2>4. CASE g # "notify_party"
    <3>1. resolved(x)[g] = x[g] /\ resolved(y)[g] = y[g]
      BY <1>2, <2>1, <2>4
    <3>2. QED
      BY <1>1, <1>3, <3>1
  <2>5. QED
    BY <2>3, <2>4
<1>8. QED
  BY <1>6, <1>7

\* The port written large in the draft BL.
LEMMA RespelledPasses ==
  ASSUME AttachmentsOK, Verified(docs).verification = "MATCH",
         \A f \in Fields : Cardinality(Labelled(Seen(docs[Verified(docs).pair.bl]), f)) <= 1,
         NEW d \in InText("DRAFT_BL"), NEW mutated \in Respelled(d)
  PROVE  Verified(mutated).verification = "MATCH"
<1> DEFINE lines == docs[d].lines
           s == Verified(docs).pair.si
<1>1. PICK i \in {j \in DOMAIN lines : Klang(lines[j].words) # {}} :
        mutated = Rewritten(d, [lines EXCEPT ![i].words = [k \in DOMAIN @ |->
                    IF k = First(Klang(@)) THEN "PORT" ELSE IF k = First(Klang(@)) + 1 THEN "KLANG" ELSE @[k]]])
  BY DEF Respelled
<1> DEFINE words == lines[i].words
           spot == First(Klang(words))
           large == [k \in DOMAIN words |-> IF k = spot THEN "PORT" ELSE IF k = spot + 1 THEN "KLANG" ELSE words[k]]
           new == [lines EXCEPT ![i].words = large]
<1>2. lines \in Seq(Line) /\ Seen(docs[d]) = lines
  BY TextOfPair
<1>3. lines \in Seq(WideLine) /\ i \in DOMAIN lines
  BY <1>2, WordsAreWide
<1>4. mutated = Rewritten(d, new)
  BY <1>1
<1>5. words \in Seq(Word) /\ Klang(words) # {}
  <2>1. lines[i] \in WideLine
    BY <1>3
  <2>2. QED
    BY <1>1, <2>1 DEF WideLine
<1> HIDE DEF s, lines, words, new
<1>6. spot \in Nat /\ spot \in 1..Len(words) /\ spot + 1 \in 1..Len(words) /\ words[spot] \in {"port", "PORT"} /\ words[spot + 1] \in {"klang", "KLANG"}
  <2>1. Klang(words) \in SUBSET Nat
    BY <1>5 DEF Klang
  <2>2. spot \in Klang(words)
    BY <1>5, <2>1, FirstIs
  <2>3. spot \in 1..Len(words) - 1 /\ words[spot] \in {"port", "PORT"} /\ words[spot + 1] \in {"klang", "KLANG"}
    BY <2>2 DEF Klang
  <2> HIDE DEF spot
  <2>4. QED
    BY <1>5, <2>3
<1> HIDE DEF spot
<1>7. DOMAIN words = 1..Len(words) /\ Len(words) \in Nat /\ "PORT" \in Word /\ "KLANG" \in Word
  BY <1>5 DEF Word, Silent, PortKlang
<1>8. \A k \in 1..Len(words) : /\ large[k] \in Word /\ SpeltAlike(words[k], large[k])
  BY <1>5, <1>6, <1>7 DEF SpeltAlike
<1>9. Respelt(words, large)
  <2>1. large \in Seq(Word) /\ Len(large) = Len(words)
    BY <1>7, <1>8
  <2> HIDE DEF large
  <2>2. QED
    BY <1>5, <1>8, <2>1 DEF Respelt
<1>10. large \in Seq(Word)
  BY <1>9 DEF Respelt
<1> HIDE DEF large
<1>11. /\ new \in Seq(WideLine) /\ DOMAIN new = DOMAIN lines
       /\ new[i].words = large /\ new[i].field = lines[i].field
       /\ \A j \in DOMAIN lines : j # i => new[j] = lines[j]
  BY <1>3, <1>10, RewrittenLine DEF new
<1>12. LinesRespelt(lines, new)
  <2>1. ASSUME NEW j \in DOMAIN lines PROVE Respelt(lines[j].words, lines[j].words)
    <3>1. lines[j] \in WideLine
      BY <1>3
    <3>2. lines[j].words \in Seq(Word)
      BY <3>1 DEF WideLine
    <3>3. QED
      BY <3>2 DEF Respelt, SpeltAlike
  <2>2. QED
    BY <1>9, <1>11, <2>1 DEF LinesRespelt, words
<1>13. /\ Verified(docs).pair.bl = d
       /\ s \in Nat \ {0} /\ d \in Nat \ {0}
       /\ InRole(mutated, "SI") = {s} /\ InRole(mutated, "DRAFT_BL") = {d}
       /\ Seen(mutated[s]) = Seen(docs[s]) /\ Seen(mutated[s]) # <<>>
       /\ Seen(mutated[d]) = new /\ new # <<>>
  BY <1>4, <1>12, RespeltSpeak, PairKept DEF lines, s
<1>14. \A f \in Fields : Cardinality(Labelled(lines, f)) <= 1
  BY <1>2, <1>13
<1> DEFINE x == ExtractFields(Seen(docs[s]))
           y == ExtractFields(lines)
           z == ExtractFields(new)
<1>15. \A f \in Fields : z[f].value = y[f].value
  BY <1>3, <1>11, <1>12, <1>14, ExtractRespelt
<1> HIDE DEF x, y, z
<1>16. \A f \in Fields : FieldState(f, x[f], y[f]) = "MATCH"
  BY <1>2, <1>13, CleanPair DEF x, y, s
<1>17. \A f \in Fields : FieldState(f, x[f], z[f]) = "MATCH"
  BY <1>15, <1>16 DEF FieldState, Agree
<1>18. /\ Verified(mutated).fields = [f \in Fields |-> FieldState(f, x[f], z[f])]
       /\ Verified(mutated).verification =
            IF \E f \in Fields : FieldState(f, x[f], z[f]) = "UNRESOLVED" THEN "NEEDS_REVIEW"
            ELSE IF \E f \in Fields : FieldState(f, x[f], z[f]) = "MISMATCH" THEN "MISMATCH" ELSE "MATCH"
  BY <1>13, VerdictOfPair DEF x, z
<1>19. QED
  BY <1>17, <1>18

-----------------------------------------------------------------------------
(* The challenges of a case that compares clean.                           *)

\* The mutations that do not depend on what is labelled.
PassedHoweverLabelled ==
  stored.kind = "challenge" /\ stored.base.verification = "MATCH" =>
    /\ stored.mutation = "attachment-rename" /\ 1 \in {stored.base.pair.si, stored.base.pair.bl}
         => stored.passed
    /\ stored.mutation \in {"wrong-document-type", "label-synonym", "remove-si-required-value"}
         => stored.passed

LEMMA HoweverLabelled == CInv => PassedHoweverLabelled
<1> SUFFICES ASSUME CInv, stored.kind = "challenge", stored.base.verification = "MATCH"
             PROVE  /\ stored.mutation = "attachment-rename" /\ 1 \in {stored.base.pair.si, stored.base.pair.bl}
                         => stored.passed
                    /\ stored.mutation \in {"wrong-document-type", "label-synonym", "remove-si-required-value"}
                         => stored.passed
  BY DEF PassedHoweverLabelled
<1> DEFINE m == stored.mutation
<1>1. AttachmentsOK /\ stored.base = Verified(docs)
  BY DEF CInv, StoredIsNow
<1>2. PICK mutated \in Mutated(m) : stored.passed = Passes(m, Verified(docs), Verified(mutated))
  BY <1>1 DEF CInv, StoredIsNow
<1>3. ASSUME Verified(mutated) = Verified(docs), m \in {"attachment-rename", "label-synonym"}
      PROVE  stored.passed
  BY <1>2, <1>3 DEF Passes
<1>4. ASSUME m = "attachment-rename", 1 \in {stored.base.pair.si, stored.base.pair.bl}
      PROVE  stored.passed
  <2>1. mutated \in Renamed
    BY <1>2, <1>4 DEF Mutated
  <2>2. Verified(mutated) = Verified(docs)
    BY <1>1, <1>4, <2>1, RenamedPasses
  <2>3. QED
    BY <1>3, <1>4, <2>2
<1>5. CASE m = "label-synonym"
  <2>1. mutated = docs
    BY <1>2, <1>5 DEF Mutated, Relabelled
  <2>2. QED
    BY <1>3, <1>5, <2>1
<1>6. CASE m = "wrong-document-type"
  <2>1. \E d \in InText("DRAFT_BL") : mutated \in Replaced(d)
    BY <1>2, <1>6 DEF Mutated
  <2>2. Verified(mutated).verification = "NEEDS_REVIEW" /\ Verified(mutated).reason = "wrong_doc_type"
    BY <1>1, <2>1, ReplacedPasses
  <2>3. QED
    BY <1>2, <1>6, <2>2 DEF Passes
<1>7. CASE m = "remove-si-required-value"
  <2>1. \E d \in InText("SI") : mutated \in Emptied(d)
    BY <1>2, <1>7 DEF Mutated
  <2>2. /\ Verified(mutated).verification = "NEEDS_REVIEW"
        /\ Verified(mutated).fields["gross_weight_kg"] = "UNRESOLVED"
    BY <1>1, <2>1, EmptiedPasses
  <2>3. QED
    BY <1>2, <1>7, <2>2 DEF Passes
<1>8. QED
  BY <1>4, <1>5, <1>6, <1>7

\* A challenge that renames one of the pair, puts an invoice in the place of the draft BL,
\* writes a label in another way or takes the weight out of the SI is passed by every case
\* that compares clean, whatever its attachments hold and however often they label a field
\* (_mutate and _challenge_pass of challenges.py).
THEOREM FileChallengesPass == ChallengesSpec => []PassedHoweverLabelled
  BY HoweverLabelled, StoredStaysTrue, PTL

\* Every challenge of a case that compares clean is passed if the draft BL labels no field
\* twice: a count that goes up is a mismatch of that field alone, and another spelling of
\* the port changes no role and no reading (_mutate and _challenge_pass of challenges.py).
THEOREM CleanCasesPass == ChallengesSpec => []ChallengesPass
<1>1. CInv => ChallengesPass
  <2> SUFFICES ASSUME CInv, stored.kind = "challenge", stored.base.verification = "MATCH",
                      \A f \in Fields : Cardinality(Labelled(Seen(docs[stored.base.pair.bl]), f)) <= 1,
                      stored.mutation = "attachment-rename" => 1 \in {stored.base.pair.si, stored.base.pair.bl}
               PROVE  stored.passed
    BY DEF ChallengesPass
  <2> DEFINE m == stored.mutation
  <2>1. AttachmentsOK /\ stored.base = Verified(docs) /\ m \in Mutations
    BY DEF CInv, StoredIsNow
  <2>2. PICK mutated \in Mutated(m) : stored.passed = Passes(m, Verified(docs), Verified(mutated))
    BY <2>1 DEF CInv, StoredIsNow
  <2>3. CASE m \in {"attachment-rename", "wrong-document-type", "label-synonym", "remove-si-required-value"}
    BY <2>3, HoweverLabelled DEF PassedHoweverLabelled
  <2>4. CASE m = "case-spacing"
    <3>1. \E d \in InText("DRAFT_BL") : mutated \in Respelled(d)
      BY <2>2, <2>4 DEF Mutated
    <3>2. Verified(mutated).verification = "MATCH"
      BY <2>1, <3>1, RespelledPasses
    <3>3. Submission(Verified(mutated)) = Submission(Verified(docs))
      BY <2>1, <3>2 DEF Submission
    <3>4. QED
      BY <2>2, <2>4, <3>3 DEF Passes
  <2>5. CASE m = "container-count-plus-one"
    <3>1. \E d \in InText("DRAFT_BL") : mutated \in Incremented(d)
      BY <2>2, <2>5 DEF Mutated
    <3>2. Verified(mutated).verification = "MISMATCH" /\ "container_count" \in Mismatched(Verified(mutated))
      BY <2>1, <3>1, IncrementedPasses
    <3>3. QED
      BY <2>2, <2>5, <3>2 DEF Passes
  <2>6. QED
    BY <2>1, <2>3, <2>4, <2>5 DEF Mutations
<1>2. QED
  BY <1>1, StoredStaysTrue, PTL
=============================================================================
