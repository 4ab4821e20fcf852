------------------------------ MODULE Classify -----------------------------
(***************************************************************************)
(* How the local rules classify an email: the signals of each category,    *)
(* where they stand, the scores, and the confidence that decides whether   *)
(* the winner is accepted or escalated (classify_email of                  *)
(* src/cleardraft/core.py). Signals appear one at a time, as a message is  *)
(* written; which pattern matches which phrase is left to the patterns.    *)
(***************************************************************************)
EXTENDS Integers, FiniteSets, Functions

CONSTANTS
  Signals,       (* the patterns of _CATEGORY_SIGNALS                       *)
  CategoryOf,    (* the category a pattern stands for                       *)
  Weight,        (* its weight, in halves of a point                        *)
  Rank,          (* the place of a category's name in the alphabet          *)
  General        (* GENERAL                                                 *)

Labels == DOMAIN Rank

\* _CATEGORY_SIGNALS: no pattern has more than 4.5 points, and there are at least
\* two categories.
ASSUME ClassifyAssumption ==
  /\ IsFiniteSet(Signals) /\ IsFiniteSet(Labels)
  /\ CategoryOf \in [Signals -> Labels]
  /\ Weight \in [Signals -> 1..9]
  /\ Rank \in [Labels -> Nat]
  /\ \A c, d \in Labels : Rank[c] = Rank[d] => c = d
  /\ General \in Labels /\ Labels # {General}

VARIABLES
  at,              \* where each signal stands
  scores,          \* the points of each category
  classification   \* what classify_email returns
classifyVars == <<at, scores, classification>>

\* A pattern is looked for in the subject and in the newest part of the body; quoted
\* lines, older messages and the banner of a gateway are taken out before.
Places == {"subject", "current_body"}

-----------------------------------------------------------------------------
\* Quarters of points: each signal counts once, in the subject half as much again.
MutantPoints(s, places) ==
  IF "current_body" \in places THEN 2 * Weight[s]
  ELSE IF "subject" \in places THEN 3 * Weight[s] ELSE 0
Points(s, places) ==
  IF "subject" \in places THEN 3 * Weight[s]
  ELSE IF "current_body" \in places THEN 2 * Weight[s] ELSE 0

Of(c) == {s \in Signals : CategoryOf[s] = c}

Scored(placed) ==
  LET points == [s \in Signals |-> Points(s, placed[s])]
  IN [c \in Labels |-> SumFunctionOnSet(points, Of(c))]

\* ranked: by score, and by name among equals. The first of some categories.
Best(score, among) ==
  CHOOSE c \in among : \A d \in among :
    score[c] > score[d] \/ (score[c] = score[d] /\ Rank[c] <= Rank[d])

\* In thousandths, rounded: how full the winner's score is, five points being 20
\* quarters, times the share of it that the runner-up lacks.
Saturation == 20
Full(points) == IF points < Saturation THEN points ELSE Saturation

MutantConfidence(top, runnerUp) == (1000 * Full(top)) \div Saturation
Confidence(top, runnerUp) ==
  IF top = 0 THEN 0
  ELSE LET n == Full(top) * (top - runnerUp)
           d == Saturation * top
       IN (2000 * n + d) \div (2 * d)

\* Without a signal the answer is GENERAL, on no evidence; below
\* CLASSIFICATION_CONFIDENCE_THRESHOLD it is escalated.
Decided(score) ==
  LET top == Best(score, Labels)
      confidence == Confidence(score[top], score[Best(score, Labels \ {top})])
  IN [category |-> IF score[top] = 0 THEN General ELSE top,
      confidence |-> confidence,
      escalated |-> confidence < 800,
      alternatives |-> IF confidence < 800 THEN {c \in Labels \ {top} : score[c] > 0} ELSE {}]

-----------------------------------------------------------------------------
\* classify_email
Reclassify == scores' = Scored(at') /\ classification' = Decided(scores')

ClassifyInit ==
  /\ at = [s \in Signals |-> {}]
  /\ scores = Scored(at) /\ classification = Decided(scores)

Mention(s, p) == p \notin at[s] /\ at' = [at EXCEPT ![s] = @ \cup {p}] /\ Reclassify

ClassifyNext == \E s \in Signals, p \in Places : Mention(s, p)

ClassifySpec == ClassifyInit /\ [][ClassifyNext]_classifyVars

-----------------------------------------------------------------------------
Body(c) ==
  LET points == [s \in Signals |-> IF "current_body" \in at[s] THEN 2 * Weight[s] ELSE 0]
  IN SumFunctionOnSet(points, Of(c))

\* A subject that matches one signal is not accepted against a body that speaks for
\* another category with a point and a half or more: "the subject leads without being
\* able to overrule a strong signal in the body on its own" (core.py:249-251).
SubjectAloneOverrulesNoBody ==
  LET heard == {s \in Of(classification.category) : at[s] # {}}
  IN /\ Cardinality(heard) = 1 /\ \A s \in heard : at[s] = {"subject"}
     /\ \E c \in Labels \ {classification.category} : Body(c) >= 6
     => classification.escalated

\* One more signal of a category never gives the message to a third one, and never
\* makes the answer surer if that is another: no answer is accepted because of
\* evidence against it (classify_email of core.py:361-395).
EvidenceSpeaksForItsCategory ==
  [][\A s \in Signals :
       at'[s] # at[s] =>
         /\ classification'.category \in {classification.category, CategoryOf[s]}
         /\ classification'.category # CategoryOf[s] =>
              classification'.confidence <= classification.confidence]_classifyVars
=============================================================================
