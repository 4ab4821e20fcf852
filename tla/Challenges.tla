----------------------------- MODULE Challenges ----------------------------
(***************************************************************************)
(* The attachments of a case, as senders write them and as they come and   *)
(* go, with the runs that compare them and the challenges that mutate a    *)
(* copy and compare that (verify_case of pipeline.py, challenges.py).      *)
(*                                                                         *)
(* Each action that edits stands for another document that might have been *)
(* sent. A request for a comparison is assumed, and no model.              *)
(***************************************************************************)
EXTENDS Reading

CONSTANTS
  Bases,       (* the attachments that behaviours begin with               *)
  Lines,       (* the lines that may be written into them                  *)
  Extra,       (* the attachments that may come along                      *)
  MaxEdits     (* bound: the changes to the attachments                    *)

Line == [field: Fields \cup {NoField}, words: Seq(STRING), place: {"body", "table", "margin", "unseen"}]
Document == [name: DOMAIN Hints, format: {"txt", "pdf", "docx", "xlsx"}, broken: BOOLEAN, lines: Seq(Line)]

ASSUME ChallengesAssumption ==
  /\ Bases \subseteq Seq(Document) /\ Lines \subseteq Line /\ Extra \subseteq Document
  /\ MaxEdits \in Nat

\* Of the words that a mutation writes or looks for none is a number, and a port that
\* is written large folds to the same port.
PortKlang == {"port", "PORT", "klang", "KLANG"}

ASSUME VocabularyAssumption ==
  /\ DOMAIN Numeral \cap (PortKlang \cup Markers \cup Unknown \cup SITerms \cup BLTerms
                          \cup {Bar, "same as consignee", "commercial invoice"}) = {}
  /\ {"PORT", "KLANG"} \subseteq DOMAIN Fold /\ {"port", "klang"} \cap DOMAIN Fold = {}
  /\ Fold["PORT"] = "port" /\ Fold["KLANG"] = "klang"

VARIABLES
  docs,     \* the attachments, in the order they are stored
  stored,   \* what the last run or challenge stored, if the attachments are still those
  edits     \* how often they were changed
challengesVars == <<docs, stored, edits>>

NotAsked == [kind |-> "none"]

ChallengesInit == docs \in Bases /\ stored = NotAsked /\ edits = 0

-----------------------------------------------------------------------------
(* What may be sent.                                                       *)

Send(attachments) ==
  /\ edits < MaxEdits /\ edits' = edits + 1
  /\ attachments # docs /\ docs' = attachments
  /\ stored' = NotAsked

AddLine(d, i, l) == Send([docs EXCEPT ![d].lines = InsertAt(@, i, l)])

\* Another value of the same label, or another text.
ReplaceLine(d, i, l) ==
  /\ docs[d].lines[i].field = l.field
  /\ Send([docs EXCEPT ![d].lines[i] = l])

DropLine(d, i) == Send([docs EXCEPT ![d].lines = RemoveAt(@, i)])

\* The lines from one on are on a page or sheet that is not read, in a table, or
\* in a footer.
MoveLines(d, i, place) ==
  /\ docs[d].format # "txt"
  /\ Send([docs EXCEPT ![d].lines = [j \in DOMAIN @ |-> IF j < i THEN @[j]
                                                        ELSE [@[j] EXCEPT !.place = place]]])

Name(d, name) == Send([docs EXCEPT ![d].name = name])

Break(d) == docs[d].format # "txt" /\ Send([docs EXCEPT ![d].broken = TRUE])

Attach(doc) == Send(Append(docs, doc))

Detach(d) == Send(RemoveAt(docs, d))

-----------------------------------------------------------------------------
(* The mutations of a copy: none, if the fixture does not allow them.      *)

\* _find_role: the first text file of a role.
InText(role) == {d \in InRole(docs, role) : docs[d].format = "txt"}

Rewritten(d, lines) == [docs EXCEPT ![d].lines = lines]

\* attachment-rename: challenge_42_ comes before the name of the first one.
Renamed ==
  {[docs EXCEPT ![d].name = IF @ = "bl_draft" THEN "x_bl" ELSE @] : d \in DOMAIN docs \cap {1}}

\* wrong-document-type
Replaced(d) ==
  {Rewritten(d, <<[field |-> NoField, words |-> <<"commercial invoice">>, place |-> "body"]>>)}

\* case-spacing: the first "Port Klang".
Klang(words) == {k \in 1..Len(words) - 1 : words[k] \in {"port", "PORT"} /\ words[k + 1] \in {"klang", "KLANG"}}

Respelled(d) ==
  LET lines == docs[d].lines
      at == {i \in DOMAIN lines : Klang(lines[i].words) # {}}
  IN {Rewritten(d, [lines EXCEPT ![i].words = [k \in DOMAIN @ |->
        IF k = First(Klang(@)) THEN "PORT" ELSE IF k = First(Klang(@)) + 1 THEN "KLANG" ELSE @[k]]])
      : i \in {j \in at : j = First(at)}}

\* label-synonym: "Load Port" for "Port of Loading", which label the same field.
Relabelled(d) == IF \E i \in DOMAIN docs[d].lines : docs[d].lines[i].field = "port_of_loading"
                 THEN {docs} ELSE {}

\* container-count-plus-one: the first number of sized containers after the label,
\* on its line or on the next, if there is a word for one more.
Counts(lines) ==
  {i \in DOMAIN lines :
     /\ 1 \in Sized(lines[i].words)
     /\ \/ lines[i].field = "container_count"
        \/ i > 1 /\ lines[i].field = NoField
           /\ lines[i - 1].field = "container_count" /\ lines[i - 1].words = <<>>}

Incremented(d) ==
  LET lines == docs[d].lines
      more(w) == {x \in DOMAIN Numeral : Numeral[x] = <<Numeral[w][1] + 1000, 0>>}
  IN UNION {{Rewritten(d, [lines EXCEPT ![i].words[1] = w]) : w \in more(lines[i].words[1])}
            : i \in {j \in Counts(lines) : j = First(Counts(lines))}}

\* remove-si-required-value
Weights(lines) == {i \in DOMAIN lines : lines[i].field = "gross_weight_kg" /\ lines[i].words # <<>>}

Emptied(d) ==
  LET lines == docs[d].lines
  IN {Rewritten(d, [lines EXCEPT ![i].words = <<"N/A">>])
      : i \in {j \in Weights(lines) : j = First(Weights(lines))}}

Mutations == {"attachment-rename", "wrong-document-type", "case-spacing", "label-synonym",
              "container-count-plus-one", "remove-si-required-value"}

\* _mutate
Mutated(m) ==
  LET role == IF m = "remove-si-required-value" THEN "SI" ELSE "DRAFT_BL"
      target == {d \in InText(role) : d = First(InText(role))}
  IN IF m = "attachment-rename" THEN Renamed
     ELSE UNION {CASE m = "wrong-document-type" -> Replaced(d)
                   [] m = "case-spacing" -> Respelled(d)
                   [] m = "label-synonym" -> Relabelled(d)
                   [] m = "container-count-plus-one" -> Incremented(d)
                   [] m = "remove-si-required-value" -> Emptied(d) : d \in target}

\* to_submission
Mismatched(v) == {f \in Fields : v.fields[f] = "MISMATCH"}

Submission(v) == [status |-> v.verification,
                  reason |-> IF v.verification = "NEEDS_REVIEW" THEN v.reason ELSE "none",
                  defects |-> IF v.verification = "MISMATCH" THEN Mismatched(v) ELSE {}]

\* _challenge_pass
Passes(m, base, observed) ==
  CASE m = "wrong-document-type" ->
         observed.verification = "NEEDS_REVIEW" /\ observed.reason = "wrong_doc_type"
    [] m = "container-count-plus-one" ->
         observed.verification = "MISMATCH" /\ "container_count" \in Mismatched(observed)
    [] m = "remove-si-required-value" ->
         observed.verification = "NEEDS_REVIEW" /\ observed.fields["gross_weight_kg"] = "UNRESOLVED"
    [] OTHER -> Submission(base) = Submission(observed)

-----------------------------------------------------------------------------
\* verify_case, as a run calls it
Run ==
  /\ stored = NotAsked
  /\ stored' = [kind |-> "verdict", verdict |-> Verified(docs)]
  /\ UNCHANGED <<docs, edits>>

\* execute_challenge: both sides are imported and run anew; the case is left as it is.
ExecuteChallenge(m) ==
  /\ stored = NotAsked
  /\ \E mutated \in Mutated(m) :
       stored' = [kind |-> "challenge", mutation |-> m, base |-> Verified(docs),
                  passed |-> Passes(m, Verified(docs), Verified(mutated))]
  /\ UNCHANGED <<docs, edits>>

Edit ==
  \/ \E d \in DOMAIN docs :
       \/ \E l \in Lines : \/ \E i \in 1..Len(docs[d].lines) + 1 : AddLine(d, i, l)
                           \/ \E i \in DOMAIN docs[d].lines : ReplaceLine(d, i, l)
       \/ \E i \in DOMAIN docs[d].lines :
            DropLine(d, i) \/ \E place \in {"table", "margin", "unseen"} : MoveLines(d, i, place)
       \/ \E name \in DOMAIN Hints : Name(d, name)
       \/ Break(d)
       \/ Detach(d)
  \/ \E doc \in Extra : Attach(doc)

ChallengesNext == Edit \/ Run \/ \E m \in Mutations : ExecuteChallenge(m)

ChallengesSpec == ChallengesInit /\ [][ChallengesNext]_challengesVars

-----------------------------------------------------------------------------
(* Properties. They look at what the lines say and not at what the code    *)
(* makes of them.                                                          *)

Organization(words) ==
  LET ends == {i \in DOMAIN words : words[i] = Bar \/ words[i] \in Addresses}
      name == IF ends = {} THEN words ELSE SubSeq(words, 1, First(ends) - 1)
  IN Folded(name)

Total(words, at) == SumFunctionOnSet([i \in at |-> Numeral[words[i]][1]], at)

\* What one line says of a field: the organization before any address, all the
\* containers, or kilograms.
Says(f, words) ==
  CASE f \in PartyFields -> Organization(words)
    [] f = "port_of_loading" -> Without(Organization(words), "port")
    [] f = "container_count" ->
         <<Total(words, IF Sized(words) = {} THEN Numbers(words) ELSE Sized(words))>>
    [] f = "gross_weight_kg" ->
         <<LET n == Total(words, Numbers(words))
           IN IF Found("t", words) THEN n * 1000 ELSE IF Found("lb", words) THEN (n * 454) \div 1000 ELSE n>>

Saying(d, f) ==
  {i \in DOMAIN Seen(docs[d]) : Seen(docs[d])[i].field = f /\ Seen(docs[d])[i].words # <<>>}

Said(d, f) == {Says(f, Seen(docs[d])[i].words) : i \in Saying(d, f)}

\* Who is meant by a notify party that refers to the consignee is what the lines of
\* the same document say of that.
Refers(f, words) == f = "notify_party" /\ Found("same as consignee", words)

Meant(d, f) ==
  UNION {IF Refers(f, Seen(docs[d])[i].words) THEN Said(d, "consignee")
         ELSE {Says(f, Seen(docs[d])[i].words)} : i \in Saying(d, f)}

\* Written the way that the rules are made for: each label with its value on its
\* line, an address set off from the name and none at a port, containers of one size
\* and one weight.
Unaddressed(words) == (ToSet(words) \cup ToSet(Folded(words))) \cap Addresses = {}

Plainly(f, words) ==
  /\ words # <<>> /\ words[1] \notin Markers
  /\ f \in PartyFields => Unaddressed(BeforeBar(words))
  /\ f = "port_of_loading" => ~Found(Bar, words) /\ Unaddressed(words)
  /\ f \in {"container_count", "gross_weight_kg"} => Cardinality(Numbers(words)) = 1

Plain(d) == \A l \in ToSet(Seen(docs[d])) : l.field \in Fields => Plainly(l.field, l.words)

Compared == stored.kind = "verdict" /\ stored.verdict.pair # NoPair

\* A verdict without a finding, on documents that state their fields plainly, is
\* never given if any two lines of the pair mean different things by a field: no label
\* that is repeated, no reference of a notify party to the consignee of its document
\* and no unit hides a difference (extract_fields and normalize_field of core.py).
ClearsMeanTheSame ==
  Compared /\ stored.verdict.verification = "MATCH" =>
    LET pair == stored.verdict.pair
    IN Plain(pair.si) /\ Plain(pair.bl) =>
         \A f \in Fields :
           \A x, y \in Meant(pair.si, f) \cup Meant(pair.bl, f) : x = y

\* If two attachments are titled as shipping instructions at their top and as nothing
\* else, or two as bills of lading, nothing is compared: the code never picks a
\* version (_pair_documents of pipeline.py:74-81).
Titles == {"shipping instruction", "bill of lading"}

Titled(d, title) ==
  LET lines == Seen(docs[d])
  IN /\ \E i \in DOMAIN lines : i <= 8 /\ lines[i].field = NoField /\ lines[i].words = <<title>>
     /\ \A i \in DOMAIN lines : lines[i].words # <<>> => lines[i].words[1] \notin Titles \ {title}

NoVersionIsPicked ==
  Compared => \A title \in Titles : Cardinality({d \in DOMAIN docs : Titled(d, title)}) <= 1

Labelled(lines, f) == {i \in DOMAIN lines : lines[i].field = f}

\* A challenge of a case that compares clean is passed, whatever else the
\* attachments hold, if the draft BL labels no field twice and the file that is
\* renamed is one of the pair (_challenge_pass of challenges.py).
ChallengesPass ==
  stored.kind = "challenge" /\ stored.base.verification = "MATCH" =>
    LET pair == stored.base.pair
    IN /\ \A f \in Fields : Cardinality(Labelled(Seen(docs[pair.bl]), f)) <= 1
       /\ stored.mutation = "attachment-rename" => 1 \in {pair.si, pair.bl}
       => stored.passed

\* What _is_organization_name_prefix of core.py promises: a name with a qualifier is
\* another party, and remains a mismatch.
QualifiersAreParties ==
  Compared =>
    LET pair == stored.verdict.pair
    IN \A f \in Fields \cap PartyFields :
         Cardinality(Meant(pair.si, f)) = 1 /\ Cardinality(Meant(pair.bl, f)) = 1
         /\ Plain(pair.si) /\ Meant(pair.si, f) # Meant(pair.bl, f)
         => stored.verdict.fields[f] # "MATCH"

\* What IMPLEMENTATION_PLAN.md says of documents of another type: an invoice is never
\* compared as a draft BL.
InvoicesAreNotCompared ==
  Compared => ~\E i \in DOMAIN Seen(docs[stored.verdict.pair.bl]) :
                 /\ Seen(docs[stored.verdict.pair.bl])[i].words = <<"commercial invoice">>
                 /\ ~Titled(stored.verdict.pair.bl, "bill of lading")

\* What IMPLEMENTATION_PLAN.md says of weights: equal ones compare equal, whatever
\* their units.
EqualWeightsAgree ==
  Compared =>
    LET pair == stored.verdict.pair
    IN Cardinality(Said(pair.si, "gross_weight_kg") \cup Said(pair.bl, "gross_weight_kg")) = 1
       => stored.verdict.fields["gross_weight_kg"] # "MISMATCH"

\* What _strip_template_marker says: a marker by itself is a missing value.
MarkersAreMissing ==
  Compared =>
    \A f \in Fields \cap PartyFields :
      stored.verdict.fields[f] = "MATCH" =>
        \A v \in Entries(Seen(docs[stored.verdict.pair.si]), f) : BeforeBar(v) # <<"(m)">>

\* What IMPLEMENTATION_PLAN.md says of pages that could not be read: the case is not
\* clear.
UnreadIsNotClear ==
  Compared /\ stored.verdict.verification = "MATCH" =>
    ~Warned(docs[stored.verdict.pair.si]) /\ ~Warned(docs[stored.verdict.pair.bl])

\* What challenges.py says of its expected relationships: a case that compares clean
\* passes every challenge.
EveryChallengePasses ==
  stored.kind = "challenge" /\ stored.base.verification = "MATCH" => stored.passed
=============================================================================
