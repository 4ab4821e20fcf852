------------------------------ MODULE Reading ------------------------------
(***************************************************************************)
(* From the attachments of an email to the verdict on them: what the       *)
(* readers show of a file, which file is the SI and which the draft BL,    *)
(* what stands in each field, and how two readings compare (readers.py,    *)
(* the reading half of core.py, _pair_documents and                        *)
(* verify_case of pipeline.py). The module has no state: a document is a   *)
(* value, and Challenges is the machine that stores, runs and mutates it.  *)
(*                                                                         *)
(* A document is a sequence of lines and a line a sequence of words, which *)
(* differ where the code distinguishes them. Runs without a model; what a  *)
(* model and reviewers do with readings is the subject of Verdict.         *)
(***************************************************************************)
EXTENDS Naturals, SequencesExt

CONSTANTS
  Fields,      (* the comparison fields looked at                          *)
  Addresses,   (* words of an address, with a digit in each                *)
  Numeral,     (* of the words that are numbers: thousandths, and decimals *)
  Fold         (* the other spellings of words, to the one they fold to    *)

PartyFields == {"shipper", "consignee", "notify_party"}

ASSUME ReadingAssumption ==
  /\ Fields \subseteq PartyFields \cup {"port_of_loading", "container_count", "gross_weight_kg"}
  /\ Fields # {} /\ \A w \in DOMAIN Numeral : Numeral[w] \in Nat \X Nat

NoField == "none"
Bar == "|"
Markers == {"(m)", "(?)"}        \* template markers: translated, and unreadable
Unknown == {"N/A"}
Units == {"kg", "t", "lb"}

Found(word, words) == \E i \in DOMAIN words : words[i] = word

First(set) == CHOOSE i \in set : \A j \in set : i <= j

\* The elements of a sequence at some of its positions, in their order.
Ranked(at, k) == CHOOSE i \in at : Cardinality({j \in at : j <= i}) = k
Chosen(s, at) == IF at = DOMAIN s THEN s ELSE [k \in 1..Cardinality(at) |-> s[Ranked(at, k)]]
Without(s, x) == Chosen(s, {i \in DOMAIN s : s[i] # x})

-----------------------------------------------------------------------------
(* The readers. A line stands in the body, in a table, in a header or      *)
(* footer, or where nobody sees it: on a page that is an image and that    *)
(* OCR gets nothing of, or on a hidden sheet.                              *)

At(doc, place) == Chosen(doc.lines, {i \in DOMAIN doc.lines : doc.lines[i].place = place})

\* read_txt, read_pdf, read_docx and read_xlsx: the lines that are seen, all those of a
\* text, where Word documents give their paragraphs before their tables.
Seen(doc) ==
  CASE doc.broken -> <<>>
    [] ~doc.broken /\ doc.format = "txt" -> doc.lines
    [] ~doc.broken /\ doc.format = "docx" -> At(doc, "body") \o At(doc, "table") \o At(doc, "margin")
    [] ~doc.broken /\ doc.format \notin {"txt", "docx"} ->
         Chosen(doc.lines, {i \in DOMAIN doc.lines : doc.lines[i].place # "unseen"})

\* Their warnings: page_n_has_no_text, hidden_sheet_skipped.
Warned(doc) == doc.format # "txt" /\ At(doc, "unseen") # <<>>

-----------------------------------------------------------------------------
(* The role of a document.                                                 *)

Hints == [x_si |-> "SI", x_bl |-> "DRAFT_BL", bl_draft |-> "UNKNOWN", scan |-> "UNKNOWN"]

SITerms == {"shipping instruction", "instruction", "shipper"}
BLTerms == {"bill of lading", "consignee", "notify_party"}

Terms(word) == CASE word = "shipping instruction" -> {word, "instruction"}
                 [] word = "same as consignee" -> {"consignee"}
                 [] OTHER -> {word}

Mentioned(lines) == UNION {{l.field} \cup UNION {Terms(w) : w \in ToSet(l.words)} : l \in ToSet(lines)}

\* heading: one of the first eight lines is the title, or begins with it and a mark.
Headed(lines, title) ==
  \E i \in DOMAIN lines :
    /\ i <= 8 /\ lines[i].field = NoField /\ lines[i].words # <<>>
    /\ lines[i].words[1] = title
    /\ Len(lines[i].words) = 1 \/ lines[i].words[2] \in {Bar} \cup Markers

\* identify_document_role
MutantIdentify(doc) ==
  LET lines == Seen(doc)
      si == Cardinality(Mentioned(lines) \cap SITerms)
      bl == Cardinality(Mentioned(lines) \cap BLTerms)
  IN CASE Headed(lines, "shipping instruction") -> "SI"
       [] ~Headed(lines, "shipping instruction") /\ Headed(lines, "bill of lading") -> "DRAFT_BL"
       [] OTHER -> IF si > bl THEN "SI" ELSE IF bl >= 2 THEN "DRAFT_BL" ELSE Hints[doc.name]
Identify(doc) ==
  LET lines == Seen(doc)
      terms == Mentioned(lines)
      si == Cardinality(terms \cap SITerms)
      bl == Cardinality(terms \cap BLTerms)
  IN IF Headed(lines, "shipping instruction") THEN "SI"
     ELSE IF Headed(lines, "bill of lading") THEN "DRAFT_BL"
     ELSE IF "commercial invoice" \in terms /\ bl < 2 THEN "OTHER"
     ELSE IF si > bl THEN "SI"
     ELSE IF bl >= 2 THEN "DRAFT_BL"
     ELSE Hints[doc.name]

InRole(docs, role) == {i \in DOMAIN docs : Identify(docs[i]) = role}

-----------------------------------------------------------------------------
(* What stands in a field.                                                 *)

\* _strip_template_marker
Stripped(words) ==
  IF Len(words) >= 2 /\ words[1] \in Markers /\ words[2] = Bar THEN SubSeq(words, 3, Len(words))
  ELSE IF words = <<"(?)">> THEN <<>> ELSE words

\* normalize_text. A value that folds to nothing is taken for a missing one: both
\* leave the field open.
Folded(words) == [i \in DOMAIN words |-> IF words[i] \in DOMAIN Fold THEN Fold[words[i]] ELSE words[i]]
Text(words) ==
  LET w == Stripped(words)
  IN IF Len(w) = 1 /\ w[1] \in Unknown THEN <<>> ELSE Folded(Without(w, Bar))

BeforeBar(words) ==
  IF Found(Bar, words) THEN SubSeq(words, 1, First({i \in DOMAIN words : words[i] = Bar}) - 1) ELSE words

Numbers(words) == {i \in DOMAIN words : words[i] \in DOMAIN Numeral}
Sized(words) == {i \in Numbers(words) : i < Len(words) /\ words[i + 1] = "x 20GP"}

\* normalize_field: a canonical value, or <<>> for none. Decimals stay in a weight.
Canon(f, words) ==
  CASE f \in PartyFields -> Text(BeforeBar(words))
    [] f = "port_of_loading" -> Without(Text(words), "port")
    [] f = "container_count" ->
         IF Numbers(words) = {} THEN <<>>
         ELSE <<Numeral[words[First(IF Sized(words) # {} THEN Sized(words) ELSE Numbers(words))]][1]>>
    [] f = "gross_weight_kg" ->
         IF Numbers(words) = {} THEN <<>>
         ELSE LET n == Numeral[words[First(Numbers(words))]]
              IN IF Found("t", words) THEN <<n[1] * 1000, n[2]>>
                 ELSE IF Found("lb", words) THEN <<>> ELSE n

\* _looks_like_scalar_measurement
Scalar(words) == /\ words[1] \in DOMAIN Numeral
                 /\ Len(words) = 1 \/ (Len(words) = 2 /\ words[2] \in Units)

\* _find_labeled_lines: the values of one field, each from the line of a label or
\* from the lines between a label without a value and the next label.
Entry(lines, i) ==
  LET labels == {j \in DOMAIN lines : j > i /\ lines[j].field # NoField}
      end == IF labels = {} THEN Len(lines) ELSE First(labels) - 1
      below == Chosen(lines, {j \in i + 1..end : lines[j].words # <<>>})
      inline == Stripped(lines[i].words)
  IN IF inline # <<>> \/ below = <<>> THEN inline
     ELSE CASE lines[i].field \in PartyFields -> FlattenSeq([k \in DOMAIN below |-> below[k].words])
            [] lines[i].field = "gross_weight_kg" -> IF Scalar(below[1].words) THEN below[1].words ELSE <<>>
            [] OTHER -> below[1].words

Entries(lines, f) ==
  {v \in {Entry(lines, i) : i \in {j \in DOMAIN lines : lines[j].field = f}} :
     v # <<>> \/ f \in PartyFields}

\* extract_fields for one field. Values written differently are in conflict even
\* if they normalize to the same.
Missing == [status |-> "MISSING", raw |-> <<>>, value |-> <<>>]

MutantReading(f, entries) ==
  LET read == {v \in entries : Canon(f, v) # <<>>}
  IN IF read = {} THEN Missing
     ELSE LET v == CHOOSE v \in read : TRUE
          IN [status |-> "PRESENT", raw |-> v, value |-> Canon(f, v)]
ReadingOf(f, entries) ==
  CASE entries = {} -> Missing
    [] Cardinality(entries) > 1 -> [Missing EXCEPT !.status = "AMBIGUOUS"]
    [] OTHER -> LET v == CHOOSE v \in entries : TRUE
                IN IF Canon(f, v) = <<>> THEN Missing
                   ELSE [status |-> "PRESENT", raw |-> v, value |-> Canon(f, v)]

\* extract_fields: a notify party that refers to the consignee is resolved.
ExtractFields(lines) ==
  LET obs == [f \in Fields |-> ReadingOf(f, Entries(lines, f))]
  IN IF /\ {"consignee", "notify_party"} \subseteq Fields
        /\ obs["notify_party"].status = "PRESENT" /\ obs["consignee"].status = "PRESENT"
        /\ Found("same as consignee", obs["notify_party"].raw)
     THEN [obs EXCEPT !["notify_party"].value = obs["consignee"].value] ELSE obs

-----------------------------------------------------------------------------
(* The comparison.                                                         *)

\* _is_organization_name_prefix
Extends(longer, shorter) ==
  /\ IsPrefix(shorter, longer)
  /\ \E i \in Len(shorter) + 1..Len(longer) : longer[i] \in Addresses

\* compare_documents for one field.
Agree(f, x, y) ==
  \/ x.value = y.value
  \/ f \in PartyFields /\ (Extends(x.value, y.value) \/ Extends(y.value, x.value))

FieldState(f, x, y) ==
  IF x.value = <<>> \/ y.value = <<>> THEN "UNRESOLVED"
  ELSE IF Agree(f, x, y) THEN "MATCH" ELSE "MISMATCH"

NoPair == [si |-> 0, bl |-> 0]
Open == [f \in Fields |-> "UNRESOLVED"]

Verdict(states, reason, pair, issues) ==
  LET all == {states[f] : f \in Fields}
  IN [pair |-> pair, fields |-> states, issues |-> issues,
      verification |-> IF "UNRESOLVED" \in all THEN "NEEDS_REVIEW"
                       ELSE IF "MISMATCH" \in all THEN "MISMATCH" ELSE "MATCH",
      reason |-> reason]

\* _pair_documents: a side is only taken if one document can be meant.
MutantPair(docs) == [si |-> IF InRole(docs, "SI") = {} THEN 0 ELSE First(InRole(docs, "SI")),
               bl |-> IF InRole(docs, "DRAFT_BL") = {} THEN 0 ELSE First(InRole(docs, "DRAFT_BL"))]
Pair(docs) == [si |-> IF Cardinality(InRole(docs, "SI")) = 1 THEN First(InRole(docs, "SI")) ELSE 0,
         bl |-> IF Cardinality(InRole(docs, "DRAFT_BL")) = 1 THEN First(InRole(docs, "DRAFT_BL")) ELSE 0]

Wrong(docs) == InRole(docs, "DRAFT_BL") = {} /\ InRole(docs, "OTHER") # {}

\* verify_case for a request to compare.
Verified(docs) ==
  LET pair == Pair(docs)
  IN IF pair.si = 0 \/ pair.bl = 0
     THEN Verdict(Open, IF Wrong(docs) THEN "wrong_doc_type" ELSE "missing_attachment", NoPair, TRUE)
     ELSE LET si == docs[pair.si]
              bl == docs[pair.bl]
              x == ExtractFields(Seen(si))
              y == ExtractFields(Seen(bl))
              states == [f \in Fields |-> FieldState(f, x[f], y[f])]
          IN IF Seen(si) = <<>> \/ Seen(bl) = <<>>
             THEN Verdict(Open, "unreadable", NoPair, TRUE)
             ELSE Verdict(states, IF \E f \in Fields : states[f] = "UNRESOLVED"
                                  THEN "missing_value" ELSE "none",
                          pair, Warned(si) \/ Warned(bl))
=============================================================================
