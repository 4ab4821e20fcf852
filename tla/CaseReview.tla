----------------------------- MODULE CaseReview -----------------------------
(***************************************************************************)
(* One case of ClearDraft and everything that may write it: reviews,       *)
(* closing and reopening, uploaded documents, pair selection, arbitration, *)
(* classification corrections and runs (src/cleardraft/api.py, the cases   *)
(* part of src/cleardraft/store.py, verify_case of pipeline.py).           *)
(*                                                                         *)
(* The API serves requests in parallel threads, and each `with connect()`  *)
(* of the store is one transaction. A request that reads and writes in     *)
(* different transactions is therefore several actions, and one that does  *)
(* all in one compare-and-swap is a single action. A request that names a  *)
(* stale version is refused where the code checks, and changes nothing.    *)
(***************************************************************************)
EXTENDS Naturals, FiniteSets, Sequences

CONSTANTS
  Clients,       (* the threads that serve requests                         *)
  Fields,        (* the comparison fields                                   *)
  NoField,       (* a review event that names no field                      *)
  Docs,          (* the documents that may be attached to the case          *)
  Imported,      (* those that came with the email                          *)
  SIs, BLs,      (* the documents that read as SI, as draft BL              *)
  Differs,       (* the fields that one SI and one BL leave open            *)
  NoPair,        (* no pair was selected                                    *)
  Categories,    (* the email categories                                    *)
  Comparison,    (* BL_COMPARISON, the only one that is compared            *)
  NoCategory,    (* the case was never processed                            *)
  Readings,      (* what a run may make of the email: category and question *)
  MaxRequests    (* bound: the requests of a behaviour                      *)

ASSUME CaseReviewAssumption ==
  /\ NoField \notin Fields
  /\ Imported \subseteq Docs
  /\ SIs \subseteq Docs /\ BLs \subseteq Docs /\ SIs \cap BLs = {}
  /\ Differs \in [SIs \X BLs -> SUBSET Fields]
  /\ NoPair \notin SIs \X BLs
  /\ Comparison \in Categories
  /\ NoCategory \notin Categories
  /\ Readings \subseteq [category: Categories, offered: SUBSET Categories]
  /\ MaxRequests \in Nat

VARIABLES
  row,       \* the row of the cases table
  docs,      \* the documents of the case
  pair,      \* the last row of comparison_pairs
  events,    \* the review_events, in order of insertion
  request,   \* what each thread is doing
  ran,       \* the import of the case has a run (a row of runs)
  requests,  \* how many requests were served or are being served
  source,    \* history: the documents and the pair the stored result was computed from
  replaced   \* history: the result was replaced while the case was closed
vars == <<row, docs, pair, events, request, ran, requests, source, replaced>>

-----------------------------------------------------------------------------
(* The case row. offered holds the categories of an open arbitration, open *)
(* the mismatched and unresolved fields of the stored result, compared     *)
(* says whether that result has fields at all.                             *)

Row == [version: Nat, closed: BOOLEAN, category: Categories \cup {NoCategory},
        offered: SUBSET Categories, compared: BOOLEAN, open: SUBSET Fields]

New == [version |-> 1, closed |-> FALSE, category |-> NoCategory,
        offered |-> {}, compared |-> FALSE, open |-> {}]

Bumped(r) == [r EXCEPT !.version = @ + 1]

\* _pair_documents: one SI and one BL are compared; with none, or with several
\* plausible versions of one, every field stays unresolved.
OpenFields(d) ==
  IF Cardinality(d \cap SIs) = 1 /\ Cardinality(d \cap BLs) = 1
  THEN UNION {Differs[p] : p \in (d \cap SIs) \X (d \cap BLs)}
  ELSE Fields

\* save_case_result of what verify_case finds under a category: no version is
\* asked for, and the disposition of the case is left as it is.
MutantSaved(r, category, offered, d) ==
  [r EXCEPT !.category = category, !.offered = offered,
            !.compared = (category = Comparison),
            !.open = IF category = Comparison THEN OpenFields(d) ELSE {}]

Saved(r, category, offered, d) ==
  [Bumped(r) EXCEPT !.category = category, !.offered = offered,
                    !.compared = (category = Comparison),
                    !.open = IF category = Comparison THEN OpenFields(d) ELSE {}]

Event(action, field, expected) ==
  [action |-> action, field |-> field, expected |-> expected, source |-> source]

FieldActions == {"confirm_finding", "correct_reading", "confirm_equivalence", "cannot_read"}
Decisions == {"resolve_classification", "classification_correction"}
Actions == FieldActions \cup Decisions \cup {"close_case", "reopen_case"}

Source == [docs: SUBSET Docs, pair: (SIs \X BLs) \cup {NoPair}]
Events == [action: Actions, field: Fields \cup {NoField}, expected: Nat, source: Source]

Reviewed == {events[i].field : i \in DOMAIN events} \ {NoField}

-----------------------------------------------------------------------------
(* Requests in flight: what they are, the row and the documents they read, *)
(* and the category a person chose.                                        *)

Kinds == {"idle", "review", "decide", "run"}
Steps == {"start", "read", "looked", "recorded"}

Request == [kind: Kinds, step: Steps, row: Row, source: Source,
            category: Categories \cup {NoCategory}, action: Decisions, ran: BOOLEAN]

Idle == [kind |-> "idle", step |-> "start", row |-> New,
         source |-> [docs |-> {}, pair |-> NoPair],
         category |-> NoCategory, action |-> "resolve_classification", ran |-> FALSE]

Init ==
  /\ row = New
  /\ docs = Imported
  /\ pair = NoPair
  /\ events = <<>>
  /\ request = [c \in Clients |-> Idle]
  /\ ran = FALSE
  /\ requests = 0
  /\ source = [docs |-> {}, pair |-> NoPair]
  /\ replaced = FALSE

Serve == requests < MaxRequests /\ requests' = requests + 1

Begin(c, r) ==
  /\ request[c].kind = "idle"
  /\ Serve
  /\ request' = [request EXCEPT ![c] = r]
  /\ UNCHANGED <<row, docs, pair, events, ran, source, replaced>>

End(c) == request' = [request EXCEPT ![c] = Idle]

-----------------------------------------------------------------------------
(* Reviews: read the case, compute the assisted result, compare and swap.  *)

ReviewRead(c) == Begin(c, [Idle EXCEPT !.kind = "review", !.row = row])

\* What an action on a field may make of the open fields: a corrected reading
\* matches, differs or faces an unreadable other side.
ReviewedOpen(action, f, open) ==
  CASE action = "confirm_finding" -> {open}
    [] action = "correct_reading" -> {open \ {f}, open \cup {f}}
    [] action = "confirm_equivalence" -> {open \ {f}}
    [] action = "cannot_read" -> {open \cup {f}}

\* The category a review stores: category or "BL_COMPARISON".
CategoryOf(r) == IF r.category = NoCategory THEN Comparison ELSE r.category

\* apply_review_transaction of a review that names a field.
MutantReviewForgetsField(c) ==
  LET old == request[c].row IN
  /\ request[c].kind = "review" /\ old.compared
  /\ row.version = old.version
  /\ \E action \in FieldActions, f \in Fields : \E open \in ReviewedOpen(action, f, old.open) :
        /\ row' = [Bumped(row) EXCEPT !.category = CategoryOf(old),
                                      !.offered = old.offered, !.open = open]
        /\ events' = Append(events, Event(action, NoField, old.version))
  /\ ran' = TRUE
  /\ End(c)
  /\ UNCHANGED <<docs, pair, requests, source, replaced>>

MutantReviewBlind(c) ==
  LET old == request[c].row IN
  /\ request[c].kind = "review" /\ old.compared
  /\ \E action \in FieldActions, f \in Fields : \E open \in ReviewedOpen(action, f, old.open) :
        /\ row' = [Bumped(row) EXCEPT !.category = CategoryOf(old),
                                      !.offered = old.offered, !.open = open]
        /\ events' = Append(events, Event(action, f, row.version))
  /\ ran' = TRUE
  /\ End(c)
  /\ UNCHANGED <<docs, pair, requests, source, replaced>>

ReviewField(c) ==
  LET old == request[c].row IN
  /\ request[c].kind = "review" /\ old.compared
  /\ row.version = old.version
  /\ \E action \in FieldActions, f \in Fields : \E open \in ReviewedOpen(action, f, old.open) :
        /\ row' = [Bumped(row) EXCEPT !.category = CategoryOf(old),
                                      !.offered = old.offered, !.open = open]
        /\ events' = Append(events, Event(action, f, old.version))
  /\ ran' = TRUE
  /\ End(c)
  /\ UNCHANGED <<docs, pair, requests, source, replaced>>

\* A review that names no field stores the result it read; confirm_equivalence
\* needs a field (new_value_override has no value without one).
ReviewCase(c) ==
  LET old == request[c].row IN
  /\ request[c].kind = "review"
  /\ row.version = old.version
  /\ row' = [Bumped(row) EXCEPT !.category = CategoryOf(old), !.offered = old.offered,
                                !.compared = old.compared, !.open = old.open]
  /\ \E action \in FieldActions \ {"confirm_equivalence"} :
        events' = Append(events, Event(action, NoField, old.version))
  /\ ran' = TRUE
  /\ End(c)
  /\ UNCHANGED <<docs, pair, requests, source, replaced>>

\* 409: somebody else was faster.
ReviewRefused(c) ==
  /\ request[c].kind = "review" /\ row.version # request[c].row.version
  /\ End(c)
  /\ UNCHANGED <<row, docs, pair, events, ran, requests, source, replaced>>

-----------------------------------------------------------------------------
(* Requests that one transaction serves.                                   *)

\* close_case, which asks of every open field whether some event names it.
MutantCloseSkipsUnreviewed ==
  /\ Serve
  /\ ~row.closed
  /\ row.open = {} \/ Reviewed # {}
  /\ row' = [Bumped(row) EXCEPT !.closed = TRUE]
  /\ events' = Append(events, Event("close_case", NoField, row.version))
  /\ replaced' = FALSE
  /\ UNCHANGED <<docs, pair, request, ran, source>>

Close ==
  /\ Serve
  /\ ~row.closed
  /\ row.open \subseteq Reviewed
  /\ row' = [Bumped(row) EXCEPT !.closed = TRUE]
  /\ events' = Append(events, Event("close_case", NoField, row.version))
  /\ replaced' = FALSE
  /\ UNCHANGED <<docs, pair, request, ran, source>>

Reopen ==
  /\ Serve
  /\ row.closed
  /\ row' = [Bumped(row) EXCEPT !.closed = FALSE]
  /\ events' = Append(events, Event("reopen_case", NoField, row.version))
  /\ replaced' = FALSE
  /\ UNCHANGED <<docs, pair, request, ran, source>>

\* A document comes with the expected version, or without one and then leaves
\* the version as it is.
Upload(d) ==
  /\ Serve
  /\ d \notin docs
  /\ docs' = docs \cup {d}
  /\ row' \in {row, Bumped(row)}
  /\ UNCHANGED <<pair, events, request, ran, source, replaced>>

SelectPair(s, b) ==
  /\ Serve
  /\ s \in docs \cap SIs /\ b \in docs \cap BLs
  /\ pair' = <<s, b>>
  /\ row' = Bumped(row)
  /\ UNCHANGED <<docs, events, request, ran, source, replaced>>

-----------------------------------------------------------------------------
(* resolve_arbitration and correct_case_classification: read the case,     *)
(* read the documents, look for the latest run, record the event, save the *)
(* result. Only the first step looks at the version.                       *)

ArbitrationRead(c) ==
  \E category \in row.offered :
    Begin(c, [Idle EXCEPT !.kind = "decide", !.row = row, !.category = category,
                          !.action = "resolve_classification"])

CorrectionRead(c) ==
  \E category \in Categories :
    Begin(c, [Idle EXCEPT !.kind = "decide", !.row = row, !.category = category,
                          !.action = "classification_correction"])

DecisionDocuments(c) ==
  /\ request[c].kind = "decide" /\ request[c].step = "start"
  /\ request' = [request EXCEPT ![c].step = "read",
                                ![c].source = [docs |-> docs, pair |-> pair]]
  /\ UNCHANGED <<row, docs, pair, events, ran, requests, source, replaced>>

DecisionRun(c) ==
  /\ request[c].kind = "decide" /\ request[c].step = "read"
  /\ request' = [request EXCEPT ![c].step = "looked", ![c].ran = ran]
  /\ UNCHANGED <<row, docs, pair, events, ran, requests, source, replaced>>

DecisionEvent(c) ==
  /\ request[c].kind = "decide" /\ request[c].step = "looked"
  /\ request' = [request EXCEPT ![c].step = "recorded"]
  /\ events' = Append(events, Event(request[c].action, NoField, request[c].row.version))
  /\ UNCHANGED <<row, docs, pair, ran, requests, source, replaced>>

\* field_results.run_id is NOT NULL: without a run only a result that has no
\* fields can be saved, any other one is rolled back and the request fails.
Storable(r) == r.ran \/ r.category # Comparison

DecisionSave(c) ==
  /\ request[c].kind = "decide" /\ request[c].step = "recorded"
  /\ Storable(request[c])
  /\ row' = Saved(row, request[c].category, {}, request[c].source.docs)
  /\ source' = request[c].source
  /\ replaced' = row.closed
  /\ End(c)
  /\ UNCHANGED <<docs, pair, events, ran, requests>>

DecisionFails(c) ==
  /\ request[c].kind = "decide" /\ request[c].step = "recorded"
  /\ ~Storable(request[c])
  /\ End(c)
  /\ UNCHANGED <<row, docs, pair, events, ran, requests, source, replaced>>

-----------------------------------------------------------------------------
(* run_import, as far as this case goes: by an operator, a retry or the    *)
(* mailbox. The documents are read at the start, then the run is recorded, *)
(* and the result is saved when this email has been processed.             *)

RunRead(c) ==
  Begin(c, [Idle EXCEPT !.kind = "run", !.source = [docs |-> docs, pair |-> pair]])

RunCreate(c) ==
  /\ request[c].kind = "run" /\ request[c].step = "start"
  /\ ran' = TRUE
  /\ request' = [request EXCEPT ![c].step = "recorded"]
  /\ UNCHANGED <<row, docs, pair, events, requests, source, replaced>>

RunSave(c) ==
  /\ request[c].kind = "run" /\ request[c].step = "recorded"
  /\ \E reading \in Readings :
        row' = Saved(row, reading.category, reading.offered, request[c].source.docs)
  /\ source' = request[c].source
  /\ replaced' = row.closed
  /\ End(c)
  /\ UNCHANGED <<docs, pair, events, ran, requests>>

\* The request dies between two transactions: the process is killed, or the
\* store raises (a write that waits longer than busy_timeout).
Abort(c) ==
  /\ request[c].kind # "idle"
  /\ End(c)
  /\ UNCHANGED <<row, docs, pair, events, ran, requests, source, replaced>>

-----------------------------------------------------------------------------
Handler(c) ==
  \/ ReviewRead(c) \/ ReviewField(c) \/ ReviewCase(c) \/ ReviewRefused(c)
  \/ ArbitrationRead(c) \/ CorrectionRead(c)
  \/ DecisionDocuments(c) \/ DecisionRun(c) \/ DecisionEvent(c)
  \/ DecisionSave(c) \/ DecisionFails(c)
  \/ RunRead(c) \/ RunCreate(c) \/ RunSave(c)
  \/ Abort(c)

Next ==
  \/ \E c \in Clients : Handler(c)
  \/ Close \/ Reopen
  \/ \E d \in Docs : Upload(d)
  \/ \E s \in SIs, b \in BLs : SelectPair(s, b)

Spec == Init /\ [][Next]_vars

-----------------------------------------------------------------------------
(* What holds.                                                             *)

\* Every variable keeps its type.
TypeOK ==
  /\ row \in Row
  /\ docs \subseteq Docs
  /\ pair \in (SIs \X BLs) \cup {NoPair}
  /\ events \in Seq(Events)
  /\ request \in [Clients -> Request]
  /\ ran \in BOOLEAN
  /\ requests \in 0..MaxRequests
  /\ source \in Source
  /\ replaced \in BOOLEAN

\* A version names one content of the row: a request that finds the version it
\* read also finds the category, arbitration, disposition and open fields it
\* read, so an assisted result is never computed from what is gone. This needs
\* every writer of the row, not only the review, to move the version.
SameVersionSameRow ==
  \A c \in Clients : request[c].kind \in {"review", "decide"} =>
    /\ request[c].row.version <= row.version
    /\ request[c].row.version = row.version => request[c].row = row

\* Of all reviews, closings and reopenings that were computed against one
\* version only one is ever recorded ("a stale reviewer therefore leaves no
\* orphan run, field results, or review event behind").
Guarded(e) == e.action \notin Decisions
OneReviewPerVersion ==
  \A i, j \in DOMAIN events :
    i # j /\ Guarded(events[i]) /\ Guarded(events[j]) => events[i].expected # events[j].expected

\* A closed case stays examined while its result is not replaced: each open
\* field is named by a review event, also when a closed case is reviewed on.
ClosedStaysExamined == row.closed /\ ~replaced => row.open \subseteq Reviewed

\* No silent clear: a field that the compared documents leave open is missing
\* from the open fields only if a review event names it.
ClearsAreRecorded ==
  row.compared => OpenFields(source.docs) \ row.open \subseteq Reviewed

\* Reviews are computed from a row that was read in another transaction, run beside
\* requests that ask for no version, and may die half way; and yet each request
\* does to the case what CaseContract has it do in one step, or nothing.
Contract == INSTANCE CaseContract WITH
  version <- row.version, closed <- row.closed, category <- row.category,
  offered <- row.offered, open <- row.open, named <- Reviewed,
  decided <- {events[i].expected : i \in {j \in DOMAIN events : Guarded(events[j])}}
KeepsCaseContract == Contract!Spec

-----------------------------------------------------------------------------
(* What the documentation says and the code does not do.                   *)

\* "Closing is refused unless every open field already carries a review event,
\* which stops an unexamined case from being closed in bulk" (store.py).
ClosedWasProcessed == row.closed => row.category # NoCategory

\* "Previous human decisions are scoped to their prior source versions and must
\* not silently carry into a changed source" (IMPLEMENTATION_PLAN.md).
ClosedOnThisSource ==
  row.closed /\ ~replaced =>
    \A f \in row.open : \E i \in DOMAIN events :
      events[i].field = f /\ events[i].source.docs = source.docs

\* "A job finishing after the active document pair has changed ... must not
\* replace the current case result" (IMPLEMENTATION_PLAN.md).
NewerResultStays == [][source.docs \subseteq source'.docs]_vars

\* "Return HTTP 409 for stale review ... it never silently overwrites newer
\* work" (IMPLEMENTATION_PLAN.md): one decision per version, arbitrations too.
OneDecisionPerVersion ==
  \A i, j \in DOMAIN events : i # j => events[i].expected # events[j].expected

\* "writes an atomic review event ... so that the operator's decision takes
\* immediate operational effect" (api.py): a decision on record is one that
\* moved the case or is about to.
RecordedDecisionsApply ==
  \A i \in DOMAIN events :
    \/ row.version > events[i].expected
    \/ \E c \in Clients : request[c].kind = "decide" /\ request[c].step = "recorded"

\* The same of a decision that is on record and whose request lives: its save is
\* one the store takes.
RecordedDecisionsCanBeSaved ==
  \A c \in Clients :
    request[c].kind = "decide" /\ request[c].step = "recorded" => ENABLED DecisionSave(c)

\* "present a role/pair selection task. Compare only the selected pair"
\* (IMPLEMENTATION_PLAN.md): a result computed after a pair was selected shows
\* what that pair leaves open, unless a reviewer changed a field since.
SelectedPairIsCompared ==
  row.compared /\ source.pair # NoPair /\ Reviewed = {} => row.open = Differs[source.pair]
=============================================================================
