----------------------------- MODULE ImportRun -----------------------------
(***************************************************************************)
(* One participant source of ClearDraft: its import, the runs over it and  *)
(* the submissions exported from them (src/cleardraft/ingest.py,           *)
(* pipeline.py, export.py, the imports and runs parts of store.py and      *)
(* api.py).                                                                *)
(*                                                                         *)
(* import_participant and run_import are sequences of transactions, served *)
(* by threads of the API, by CLI processes and by mailbox retrievals over  *)
(* one database. The import row appears first and fills up email by email  *)
(* and document by document, in the order of the source; everybody who     *)
(* knows the row may work with what is there.                              *)
(***************************************************************************)
EXTENDS Naturals, FiniteSets

CONSTANTS
  Clients,   (* the threads and processes that import and run              *)
  NE, ND,    (* how many emails and documents the source has               *)
  Runs,      (* the run identifiers: a bound on the runs of a behaviour    *)
  NoRun,     (* no run                                                     *)
  NoResult   (* the result_json of a run that has not completed            *)

ASSUME ImportRunAssumption ==
  /\ NE \in Nat \ {0} /\ ND \in Nat
  /\ NoRun \notin Runs
  /\ \A s \in SUBSET (1..NE) : s # NoResult

Emails == 1..NE

VARIABLES
  batch,     \* the imports row and how many emails and documents are stored under it
  runs,      \* the rows of runs
  shown,     \* the run whose result each case shows
  work,      \* what each client is doing
  answered,  \* history: a request to import was answered with the import
  exports    \* the submissions written, with what was stored when they were
vars == <<batch, runs, shown, work, answered, exports>>

-----------------------------------------------------------------------------
Batch == [exists: BOOLEAN, emails: 0..NE, documents: 0..ND, counted: BOOLEAN]

Stored == 1..batch.emails

Statuses == {"NONE", "RUNNING", "SUCCEEDED", "CANCELLED"}

Run == [status: Statuses, result: {NoResult} \cup SUBSET Emails, documents: 0..ND]

Work == [kind: {"idle", "import", "run"}, step: {"start", "read", "working"},
         emails: 0..NE, documents: 0..ND, run: Runs \cup {NoRun}, left: SUBSET Emails]

Idle == [kind |-> "idle", step |-> "start", emails |-> 0, documents |-> 0,
         run |-> NoRun, left |-> {}]

Init ==
  /\ batch = [exists |-> FALSE, emails |-> 0, documents |-> 0, counted |-> FALSE]
  /\ runs = [r \in Runs |-> [status |-> "NONE", result |-> NoResult, documents |-> 0]]
  /\ shown = [e \in Emails |-> NoRun]
  /\ work = [c \in Clients |-> Idle]
  /\ answered = FALSE
  /\ exports = {}

End(c) == work' = [work EXCEPT ![c] = Idle]

Importing(c) == work[c].kind = "import"
Running(c) == work[c].kind = "run" /\ work[c].step = "working"

-----------------------------------------------------------------------------
(* import_participant: the row is created exactly once for a manifest, and *)
(* who comes second is answered with the identifier at once.               *)

MutantImportCreate(c) ==
  /\ work[c].kind = "idle"
  /\ batch' = [batch EXCEPT !.exists = TRUE]
  /\ work' = [work EXCEPT ![c] = [Idle EXCEPT !.kind = "import"]]
  /\ UNCHANGED <<runs, shown, answered, exports>>

ImportCreate(c) ==
  /\ work[c].kind = "idle"
  /\ ~batch.exists
  /\ batch' = [batch EXCEPT !.exists = TRUE]
  /\ work' = [work EXCEPT ![c] = [Idle EXCEPT !.kind = "import"]]
  /\ UNCHANGED <<runs, shown, answered, exports>>

ImportReused(c) ==
  /\ work[c].kind = "idle"
  /\ batch.exists
  /\ answered' = TRUE
  /\ UNCHANGED <<batch, runs, shown, work, exports>>

\* add_email, which inserts the email and its case.
AddEmail(c) ==
  /\ Importing(c) /\ work[c].emails < NE
  /\ batch' = [batch EXCEPT !.emails = @ + 1]
  /\ work' = [work EXCEPT ![c].emails = @ + 1]
  /\ UNCHANGED <<runs, shown, answered, exports>>

AddDocument(c) ==
  /\ Importing(c) /\ work[c].emails = NE /\ work[c].documents < ND
  /\ batch' = [batch EXCEPT !.documents = @ + 1]
  /\ work' = [work EXCEPT ![c].documents = @ + 1]
  /\ UNCHANGED <<runs, shown, answered, exports>>

\* update_import_counts, and the import is answered.
UpdateCounts(c) ==
  /\ Importing(c) /\ work[c].emails = NE /\ work[c].documents = ND
  /\ batch' = [batch EXCEPT !.counted = TRUE]
  /\ answered' = TRUE
  /\ End(c)
  /\ UNCHANGED <<runs, shown, exports>>

-----------------------------------------------------------------------------
(* run_import: the emails and the documents are read, the run is recorded, *)
(* every email is processed and its result saved as soon as it is there,   *)
(* and the aggregate of all results completes the run.                     *)

RunEmails(c) ==
  /\ work[c].kind = "idle"
  /\ batch.exists
  /\ work' = [work EXCEPT ![c] = [Idle EXCEPT !.kind = "run", !.emails = batch.emails]]
  /\ UNCHANGED <<batch, runs, shown, answered, exports>>

RunDocuments(c) ==
  /\ work[c].kind = "run" /\ work[c].step = "start"
  /\ work' = [work EXCEPT ![c].step = "read", ![c].documents = batch.documents]
  /\ UNCHANGED <<batch, runs, shown, answered, exports>>

RunCreate(c, r) ==
  /\ work[c].kind = "run" /\ work[c].step = "read"
  /\ runs[r].status = "NONE"
  /\ runs' = [runs EXCEPT ![r].status = "RUNNING", ![r].documents = work[c].documents]
  /\ work' = [work EXCEPT ![c].step = "working", ![c].run = r, ![c].left = 1..work[c].emails]
  /\ UNCHANGED <<batch, shown, answered, exports>>

\* The results arrive in the order in which the pool completes them.
RunSave(c, e) ==
  /\ Running(c) /\ e \in work[c].left
  /\ shown' = [shown EXCEPT ![e] = work[c].run]
  /\ work' = [work EXCEPT ![c].left = @ \ {e}]
  /\ UNCHANGED <<batch, runs, answered, exports>>

\* complete_run, whatever became of the status meanwhile.
Completed(row, emails) == [row EXCEPT !.status = "SUCCEEDED", !.result = emails]

MutantRunCompleteEarly(c) ==
  /\ Running(c)
  /\ runs' = [runs EXCEPT ![work[c].run] = Completed(@, 1..work[c].emails)]
  /\ End(c)
  /\ UNCHANGED <<batch, shown, answered, exports>>

RunComplete(c) ==
  /\ Running(c) /\ work[c].left = {}
  /\ runs' = [runs EXCEPT ![work[c].run] = Completed(@, 1..work[c].emails)]
  /\ End(c)
  /\ UNCHANGED <<batch, shown, answered, exports>>

\* The process dies or a transaction raises, and nobody takes up the rest.
Abort(c) ==
  /\ work[c].kind # "idle"
  /\ End(c)
  /\ UNCHANGED <<batch, runs, shown, answered, exports>>

-----------------------------------------------------------------------------
(* Requests that one transaction serves.                                   *)

MutantCancelAny(r) ==
  /\ runs[r].status \in {"RUNNING", "SUCCEEDED"}
  /\ runs' = [runs EXCEPT ![r].status = "CANCELLED"]
  /\ UNCHANGED <<batch, shown, work, answered, exports>>

Cancel(r) ==
  /\ runs[r].status = "RUNNING"
  /\ runs' = [runs EXCEPT ![r].status = "CANCELLED"]
  /\ UNCHANGED <<batch, shown, work, answered, exports>>

\* apply_review_transaction: a review of one case is a run of its own. When it
\* names no field its entry is {"status": "REVIEWED"}, which no export accepts:
\* such a result counts as empty here.
Review(r, e) ==
  /\ e \in Stored
  /\ runs[r].status = "NONE"
  /\ \E result \in {{e}, {}} :
       runs' = [runs EXCEPT ![r] = [status |-> "SUCCEEDED", result |-> result,
                                    documents |-> batch.documents]]
  /\ shown' = [shown EXCEPT ![e] = r]
  /\ UNCHANGED <<batch, work, answered, exports>>

\* validate_submission: the payload is not empty and names exactly the emails
\* of the import.
MutantValid(payload) == payload # NoResult /\ payload # {} /\ payload \subseteq Stored

Valid(payload) == payload # NoResult /\ payload # {} /\ payload = Stored

\* export_run looks at the result of the run, not at its status.
Export(r) ==
  /\ runs[r].status # "NONE"
  /\ Valid(runs[r].result)
  /\ exports' = exports \cup {[run |-> r, counted |-> batch.counted]}
  /\ UNCHANGED <<batch, runs, shown, work, answered>>

-----------------------------------------------------------------------------
Import(c) ==
  \/ ImportCreate(c) \/ ImportReused(c)
  \/ AddEmail(c) \/ AddDocument(c) \/ UpdateCounts(c)

RunImport(c) ==
  \/ RunEmails(c) \/ RunDocuments(c)
  \/ \E r \in Runs : RunCreate(c, r)
  \/ \E e \in Emails : RunSave(c, e)
  \/ RunComplete(c)

Next ==
  \/ \E c \in Clients : Import(c) \/ RunImport(c) \/ Abort(c)
  \/ \E r \in Runs : Cancel(r) \/ Export(r) \/ (\E e \in Emails : Review(r, e))

Spec == Init /\ [][Next]_vars

\* A live client goes on with the run it works on. Nothing makes a request
\* arrive, a client die, or a dead one come back to its work.
Proceed(c) == (\E e \in Emails : RunSave(c, e)) \/ RunComplete(c)
LiveSpec == Spec /\ \A c \in Clients : WF_vars(Proceed(c))

-----------------------------------------------------------------------------
(* What holds.                                                             *)

\* Every variable keeps its type.
TypeOK ==
  /\ batch \in Batch
  /\ runs \in [Runs -> Run]
  /\ shown \in [Emails -> Runs \cup {NoRun}]
  /\ work \in [Clients -> Work]
  /\ answered \in BOOLEAN
  /\ exports \subseteq [run: Runs, counted: BOOLEAN]

\* A manifest is imported once: whoever works on the import is alone with it,
\* and what is stored is what that importer has stored.
OneImporter ==
  \A c \in Clients : Importing(c) =>
    /\ \A d \in Clients \ {c} : ~Importing(d)
    /\ batch.emails = work[c].emails /\ batch.documents = work[c].documents

\* Counts are only stored of a whole import (update_import_counts comes last).
CountedIsWhole == batch.counted => batch.emails = NE /\ batch.documents = ND

\* A run that succeeded is history: neither a cancellation nor another run or
\* review changes its row, so a submission can be exported from it again.
SucceededIsFinal ==
  [][\A r \in Runs : runs[r].status = "SUCCEEDED" => runs'[r] = runs[r]]_vars

\* Every email in the result of a run has a processed case: results are saved
\* before the aggregate.
ResultsAreSaved ==
  \A r \in Runs : runs[r].result # NoResult =>
    \A e \in runs[r].result : shown[e] # NoRun

\* A submission exported once the import is counted covers all its emails; the
\* partial result of a review or of a run that read too early does not pass.
CountedExportsCoverAll ==
  \A x \in exports : x.counted => runs[x.run].result = Emails

\* Importers, runs and reviews take many transactions, overlap, are cancelled and die
\* half way; and yet each does what RunContract has it do: no run names an email that
\* is not processed or not stored, no result is replaced, nothing is stored behind the
\* counts, and nothing is submitted that leaves out a stored email.
Contract == INSTANCE RunContract WITH
  stored <- batch.emails, counted <- batch.counted,
  processed <- {e \in Emails : shown[e] # NoRun},
  result <- [r \in Runs |-> runs[r].result],
  submitted <- exports
KeepsRunContract == Contract!Spec

-----------------------------------------------------------------------------
(* What the documentation says and the code does not do.                   *)

\* "A cancellation prevents new stages and preserves completed evidence"
\* (IMPLEMENTATION_PLAN.md): a cancelled run stays cancelled.
CancelledIsFinal ==
  [][\A r \in Runs : runs[r].status = "CANCELLED" => runs'[r].status = "CANCELLED"]_vars

\* "Import a directory, ZIP, or live source and persist immutable raw email/doc
\* bytes" (ingest.py): an import that was answered, and that nobody works on any
\* more, is whole.
AnsweredIsWhole ==
  answered /\ (\A c \in Clients : ~Importing(c)) => batch.emails = NE /\ batch.documents = ND

\* "Pending work or unmapped infrastructure issue: block complete export"
\* (IMPLEMENTATION_PLAN.md): what is exported was computed from the whole import.
ExportsAreComplete ==
  \A x \in exports : runs[x.run].result = Emails /\ runs[x.run].documents = ND

\* "Jobs commit stage results and can resume after a worker restart"
\* (IMPLEMENTATION_PLAN.md): no run is under way for ever.
NoRunIsOrphaned == \A r \in Runs : runs[r].status = "RUNNING" ~> runs[r].status # "RUNNING"
=============================================================================
