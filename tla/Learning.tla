----------------------------- MODULE Learning ------------------------------
(***************************************************************************)
(* What ClearDraft learns from its operators and what it can be reset to:  *)
(* corrections that are promoted to prompt example sets, runs that read    *)
(* the active set, drafts to counterparties, and the recovery of the best  *)
(* data (store.py, api.py, pipeline.py, providers.py and the two scripts   *)
(* backup_results.py and restore_results.py).                              *)
(*                                                                         *)
(* Each action is one transaction or one copy of files. A recovery copies  *)
(* a database over the one that all the others go on using.                *)
(***************************************************************************)
EXTENDS Naturals, FiniteSets

CONSTANTS
  Clients,      (* threads of the API, processes of the command line       *)
  Emails,       (* the emails of the source, one case each                 *)
  Versions,     (* the names people give to example sets                   *)
  NoSet,        (* no active set                                           *)
  NoBackup,     (* nothing has been backed up                              *)
  MaxExamples,  (* how many examples a prompt is given: 8 in providers.py  *)
  MaxEvents,    (* bound: the corrections of a behaviour                   *)
  MaxRequests,  (* bound: its promotions, runs, drafts, edits, recoveries  *)
  DefaultPath   (* whether the store is var/cleardraft.db                  *)

ASSUME LearningAssumption ==
  /\ NoSet \notin Versions
  /\ MaxExamples \in Nat /\ MaxEvents \in Nat /\ MaxRequests \in Nat
  /\ DefaultPath \in BOOLEAN

VARIABLES
  db,      \* the tables that matter here
  files,   \* the run whose submission and report lie in artifacts/; 0 is one before Init
  backup,  \* artifacts/backup_current_optimal: such files, and a database or NoBackup
  work,    \* what each client is doing
  made,    \* how many corrections, runs and draft texts there were: their identifiers
  epoch    \* history: how often the database was replaced
vars == <<db, files, backup, work, made, epoch>>

-----------------------------------------------------------------------------
(* Identifiers are numbers from 1 on.                                      *)

\* prompt_example_sets, by version, which is UNIQUE. The examples are the
\* corrections promoted.
Sets == [Versions -> [status: {"none", "draft", "active", "retired"}, examples: SUBSET Nat]]

\* runs: the set that a run names in its policy_version. For the properties:
\* whether that set was read from the database the row was written to.
RunRows == [id: Nat, policy: Versions \cup {NoSet}, done: BOOLEAN, pinned: BOOLEAN]

\* cases and field_results: the run a result is of, and the examples that the
\* model was given for it.
Results == [Emails -> [run: Nat, given: SUBSET Nat]]

\* drafts: of each case one, with the run whose findings it was generated from.
DraftRow == [id: Nat, version: Nat, text: Nat, about: Nat]

Drafts == [Emails -> DraftRow]

Database == [events: SUBSET Nat, sets: Sets, runs: SUBSET RunRows,
             results: Results, drafts: Drafts]

Steps == {"idle", "promoting", "loaded", "processing", "drafting", "editing",
          "backing", "recovering", "copying"}

Work == [step: Steps, version: Versions \cup {NoSet}, examples: SUBSET Nat, run: Nat,
         left: SUBSET Emails, draft: DraftRow,
         epoch: Nat]

NoDraft == [id |-> 0, version |-> 0, text |-> 0, about |-> 0]

Idle == [step |-> "idle", version |-> NoSet, examples |-> {}, run |-> 0, left |-> {},
         draft |-> NoDraft, epoch |-> 0]

Init ==
  /\ db = [events |-> {}, runs |-> {},
           sets |-> [v \in Versions |-> [status |-> "none", examples |-> {}]],
           results |-> [e \in Emails |-> [run |-> 0, given |-> {}]],
           drafts |-> [e \in Emails |-> NoDraft]]
  /\ files = 0
  /\ backup = [made |-> FALSE, files |-> 0, db |-> NoBackup]
  /\ work = [c \in Clients |-> Idle]
  /\ made = [events |-> 0, runs |-> 0, texts |-> 0, requests |-> 0]
  /\ epoch = 0

Served == made.requests < MaxRequests

Begin(c, w) == work[c].step = "idle" /\ Served /\ work' = [work EXCEPT ![c] = w]

End(c) == work' = [work EXCEPT ![c] = Idle]

-----------------------------------------------------------------------------
(* Corrections and the sets made of them.                                  *)

\* An event of an arbitration or of a correction.
Correct ==
  /\ made.events < MaxEvents
  /\ made' = [made EXCEPT !.events = @ + 1]
  /\ db' = [db EXCEPT !.events = @ \cup {made.events + 1}]
  /\ UNCHANGED <<files, backup, work, epoch>>

\* list_correction_candidates: those that no set, of whatever status, has.
Candidates == {i \in db.events : \A v \in Versions : i \notin db.sets[v].examples}

ListCandidates(c) ==
  /\ Candidates # {}
  /\ Begin(c, [Idle EXCEPT !.step = "promoting", !.examples = Candidates])
  /\ made' = [made EXCEPT !.requests = @ + 1]
  /\ UNCHANGED <<db, files, backup, epoch>>

Retired == [v \in Versions |-> IF db.sets[v].status = "active"
                               THEN [db.sets[v] EXCEPT !.status = "retired"] ELSE db.sets[v]]

\* create_prompt_example_set, of what somebody picked among the candidates. The
\* set that is active is retired in the same transaction.
MutantCreateSet(c, v, picked, status) ==
  /\ work[c].step = "promoting"
  /\ picked \subseteq work[c].examples
  /\ db.sets[v].status = "none"
  /\ db' = [db EXCEPT !.sets[v] = [status |-> status, examples |-> picked]]
  /\ End(c)
  /\ UNCHANGED <<files, backup, made, epoch>>

CreateSet(c, v, picked, status) ==
  /\ work[c].step = "promoting"
  /\ picked \subseteq work[c].examples
  /\ db.sets[v].status = "none"
  /\ db' = [db EXCEPT !.sets =
              [(IF status = "active" THEN Retired ELSE db.sets)
                 EXCEPT ![v] = [status |-> status, examples |-> picked]]]
  /\ End(c)
  /\ UNCHANGED <<files, backup, made, epoch>>

\* The version is taken: sqlite3 raises, and the transaction is not committed.
CreateRefused(c, v) ==
  /\ work[c].step = "promoting"
  /\ db.sets[v].status # "none"
  /\ End(c)
  /\ UNCHANGED <<db, files, backup, made, epoch>>

-----------------------------------------------------------------------------
(* Runs. run_import reads the active set once, for all its emails.         *)

ActiveSet ==
  IF \E v \in Versions : db.sets[v].status = "active"
  THEN CHOOSE v \in Versions : db.sets[v].status = "active" ELSE NoSet

Examples(d, v) == IF v = NoSet THEN {} ELSE d.sets[v].examples

\* A prompt has the first examples of its set; candidates come newest first.
Given(examples) == {i \in examples : Cardinality({j \in examples : j > i}) < MaxExamples}

LoadSet(c) ==
  /\ Begin(c, [Idle EXCEPT !.step = "loaded", !.version = ActiveSet,
                           !.examples = Examples(db, ActiveSet), !.epoch = epoch])
  /\ made' = [made EXCEPT !.requests = @ + 1]
  /\ UNCHANGED <<db, files, backup, epoch>>

\* create_run
CreateRun(c) ==
  /\ work[c].step = "loaded"
  /\ made' = [made EXCEPT !.runs = @ + 1]
  /\ db' = [db EXCEPT !.runs = @ \cup {[id |-> made.runs + 1, policy |-> work[c].version,
                                        done |-> FALSE, pinned |-> work[c].epoch = epoch]}]
  /\ work' = [work EXCEPT ![c].step = "processing", ![c].run = made.runs + 1, ![c].left = Emails]
  /\ UNCHANGED <<files, backup, epoch>>

\* One email: the model is asked about it, with the examples, or it is not. Its
\* result is saved, whether the run has a row or not.
MutantProcess(c, e) ==
  /\ work[c].step = "processing" /\ e \in work[c].left
  /\ \E given \in {{}, Given(Examples(db, ActiveSet))} :
       db' = [db EXCEPT !.results[e] = [run |-> work[c].run, given |-> given]]
  /\ work' = [work EXCEPT ![c].left = @ \ {e}]
  /\ UNCHANGED <<files, backup, made, epoch>>

Process(c, e) ==
  /\ work[c].step = "processing" /\ e \in work[c].left
  /\ \E given \in {{}, Given(work[c].examples)} :
       db' = [db EXCEPT !.results[e] = [run |-> work[c].run, given |-> given]]
  /\ work' = [work EXCEPT ![c].left = @ \ {e}]
  /\ UNCHANGED <<files, backup, made, epoch>>

\* complete_run, an UPDATE of a row that may be gone.
CompleteRun(c) ==
  /\ work[c].step = "processing" /\ work[c].left = {}
  /\ db' = [db EXCEPT !.runs = {IF r.id = work[c].run THEN [r EXCEPT !.done = TRUE] ELSE r : r \in @}]
  /\ End(c)
  /\ UNCHANGED <<files, backup, made, epoch>>

\* The command line exports a run and writes its report.
Export ==
  /\ \E r \in db.runs : r.done /\ r.id # files /\ files' = r.id
  /\ UNCHANGED <<db, backup, work, made, epoch>>

-----------------------------------------------------------------------------
(* Drafts. The text is generated from the findings the handler read, and   *)
(* edited against the version that the client, or the handler for a client *)
(* that sends none, has read.                                              *)

CreateDraftRead(c, e) ==
  /\ db.drafts[e].version = 0
  /\ Begin(c, [Idle EXCEPT !.step = "drafting", !.left = {e},
                           !.draft = [NoDraft EXCEPT !.about = db.results[e].run]])
  /\ made' = [made EXCEPT !.requests = @ + 1]
  /\ UNCHANGED <<db, files, backup, epoch>>

\* create_draft. A second draft of the case is a row of its own and left out here.
CreateDraft(c) ==
  /\ work[c].step = "drafting"
  /\ made' = [made EXCEPT !.texts = @ + 1]
  /\ \E e \in work[c].left :
       db' = IF db.drafts[e].version = 0
             THEN [db EXCEPT !.drafts[e] = [id |-> made.texts + 1, version |-> 1, text |-> made.texts + 1,
                                            about |-> work[c].draft.about]]
             ELSE db
  /\ End(c)
  /\ UNCHANGED <<files, backup, epoch>>

ReadDraft(c, e) ==
  /\ db.drafts[e].version # 0
  /\ Begin(c, [Idle EXCEPT !.step = "editing", !.left = {e}, !.draft = db.drafts[e],
                           !.epoch = epoch])
  /\ made' = [made EXCEPT !.requests = @ + 1]
  /\ UNCHANGED <<db, files, backup, epoch>>

\* update_draft, which writes where the version is the one expected.
MutantExpected(c, e) == db.drafts[e].id = work[c].draft.id
Expected(c, e) ==
  /\ db.drafts[e].id = work[c].draft.id
  /\ db.drafts[e].version = work[c].draft.version

UpdateDraft(c, e) ==
  /\ work[c].step = "editing" /\ e \in work[c].left
  /\ Expected(c, e)
  /\ db' = [db EXCEPT !.drafts[e] = [db.drafts[e] EXCEPT !.version = @ + 1,
                                                             !.text = made.texts + 1]]
  /\ made' = [made EXCEPT !.texts = @ + 1]
  /\ End(c)
  /\ UNCHANGED <<files, backup, epoch>>

UpdateRefused(c, e) ==
  /\ work[c].step = "editing" /\ e \in work[c].left
  /\ ~Expected(c, e)
  /\ End(c)
  /\ UNCHANGED <<db, files, backup, made, epoch>>

-----------------------------------------------------------------------------
(* Backup and recovery. backup_results.py copies the files and then the    *)
(* database; recover_best_data copies them back in the same order, the     *)
(* database to var/cleardraft.db wherever the store is.                    *)

BackupFiles(c) ==
  /\ Begin(c, [Idle EXCEPT !.step = "backing"])
  /\ made' = [made EXCEPT !.requests = @ + 1]
  /\ backup' = [backup EXCEPT !.made = TRUE, !.files = files]
  /\ UNCHANGED <<db, files, epoch>>

BackupDatabase(c) ==
  /\ work[c].step = "backing"
  /\ backup' = [backup EXCEPT !.db = db]
  /\ End(c)
  /\ UNCHANGED <<db, files, made, epoch>>

RecoverStart(c) ==
  /\ backup.made
  /\ Begin(c, [Idle EXCEPT !.step = "recovering"])
  /\ made' = [made EXCEPT !.requests = @ + 1]
  /\ UNCHANGED <<db, files, backup, epoch>>

RecoverFiles(c) ==
  /\ work[c].step = "recovering"
  /\ files' = backup.files
  /\ work' = [work EXCEPT ![c].step = "copying"]
  /\ UNCHANGED <<db, backup, made, epoch>>

\* There is no copy of the database: the answer is 404, with the files replaced.
RecoverRefused(c) ==
  /\ work[c].step = "copying"
  /\ backup.db = NoBackup
  /\ End(c)
  /\ UNCHANGED <<db, files, backup, made, epoch>>

RecoverDatabase(c) ==
  /\ work[c].step = "copying"
  /\ backup.db # NoBackup
  /\ db' = IF DefaultPath THEN backup.db ELSE db
  /\ epoch' = IF DefaultPath THEN epoch + 1 ELSE epoch
  /\ End(c)
  /\ UNCHANGED <<files, backup, made>>

\* The process dies, or sqlite3 or a copy raises.
Die(c) ==
  /\ work[c].step # "idle"
  /\ End(c)
  /\ UNCHANGED <<db, files, backup, made, epoch>>

-----------------------------------------------------------------------------
Promote(c) ==
  \/ ListCandidates(c)
  \/ \E v \in Versions, status \in {"active", "draft"} :
       \E picked \in SUBSET work[c].examples \ {{}} : CreateSet(c, v, picked, status)
  \/ \E v \in Versions : CreateRefused(c, v)

RunImport(c) ==
  \/ LoadSet(c) \/ CreateRun(c) \/ CompleteRun(c)
  \/ \E e \in work[c].left : Process(c, e)

Draft(c) ==
  \/ \E e \in Emails : CreateDraftRead(c, e) \/ ReadDraft(c, e)
  \/ CreateDraft(c)
  \/ \E e \in work[c].left : UpdateDraft(c, e) \/ UpdateRefused(c, e)

Recover(c) ==
  \/ BackupFiles(c) \/ BackupDatabase(c)
  \/ RecoverStart(c) \/ RecoverFiles(c) \/ RecoverRefused(c) \/ RecoverDatabase(c)

Next ==
  \/ Correct \/ Export
  \/ \E c \in Clients : Promote(c) \/ RunImport(c) \/ Draft(c) \/ Recover(c) \/ Die(c)

Spec == Init /\ [][Next]_vars

-----------------------------------------------------------------------------
(* What holds.                                                             *)

\* Every variable keeps its type.
TypeOK ==
  /\ db \in Database
  /\ files \in Nat
  /\ backup \in [made: BOOLEAN, files: Nat, db: Database \cup {NoBackup}]
  /\ work \in [Clients -> Work]
  /\ made \in [events: Nat, runs: Nat, texts: Nat, requests: Nat]
  /\ epoch \in Nat

\* At most one example set is active; and once one has taken over from another,
\* one is: a promotion that fails, for a version that is taken, does not leave the
\* deployment without its examples.
OneActive ==
  /\ \A v, w \in Versions : db.sets[v].status = "active" /\ db.sets[w].status = "active" => v = w
  /\ (\E v \in Versions : db.sets[v].status = "retired")
       => \E v \in Versions : db.sets[v].status = "active"

Pinned(d, r) ==
  /\ r.policy # NoSet => d.sets[r.policy].status # "none"
  /\ \A e \in Emails : d.results[e].run = r.id =>
       d.results[e].given \in {{}, Given(Examples(d, r.policy))}

\* "Runs pin their set" (docs/plan-corrections-and-live-mailbox.md): whatever is
\* promoted while a run is going, its results are explained by the set its row
\* names, if the database was not replaced between the run's first two steps.
RunsArePinned == \A r \in db.runs : r.pinned => Pinned(db, r)

\* An edit of a draft replaces the text its author has read, if the database was
\* not replaced in between.
EditsReplaceWhatWasRead ==
  [][\A c \in Clients : \A e \in work[c].left :
       UpdateDraft(c, e) /\ work[c].epoch = epoch => db.drafts[e].text = work[c].draft.text]_vars

-----------------------------------------------------------------------------
(* What does not.                                                          *)

\* Results are those of recorded runs: "run_id TEXT NOT NULL REFERENCES runs(id)"
\* (store.py). Nothing enforces it, and a run that is going when the database is
\* replaced saves the rest of its results without a row.
ResultsHaveRuns ==
  \A e \in Emails : db.results[e].run # 0 => \E r \in db.runs : r.id = db.results[e].run

\* "Every run records its set": also the run whose set was read before the database
\* was replaced, and whose row was written after.
EveryRunIsPinned == \A r \in db.runs : Pinned(db, r)

\* "All experimental RL corrections and few-shot prompt sets cleared" (api.py),
\* where the store is not the default file.
RecoveryClears ==
  [][\A c \in Clients : RecoverDatabase(c) => db' = backup.db]_vars

\* "Source finding changes mark an existing draft as stale" (IMPLEMENTATION_PLAN.md):
\* the column is never set, so a draft that is not of the current findings shows as fresh.
DraftsFollowFindings ==
  \A e \in Emails : db.drafts[e].version # 0 => db.drafts[e].about = db.results[e].run

\* An edit never replaces a text its author has not read, also over a recovery,
\* after which versions count up again.
EditsNeverOverwrite ==
  [][\A c \in Clients : \A e \in work[c].left :
       UpdateDraft(c, e) => db.drafts[e].text = work[c].draft.text]_vars

\* "unpromoted corrections" (docs/plan-corrections-and-live-mailbox.md): what one
\* operator has promoted, another does not promote once more.
PromotedOnce ==
  \A v, w \in Versions : v # w => db.sets[v].examples \cap db.sets[w].examples = {}
=============================================================================
