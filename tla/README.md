# ClearDraft: a TLA+ model of the shipping-document verifier

ClearDraft imports emails with shipping instructions (SI) and draft bills of
lading (BL), decides what each email is about, compares the two documents of a
comparison request field by field, lets people correct what machines read, and
exports one submission for all emails of a source. The program is the Python
package `src/src/cleardraft` with the worker `src/src/cleardraft_worker`, whose
state is in one SQLite database that the API's request threads, the command
line, mailbox retrievals and the worker use at the same time; a web application
in `src/apps/web` shows it and sends the requests of its users.

The modules here model the parts in which that concurrency, or a long sequence
of legal calls, can go wrong. Paths such as `store.py` below are relative to
`src/src/cleardraft`. `PROJECT.json` maps each definition to the lines it
models.

## 1. Inventory

| Component | State | Operations | Hard behaviour |
|---|---|---|---|
| Job queue (`store.py` jobs) and worker (`cleardraft_worker`) | `jobs` rows: status, attempts, owner, lease, result; per process: the job in hand, a stop flag | enqueue, claim (with sweep), recover, heartbeat, complete, fail, poll, signal | leases that run out under a live handler, late answers, crashes, attempts at their limit |
| Case review (`api.py`, `store.py` cases) | `cases` row with a version, `review_events`, `comparison_pairs`, documents | review, arbitration, correction, close, reopen, upload, select pair, runs | handlers of several transactions that interleave; versions compared early or not at all |
| Import, runs, export (`ingest.py`, `pipeline.py`, `export.py`) | `imports`, `emails`, `documents`, `runs`, `exports` | import, run, cancel, review (adds a run), export | imports and runs read while they are being written; death in the middle |
| Live mailbox (`mailbox.py`) | cursor of the connection (`last_uid`), imports of batches, display numbers | retrieve, demo batch, reset, sync | cursor and numbers read long before they are written; failing fetches; death |
| Verdict (`core.py`, `verify_case`, `export.py`, `review_case`, `_state`) | observations per side and field, stored result; the entry in `runs.result_json` | verify, merge the model's reading, review a field or the case, decide, report | sequences of reviews that leave a wrong clear, an entry no export takes, or an entry of before |
| Gateway and provider (`gateway.py`, `providers.py`, `contracts.py`) | one message: reading, answer, decision, requests sent | route, ask, resend, repair, score, weigh, arbitrate, extract | retries on two levels, failures of different kinds, thresholds |
| Readers, extraction, challenges (`readers.py`, `core.py`, `_pair_documents`, `challenges.py`) | none: attachments are values; a challenge leaves the case as it is | read, identify, extract, normalize, pair, compare, mutate | repeated labels, versions, files with unseen parts, mutations that hit something else |
| Local classification (`core.classify_email`) | none | score, rank, confidence, escalate | thresholds; evidence that helps the wrong category |
| Prompt example sets, drafts, recovery (`store.py`, `api.py`, `backup_results.py`) | `review_events`, `prompt_example_sets`, `runs.policy_version`, `drafts`; files under `artifacts/` | correct, promote, run with examples, draft, edit, back up, recover | a set promoted, or the database replaced, under a run or an edit |
| Case table, metrics, precedents (`api.py`, `store.py`) | read only | list, measure, find precedent | two views that select and classify cases each in their own way |
| Case page and client cache (`apps/web`: `client.ts`, `page.tsx`) | `caseDetailMemoryCache`, the page's `detail`, calls in flight | visit, prefetch, review, close, reopen, upload, pair, correct, arbitrate, leave, reload | answers late, out of order or never; a cache of three minutes; edits applied without the server |
| Participant source, command line, the other pages, developer scripts, skills and bundles | - | - | not modelled, see section 8 |

How they interact. `import_participant` writes imports, emails, documents and
cases; `run_import` reads them, asks the gateway and `verify_case` for every
email, and overwrites the results of the cases; reviewers change results of
single cases and thereby add runs; `export_run` turns the result of a run into a
submission. A mailbox retrieval is an import and a run followed by a cursor
update. A run gives the model the examples of the set that is active when it starts, and
these are corrections that reviewers made. The case table and the metrics look at all of it. Nothing locks any of these against one another: each `with connect()` of
the store is one transaction, and what lies between two of them is up to the
scheduler. The job queue is a component of its own; in this version no API
handler enqueues work.

What makes each part correct is listed with its runs in section 4; the hazards,
each at its line, are in `PROJECT.json`.

## 2. Modules

| Module | Models | Steps |
|---|---|---|
| `JobQueue` | job rows and worker processes | one action per store call; `fail_job` is two (its SELECT and its UPDATE); crash, signal, exit, restart, tick |
| `JobContract` | what a caller of `enqueue_job` may rely on: a job waits, runs, waits again or ends, within its attempts | abstract; `JobQueue` implements it through a refinement mapping |
| `CaseReview` | one case and all that write it | one action per transaction of each handler, `Abort` between any two |
| `CaseContract` | what the people on a case may rely on: a review, closing or reopening takes effect at once, on the version it names, or not at all | abstract; `CaseReview` implements it through a refinement mapping |
| `ImportRun` | one source, its runs and exports | one action per transaction of `import_participant` and `run_import` |
| `RunContract` | what one may rely on who imports, runs and submits: emails before counts, results of processed emails, submissions of all that is stored | abstract; `ImportRun` implements it through a refinement mapping |
| `Mailbox` | one connection and the imports made from it | cursor read, number read, fetch, import, add email, cursor write; demo, reset, sync; death anywhere |
| `MailboxContract` | what one may rely on who reads mail in the inbox: consecutive numbers, and until a retrieval dies or somebody sets the cursor every message once, in order, before the cursor passes | abstract; `Mailbox` implements it through a refinement mapping |
| `Verdict` | what is found of one case, and the entry that its latest run stored for it | one action per run, decision, review of a field and review of the whole case |
| `Gateway` | one message through rules, model and person | one action per HTTP outcome |
| `Reading` | attachments to verdict: readers, roles, labels, values, pairing, comparison | no state: operators on documents |
| `Challenges` | the attachments of a case, with runs and challenges over them; extends `Reading` | one action per way to change a document; a run; a challenge |
| `Classify` | the scores, the winner and the confidence of the local rules | one action: a signal appears in subject or body |
| `Learning` | example sets, the runs that use them, drafts, backup and recovery | one action per transaction or copy of files, `Die` between any two |
| `CasePage` | one browser tab on one case, its cache and its calls | one action per gesture of the user, per transaction of a handler, and per way an answer is handled |
| `Inbox` | many cases in the case table, the funnel and the precedents | one action per request |

`MC*.tla` only give the constants their values; `*Proofs.tla` extend a module
with theorems. The parts share no variables. `CaseReview` takes the result
of a comparison as a set of open fields, `Verdict` computes that set and treats a
request as one step; `ImportRun` counts emails whose results `Verdict` describes;
`Mailbox` reduces run and import to what the cursor depends on. `Reading` computes what
`Verdict` takes as `Canon` and `Readings`, and `Classify` what `Gateway` takes as the local reading.
`Inbox` keeps of a case what `_state` and the funnel look at. `CasePage` takes from `CaseReview` that a version names
one content of the row (`SameVersionSameRow`) and keeps the row of every version.

Names follow the code. History variables (`source`, `replaced`, `history`,
`answered`, `read`, `touched`, `decided`, `sent`, `epoch`, `accepted`, and the fields `handled` of a case in `Inbox` and
`pinned` of a run in `Learning`) record what properties speak of; no guard
of a modelled operation reads them. Definitions whose name begins with `Mutant` are not part of
any specification: each is a plausible bug, and a property is worth keeping only if
TLC refutes it when the mutant takes the place of its original.

### Abstractions

* `JobQueue`: times are what is left of a lease or a wait; the `now` that `claim_job`
  reads before it takes the lock is read with it. A handler's result is the
  attempt that produced it. Two processes started with one `WORKER_ID` pass each
  other's ownership check, and a late answer of one is then stored for the other:
  `DistinctIdentities` (the default identity holds host name and process id)
  excludes this, and all that is said of late answers rests on it.
* `CaseReview`: which fields two documents leave open is a constant (`Differs`),
  so readers and comparison are deterministic here; role hints of file names are
  part of `SIs` and `BLs`. A review that names a field may clear it or not. A run
  may hit a closed case, which stays closed.
* `ImportRun`: one manifest; documents are counted. The export file and its row
  are one step.
* `Reading` and `Challenges`: a document is a sequence of lines, a line a label and words, and words
  differ where the code tells them apart (numbers, units, separators, template markers, words of
  an address, spellings that fold together). Five of the seven fields are looked at: vessel and
  port of discharge are read as the port of loading is, the shipper as the consignee. A case is a
  request for comparison and no model is asked. Each edit stands for another document that might
  have been sent. A count is incremented where `Numeral` has a word for one more. That a comparison
  reads `is text empty` and `folds to nothing` alike is sound since both leave the field open.
* `Classify`: which phrase matches which pattern, and how quotations and banners are cut off, is
  left to the patterns: any set of signals may stand in any of the two places. Points are counted in
  quarters and confidences in thousandths, rounded as the code rounds them.
* `Learning`: an example is the identifier of a correction; candidates come newest first. Examples
  are given to the model or it is not asked. A recovery replaces the database at once, as for a
  client that opens its connection afterwards. A case has one draft.
* `Inbox`: a request is one step. `Inside` (substrings) and `Canon` are constants. What reviewers
  teach is any of a set of `Teachings`; of the review only the field it names, if any, and the result matter. A table
  begins at the first of its rows (no `offset`), and which rows come first is left open.
* `CasePage`: a result is named by the version that it was computed at, and what is shown of it is not looked
  into. The cache has one entry for the case where `client.ts` keeps it under its identifier and, once more, under that of
  its email; a page asks under one of them all the time. Version 0 is the fixture `case-1042`, which no request changes. There is one tab and one case; all
  other tabs, users, runs and retrievals are `OtherWrites`. Whether a closing passes `unreviewed_fields` is left open.
  A request is received whole or not at all, and a handler may go on when its browser is gone.
* `Mailbox`: messages have Message-ID and Date, no cutoff time is set, and the
  folder of a connection does not change. Attachments of one name within one message are
  not distinguished.
* `Verdict`: documents say one of a few texts, `Canon` says what a text normalizes to, and
  two values may be alike up to an address. AMBIGUOUS is treated as MISSING wherever the code
  looks at a status, and a text that normalizes to nothing is MISSING. The
  gateway's category and whether it is settled are nondeterministic. The entry is the one that the latest
  run with an entry for the case stored, be it of an import or of a review; runs of the import and decisions on
  other cases are left out.
* `Gateway`: confidences are percentages; what the rules score is an input. "Malformed" stands for a
  body or content that is no JSON object. Learned examples and sleeps are left
  out.

## 3. How to run

    tlc -config MCJobQueue.cfg MCJobQueue.tla
    tlapm JobQueueProofs.tla

and likewise for the other modules. `CHECK_DEADLOCK FALSE` is set where a
behaviour has a bounded number of requests and so ends; `JobQueue` is checked
for deadlock.

## 4. Runs

Passing runs.

| Run | Instance | States | What it shows |
|---|---|---|---|
| `job_queue` | 2 jobs, 2 workers, leases of 2 ticks, 1 or 2 attempts, 2 outages, fair | 158 075 | Within its lease a worker is alone with its job (`LeaseHolds`); only the latest attempt's result is stored (`ResultOfLatestAttempt`); no job overtakes an older one that could run (`NoOvertaking`); the queue implements `JobContract` (`KeepsContract`); while some worker is up every job ends (`EveryJobEnds`) |
| `case_review` | 2 clients, 2 fields, 1 SI and 2 BLs, 4 requests | 598 338 | A version names one content of the row; the case implements `CaseContract` (`KeepsCaseContract`), so that of the reviews, closings and reopenings of one version one is recorded, and it does at once what it says; the open fields of a closed case stay on record as reviewed until its result is replaced; no field is cleared without an event naming it |
| `import_run` | 2 clients, 2 emails, 1 document, 3 runs | 485 689 | A source is filled by one importer; exports after counting cover all emails; a run that succeeded is never rewritten; the whole implements `RunContract` (`KeepsRunContract`), so that what a run's result names is saved |
| `mailbox` | 2 clients, 3 messages, pages of 2, 4 requests, cursor set by operators | 4 341 442 | Below the cursor every message is in the manifest of an import or was passed over for a reason the model can name (failed fetch, demo batch, operator). As long as no two retrievals have overlapped (`history.serial`), whoever made them: display numbers stay unique and the cursor only moves forward, also over deaths; until one dies or an operator sets the cursor, fetched mail is stored; and the inbox implements `MailboxContract` (`KeepsMailboxContract`), so that numbers have no gaps, and each message comes once and in order |
| `verdict` | 2 party fields, 5 texts in 3 spellings, a model, 3 requests | 718 132 | No false clear; what a run or the review of a field stores as entry is one `validate_submission` takes; until a person decides the category, the label on screen and the stored entry agree; a review touches its own field only, and what refers to it |
| `gateway` | 2 categories, confidences around each threshold, the real policy, a model, fair | 2 989 426 | An accepted category was earned by a tier that was confident; a person is offered all conclusions; only transient failures are resent, once; every message ends decided whatever the endpoint does |
| `learning` | 2 clients, 2 emails, 2 versions, 2 corrections, prompts of 1 example, 4 requests | 397 740 | At most one example set is active, and after the first handover one is, whatever fails; a run's results are explained by the set its row names; an edit replaces what its author read (both up to a recovery in between) |
| `challenges` | 5 fields, 3 pairs of documents (text, PDF with Word, stacked labels), 14 lines, 3 more attachments, 2 edits | 776 304 | If any two lines of plainly written documents mean different things by a field, references of a notify party to the consignee resolved, the pair is no match; of several titled versions none is picked; challenges of a clean case pass, if the BL labels no field twice and the renamed file is one of the pair |
| `classify` | 8 signals of 5 categories with the code's weights | 65 536 | One signal in a subject is not accepted against a body with a point and a half for another category; another signal never makes a third category win, and never raises the confidence in a category it does not stand for |
| `inbox` | 3 emails (archive, mailbox, mailbox hidden), 6 kinds of finding, 5 teachings, 5 requests | 529 341 | Each comparison is in exactly one bucket of the funnel; open work is counted until it is closed; what was taught with a reason is found again for each pair that reads alike, in either order |
| `case_page` | 3 versions, 2 calls in flight | 8 516 328 | What the server accepts was decided on the result that it decides on, unless an answer has written a version into the page or the page has edits of its own; a page shows a case closed only if the server closed it at that version, or at any if the version was written in |

Why the bounds are enough. Each instance has two of everything that competes
(clients, workers, jobs, fields, categories, versions) plus the smallest number of steps
in which the hazard fits: a lease that runs out while a second attempt runs and
ends (two attempts); a correction, a run and a closing that overlap (three
requests, one spare); a second BL that makes the pair ambiguous; two pages of
messages with a page boundary between messages; a run, a taught equivalence or a
second run, and a decision about what they left (three requests, with runs among
the first two, since a run replaces all that went before); two promotions with a run between its first two
steps, or a backup, a run and a recovery (four requests); two edits of documents, since a value that
hides another needs a line that is added and one that is changed; an import, a finding, a review, a
closing and a rerun of one case, or the imports of three emails with two findings (five requests); a decision
that crosses a prefetch or another decision (two calls), on a case that others change before and after (three versions).
Confidences are the values at and just below the policy's thresholds, and a subject scores half as
much again as the body does. The theorems (section 6) hold without these bounds.

Each property has a mutant (`PROJECT.json`): a change of one definition as a plausible bug would
make it, for which TLC finds the property violated.

A run that refutes a statement of the documentation.

| Run | Statement | What the code does |
|---|---|---|
| `case_late_run` | a job that finishes after the documents changed "must not replace the current case result" (`IMPLEMENTATION_PLAN.md:642`) | `run_import` saves without a version, so the run of older documents overwrites that of newer ones |

## 5. Known divergences

The modules also define statements of the documentation, or what a user would
expect, that TLC refutes and no run of its own shows. Put the property in place of
those of the cfg named to see the counterexample.

| Property | cfg | What happens |
|---|---|---|
| `ClosedWasProcessed` | `MCCaseReview` | a case no run has examined has no open fields and can be closed (`store.py:297`; the docstring at `store.py:274` says otherwise) |
| `ClosedOnThisSource` | `MCCaseReview`, one client, `MaxRequests = 6` | review events of the old documents let a case be closed on the findings of new ones (`store.py:298`, `IMPLEMENTATION_PLAN.md:402`) |
| `OneDecisionPerVersion` | `MCCaseReview` | a correction and a closing of one version are both recorded (`api.py:720`) |
| `RecordedDecisionsApply` | `MCCaseReview` | a request that dies after its event leaves a decision that never took effect (`api.py:761`) |
| `RecordedDecisionsCanBeSaved` | `MCCaseReview` | a correction to BL_COMPARISON of a case without a run is recorded, then its result is refused: `run_id` is NULL and the column NOT NULL (`api.py:773`, `store.py:91`) |
| `SelectedPairIsCompared` | `MCCaseReview` | `verify_case` never reads the selected pair (`pipeline.py:75`) |
| `AnsweredIsWhole` | `MCImportRun` | a second import of a source is answered while the first is half done, and stays half done if that one dies (`ingest.py:153`) |
| `ExportsAreComplete` | `MCImportRun` | a run over a half-imported source is exported (`export.py:54`) |
| `CancelledIsFinal` | `MCImportRun` | "A cancellation prevents new stages" (`IMPLEMENTATION_PLAN.md:640`): a cancelled run goes on and is stored as SUCCEEDED (`store.py:411`) |
| `NoRunIsOrphaned` | `MCImportRun`, `LiveSpec`, no symmetry | a run whose process dies is RUNNING for ever (`pipeline.py:220`) |
| `OneMailPerNumber`, `OneImportPerMessage`, `PassedIsStored`, `RetrievalMovesForward` without `history.serial` | `MCMailbox` | with two retrievals at a time even undisturbed ones give one number to two mails, import a message twice, pass messages that are not stored, and the slower one moves the cursor back, although retrieval "only ever moves the cursor forward" (`api.py:897`; `mailbox.py:514`, `:509`, `:602`, `ingest.py:153`) |
| `FailedFetchIsRetried` | `MCMailbox` | the cursor passes a message whose FETCH failed (`mailbox.py:381`) |
| `DemoIsHarmless` | `MCMailbox` | a demo batch moves the cursor past a real message (`mailbox.py:561`) |
| `AttachmentsAreOwn` | `MCMailbox` | of two messages with an attachment of one name both get the later one's (`mailbox.py:413`) |
| `NothingIsRepaired` | `MCVerdict` | values of one document do not repair the other (`IMPLEMENTATION_PLAN.md:345`): `confirm_equivalence` writes the other side's value to a missing field, and the case may be OK (`api.py:492`) |
| `DependenciesAreRecomputed` | `MCVerdict` | "If a transcription correction changes a field used by another field, such as a consignee referenced by 'same as consignee,' recompute its dependency closure" (`IMPLEMENTATION_PLAN.md:398`): a corrected consignee does not reach the notify party that refers to it (`api.py:486`) |
| `DecisionsReachTheExport` | `MCVerdict` | "Reviewer changes create new assisted results" (`IMPLEMENTATION_PLAN.md:644`), and a correction "takes immediate operational effect" (`api.py:714`): arbitrations and corrections write the row of the case and the result of no run (`api.py:687`, `:773`), and the export takes the result of a run (`export.py:51`), so the entry stays that of the category before |
| `EveryEntryIsValid` | `MCVerdict` | "Each entry contains exactly `category`, `status`, ..." (`IMPLEMENTATION_PLAN.md:521`): a review that names no field makes a run whose entry is `{"status": "REVIEWED"}` (`api.py:509`), which the export refuses (`export.py:26`) |
| `UnsettledNeedsReview` | `MCVerdict` | a case whose category waits for a person is compared, and may be a MATCH (`pipeline.py:269`) |
| `ReasonNamesBlocker` | `MCVerdict` | a review replaces the reason missing_attachment by missing_value (`api.py:506`) |
| `ConfirmedCategoryComparesAlike` | `MCVerdict` | a confirmed category is compared without the model (`api.py:669`) |
| `DefectsDiffer` | `MCVerdict` | a field whose two texts normalize alike is reported as a defect after a taught equivalence (`api.py:493`) |
| `MalformedIsRepaired` | `MCGateway` | the repair prompt is "the intended recovery path" for malformed output (`providers.py:77`): an answer that is no JSON object raises an error that the callers do not repair |
| `ExtractionWithinBudget` | `MCGateway` | a document may cost four extraction requests (`providers.py:302`) |
| `DropIsRetried` | `MCGateway` | a connection closed while the answer is awaited is not retried (`providers.py:68`) |
| `QualifiersAreParties` | `MCChallenges` | "a distinct legal entity qualifier ... must remain a mismatch" (`core.py:138`): followed by an address with a digit, `acme asia street 5` matches `acme` |
| `InvoicesAreNotCompared` | `MCChallenges` | an invoice "remains OTHER" (`IMPLEMENTATION_PLAN.md:283`, `:583`): one that names consignee and notify party is taken for a draft BL (`core.py:588`) |
| `EqualWeightsAgree` | `MCChallenges` | weights are "exact after explicit unit conversion" (`IMPLEMENTATION_PLAN.md:332`, `:710`): 1.5 t and 1500 kg keep different decimals and are a mismatch (`core.py:207`) |
| `MarkersAreMissing` | `MCChallenges` | "a marker by itself is treated as missing" (`core.py:124`): a translated marker without a value is a value, and two of them match |
| `UnreadIsNotClear` | `MCChallenges` | a page without text "must remain unresolved" (`IMPLEMENTATION_PLAN.md:301`): a pair with an unread page or a hidden sheet may be a MATCH with a warning nobody looks at |
| `EveryChallengePasses` | `MCChallenges` | a challenge of a clean case fails if the value it changes is not the one that is read, or if the renamed file takes part in the pair only after the change |
| `FunnelCountsTheTable` | `MCInbox` | the metrics "always agree with what the case table actually shows" (`api.py:1096`): given both parameters, the table follows `source` (`api.py:317`) and the metrics follow `import_id` (`api.py:1099`); and with `MaxRows = 1`, the table stops at its limit (`api.py:370`) and the metrics do not |
| `DefaultViewIsNotMail` | `MCInbox` | "Live mail is deliberately kept out of this by default" (`api.py:333`): the default view is the import with most emails, of any source (`api.py:336`), so a retrieval that is larger, or as large and later, takes it over, in the table and in the metrics |
| `AutomationIsNotOverstated` | `MCInbox` | "so the automation rate is not overstated" (`api.py:1140`): a case that reviewers cleared counts as cleared automatically |
| `SubstringIsFallback` | `MCInbox` | substring matching "is a fallback tier" (`store.py:938`): a later teaching that matches by substring hides an earlier one that matches exactly |
| `ResultsHaveRuns` | `MCLearning` | `run_id` "REFERENCES runs(id)" (`store.py:91`): a run whose database is recovered under it saves the rest of its results without a row, as foreign keys are not enforced |
| `EveryRunIsPinned` | `MCLearning` | "Runs pin their set" (`docs/plan-corrections-and-live-mailbox.md:162`): not if the database is recovered between the read of the set and the row of the run |
| `RecoveryClears` | `MCLearning`, `DefaultPath = FALSE` | the answer says that corrections and sets are cleared (`api.py:1310`): the copy goes to `var/cleardraft.db`, wherever the store is |
| `DraftsFollowFindings` | `MCLearning` | "Source finding changes mark an existing draft as stale" (`IMPLEMENTATION_PLAN.md:413`): the column is never set |
| `PromotedOnce` | `MCLearning` | candidates are "unpromoted corrections" (`docs/plan-corrections-and-live-mailbox.md:114`): two operators that read the list may promote one correction each into a set, since `create_prompt_example_set` checks nothing |
| `EditsNeverOverwrite` | `MCLearning`, `MaxRequests = 7` | after a recovery versions count up again, so an old edit may meet its version on another text |

Some more, of a single step and without a property: an unprocessed comparison counts as needing a
human, an escalated case whose provisional category is another counts nowhere; only the first eight examples of a set are given; a draft set cannot
become active, against the gate of `docs/plan-corrections-and-live-mailbox.md:120`; one-sided precedents
look at the SI's text first; of several container sizes the first counts; `_pair_documents` never
reaches its fallback for file names, since `identify_document_role` has used the hint before.

In the web application (`apps/web/src`), where `CasePage` has each as a step:

* The page loads "cache-first" with "background revalidation" (`cases/[id]/page.tsx:162`), but `getCase` answers from
  the same cache (`client.ts:695`): for three minutes nothing is asked (`VisitCached`).
* "The UI reloads" after a stale review (`IMPLEMENTATION_PLAN.md:396`): it shows a message, and going to
  the list and back finds the same cached case (`ReceiveRefused`); only a reload of the browser helps.
* The answers to an arbitration and to a pair put a new `caseVersion` over the fields of an older result
  (`page.tsx:624`, `:1037`; `ReceiveVersion`), so later decisions pass the version check on fields the page does
  not show. `AcceptedWasShown` excepts these (`merged`) and pages with edits of their own (`local`).
* An answer that comes late replaces a newer one in the cache and on the page (`ReceiveCase`); the version check then refuses what is
  decided on it.
* A page that cannot load its case shows the fixture in its place (`page.tsx:93`, `Failed`).
* A review whose answer is lost is "applied locally" (`page.tsx:398`) though the server may have recorded it.
* "The queue must never disagree with the audit trail" (`todo/page.tsx`): its list comes from a cache too.

Nothing in the code calls `save_case_result_if_version`, `bump_case_version` or
`save_case_result_and_review_if_version` (`store.py`), the versioned writes that
would close several of these.

## 6. Proofs

All theorems hold for every value of the constants that satisfies the named
assumptions; these say what the constants are and, where it is needed, a little more
(`DistinctIdentities`; in `Gateway`, that the hedge and unverified ceilings
lie below `model_accept`, as in `GatewayPolicy`; in `Challenges`, `VocabularyAssumption`: no number is also one of
the words that the code looks for, and `PORT KLANG` folds to `port klang`, as `casefold` has it). Bounds such as `MaxRequests` are
arbitrary naturals, so no behaviour is too long.

* `JobQueueProofs`: `TypeCorrect`, `RowsAlwaysAgree`, `LeaseIsExclusive`,
  `LateAnswersAreRefused`, `FinalRowsStay`, `OldestFirst`, `QueueKeepsContract`.
  `FinalRowsStay` (a done or given up job is never written again) and `NoDoubleWork`, a part of
  `LeaseIsExclusive`, are proved and in no run, since `KeepsContract` and `LeaseHolds` imply them on the instance; nor is `RowsAgree`, or `CountedIsWhole` of `ImportRun`, which are conditions of what the runs check.
  `RowsAgree` is not inductive: that a late answer is harmless depends on what the
  processes hold. `ProcsAgree` adds that a process that still owns its row made the row's
  latest attempt, and that the retry flag that `fail_job` has read is still right when
  its UPDATE finds the row its own. From the invariant a lemma says which moves a
  row may make in one step; finality and the contract follow from it.
* `CaseReviewProofs`: `TypeCorrect`, `VersionNamesContent`, `ReviewsAreSerial`,
  `FindingsAreAccountable`, its corollary `ClosedCasesWereExamined`, and `CaseKeepsContract`. The inductive
  invariant adds that every event written under a compare-and-swap names a version below the current one
  (`EventsPast`), so the next such event names another. For the contract, each write of the row is one step of
  `CaseContract` and all else a stutter, also the transaction that records a decision before its result is saved. It
  needs the invariant, since a review writes what it read in another transaction (`SameVersionSameRow`) on a version
  nobody decided on (`EventsPast`), and that what a person chose stays a category on its way (`Choices`).
  `ReviewsAreSerial` follows from the contract and is in no run.
* `ImportRunProofs`: `TypeCorrect`, `ImportedOnce`, `ResultsCover`, `SucceededRunsStay`, the corollaries
  `CountedImportsAreWhole` and `ExportsCover`, and `RunsKeepContract`.
  The invariant adds that nobody imports before there is a row or after it is
  counted, that a client's count is the import's (in `OneImporter`), that clients work on different
  runs, and that those have no result yet. For the contract it must be known too that a run reads only
  emails that are stored (`RunsRead`): storing an email is `Store`, saving a result `Process`, and only
  `complete_run` and a review give a run its result; whatever a run reads, creates or cancels is a stutter.
  `ResultsAreSaved` follows from the contract and is in no run.
* `VerdictProofs`: `TypeCorrect`, `NothingIsClearedFalsely`, `EntriesAreValid`,
  `LabelsAgree`, `ReviewsTouchOneField`. `CaseInv` ties verification, reason and
  processing to the observations they were computed from, and `EntryInv` the stored entry to the
  row: it is valid when it is stored and stays so, and until a person decides the category it is the submission of the
  case as it stands. `SightLink` ties the
  stored observations of fields nobody has reviewed to those of the last run, and these to the local rules'.
* `MessageProofs`, about `Gateway`: `TypeCorrect`, `NothingIsGuessed`, `PeopleCanChoose`, `ResendsHold`, for
  runs with and without a model. The invariant adds that before the decision there is neither answer nor decision.
  `ResendsAreJustified` speaks of any two requests of one purpose; `SInv` says it of the request on its way and those
  sent before: an attempt like it only if this is the second one and that was the last request and a transient
  failure, another one only before a repair (`CallIsNext`); and purposes that are still to come were never asked for.
* `MessageProofs`, about `Classify`: `SubjectsDoNotOverrule`, `EvidenceSpeaks`, `RulesGiveReadings`, for any
  patterns of at most 4.5 points (the largest weight in `_CATEGORY_SIGNALS`), any two or more categories and any text.
  The community modules add up a set by a recursive function on its subsets; `SumIs` shows that there is one, from the
  least number of elements for which there would be none, and `SumsCompare` and `SumOfOne` compare two sums along
  one order, so none of it depends on the order that is chosen. `BestIs` says that the ranking has one first category,
  `ConfidenceFalls` that the rounded confidence falls as the runner-up gains, and `WinnersStay` that a winner that
  did not gain has won before.
* `MessageProofs`, about `Reading` and `Challenges`: `ClearsAreMeant`, `VersionsAreNotPicked`, `FileChallengesPass`,
  `CleanCasesPass`, for attachments of any words and for any numerals, spellings and addresses. What is stored is what the attachments would be
  found to be now (`StoredStaysTrue`, since whatever edits them has the case run anew); the rest is about one verdict.
  A verdict on a pair is one on the only documents of their roles (`PairIsKnown`), and a title decides a role
  (`TitledInRole`). A field with a value is read from lines that all have the same words (`OneEntry`), and a value that is
  written plainly is normalized to what it says (`PartiesSay`, `PortsSay`, `CountsSay`, `WeightsSay`), so values that agree
  say the same (`AgreementIsMeant`), in one field or in the two of which one refers to the other (`DocumentMeans`: the value
  of a notify party is what its own lines say or what those of the consignee do). The proofs show how much of that the vocabulary of `MCChallenges` had left open: `Plain` has
  to exclude words that fold to an address, addresses in a port and a second number in a weight, and `Titled` a line
  that begins with the other title, and `ChallengesPass` has to count labels and not values: an empty label above a
  count and a second label with the same count clear, but only one of the two is incremented, and the field is then
  ambiguous and no mismatch (the lines of `MCChallenges` now have that case).
  For `CleanCasesPass` the mutations fall in two. Files, labels and the weight of the SI are challenged with
  success however often a field is labelled (`HoweverLabelled`). The other two rewrite words of the draft BL that tell nothing
  of its role (`RoleKept`, `PairKept`). A count that goes up stands at its label or right under it (`CountIs`), so no other
  entry sees the line (`EntryKept`, `ExtractKept`). Another spelling is followed through every step
  of the reading: template markers, bars, the lines under a label (joined by a recursive function, which `JoinedIs` shows there
  to be), folding, numbers and references (`Respelt`, `CanonSame`, `ExtractRespelt`). `Chosen` and `Without` stand where `SelectSeq` might, which the prover cannot expand.
* `MailboxProofs`: `TypeCorrect`, `NothingPassesUnseen`, `NumbersNameOneMail`, `FetchedMailIsStored`,
  `NoMessageTwice`, `CursorMovesForward`, `MailboxKeepsContract`. None of these is inductive, since each depends on what clients
  carry from one transaction to the next. `Traced` says that below the cursor a client has read every uid has a
  trace, and below the one it will write a trace or a place among its mails; it holds of any
  interleaving. The rest supposes one retrieval at a time (`OneWorks`): the cursor a client carries is
  not behind (`Forward`), the numbers it gives lie above all stored ones (`Numbered`), an import without
  its last mail is at work (`Kept`), and what is stored is not above the cursor while what is
  carried is (`Apart`). Each action has a lemma that states its effect, and the parts of
  the invariant are proved from these alone. For the contract it must be known too that a batch is numbered from
  the last number without a gap and in the order of its uids (`Serried`, from `Places`, which counts a
  set of uids up to one of them), and that its mails are stored in turn while nobody else gives numbers
  (`Consecutive`). Then importing a mail is `Deliver`, a fetch is `Miss`, the end of a retrieval is `Pass`, and reading,
  numbering and creating an import are stutters. `NoMessageTwice` follows from the contract and is in no run.
* `LearningProofs`: `TypeIsInvariant`, `OneActiveHolds`, `RunsArePinnedHolds`, `EditsHold`. Since a recovery
  brings back any earlier database, what is to hold of the database has to hold of its backup as
  well. `ActiveInv` says it of the sets; `PinInv` adds that identifiers are below the counters, that
  a client in the middle of a run has the examples that the run's row names in whichever database
  the row is (`Follows`), and that what a client read is still so while the database is the same
  (`Loaded`, since sets are only ever added or retired); `EditInv` says that within an epoch versions
  of a draft only grow and one version has one text.

* `ScreenProofs`, about `CasePage`: `PageTypes`, `DecisionsAreOnWhatWasShown`, `ClosedPagesAreRecorded`. Every view in the
  browser, cached, shown or in a call, is the fixture, the row of its version, or one that an answer wrote into (`Matches`).
  Rows are only ever appended, so it stays that, however old the view and whatever the order of the answers; the
  server compares the version, and the version names the row.
* `ScreenProofs`, about `Inbox`: `InboxTypes`, `FunnelAddsUp`, `OpenWorkCounts`,
  `TeachingGeneralizes`. The five buckets are told apart by the state of a case, and their sizes add up because they are
  disjoint. `OpenWorkCounts` needs what the shape of a case does not say (`InboxInv`): no category is
  saved of a case without an import, no field is open where nothing was compared, and imports are no more than
  requests. `TeachingGeneralizes` takes the last of the teachings that apply, which there is by the least-number principle.

`JobContract` takes a row to waiting, running, done or given up with the attempts made, and forgets owners, leases,
waits and processes. `CaseContract` takes a case to its version, disposition, category, question and open fields, the
fields that reviews on record name, and the versions that were decided on; it forgets documents, pairs, requests in flight and
runs. `RunContract` keeps the emails that are stored and processed, the counts, each run's result and what was submitted; it forgets clients,
documents and the status of runs. `MailboxContract` keeps the cursor, the cases with their numbers and uids, and the uids that were
missed; it forgets clients, manifests and what operators passed over. The mappings are `INSTANCE`s at the end of the implementing modules, are checked by TLC as a property of
its run and proved for every value of the constants. What `CaseContract` does not promise is as telling as
what it does: `Replace` needs no version and asks nobody, and leaves a closed case closed (`case_late_run`, and
the divergences of `MCCaseReview` in section 5).

Only model-checked: the liveness properties `EveryJobEnds` and
`EveryMessageIsDecided` (liveness and ENABLED are out of the prover's reach).
Where a recursive function had to be reasoned about, it was through the least number or the smallest subset for
which a claim fails; the induction theorems of the library, which take an operator, cannot be used.
The type invariants are theorems, or are checked when a module changes, by
giving TLC `TypeOK` in place of a run's properties; no run spends its time on them.

## 7. Fairness

* `JobQueue`: weak fairness of each worker's claim, of the end of each handler,
  of the exit of a stopped worker, and of time. The worker polls in a loop
  (`cleardraft_worker/__main__.py:45`), and handlers end. Nobody is
  assumed to restart a worker (`docker-compose.yml` has no restart policy), to send a heartbeat (the worker
  never does) or to call `recover_expired_jobs`; so `EveryJobEnds` supposes that some
  worker is up, and TLC shows that the sweep in `claim_job` is enough.
* `Gateway`: weak fairness of the next step, since sockets have a timeout and retries are counted.
* `ImportRun`'s `LiveSpec`, for `NoRunIsOrphaned` only: a client that works on a
  run goes on with it while it lives.

## 8. Not modelled

* The participant source (`ingest.py`: directories, ZIP archives, prefixes and limits): checks of
  names without state.
* The parsers behind the readers, OCR, MIME decoding, the regular expressions of classification and of
  labels: which text matches is an input of the models; what follows from a match is modelled.
* Prompt texts, and the coercion of a model's evidence to what stands in the message (`providers.py`): `Gateway`
  has evidence that is there or is not.
* In the mailbox: credentials, cutoff times and a change of a connection's folder.
* Free-text search, time-saved metrics and the layout of reports: queries that only read and whose
  results nothing else uses.
* The challenge `misleading-email-assertion`, which changes a body that the comparison never reads.
* The command line (a client of `ImportRun` and `Learning`), and the developer scripts but for `backup_results.py`.
* The other pages of the web application: to-do list, inbox, evaluation and settings read lists and send the requests
  that `CasePage` has; drafts, source previews and layout of the case page.
* What SQLite does when the file of an open database is replaced: `Learning` takes the replacement as one
  step. The backup script copies the file without its write-ahead log, which the model does not see.
* Python that is not this program: the agent skills under `.agents` (vendored generators for designs,
  slides and icons), the hackathon bundles and the organizer's evaluator. They are more than half of the
  repository's Python, call nothing of the program and are called by nothing, so the modules
  cannot cover them.

## 9. Plan

Done, in the order of importance: `JobQueue` with its contract, `CaseReview`,
`ImportRun`, `Mailbox`, `Verdict`, `Gateway`, `Learning`, `Reading` with `Challenges`, `Inbox`, `Classify`, `CasePage`; proofs
about all of them; the contracts of the queue, of the case, of the runs and of the mailbox.

Next:

1. The change of a connection's folder under a kept cursor.
2. A composition of `Mailbox` and `ImportRun`, in which a batch's import and run
   are those of `ImportRun` and other clients run the same import.
