--------------------------- MODULE LearningProofs ---------------------------
(***************************************************************************)
(* Proofs about Learning: its types, that one example set is active, that  *)
(* runs are explained by the set they name, and that edits of drafts       *)
(* replace what their authors have read, for any numbers of clients,       *)
(* emails, versions and requests, and across recoveries.                   *)
(***************************************************************************)
EXTENDS Learning, TLAPS

-----------------------------------------------------------------------------
(* Types.                                                                  *)

LEMMA IdleType == Idle \in Work /\ NoDraft \in DraftRow
BY DEF Idle, Work, NoDraft, DraftRow, Steps

LEMMA InitType == Init => TypeOK
<1> SUFFICES ASSUME Init PROVE TypeOK
  OBVIOUS
<1>1. db \in Database
  BY DEF Init, Database, Sets, RunRows, Results, Drafts, NoDraft, DraftRow
<1>2. work \in [Clients -> Work]
  BY IdleType DEF Init
<1> QED BY <1>1, <1>2 DEF Init, TypeOK

\* What the work of one client may become.
LEMMA WorkType ==
  ASSUME TypeOK, NEW c \in Clients, NEW w \in Work, work' = [work EXCEPT ![c] = w]
  PROVE  work' \in [Clients -> Work]
BY DEF TypeOK

LEMMA EndType ==
  ASSUME TypeOK, NEW c \in Clients, End(c)
  PROVE  work' \in [Clients -> Work]
BY IdleType, WorkType DEF End

LEMMA ActiveSetType == ActiveSet \in Versions \cup {NoSet}
BY DEF ActiveSet

LEMMA ExamplesType ==
  ASSUME NEW d \in Database, NEW v \in Versions \cup {NoSet}
  PROVE  Examples(d, v) \in SUBSET Nat
BY DEF Examples, Database, Sets

LEMMA PromoteType ==
  ASSUME TypeOK, NEW c \in Clients, Promote(c)
  PROVE  TypeOK'
<1>1. CASE ListCandidates(c)
  <2>1. Candidates \in SUBSET Nat
    BY DEF Candidates, TypeOK, Database
  <2>2. [Idle EXCEPT !.step = "promoting", !.examples = Candidates] \in Work
    BY <2>1, IdleType DEF Idle, Work, Steps
  <2>3. work' \in [Clients -> Work]
    BY <1>1, <2>2, WorkType DEF ListCandidates, Begin
  <2>4. made' \in [events: Nat, runs: Nat, texts: Nat, requests: Nat]
    BY <1>1 DEF ListCandidates, TypeOK
  <2> QED BY <1>1, <2>3, <2>4 DEF ListCandidates, TypeOK
<1>2. ASSUME NEW v \in Versions, NEW status \in {"active", "draft"},
             NEW picked \in SUBSET work[c].examples, CreateSet(c, v, picked, status)
      PROVE  TypeOK'
  <2>1. Retired \in Sets /\ db.sets \in Sets
    BY DEF Retired, TypeOK, Database, Sets
  <2>2. picked \in SUBSET Nat
    BY DEF TypeOK, Work
  <2>3. [(IF status = "active" THEN Retired ELSE db.sets)
           EXCEPT ![v] = [status |-> status, examples |-> picked]] \in Sets
    BY <2>1, <2>2 DEF Sets
  <2>4. db' \in Database
    BY <1>2, <2>3 DEF CreateSet, TypeOK, Database
  <2>5. work' \in [Clients -> Work]
    BY <1>2, EndType DEF CreateSet
  <2> QED BY <1>2, <2>4, <2>5 DEF CreateSet, TypeOK
<1>3. ASSUME NEW v \in Versions, CreateRefused(c, v) PROVE TypeOK'
  BY <1>3, EndType DEF CreateRefused, TypeOK
<1> QED BY <1>1, <1>2, <1>3 DEF Promote

LEMMA RunType ==
  ASSUME TypeOK, NEW c \in Clients, RunImport(c)
  PROVE  TypeOK'
<1>1. CASE LoadSet(c)
  <2>1. [Idle EXCEPT !.step = "loaded", !.version = ActiveSet,
                     !.examples = Examples(db, ActiveSet), !.epoch = epoch] \in Work
    BY ActiveSetType, ExamplesType, IdleType DEF TypeOK, Idle, Work, Steps
  <2>2. work' \in [Clients -> Work]
    BY <1>1, <2>1, WorkType DEF LoadSet, Begin
  <2> QED BY <1>1, <2>2 DEF LoadSet, TypeOK
<1>2. CASE CreateRun(c)
  <2>1. [id |-> made.runs + 1, policy |-> work[c].version,
         done |-> FALSE, pinned |-> work[c].epoch = epoch] \in RunRows
    BY DEF TypeOK, Work, RunRows
  <2>2. db' \in Database
    BY <1>2, <2>1 DEF CreateRun, TypeOK, Database
  <2>3. [work[c] EXCEPT !.step = "processing", !.run = made.runs + 1, !.left = Emails] \in Work
    <3>1. work[c] \in Work /\ made.runs + 1 \in Nat
      BY DEF TypeOK
    <3> QED BY <3>1 DEF Work, Steps
  <2>4. work' \in [Clients -> Work]
    <3>1. work' = [work EXCEPT ![c] = [work[c] EXCEPT
                     !.step = "processing", !.run = made.runs + 1, !.left = Emails]]
      BY <1>2 DEF CreateRun, TypeOK, Work
    <3> QED BY <2>3, <3>1, WorkType
  <2> QED BY <1>2, <2>2, <2>4 DEF CreateRun, TypeOK
<1>3. CASE CompleteRun(c)
  <2>1. {IF r.id = work[c].run THEN [r EXCEPT !.done = TRUE] ELSE r : r \in db.runs} \in SUBSET RunRows
    <3>1. ASSUME NEW r \in db.runs
          PROVE  (IF r.id = work[c].run THEN [r EXCEPT !.done = TRUE] ELSE r) \in RunRows
      <4>1. r \in RunRows
        BY DEF TypeOK, Database
      <4> QED BY <4>1 DEF RunRows
    <3> QED BY <3>1
  <2>2. db' \in Database
    BY <1>3, <2>1 DEF CompleteRun, TypeOK, Database
  <2> QED BY <1>3, <2>2, EndType DEF CompleteRun, TypeOK
<1>4. ASSUME NEW e \in work[c].left, Process(c, e) PROVE TypeOK'
  <2>1. PICK given \in {{}, Given(work[c].examples)} :
          db' = [db EXCEPT !.results[e] = [run |-> work[c].run, given |-> given]]
    BY <1>4 DEF Process
  <2>2. given \in SUBSET Nat /\ work[c].run \in Nat /\ e \in Emails
    BY DEF Given, TypeOK, Work
  <2>3. [db.results EXCEPT ![e] = [run |-> work[c].run, given |-> given]] \in Results
    BY <2>2 DEF TypeOK, Database, Results
  <2>4. db' \in Database
    BY <2>1, <2>3 DEF TypeOK, Database
  <2>5. work' \in [Clients -> Work]
    BY <1>4 DEF Process, TypeOK, Work
  <2> QED BY <1>4, <2>4, <2>5 DEF Process, TypeOK
<1> QED BY <1>1, <1>2, <1>3, <1>4 DEF RunImport

\* What an edit makes of a draft.
LEMMA EditedType ==
  ASSUME NEW d \in DraftRow, NEW text \in Nat
  PROVE  [d EXCEPT !.version = @ + 1, !.text = text] \in DraftRow
<1>1. d.version + 1 \in Nat
  BY DEF DraftRow
<1>2. [d EXCEPT !.version = d.version + 1] \in DraftRow
  BY <1>1 DEF DraftRow
<1> QED BY <1>1 DEF DraftRow

LEMMA DraftType ==
  ASSUME TypeOK, NEW c \in Clients, Draft(c)
  PROVE  TypeOK'
<1>1. ASSUME NEW e \in Emails, CreateDraftRead(c, e) PROVE TypeOK'
  <2>1. db.results[e].run \in Nat
    BY DEF TypeOK, Database, Results
  <2>2. [NoDraft EXCEPT !.about = db.results[e].run] \in DraftRow
    BY <2>1 DEF NoDraft, DraftRow
  <2>3. [Idle EXCEPT !.step = "drafting", !.left = {e},
                     !.draft = [NoDraft EXCEPT !.about = db.results[e].run]] \in Work
    BY <2>2, IdleType DEF Idle, Work, Steps
  <2>4. work' \in [Clients -> Work]
    BY <1>1, <2>3, WorkType DEF CreateDraftRead, Begin
  <2> QED BY <1>1, <2>4 DEF CreateDraftRead, TypeOK
<1>2. CASE CreateDraft(c)
  <2>1. PICK e \in work[c].left :
          db' = IF db.drafts[e].version = 0
                THEN [db EXCEPT !.drafts[e] =
                        [id |-> made.texts + 1, version |-> 1, text |-> made.texts + 1,
                         about |-> work[c].draft.about]]
                ELSE db
    BY <1>2 DEF CreateDraft
  <2>2. e \in Emails /\ work[c].draft.about \in Nat /\ made.texts + 1 \in Nat
    BY DEF TypeOK, Work, DraftRow
  <2>3. [db.drafts EXCEPT ![e] =
           [id |-> made.texts + 1, version |-> 1, text |-> made.texts + 1,
            about |-> work[c].draft.about]] \in Drafts
    BY <2>2 DEF TypeOK, Database, Drafts, DraftRow
  <2>4. db' \in Database
    BY <2>1, <2>3 DEF TypeOK, Database
  <2> QED BY <1>2, <2>4, EndType DEF CreateDraft, TypeOK
<1>3. ASSUME NEW e \in Emails, ReadDraft(c, e) PROVE TypeOK'
  <2>1. db.drafts[e] \in DraftRow
    BY DEF TypeOK, Database, Drafts
  <2>2. [Idle EXCEPT !.step = "editing", !.left = {e}, !.draft = db.drafts[e],
                     !.epoch = epoch] \in Work
    BY <2>1, IdleType DEF Idle, Work, Steps, TypeOK
  <2>3. work' \in [Clients -> Work]
    BY <1>3, <2>2, WorkType DEF ReadDraft, Begin
  <2> QED BY <1>3, <2>3 DEF ReadDraft, TypeOK
<1>4. ASSUME NEW e \in work[c].left, UpdateDraft(c, e) PROVE TypeOK'
  <2>1. e \in Emails /\ made.texts + 1 \in Nat
    BY DEF TypeOK, Work
  <2>2. db.drafts \in Drafts /\ db.drafts[e] \in DraftRow
    BY <2>1 DEF TypeOK, Database, Drafts
  <2>3. [db.drafts EXCEPT ![e] = [db.drafts[e] EXCEPT !.version = @ + 1, !.text = made.texts + 1]] \in Drafts
    BY <2>1, <2>2, EditedType DEF Drafts
  <2>4. db' \in Database
    BY <1>4, <2>3 DEF UpdateDraft, TypeOK, Database
  <2> QED BY <1>4, <2>4, EndType DEF UpdateDraft, TypeOK
<1>5. ASSUME NEW e \in work[c].left, UpdateRefused(c, e) PROVE TypeOK'
  BY <1>5, EndType DEF UpdateRefused, TypeOK
<1> QED BY <1>1, <1>2, <1>3, <1>4, <1>5 DEF Draft

LEMMA RecoverType ==
  ASSUME TypeOK, NEW c \in Clients, Recover(c)
  PROVE  TypeOK'
<1>1. CASE BackupFiles(c)
  <2>1. [Idle EXCEPT !.step = "backing"] \in Work
    BY IdleType DEF Idle, Work, Steps
  <2>2. work' \in [Clients -> Work]
    BY <1>1, <2>1, WorkType DEF BackupFiles, Begin
  <2>3. backup' \in [made: BOOLEAN, files: Nat, db: Database \cup {NoBackup}]
    BY <1>1 DEF BackupFiles, TypeOK
  <2>4. made' \in [events: Nat, runs: Nat, texts: Nat, requests: Nat]
    BY <1>1 DEF BackupFiles, TypeOK
  <2> QED BY <1>1, <2>2, <2>3, <2>4 DEF BackupFiles, TypeOK
<1>2. CASE BackupDatabase(c)
  BY <1>2, EndType DEF BackupDatabase, TypeOK
<1>3. CASE RecoverStart(c)
  <2>1. [Idle EXCEPT !.step = "recovering"] \in Work
    BY IdleType DEF Idle, Work, Steps
  <2> QED BY <1>3, <2>1, WorkType DEF RecoverStart, Begin, TypeOK
<1>4. CASE RecoverFiles(c)
  <2>1. work' \in [Clients -> Work]
    BY <1>4 DEF RecoverFiles, TypeOK, Work, Steps
  <2> QED BY <1>4, <2>1 DEF RecoverFiles, TypeOK
<1>5. CASE RecoverRefused(c)
  BY <1>5, EndType DEF RecoverRefused, TypeOK
<1>6. CASE RecoverDatabase(c)
  BY <1>6, EndType DEF RecoverDatabase, TypeOK
<1> QED BY <1>1, <1>2, <1>3, <1>4, <1>5, <1>6 DEF Recover

LEMMA NextType == TypeOK /\ [Next]_vars => TypeOK'
<1> SUFFICES ASSUME TypeOK, [Next]_vars PROVE TypeOK'
  OBVIOUS
<1>1. CASE Correct
  <2>1. db' \in Database
    BY <1>1 DEF Correct, TypeOK, Database
  <2> QED BY <1>1, <2>1 DEF Correct, TypeOK
<1>2. CASE Export
  BY <1>2 DEF Export, TypeOK, Database, RunRows
<1>3. ASSUME NEW c \in Clients, Promote(c) \/ RunImport(c) \/ Draft(c) \/ Recover(c) PROVE TypeOK'
  BY <1>3, PromoteType, RunType, DraftType, RecoverType
<1>4. ASSUME NEW c \in Clients, Die(c) PROVE TypeOK'
  BY <1>4, EndType DEF Die, TypeOK
<1>5. CASE UNCHANGED vars
  BY <1>5 DEF vars, TypeOK
<1> QED BY <1>1, <1>2, <1>3, <1>4, <1>5 DEF Next

\* Every variable keeps its type.
THEOREM TypeIsInvariant == Spec => []TypeOK
BY InitType, NextType, PTL DEF Spec

-----------------------------------------------------------------------------
(* One set is active, in the database and in its copy.                     *)

ActiveIn(d) ==
  /\ \A v, w \in Versions : d.sets[v].status = "active" /\ d.sets[w].status = "active" => v = w
  /\ (\E v \in Versions : d.sets[v].status = "retired")
       => \E v \in Versions : d.sets[v].status = "active"

ActiveInv == ActiveIn(db) /\ (backup.db # NoBackup => ActiveIn(backup.db))

\* The steps that change the sets, and those that change the copy.
LEMMA SetsChange ==
  ASSUME TypeOK, [Next]_vars
  PROVE  \/ db'.sets = db.sets
         \/ \E c \in Clients, v \in Versions, status \in {"active", "draft"} :
              \E picked \in SUBSET work[c].examples \ {{}} : CreateSet(c, v, picked, status)
         \/ backup.db # NoBackup /\ db' = backup.db
<1>1. CASE Correct
  BY <1>1 DEF Correct, TypeOK, Database
<1>2. CASE Export
  BY <1>2 DEF Export
<1>3. ASSUME NEW c \in Clients, Promote(c)
      PROVE  \/ db'.sets = db.sets
             \/ \E v \in Versions, status \in {"active", "draft"} :
                  \E picked \in SUBSET work[c].examples \ {{}} : CreateSet(c, v, picked, status)
  BY <1>3 DEF Promote, ListCandidates, CreateRefused
<1>4. ASSUME NEW c \in Clients, RunImport(c) PROVE db'.sets = db.sets
  BY <1>4 DEF RunImport, LoadSet, CreateRun, CompleteRun, Process, TypeOK, Database
<1>5. ASSUME NEW c \in Clients, Draft(c) PROVE db'.sets = db.sets
  BY <1>5 DEF Draft, CreateDraftRead, CreateDraft, ReadDraft, UpdateDraft, UpdateRefused,
              TypeOK, Database
<1>6. ASSUME NEW c \in Clients, Recover(c)
      PROVE  db'.sets = db.sets \/ (backup.db # NoBackup /\ db' = backup.db)
  BY <1>6 DEF Recover, BackupFiles, BackupDatabase, RecoverStart, RecoverFiles, RecoverRefused,
              RecoverDatabase
<1>7. ASSUME NEW c \in Clients, Die(c) PROVE db'.sets = db.sets
  BY <1>7 DEF Die
<1>8. CASE UNCHANGED vars
  BY <1>8 DEF vars
<1> QED BY <1>1, <1>2, <1>3, <1>4, <1>5, <1>6, <1>7, <1>8 DEF Next

LEMMA BackupChange ==
  ASSUME TypeOK, [Next]_vars
  PROVE  backup.db' = backup.db \/ (backup.db' = db /\ db' = db)
<1>1. CASE Correct \/ Export
  BY <1>1 DEF Correct, Export
<1>2. ASSUME NEW c \in Clients, Promote(c) \/ RunImport(c) \/ Draft(c) \/ Die(c)
      PROVE  backup' = backup
  BY <1>2 DEF Promote, ListCandidates, CreateSet, CreateRefused,
              RunImport, LoadSet, CreateRun, CompleteRun, Process,
              Draft, CreateDraftRead, CreateDraft, ReadDraft, UpdateDraft, UpdateRefused, Die
<1>3. ASSUME NEW c \in Clients, Recover(c)
      PROVE  backup.db' = backup.db \/ (backup.db' = db /\ db' = db)
  BY <1>3 DEF Recover, BackupFiles, BackupDatabase, RecoverStart, RecoverFiles, RecoverRefused,
              RecoverDatabase, TypeOK
<1>4. CASE UNCHANGED vars
  BY <1>4 DEF vars
<1> QED BY <1>1, <1>2, <1>3, <1>4 DEF Next

\* What create_prompt_example_set makes of the sets.
LEMMA CreateSetEffect ==
  ASSUME TypeOK, NEW c \in Clients, NEW v \in Versions, NEW status \in {"active", "draft"},
         NEW picked \in SUBSET work[c].examples \ {{}}, CreateSet(c, v, picked, status)
  PROVE  /\ db.sets[v].status = "none"
         /\ db'.sets[v].status = status
         /\ \A w \in Versions \ {v} :
              /\ db'.sets[w].examples = db.sets[w].examples
              /\ db'.sets[w].status = IF status = "active" /\ db.sets[w].status = "active"
                                      THEN "retired" ELSE db.sets[w].status
<1>1. db'.sets = [(IF status = "active" THEN Retired ELSE db.sets)
                    EXCEPT ![v] = [status |-> status, examples |-> picked]]
  BY DEF CreateSet, TypeOK, Database
<1>2. db.sets \in Sets /\ Retired \in [Versions -> [status: {"none", "draft", "active", "retired"},
                                                    examples: SUBSET Nat]]
  BY DEF TypeOK, Database, Sets, Retired
<1>3. \A w \in Versions :
        /\ Retired[w].examples = db.sets[w].examples
        /\ Retired[w].status = IF db.sets[w].status = "active" THEN "retired" ELSE db.sets[w].status
  BY <1>2 DEF Retired, Sets
<1> QED BY <1>1, <1>2, <1>3 DEF CreateSet, Sets

LEMMA ActiveStep == TypeOK /\ ActiveInv /\ [Next]_vars => ActiveInv'
<1> SUFFICES ASSUME TypeOK, ActiveInv, [Next]_vars PROVE ActiveInv'
  OBVIOUS
<1>1. ActiveIn(db')
  <2>1. CASE db'.sets = db.sets
    BY <2>1 DEF ActiveInv, ActiveIn
  <2>2. ASSUME NEW c \in Clients, NEW v \in Versions, NEW status \in {"active", "draft"},
               NEW picked \in SUBSET work[c].examples \ {{}}, CreateSet(c, v, picked, status)
        PROVE  ActiveIn(db')
    <3>1. /\ db.sets[v].status = "none"
          /\ db'.sets[v].status = status
          /\ \A w \in Versions \ {v} :
               /\ db'.sets[w].examples = db.sets[w].examples
               /\ db'.sets[w].status = IF status = "active" /\ db.sets[w].status = "active"
                                       THEN "retired" ELSE db.sets[w].status
      BY <2>2, CreateSetEffect
    <3>2. CASE status = "active"
      <4>1. \A w \in Versions \ {v} : db'.sets[w].status # "active"
        BY <3>1, <3>2
      <4> QED BY <3>1, <3>2, <4>1 DEF ActiveIn
    <3>3. CASE status = "draft"
      <4>1. \A w \in Versions \ {v} : db'.sets[w].status = db.sets[w].status
        BY <3>1, <3>3
      <4> QED BY <3>1, <3>3, <4>1 DEF ActiveInv, ActiveIn
    <3> QED BY <3>2, <3>3
  <2>3. CASE backup.db # NoBackup /\ db' = backup.db
    BY <2>3 DEF ActiveInv
  <2> QED BY <2>1, <2>2, <2>3, SetsChange
<1>2. backup.db' # NoBackup => ActiveIn(backup.db')
  BY <1>1, BackupChange DEF ActiveInv
<1> QED BY <1>1, <1>2 DEF ActiveInv, ActiveIn

\* One example set is active once there was one, whatever promotions race each
\* other or fail, and whatever database is recovered.
THEOREM OneActiveHolds == Spec => []OneActive
<1>1. Init => ActiveInv
  BY DEF Init, ActiveInv, ActiveIn
<1>2. ActiveInv => OneActive
  BY DEF ActiveInv, ActiveIn, OneActive
<1> QED BY <1>1, <1>2, ActiveStep, TypeIsInvariant, PTL DEF Spec

-----------------------------------------------------------------------------
(* Runs are explained by the set they name. A database, and the copy of an *)
(* earlier one, hold no identifier of a run to come; and a client in the   *)
(* middle of a run has the examples that the run's row names, whichever of *)
(* the two databases that row is looked up in.                             *)

\* Of n runs there were so far.
Known(d, n) ==
  /\ \A r \in d.runs : r.id <= n
  /\ \A e \in Emails : d.results[e].run <= n

\* A policy is a set that is there, or none.
Exists(d, v) == v # NoSet => d.sets[v].status # "none"

\* While clients are doing w.
Follows(d, w) ==
  \A c \in Clients : w[c].step = "processing" =>
    \A r \in d.runs : r.id = w[c].run /\ r.pinned =>
      w[c].examples = Examples(d, r.policy)

PinnedIn(d) == \A r \in d.runs : r.pinned => Pinned(d, r)

Good(d, w, n) == Known(d, n) /\ Follows(d, w) /\ PinnedIn(d)

\* What a client has read of the sets is so while the database is the same.
Loaded ==
  \A c \in Clients :
    /\ work[c].epoch <= epoch
    /\ work[c].step = "processing" => work[c].run <= made.runs
    /\ work[c].step = "loaded" /\ work[c].epoch = epoch =>
         Exists(db, work[c].version) /\ work[c].examples = Examples(db, work[c].version)

PinInv ==
  /\ Good(db, work, made.runs)
  /\ backup.db # NoBackup => Good(backup.db, work, made.runs)
  /\ Loaded

\* Where neither the sets nor the runs nor the results of a database change, nor
\* what clients in the middle of a run have, it stays good.
Onward(w, x) ==
  \A c \in Clients : x[c].step = "processing" =>
    w[c].step = "processing" /\ x[c].run = w[c].run /\ x[c].examples = w[c].examples

LEMMA GoodKept ==
  ASSUME NEW d \in Database, NEW x \in Database, NEW w, NEW y, NEW n \in Nat, NEW m \in Nat,
         Good(d, w, n), n <= m, Onward(w, y),
         x.sets = d.sets, x.runs = d.runs, x.results = d.results
  PROVE  Good(x, y, m)
<1>1. Known(x, m)
  <2>1. ASSUME NEW r \in x.runs PROVE r.id <= m
    BY DEF Good, Known, Database, RunRows
  <2>2. ASSUME NEW e \in Emails PROVE x.results[e].run <= m
    BY DEF Good, Known, Database, Results
  <2> QED BY <2>1, <2>2 DEF Known
<1>2. Follows(x, y)
  BY DEF Good, Follows, Examples, Onward
<1>3. PinnedIn(x)
  BY DEF Good, PinnedIn, Pinned, Examples
<1> QED BY <1>1, <1>2, <1>3 DEF Good

\* The same of a client that has read the sets.
LEMMA LoadedKept ==
  ASSUME TypeOK, Loaded, db'.sets = db.sets, epoch' = epoch, made'.runs = made.runs,
         NEW c \in Clients, NEW x, work' = [work EXCEPT ![c] = x], x.epoch <= epoch, x.step \notin {"processing", "loaded"}
  PROVE  Loaded'
BY DEF Loaded, TypeOK, Examples, Exists

\* Ending is none of the steps above.
LEMMA Ending ==
  ASSUME TypeOK, NEW c \in Clients, End(c)
  PROVE  /\ Onward(work, work')
         /\ work' = [work EXCEPT ![c] = Idle]
         /\ Idle.epoch <= epoch
         /\ Idle.step \notin {"processing", "loaded"}
BY DEF End, Idle, Onward, TypeOK

\* Steps of a client that touch none of the sets, the runs and the results.
LEMMA AsideStep ==
  ASSUME TypeOK, TypeOK', PinInv,
         db'.sets = db.sets, db'.runs = db.runs, db'.results = db.results,
         backup.db' \in {backup.db, db}, epoch' = epoch, made'.runs = made.runs,
         NEW c \in Clients, NEW x, work' = [work EXCEPT ![c] = x],
         x.epoch <= epoch, x.step \notin {"processing", "loaded"}
  PROVE  PinInv'
<1>1. Onward(work, work')
  BY DEF Onward, TypeOK
<1>2. db \in Database /\ db' \in Database /\ made.runs \in Nat /\ made'.runs \in Nat
      /\ made.runs <= made'.runs
  BY DEF TypeOK
<1>3. Good(db', work', made'.runs) /\ Good(db, work', made'.runs)
  BY <1>1, <1>2, GoodKept DEF PinInv
<1>4. ASSUME backup.db # NoBackup PROVE Good(backup.db, work', made'.runs)
  BY <1>1, <1>2, <1>4, GoodKept DEF PinInv, TypeOK
<1>5. Loaded'
  BY LoadedKept DEF PinInv
<1> QED BY <1>3, <1>4, <1>5 DEF PinInv

LEMMA PromotePin ==
  ASSUME TypeOK, TypeOK', PinInv, NEW c \in Clients, Promote(c)
  PROVE  PinInv'
<1>1. CASE ListCandidates(c)
  <2>1. /\ work' = [work EXCEPT ![c] = [Idle EXCEPT !.step = "promoting", !.examples = Candidates]]
        /\ db' = db /\ backup' = backup /\ epoch' = epoch /\ made'.runs = made.runs
    BY <1>1 DEF ListCandidates, Begin, TypeOK
  <2>2. [Idle EXCEPT !.step = "promoting", !.examples = Candidates].epoch <= epoch
    BY DEF Idle, TypeOK
  <2>3. [Idle EXCEPT !.step = "promoting", !.examples = Candidates].step \notin {"processing", "loaded"}
    BY DEF Idle
  <2> QED BY <2>1, <2>2, <2>3, AsideStep
<1>2. ASSUME NEW v \in Versions, NEW status \in {"active", "draft"},
             NEW picked \in SUBSET work[c].examples \ {{}}, CreateSet(c, v, picked, status)
      PROVE  PinInv'
  <2>1. /\ db.sets[v].status = "none"
        /\ db'.sets[v].status = status
        /\ \A w \in Versions \ {v} :
             /\ db'.sets[w].examples = db.sets[w].examples
             /\ db'.sets[w].status = IF status = "active" /\ db.sets[w].status = "active"
                                     THEN "retired" ELSE db.sets[w].status
    BY <1>2, CreateSetEffect
  <2>2. db'.runs = db.runs /\ db'.results = db.results
    BY <1>2 DEF CreateSet, TypeOK, Database
  <2>3. /\ backup' = backup /\ made' = made /\ epoch' = epoch
        /\ Onward(work, work') /\ work' = [work EXCEPT ![c] = Idle]
    BY <1>2, Ending DEF CreateSet
  <2>4. \A w \in Versions \cup {NoSet} :
          Exists(db, w) => Exists(db', w) /\ Examples(db', w) = Examples(db, w)
    BY <2>1 DEF Exists, Examples
  <2>5. ASSUME NEW r \in db.runs, r.pinned
        PROVE  Pinned(db', r) /\ Examples(db', r.policy) = Examples(db, r.policy)
    <3>1. r.policy \in Versions \cup {NoSet}
      BY DEF TypeOK, Database, RunRows
    <3>2. Pinned(db, r) /\ Exists(db, r.policy)
      BY <2>5 DEF PinInv, Good, PinnedIn, Pinned, Exists
    <3> QED BY <2>2, <2>4, <3>1, <3>2 DEF Pinned, Exists
  <2>6. Follows(db', work')
    BY <2>2, <2>3, <2>5 DEF PinInv, Good, Follows, Onward
  <2>7. Good(db', work', made'.runs)
    BY <2>2, <2>3, <2>5, <2>6 DEF PinInv, Good, Known, PinnedIn
  <2>8. ASSUME backup.db # NoBackup PROVE Good(backup.db, work', made'.runs)
    BY <2>3, <2>8, GoodKept DEF PinInv, TypeOK
  <2>9. Loaded'
    <3>1. \A d \in Clients : work'[d] = IF d = c THEN Idle ELSE work[d]
      BY <2>3 DEF TypeOK
    <3>2. ASSUME NEW d \in Clients, d # c
          PROVE  /\ work[d].epoch <= epoch
                 /\ work[d].step = "processing" => work[d].run <= made.runs
                 /\ work[d].step = "loaded" /\ work[d].epoch = epoch =>
                      Exists(db', work[d].version) /\ work[d].examples = Examples(db', work[d].version)
      BY <2>4, <3>2 DEF PinInv, Loaded, TypeOK, Work
    <3>3. Idle.epoch <= epoch /\ Idle.step = "idle"
      BY DEF Idle, TypeOK
    <3> QED BY <2>3, <3>1, <3>2, <3>3 DEF Loaded
  <2> QED BY <2>3, <2>7, <2>8, <2>9 DEF PinInv
<1>3. ASSUME NEW v \in Versions, CreateRefused(c, v) PROVE PinInv'
  BY <1>3, Ending, AsideStep DEF CreateRefused
<1> QED BY <1>1, <1>2, <1>3 DEF Promote

LEMMA RunPin ==
  ASSUME TypeOK, TypeOK', PinInv, NEW c \in Clients, RunImport(c)
  PROVE  PinInv'
<1>1. CASE LoadSet(c)
  <2> DEFINE x == [Idle EXCEPT !.step = "loaded", !.version = ActiveSet,
                               !.examples = Examples(db, ActiveSet), !.epoch = epoch]
  <2>1. /\ work' = [work EXCEPT ![c] = x]
        /\ db' = db /\ backup' = backup /\ epoch' = epoch /\ made'.runs = made.runs
    BY <1>1 DEF LoadSet, Begin, TypeOK
  <2>2. /\ x.step = "loaded" /\ x.version = ActiveSet
        /\ x.examples = Examples(db, ActiveSet) /\ x.epoch = epoch
    BY DEF Idle
  <2>3. Exists(db, ActiveSet)
    BY DEF Exists, ActiveSet
  <2> HIDE DEF x
  <2>4. Onward(work, work')
    BY <2>1, <2>2 DEF Onward, TypeOK
  <2>5. Good(db', work', made'.runs)
    BY <2>1, <2>4, GoodKept DEF PinInv, TypeOK
  <2>6. ASSUME backup.db # NoBackup PROVE Good(backup.db, work', made'.runs)
    BY <2>1, <2>4, <2>6, GoodKept DEF PinInv, TypeOK
  <2>7. Loaded'
    BY <2>1, <2>2, <2>3 DEF PinInv, Loaded, TypeOK, Exists, Examples
  <2> QED BY <2>1, <2>5, <2>6, <2>7 DEF PinInv
<1>2. CASE CreateRun(c)
  <2> DEFINE n == made.runs + 1
             row == [id |-> n, policy |-> work[c].version, done |-> FALSE,
                     pinned |-> work[c].epoch = epoch]
  <2>1. /\ work[c].step = "loaded"
        /\ made'.runs = n /\ made.runs \in Nat /\ n \in Nat
        /\ db'.runs = db.runs \cup {row} /\ db'.sets = db.sets /\ db'.results = db.results
        /\ backup' = backup /\ epoch' = epoch
    BY <1>2 DEF CreateRun, TypeOK, Database
  <2>2. /\ work'[c].step = "processing" /\ work'[c].run = n
        /\ work'[c].examples = work[c].examples /\ work'[c].epoch = work[c].epoch
        /\ \A d \in Clients \ {c} : work'[d] = work[d]
    BY <1>2 DEF CreateRun, TypeOK, Work
  <2>3. row.id = n /\ row.policy = work[c].version /\ row.pinned = (work[c].epoch = epoch)
    OBVIOUS
  <2> HIDE DEF n, row
  <2>4. n > made.runs /\ ~(n <= made.runs)
    BY <2>1 DEF n
  <2>5. Known(db', n)
    <3>1. ASSUME NEW r \in db'.runs PROVE r.id <= n
      <4>1. CASE r \in db.runs
        BY <4>1, <2>1, <2>4 DEF PinInv, Good, Known, TypeOK, Database, RunRows
      <4>2. CASE r = row
        BY <4>2, <2>1, <2>3
      <4> QED BY <2>1, <4>1, <4>2
    <3>2. ASSUME NEW e \in Emails PROVE db'.results[e].run <= n
      BY <2>1, <2>4 DEF PinInv, Good, Known, TypeOK, Database, Results
    <3> QED BY <3>1, <3>2 DEF Known
  <2>6. row.pinned => Exists(db, row.policy) /\ work[c].examples = Examples(db, row.policy)
    BY <2>1, <2>3 DEF PinInv, Loaded
  <2>7. Follows(db', work')
    <3>1. ASSUME NEW d \in Clients, work'[d].step = "processing",
                 NEW r \in db'.runs, r.id = work'[d].run, r.pinned
          PROVE  work'[d].examples = Examples(db', r.policy)
      <4>1. CASE d = c /\ r = row
        BY <4>1, <3>1, <2>1, <2>2, <2>6 DEF Examples
      <4>2. CASE d = c /\ r \in db.runs
        BY <4>2, <3>1, <2>2, <2>4 DEF PinInv, Good, Known
      <4>3. CASE d # c /\ r = row
        BY <4>3, <3>1, <2>2, <2>3, <2>4 DEF PinInv, Loaded
      <4>4. CASE d # c /\ r \in db.runs
        BY <4>4, <3>1, <2>1, <2>2 DEF PinInv, Good, Follows, Examples
      <4> QED BY <2>1, <4>1, <4>2, <4>3, <4>4
    <3> QED BY <3>1 DEF Follows
  <2>8. PinnedIn(db')
    <3>1. ASSUME NEW r \in db'.runs, r.pinned PROVE Pinned(db', r)
      <4>1. CASE r \in db.runs
        BY <4>1, <3>1, <2>1 DEF PinInv, Good, PinnedIn, Pinned, Examples
      <4>2. CASE r = row
        <5>1. \A e \in Emails : db'.results[e].run # n
          BY <2>1, <2>4 DEF PinInv, Good, Known
        <5> QED BY <4>2, <5>1, <3>1, <2>1, <2>3, <2>6 DEF Pinned, Exists
      <4> QED BY <2>1, <4>1, <4>2
    <3> QED BY <3>1 DEF PinnedIn
  <2>9. ASSUME backup.db # NoBackup PROVE Good(backup.db, work', n)
    <3>1. Good(backup.db, work, made.runs) /\ backup.db \in Database
      BY <2>9 DEF PinInv, TypeOK
    <3>2. Known(backup.db, n)
      <4>1. ASSUME NEW r \in backup.db.runs PROVE r.id <= n
        BY <3>1, <2>1, <2>4 DEF Good, Known, Database, RunRows
      <4>2. ASSUME NEW e \in Emails PROVE backup.db.results[e].run <= n
        BY <3>1, <2>1, <2>4 DEF Good, Known, Database, Results
      <4> QED BY <4>1, <4>2 DEF Known
    <3>3. Follows(backup.db, work')
      <4>1. ASSUME NEW d \in Clients, work'[d].step = "processing",
                   NEW r \in backup.db.runs, r.id = work'[d].run, r.pinned
            PROVE  work'[d].examples = Examples(backup.db, r.policy)
        <5>1. CASE d = c
          BY <5>1, <4>1, <3>1, <2>2, <2>4 DEF Good, Known
        <5>2. CASE d # c
          BY <5>2, <4>1, <3>1, <2>2 DEF Good, Follows
        <5> QED BY <5>1, <5>2
      <4> QED BY <4>1 DEF Follows
    <3> QED BY <3>1, <3>2, <3>3 DEF Good
  <2>10. Loaded'
    <3>1. ASSUME NEW d \in Clients
          PROVE  /\ work'[d].epoch <= epoch
                 /\ work'[d].step = "processing" => work'[d].run <= n
                 /\ work'[d].step = "loaded" /\ work'[d].epoch = epoch =>
                      /\ Exists(db', work'[d].version)
                      /\ work'[d].examples = Examples(db', work'[d].version)
      <4>1. CASE d = c
        BY <4>1, <2>1, <2>2 DEF PinInv, Loaded
      <4>2. CASE d # c
        BY <4>2, <2>1, <2>2, <2>4 DEF PinInv, Loaded, Exists, Examples, TypeOK, Work
      <4> QED BY <4>1, <4>2
    <3> QED BY <3>1, <2>1 DEF Loaded
  <2> QED BY <2>1, <2>5, <2>7, <2>8, <2>9, <2>10 DEF PinInv, Good
<1>3. CASE CompleteRun(c)
  <2>1. /\ work[c].step = "processing"
        /\ db'.runs = {IF r.id = work[c].run THEN [r EXCEPT !.done = TRUE] ELSE r : r \in db.runs}
        /\ db'.sets = db.sets /\ db'.results = db.results
        /\ backup' = backup /\ epoch' = epoch /\ made' = made
        /\ Onward(work, work') /\ work' = [work EXCEPT ![c] = Idle]
        /\ Idle.epoch <= epoch /\ Idle.step \notin {"processing", "loaded"}
    BY <1>3, Ending DEF CompleteRun, TypeOK, Database
  <2>2. ASSUME NEW q \in db'.runs
        PROVE  \E r \in db.runs : q.id = r.id /\ q.policy = r.policy /\ q.pinned = r.pinned
    <3>1. PICK r \in db.runs : q = IF r.id = work[c].run THEN [r EXCEPT !.done = TRUE] ELSE r
      BY <2>1
    <3>2. r \in RunRows
      BY DEF TypeOK, Database
    <3> QED BY <3>1, <3>2 DEF RunRows
  <2>3. Known(db', made.runs)
    BY <2>1, <2>2 DEF PinInv, Good, Known
  <2>4. Follows(db', work')
    <3>1. ASSUME NEW d \in Clients, work'[d].step = "processing",
                 NEW q \in db'.runs, q.id = work'[d].run, q.pinned
          PROVE  work'[d].examples = Examples(db', q.policy)
      <4>1. PICK r \in db.runs : q.id = r.id /\ q.policy = r.policy /\ q.pinned = r.pinned
        BY <2>2
      <4>2. /\ work[d].step = "processing" /\ work'[d].run = work[d].run
            /\ work'[d].examples = work[d].examples
        BY <2>1, <3>1 DEF Onward
      <4> QED BY <2>1, <3>1, <4>1, <4>2 DEF PinInv, Good, Follows, Examples
    <3> QED BY <3>1 DEF Follows
  <2>5. PinnedIn(db')
    BY <2>1, <2>2 DEF PinInv, Good, PinnedIn, Pinned, Examples
  <2>6. ASSUME backup.db # NoBackup PROVE Good(backup.db, work', made.runs)
    BY <2>1, <2>6, GoodKept DEF PinInv, TypeOK
  <2>7. Loaded'
    BY <2>1, LoadedKept DEF PinInv
  <2> QED BY <2>1, <2>3, <2>4, <2>5, <2>6, <2>7 DEF PinInv, Good
<1>4. ASSUME NEW e \in work[c].left, Process(c, e) PROVE PinInv'
  <2>1. PICK given \in {{}, Given(work[c].examples)} :
          db' = [db EXCEPT !.results[e] = [run |-> work[c].run, given |-> given]]
    BY <1>4 DEF Process
  <2>2. /\ work[c].step = "processing" /\ e \in Emails
        /\ db'.runs = db.runs /\ db'.sets = db.sets
        /\ db'.results[e] = [run |-> work[c].run, given |-> given]
        /\ \A f \in Emails \ {e} : db'.results[f] = db.results[f]
        /\ backup' = backup /\ epoch' = epoch /\ made' = made
    BY <1>4, <2>1 DEF Process, TypeOK, Database, Results, Work
  <2>3. /\ \A d \in Clients : /\ work'[d].step = work[d].step /\ work'[d].run = work[d].run
                              /\ work'[d].examples = work[d].examples
                              /\ work'[d].epoch = work[d].epoch /\ work'[d].version = work[d].version
        /\ Onward(work, work')
    BY <1>4 DEF Process, TypeOK, Work, Onward
  <2>4. Known(db', made.runs)
    BY <2>2 DEF PinInv, Good, Known, Loaded
  <2>5. Follows(db', work')
    BY <2>2, <2>3 DEF PinInv, Good, Follows, Examples
  <2>6. PinnedIn(db')
    <3>1. ASSUME NEW r \in db.runs, r.pinned PROVE Pinned(db', r)
      <4>1. Pinned(db, r)
        BY <3>1 DEF PinInv, Good, PinnedIn
      <4>2. r.id = work[c].run => given \in {{}, Given(Examples(db, r.policy))}
        BY <2>2, <3>1 DEF PinInv, Good, Follows
      <4> QED BY <2>2, <4>1, <4>2 DEF Pinned, Examples
    <3> QED BY <2>2, <3>1 DEF PinnedIn
  <2>7. ASSUME backup.db # NoBackup PROVE Good(backup.db, work', made.runs)
    BY <2>2, <2>3, <2>7, GoodKept DEF PinInv, TypeOK
  <2>8. Loaded'
    BY <2>2, <2>3 DEF PinInv, Loaded, Exists, Examples
  <2> QED BY <2>2, <2>4, <2>5, <2>6, <2>7, <2>8 DEF PinInv, Good
<1> QED BY <1>1, <1>2, <1>3, <1>4 DEF RunImport

LEMMA DraftPin ==
  ASSUME TypeOK, TypeOK', PinInv, NEW c \in Clients, Draft(c)
  PROVE  PinInv'
<1>1. ASSUME NEW e \in Emails, CreateDraftRead(c, e) PROVE PinInv'
  <2> DEFINE x == [Idle EXCEPT !.step = "drafting", !.left = {e},
                               !.draft = [NoDraft EXCEPT !.about = db.results[e].run]]
  <2>1. /\ work' = [work EXCEPT ![c] = x]
        /\ db' = db /\ backup' = backup /\ epoch' = epoch /\ made'.runs = made.runs
    BY <1>1 DEF CreateDraftRead, Begin, TypeOK
  <2>2. x.epoch <= epoch /\ x.step \notin {"processing", "loaded"}
    BY DEF Idle, TypeOK
  <2> HIDE DEF x
  <2> QED BY <2>1, <2>2, AsideStep
<1>2. CASE CreateDraft(c)
  <2>1. /\ db'.sets = db.sets /\ db'.runs = db.runs /\ db'.results = db.results
        /\ backup' = backup /\ epoch' = epoch /\ made'.runs = made.runs
    BY <1>2 DEF CreateDraft, TypeOK, Database
  <2> QED BY <1>2, <2>1, Ending, AsideStep DEF CreateDraft
<1>3. ASSUME NEW e \in Emails, ReadDraft(c, e) PROVE PinInv'
  <2> DEFINE x == [Idle EXCEPT !.step = "editing", !.left = {e}, !.draft = db.drafts[e],
                               !.epoch = epoch]
  <2>1. /\ work' = [work EXCEPT ![c] = x]
        /\ db' = db /\ backup' = backup /\ epoch' = epoch /\ made'.runs = made.runs
    BY <1>3 DEF ReadDraft, Begin, TypeOK
  <2>2. x.epoch <= epoch /\ x.step \notin {"processing", "loaded"}
    BY DEF Idle, TypeOK
  <2> HIDE DEF x
  <2> QED BY <2>1, <2>2, AsideStep
<1>4. ASSUME NEW e \in work[c].left, UpdateDraft(c, e) PROVE PinInv'
  <2>1. /\ db'.sets = db.sets /\ db'.runs = db.runs /\ db'.results = db.results
        /\ backup' = backup /\ epoch' = epoch /\ made'.runs = made.runs
    BY <1>4 DEF UpdateDraft, TypeOK, Database
  <2> QED BY <1>4, <2>1, Ending, AsideStep DEF UpdateDraft
<1>5. ASSUME NEW e \in work[c].left, UpdateRefused(c, e) PROVE PinInv'
  BY <1>5, Ending, AsideStep DEF UpdateRefused
<1> QED BY <1>1, <1>2, <1>3, <1>4, <1>5 DEF Draft

LEMMA RecoverPin ==
  ASSUME TypeOK, TypeOK', PinInv, NEW c \in Clients, Recover(c)
  PROVE  PinInv'
<1>1. CASE BackupFiles(c)
  <2> DEFINE x == [Idle EXCEPT !.step = "backing"]
  <2>1. /\ work' = [work EXCEPT ![c] = x]
        /\ db' = db /\ backup.db' = backup.db /\ epoch' = epoch /\ made'.runs = made.runs
    BY <1>1 DEF BackupFiles, Begin, TypeOK
  <2>2. x.epoch <= epoch /\ x.step \notin {"processing", "loaded"}
    BY DEF Idle, TypeOK
  <2> HIDE DEF x
  <2> QED BY <2>1, <2>2, AsideStep
<1>2. CASE BackupDatabase(c)
  <2>1. db' = db /\ backup.db' = db /\ epoch' = epoch /\ made' = made
    BY <1>2 DEF BackupDatabase, TypeOK
  <2> QED BY <1>2, <2>1, Ending, AsideStep DEF BackupDatabase
<1>3. CASE RecoverStart(c)
  <2> DEFINE x == [Idle EXCEPT !.step = "recovering"]
  <2>1. /\ work' = [work EXCEPT ![c] = x]
        /\ db' = db /\ backup' = backup /\ epoch' = epoch /\ made'.runs = made.runs
    BY <1>3 DEF RecoverStart, Begin, TypeOK
  <2>2. x.epoch <= epoch /\ x.step \notin {"processing", "loaded"}
    BY DEF Idle, TypeOK
  <2> HIDE DEF x
  <2> QED BY <2>1, <2>2, AsideStep
<1>4. CASE RecoverFiles(c)
  <2> DEFINE x == [work[c] EXCEPT !.step = "copying"]
  <2>1. /\ work' = [work EXCEPT ![c] = x]
        /\ db' = db /\ backup' = backup /\ epoch' = epoch /\ made' = made
    BY <1>4 DEF RecoverFiles, TypeOK
  <2>2. x.epoch <= epoch /\ x.step \notin {"processing", "loaded"}
    BY DEF PinInv, Loaded, TypeOK, Work
  <2> HIDE DEF x
  <2> QED BY <2>1, <2>2, AsideStep
<1>5. CASE RecoverRefused(c)
  BY <1>5, Ending, AsideStep DEF RecoverRefused
<1>6. CASE RecoverDatabase(c)
  <2>1. CASE ~DefaultPath
    BY <1>6, <2>1, Ending, AsideStep DEF RecoverDatabase
  <2>2. CASE DefaultPath
    <3>1. /\ backup.db # NoBackup /\ db' = backup.db /\ epoch' = epoch + 1
          /\ backup' = backup /\ made' = made
          /\ Onward(work, work') /\ work' = [work EXCEPT ![c] = Idle]
      BY <1>6, <2>2, Ending DEF RecoverDatabase
    <3>2. Good(backup.db, work', made'.runs)
      BY <3>1, GoodKept DEF PinInv, TypeOK
    <3>3. Loaded'
      <4>1. ASSUME NEW d \in Clients
            PROVE  /\ work'[d].epoch <= epoch
                   /\ work'[d].step = "processing" => work'[d].run <= made.runs
        BY <3>1 DEF PinInv, Loaded, TypeOK, Idle
      <4>2. ASSUME NEW d \in Clients PROVE work'[d].epoch <= epoch' /\ work'[d].epoch # epoch'
        BY <3>1, <4>1 DEF TypeOK, Work
      <4> QED BY <3>1, <4>1, <4>2 DEF Loaded
    <3> QED BY <3>1, <3>2, <3>3 DEF PinInv
  <2> QED BY <2>1, <2>2
<1> QED BY <1>1, <1>2, <1>3, <1>4, <1>5, <1>6 DEF Recover

LEMMA NextPin == TypeOK /\ TypeOK' /\ PinInv /\ [Next]_vars => PinInv'
<1> SUFFICES ASSUME TypeOK, TypeOK', PinInv, [Next]_vars PROVE PinInv'
  OBVIOUS
<1>1. CASE Correct \/ Export \/ UNCHANGED vars
  <2>1. /\ db'.sets = db.sets /\ db'.runs = db.runs /\ db'.results = db.results
        /\ backup' = backup /\ epoch' = epoch /\ work' = work /\ made'.runs = made.runs
    BY <1>1 DEF Correct, Export, vars, TypeOK, Database
  <2>2. Onward(work, work')
    BY <2>1 DEF Onward
  <2>3. Good(db', work', made'.runs)
    BY <2>1, <2>2, GoodKept DEF PinInv, TypeOK
  <2>4. ASSUME backup.db # NoBackup PROVE Good(backup.db, work', made'.runs)
    BY <2>1, <2>2, <2>4, GoodKept DEF PinInv, TypeOK
  <2>5. Loaded'
    BY <2>1 DEF PinInv, Loaded, Exists, Examples
  <2> QED BY <2>1, <2>3, <2>4, <2>5 DEF PinInv
<1>2. ASSUME NEW c \in Clients, Promote(c) \/ RunImport(c) \/ Draft(c) \/ Recover(c) PROVE PinInv'
  BY <1>2, PromotePin, RunPin, DraftPin, RecoverPin
<1>3. ASSUME NEW c \in Clients, Die(c) PROVE PinInv'
  BY <1>3, Ending, AsideStep DEF Die
<1> QED BY <1>1, <1>2, <1>3 DEF Next

\* Whatever is promoted, recovered or restarted while runs are going, a run whose
\* set was read from the database its row was written to has only results that the
\* set it names explains.
THEOREM RunsArePinnedHolds == Spec => []RunsArePinned
<1>1. Init => PinInv
  BY DEF Init, PinInv, Good, Known, Follows, PinnedIn, Loaded, Idle
<1>2. PinInv => RunsArePinned
  BY DEF PinInv, Good, PinnedIn, RunsArePinned
<1> QED BY <1>1, <1>2, NextPin, TypeIsInvariant, PTL DEF Spec

-----------------------------------------------------------------------------
(* Edits. While the database is the same, the versions of a draft only     *)
(* grow, and a version has one text.                                       *)

Latest(w) ==
  w.step = "editing" /\ w.epoch = epoch =>
    \A e \in w.left : LET d == db.drafts[e] IN
      /\ w.draft.version # 0 /\ w.draft.version <= d.version
      /\ w.draft.version = d.version => d.text = w.draft.text

EditInv == \A c \in Clients : work[c].epoch <= epoch /\ Latest(work[c])

\* What a step does to the drafts.
LEMMA DraftsGrow ==
  ASSUME TypeOK, TypeOK', [Next]_vars
  PROVE  \/ epoch' = epoch + 1
         \/ /\ epoch' = epoch
            /\ \A e \in Emails : \/ db'.drafts[e] = db.drafts[e]
                                 \/ db'.drafts[e].version > db.drafts[e].version
<1>1. CASE Correct \/ Export \/ UNCHANGED vars
  BY <1>1 DEF Correct, Export, vars, TypeOK, Database
<1>2. ASSUME NEW c \in Clients, Promote(c) \/ RunImport(c) \/ Die(c)
      PROVE  epoch' = epoch /\ db'.drafts = db.drafts
  BY <1>2 DEF Promote, ListCandidates, CreateSet, CreateRefused,
              RunImport, LoadSet, CreateRun, CompleteRun, Process, Die, TypeOK, Database
<1>3. ASSUME NEW c \in Clients, Recover(c)
      PROVE  epoch' = epoch + 1 \/ (epoch' = epoch /\ db'.drafts = db.drafts)
  BY <1>3 DEF Recover, BackupFiles, BackupDatabase, RecoverStart, RecoverFiles, RecoverRefused,
              RecoverDatabase
<1>4. ASSUME NEW c \in Clients, Draft(c)
      PROVE  /\ epoch' = epoch
             /\ \A e \in Emails : \/ db'.drafts[e] = db.drafts[e]
                                  \/ db'.drafts[e].version > db.drafts[e].version
  <2>1. ASSUME NEW e \in Emails, CreateDraftRead(c, e) \/ ReadDraft(c, e)
        PROVE  epoch' = epoch /\ db' = db
    BY <2>1 DEF CreateDraftRead, ReadDraft
  <2>2. ASSUME CreateDraft(c), NEW e \in Emails
        PROVE  /\ epoch' = epoch
               /\ db'.drafts[e] = db.drafts[e] \/ db'.drafts[e].version > db.drafts[e].version
    <3>1. db.drafts \in [Emails -> DraftRow]
      BY DEF TypeOK, Database, Drafts
    <3>2. PICK f \in work[c].left :
            db' = IF db.drafts[f].version = 0
                  THEN [db EXCEPT !.drafts[f] =
                          [id |-> made.texts + 1, version |-> 1, text |-> made.texts + 1,
                           about |-> work[c].draft.about]]
                  ELSE db
      BY <2>2 DEF CreateDraft
    <3>3. db'.drafts = IF db.drafts[f].version = 0
                       THEN [db.drafts EXCEPT ![f] =
                               [id |-> made.texts + 1, version |-> 1, text |-> made.texts + 1,
                                about |-> work[c].draft.about]]
                       ELSE db.drafts
      BY <3>2 DEF TypeOK, Database
    <3>4. f \in Emails
      BY DEF TypeOK, Work
    <3>5. CASE db.drafts[f].version = 0 /\ e = f
      <4>1. db'.drafts[e].version = 1
        BY <3>1, <3>3, <3>4, <3>5
      <4> QED BY <2>2, <3>5, <4>1 DEF CreateDraft
    <3>6. CASE ~(db.drafts[f].version = 0 /\ e = f)
      BY <2>2, <3>1, <3>3, <3>6 DEF CreateDraft
    <3> QED BY <3>5, <3>6
  <2>3. ASSUME NEW f \in work[c].left, UpdateDraft(c, f), NEW e \in Emails
        PROVE  /\ epoch' = epoch
               /\ db'.drafts[e] = db.drafts[e] \/ db'.drafts[e].version > db.drafts[e].version
    <3>1. db.drafts \in [Emails -> DraftRow] /\ db.drafts[e].version \in Nat
      BY DEF TypeOK, Database, Drafts, DraftRow
    <3>2. db'.drafts = [db.drafts EXCEPT ![f] = [db.drafts[f] EXCEPT !.version = @ + 1,
                                                                      !.text = made.texts + 1]]
      BY <2>3 DEF UpdateDraft, TypeOK, Database
    <3>3. f \in Emails /\ db.drafts[f] \in DraftRow
      BY <3>1 DEF TypeOK, Work
    <3>4. db'.drafts[f].version = db.drafts[f].version + 1
      BY <3>1, <3>2, <3>3 DEF DraftRow
    <3> QED BY <2>3, <3>1, <3>2, <3>4 DEF UpdateDraft
  <2>4. ASSUME NEW e \in work[c].left, UpdateRefused(c, e) PROVE epoch' = epoch /\ db' = db
    BY <2>4 DEF UpdateRefused
  <2>5. CASE \E e \in Emails : CreateDraftRead(c, e) \/ ReadDraft(c, e)
    BY <2>1, <2>5
  <2>6. CASE CreateDraft(c)
    <3>1. epoch' = epoch
      BY <2>6 DEF CreateDraft
    <3> QED BY <2>2, <2>6, <3>1
  <2>7. CASE \E e \in work[c].left : UpdateDraft(c, e) \/ UpdateRefused(c, e)
    <3>1. PICK f \in work[c].left : UpdateDraft(c, f) \/ UpdateRefused(c, f)
      BY <2>7
    <3>2. CASE UpdateDraft(c, f)
      <4>1. epoch' = epoch
        BY <3>2 DEF UpdateDraft
      <4> QED BY <2>3, <3>2, <4>1
    <3>3. CASE UpdateRefused(c, f)
      BY <2>4, <3>3
    <3> QED BY <3>1, <3>2, <3>3
  <2> QED BY <1>4, <2>5, <2>6, <2>7 DEF Draft
<1> QED BY <1>1, <1>2, <1>3, <1>4 DEF Next

\* What a step does to the client that may be editing.
LEMMA WorkGoes ==
  ASSUME TypeOK, TypeOK', EditInv, [Next]_vars, NEW c \in Clients
  PROVE  \/ /\ work'[c].step = work[c].step /\ work'[c].epoch = work[c].epoch
            /\ work'[c].draft = work[c].draft
            /\ work'[c].step = "editing" => work'[c].left = work[c].left
         \/ work'[c].step # "editing" /\ work'[c].epoch <= epoch
         \/ \E e \in Emails : ReadDraft(c, e)
<1> DEFINE Kept == /\ work'[c].step = work[c].step /\ work'[c].epoch = work[c].epoch
                   /\ work'[c].draft = work[c].draft
                   /\ work'[c].step = "editing" => work'[c].left = work[c].left
           Off == work'[c].step # "editing" /\ work'[c].epoch <= epoch
           Read == \E e \in Emails : ReadDraft(c, e)
<1>1. CASE Correct \/ Export \/ UNCHANGED vars
  BY <1>1 DEF Correct, Export, vars
<1>2. ASSUME NEW b \in Clients, End(b) PROVE Kept \/ Off
  <2>1. work'[c] = IF c = b THEN Idle ELSE work[c]
    BY <1>2 DEF End, TypeOK
  <2> QED BY <2>1 DEF Idle, TypeOK
<1>3. ASSUME NEW b \in Clients, NEW x, work' = [work EXCEPT ![b] = x],
             x.step # "editing", x.epoch <= epoch
      PROVE  Kept \/ Off
  BY <1>3 DEF TypeOK
<1>4. \A b \in Clients : work[b].epoch <= epoch /\ Idle.epoch <= epoch
  BY DEF EditInv, Idle, TypeOK
<1>5. ASSUME NEW b \in Clients, Promote(b) PROVE Kept \/ Off
  <2>1. CASE ListCandidates(b)
    <3> DEFINE x == [Idle EXCEPT !.step = "promoting", !.examples = Candidates]
    <3>1. work' = [work EXCEPT ![b] = x]
      BY <2>1 DEF ListCandidates, Begin
    <3>2. x.step # "editing" /\ x.epoch <= epoch
      BY DEF Idle, TypeOK
    <3> QED BY <3>1, <3>2, <1>3
  <2> QED BY <1>5, <2>1, <1>2 DEF Promote, CreateSet, CreateRefused
<1>6. ASSUME NEW b \in Clients, RunImport(b) PROVE Kept \/ Off
  <2>1. CASE LoadSet(b)
    <3> DEFINE x == [Idle EXCEPT !.step = "loaded", !.version = ActiveSet,
                                 !.examples = Examples(db, ActiveSet), !.epoch = epoch]
    <3>1. work' = [work EXCEPT ![b] = x]
      BY <2>1 DEF LoadSet, Begin
    <3>2. x.step # "editing" /\ x.epoch <= epoch
      BY DEF Idle, TypeOK
    <3> QED BY <3>1, <3>2, <1>3
  <2>2. CASE CreateRun(b)
    BY <2>2, <1>4 DEF CreateRun, TypeOK, Work
  <2>3. CASE CompleteRun(b)
    BY <2>3, <1>2 DEF CompleteRun
  <2>4. ASSUME NEW e \in work[b].left, Process(b, e) PROVE Kept
    BY <2>4 DEF Process, TypeOK, Work
  <2> QED BY <1>6, <2>1, <2>2, <2>3, <2>4 DEF RunImport
<1>7. ASSUME NEW b \in Clients, Draft(b) PROVE Kept \/ Off \/ Read
  <2>1. ASSUME NEW e \in Emails, CreateDraftRead(b, e) PROVE Kept \/ Off
    <3> DEFINE x == [Idle EXCEPT !.step = "drafting", !.left = {e},
                                 !.draft = [NoDraft EXCEPT !.about = db.results[e].run]]
    <3>1. work' = [work EXCEPT ![b] = x]
      BY <2>1 DEF CreateDraftRead, Begin
    <3>2. x.step # "editing" /\ x.epoch <= epoch
      BY DEF Idle, TypeOK
    <3> QED BY <3>1, <3>2, <1>3
  <2>2. ASSUME NEW e \in Emails, ReadDraft(b, e) PROVE Kept \/ Read
    <3>1. CASE b = c
      BY <2>2, <3>1
    <3>2. CASE b # c
      BY <2>2, <3>2 DEF ReadDraft, Begin, TypeOK
    <3> QED BY <3>1, <3>2
  <2> QED BY <1>7, <2>1, <2>2, <1>2 DEF Draft, CreateDraft, UpdateDraft, UpdateRefused
<1>8. ASSUME NEW b \in Clients, Recover(b) PROVE Kept \/ Off
  <2>1. CASE BackupFiles(b) \/ RecoverStart(b)
    <3>1. PICK s \in {"backing", "recovering"} : work' = [work EXCEPT ![b] = [Idle EXCEPT !.step = s]]
      BY <2>1 DEF BackupFiles, RecoverStart, Begin
    <3>2. [Idle EXCEPT !.step = s].step # "editing" /\ [Idle EXCEPT !.step = s].epoch <= epoch
      BY DEF Idle, TypeOK
    <3> QED BY <3>1, <3>2, <1>3
  <2>2. CASE RecoverFiles(b)
    BY <2>2, <1>4 DEF RecoverFiles, TypeOK, Work
  <2> QED BY <1>8, <2>1, <2>2, <1>2 DEF Recover, BackupDatabase, RecoverRefused, RecoverDatabase
<1>9. ASSUME NEW b \in Clients, Die(b) PROVE Kept \/ Off
  BY <1>9, <1>2 DEF Die
<1> QED BY <1>1, <1>5, <1>6, <1>7, <1>8, <1>9 DEF Next

LEMMA EditStep == TypeOK /\ TypeOK' /\ EditInv /\ [Next]_vars => EditInv'
<1> SUFFICES ASSUME TypeOK, TypeOK', EditInv, [Next]_vars, NEW c \in Clients
             PROVE  work'[c].epoch <= epoch' /\ Latest(work[c])'
  BY DEF EditInv
<1>1. /\ work[c].epoch \in Nat /\ epoch \in Nat /\ epoch' \in Nat
      /\ work[c].draft.version \in Nat /\ work[c].left \subseteq Emails
      /\ \A e \in Emails : db.drafts[e].version \in Nat /\ db'.drafts[e].version \in Nat
  BY DEF TypeOK, Work, Database, Drafts, DraftRow
<1>2. epoch <= epoch'
  BY <1>1, DraftsGrow
<1>3. CASE /\ work'[c].step = work[c].step /\ work'[c].epoch = work[c].epoch
           /\ work'[c].draft = work[c].draft
           /\ work'[c].step = "editing" => work'[c].left = work[c].left
  <2>1. work'[c].epoch <= epoch'
    BY <1>1, <1>2, <1>3 DEF EditInv
  <2>2. ASSUME work'[c].step = "editing", work'[c].epoch = epoch', NEW e \in work'[c].left
        PROVE  /\ work'[c].draft.version # 0 /\ work'[c].draft.version <= db'.drafts[e].version
               /\ work'[c].draft.version = db'.drafts[e].version =>
                    db'.drafts[e].text = work'[c].draft.text
    <3>1. epoch' = epoch /\ (\/ db'.drafts[e] = db.drafts[e]
                             \/ db'.drafts[e].version > db.drafts[e].version)
      <4>1. epoch' <= epoch /\ e \in Emails
        BY <1>1, <1>3, <2>2 DEF EditInv
      <4>2. epoch' # epoch + 1
        BY <1>1, <4>1
      <4> QED BY <4>1, <4>2, DraftsGrow
    <3>2. /\ work[c].draft.version # 0 /\ work[c].draft.version <= db.drafts[e].version
          /\ work[c].draft.version = db.drafts[e].version =>
               db.drafts[e].text = work[c].draft.text
      BY <1>3, <2>2, <3>1 DEF EditInv, Latest
    <3> QED BY <1>1, <1>3, <2>2, <3>1, <3>2
  <2> QED BY <2>1, <2>2 DEF Latest
<1>4. CASE work'[c].step # "editing" /\ work'[c].epoch <= epoch
  <2>1. work'[c].epoch <= epoch'
    BY <1>1, <1>2, <1>4 DEF TypeOK, Work
  <2> QED BY <1>4, <2>1 DEF Latest
<1>5. ASSUME NEW e \in Emails, ReadDraft(c, e) PROVE work'[c].epoch <= epoch' /\ Latest(work[c])'
  <2>1. /\ work'[c] = [Idle EXCEPT !.step = "editing", !.left = {e}, !.draft = db.drafts[e],
                                   !.epoch = epoch]
        /\ db.drafts[e].version # 0 /\ db' = db /\ epoch' = epoch
    BY <1>5 DEF ReadDraft, Begin, TypeOK
  <2>2. work'[c].left = {e} /\ work'[c].draft = db'.drafts[e] /\ work'[c].epoch = epoch'
    BY <2>1 DEF Idle
  <2> QED BY <1>1, <2>1, <2>2 DEF Latest
<1> QED BY <1>3, <1>4, <1>5, WorkGoes

\* An edit of a draft that is accepted replaces the text its author has read, with
\* any number of people editing, if the database was not replaced in between.
THEOREM EditsHold == Spec => EditsReplaceWhatWasRead
<1>1. Init => EditInv
  BY DEF Init, EditInv, Latest, Idle
<1>2. EditInv /\ [Next]_vars =>
        [\A c \in Clients : \A e \in work[c].left :
           UpdateDraft(c, e) /\ work[c].epoch = epoch => db.drafts[e].text = work[c].draft.text]_vars
  <2> SUFFICES ASSUME EditInv, NEW c \in Clients, NEW e \in work[c].left,
                      UpdateDraft(c, e), work[c].epoch = epoch
               PROVE  db.drafts[e].text = work[c].draft.text
    OBVIOUS
  <2> QED BY DEF EditInv, Latest, UpdateDraft, Expected
<1> QED BY <1>1, <1>2, EditStep, TypeIsInvariant, PTL DEF Spec, EditsReplaceWhatWasRead
=============================================================================
