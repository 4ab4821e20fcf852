-------------------------- MODULE ImportRunProofs --------------------------
(***************************************************************************)
(* Proofs about ImportRun for sources of any size, any clients and runs.   *)
(*                                                                         *)
(* A run that succeeded has no client left that could write it: clients    *)
(* work on different runs, and on runs without a result.                   *)
(***************************************************************************)
EXTENDS ImportRun, TLAPS

\* Nobody imports before there is a row or after the counts were stored.
ImportsOpen ==
  \A c \in Clients : Importing(c) => batch.exists /\ ~batch.counted

\* What runs and the clients that work on them know of each other.
RunsApart ==
  /\ \A r \in Runs : runs[r].result # NoResult <=> runs[r].status = "SUCCEEDED"
  /\ \A c \in Clients : Running(c) =>
       /\ work[c].run \in Runs
       /\ runs[work[c].run].status \in {"RUNNING", "CANCELLED"}
       /\ \A d \in Clients \ {c} : Running(d) => work[d].run # work[c].run
       /\ \A e \in (1..work[c].emails) \ work[c].left : shown[e] # NoRun

ExportsSucceeded == \A x \in exports : runs[x.run].status = "SUCCEEDED"

\* Without a row nothing is stored.
Untouched == ~batch.exists => ~batch.counted /\ batch.emails = 0 /\ batch.documents = 0

Counted == CountedIsWhole /\ Untouched

IInv == /\ TypeOK /\ ImportsOpen /\ OneImporter /\ Counted
        /\ RunsApart /\ ResultsAreSaved
        /\ ExportsSucceeded /\ CountedExportsCoverAll

-----------------------------------------------------------------------------
(* Types.                                                                  *)

LEMMA IdleType ==
  /\ Idle \in Work /\ Idle.kind = "idle" /\ Idle.step = "start"
  BY ImportRunAssumption DEF Idle, Work

LEMMA InitType == Init => TypeOK
<1> SUFFICES ASSUME Init PROVE TypeOK
  OBVIOUS
<1>1. batch \in Batch
  BY ImportRunAssumption DEF Init, Batch
<1>2. [status |-> "NONE", result |-> NoResult, documents |-> 0] \in Run
  BY ImportRunAssumption DEF Run, Statuses
<1>3. QED
  BY <1>1, <1>2, IdleType DEF Init, TypeOK


-----------------------------------------------------------------------------
(* What a step leaves alone.                                               *)

ImportSide == ImportsOpen /\ OneImporter /\ Counted
RunSide == RunsApart /\ ResultsAreSaved /\ ExportsSucceeded /\ CountedExportsCoverAll

LEMMA ImportSideKept ==
  ASSUME IInv, batch' = batch,
         \A c \in Clients : Importing(c)' => Importing(c) /\ work'[c] = work[c]
  PROVE  ImportSide'
<1>1. ImportsOpen'
  BY DEF IInv, ImportsOpen
<1>2. OneImporter'
  BY DEF IInv, OneImporter
<1>3. Counted'
  BY DEF IInv, Counted, CountedIsWhole, Untouched
<1>4. QED
  BY <1>1, <1>2, <1>3 DEF ImportSide

LEMMA RunSideKept ==
  ASSUME IInv, UNCHANGED <<runs, shown, exports>>,
         \A c \in Clients : Running(c)' => Running(c) /\ work'[c] = work[c]
  PROVE  RunSide'
<1>1. RunsApart'
  BY DEF IInv, RunsApart
<1>2. ResultsAreSaved'
  BY DEF IInv, ResultsAreSaved
<1>3. ExportsSucceeded' /\ CountedExportsCoverAll'
  BY DEF IInv, ExportsSucceeded, CountedExportsCoverAll
<1>4. QED
  BY <1>1, <1>2, <1>3 DEF RunSide

\* The entries of all clients but one stay.
LEMMA OneClient ==
  ASSUME TypeOK, NEW c \in Clients, NEW w \in Work, work' = [work EXCEPT ![c] = w]
  PROVE  /\ work' \in [Clients -> Work] /\ work'[c] = w
         /\ \A d \in Clients \ {c} : work'[d] = work[d]
  BY DEF TypeOK

-----------------------------------------------------------------------------
(* The import.                                                             *)

LEMMA ImportCreateInv ==
  ASSUME IInv, NEW c \in Clients, ImportCreate(c)
  PROVE  IInv'
<1> DEFINE w == [Idle EXCEPT !.kind = "import"]
<1>1. /\ w \in Work /\ w.kind = "import" /\ w.emails = 0 /\ w.documents = 0
  BY ImportRunAssumption DEF Idle, Work
<1>2. /\ work[c].kind = "idle" /\ ~batch.exists /\ work' = [work EXCEPT ![c] = w]
      /\ batch' = [batch EXCEPT !.exists = TRUE]
      /\ UNCHANGED <<runs, shown, answered, exports>>
  BY DEF ImportCreate
<1> HIDE DEF w
<1>3. work' \in [Clients -> Work] /\ work'[c] = w /\ \A d \in Clients \ {c} : work'[d] = work[d]
  BY <1>1, <1>2, OneClient DEF IInv
<1>4. /\ batch \in Batch /\ batch' \in Batch /\ batch'.exists
      /\ batch'.emails = batch.emails /\ batch'.documents = batch.documents
      /\ batch'.counted = batch.counted
  BY <1>2 DEF IInv, TypeOK, Batch
<1>5. TypeOK'
  BY <1>2, <1>3, <1>4 DEF IInv, TypeOK
<1>6. \A d \in Clients : ~Importing(d)
  BY <1>2 DEF IInv, ImportsOpen
<1>7. ~batch.counted /\ batch.emails = 0 /\ batch.documents = 0
  BY <1>2 DEF IInv, Counted, Untouched
<1>8. ImportSide'
  BY <1>1, <1>3, <1>4, <1>6, <1>7
     DEF ImportSide, ImportsOpen, OneImporter, Counted, CountedIsWhole, Untouched, Importing
<1>9. RunSide'
  <2>1. \A d \in Clients : Running(d)' => Running(d) /\ work'[d] = work[d]
    BY <1>1, <1>3 DEF Running
  <2>2. QED
    BY <1>2, <2>1, RunSideKept
<1>10. QED
  BY <1>5, <1>8, <1>9 DEF IInv, ImportSide, RunSide

\* Storing an email or a document, and the counts at the end.
LEMMA AddEmailInv ==
  ASSUME IInv, NEW c \in Clients, AddEmail(c)
  PROVE  IInv'
<1> DEFINE w == [work[c] EXCEPT !.emails = @ + 1]
<1>1. /\ work[c] \in Work /\ batch \in Batch /\ NE \in Nat /\ ND \in Nat
  BY ImportRunAssumption DEF IInv, TypeOK
<1>2. /\ Importing(c) /\ work[c].emails < NE
      /\ work' = [work EXCEPT ![c] = w]
      /\ batch' = [batch EXCEPT !.emails = @ + 1]
      /\ UNCHANGED <<runs, shown, answered, exports>>
  BY DEF AddEmail, IInv, TypeOK
<1>3. batch.emails = work[c].emails /\ batch.documents = work[c].documents
      /\ \A d \in Clients \ {c} : ~Importing(d)
  BY <1>2 DEF IInv, OneImporter
<1>4. w \in Work /\ w.kind = "import" /\ w.emails = work[c].emails + 1
      /\ w.documents = work[c].documents
  BY <1>1, <1>2 DEF Work, Importing
<1> HIDE DEF w
<1>5. work' \in [Clients -> Work] /\ work'[c] = w /\ \A d \in Clients \ {c} : work'[d] = work[d]
  BY <1>2, <1>4, OneClient DEF IInv
<1>6. /\ batch' \in Batch /\ batch'.emails = w.emails /\ batch'.documents = w.documents
      /\ batch'.exists = batch.exists /\ batch'.counted = batch.counted
  BY <1>1, <1>2, <1>3, <1>4 DEF Batch
<1>7. TypeOK'
  BY <1>2, <1>5, <1>6 DEF IInv, TypeOK
<1>8. batch.exists /\ ~batch.counted
  BY <1>2 DEF IInv, ImportsOpen
<1>9. ImportSide'
  BY <1>3, <1>4, <1>5, <1>6, <1>8
     DEF ImportSide, ImportsOpen, OneImporter, Counted, CountedIsWhole, Untouched, Importing
<1>10. RunSide'
  <2>1. \A d \in Clients : Running(d)' => Running(d) /\ work'[d] = work[d]
    BY <1>4, <1>5 DEF Running
  <2>2. QED
    BY <1>2, <2>1, RunSideKept
<1>11. QED
  BY <1>7, <1>9, <1>10 DEF IInv, ImportSide, RunSide

LEMMA AddDocumentInv ==
  ASSUME IInv, NEW c \in Clients, AddDocument(c)
  PROVE  IInv'
<1> DEFINE w == [work[c] EXCEPT !.documents = @ + 1]
<1>1. /\ work[c] \in Work /\ batch \in Batch /\ NE \in Nat /\ ND \in Nat
  BY ImportRunAssumption DEF IInv, TypeOK
<1>2. /\ Importing(c) /\ work[c].documents < ND
      /\ work' = [work EXCEPT ![c] = w]
      /\ batch' = [batch EXCEPT !.documents = @ + 1]
      /\ UNCHANGED <<runs, shown, answered, exports>>
  BY DEF AddDocument, IInv, TypeOK
<1>3. batch.emails = work[c].emails /\ batch.documents = work[c].documents
      /\ \A d \in Clients \ {c} : ~Importing(d)
  BY <1>2 DEF IInv, OneImporter
<1>4. w \in Work /\ w.kind = "import" /\ w.documents = work[c].documents + 1
      /\ w.emails = work[c].emails
  BY <1>1, <1>2 DEF Work, Importing
<1> HIDE DEF w
<1>5. work' \in [Clients -> Work] /\ work'[c] = w /\ \A d \in Clients \ {c} : work'[d] = work[d]
  BY <1>2, <1>4, OneClient DEF IInv
<1>6. /\ batch' \in Batch /\ batch'.emails = w.emails /\ batch'.documents = w.documents
      /\ batch'.exists = batch.exists /\ batch'.counted = batch.counted
  BY <1>1, <1>2, <1>3, <1>4 DEF Batch
<1>7. TypeOK'
  BY <1>2, <1>5, <1>6 DEF IInv, TypeOK
<1>8. batch.exists /\ ~batch.counted
  BY <1>2 DEF IInv, ImportsOpen
<1>9. ImportSide'
  BY <1>3, <1>4, <1>5, <1>6, <1>8
     DEF ImportSide, ImportsOpen, OneImporter, Counted, CountedIsWhole, Untouched, Importing
<1>10. RunSide'
  <2>1. \A d \in Clients : Running(d)' => Running(d) /\ work'[d] = work[d]
    BY <1>4, <1>5 DEF Running
  <2>2. QED
    BY <1>2, <2>1, RunSideKept
<1>11. QED
  BY <1>7, <1>9, <1>10 DEF IInv, ImportSide, RunSide

LEMMA UpdateCountsInv ==
  ASSUME IInv, NEW c \in Clients, UpdateCounts(c)
  PROVE  IInv'
<1>1. /\ Importing(c) /\ work[c].emails = NE /\ work[c].documents = ND
      /\ work' = [work EXCEPT ![c] = Idle]
      /\ batch' = [batch EXCEPT !.counted = TRUE] /\ answered' = TRUE
      /\ UNCHANGED <<runs, shown, exports>>
  BY DEF UpdateCounts, End
<1>2. batch.emails = NE /\ batch.documents = ND /\ \A d \in Clients \ {c} : ~Importing(d)
  BY <1>1 DEF IInv, OneImporter
<1>3. work' \in [Clients -> Work] /\ work'[c].kind = "idle"
      /\ \A d \in Clients \ {c} : work'[d] = work[d]
  BY <1>1, IdleType, OneClient DEF IInv
<1>4. /\ batch' \in Batch /\ batch'.emails = batch.emails /\ batch'.documents = batch.documents
      /\ batch'.exists = batch.exists /\ batch'.counted
  BY <1>1 DEF IInv, TypeOK, Batch
<1>5. TypeOK'
  BY <1>1, <1>3, <1>4 DEF IInv, TypeOK
<1>6. batch.exists
  BY <1>1 DEF IInv, ImportsOpen
<1>7. ImportSide'
  BY <1>2, <1>3, <1>4, <1>6
     DEF ImportSide, ImportsOpen, OneImporter, Counted, CountedIsWhole, Untouched, Importing
<1>8. RunSide'
  <2>1. \A d \in Clients : Running(d)' => Running(d) /\ work'[d] = work[d]
    BY <1>3 DEF Running
  <2>2. QED
    BY <1>1, <2>1, RunSideKept
<1>9. QED
  BY <1>5, <1>7, <1>8 DEF IInv, ImportSide, RunSide

LEMMA ImportInv ==
  ASSUME IInv, NEW c \in Clients, Import(c)
  PROVE  IInv'
<1>1. CASE ImportReused(c)
  <2>1. TypeOK'
    BY <1>1 DEF ImportReused, IInv, TypeOK
  <2>2. UNCHANGED <<batch, runs, shown, work, exports>>
    BY <1>1 DEF ImportReused
  <2>3. \A d \in Clients : /\ Importing(d)' => Importing(d) /\ work'[d] = work[d]
                           /\ Running(d)' => Running(d) /\ work'[d] = work[d]
    BY <2>2 DEF Importing, Running
  <2>4. ImportSide'
    BY <2>2, <2>3, ImportSideKept
  <2>5. RunSide'
    BY <2>2, <2>3, RunSideKept
  <2>6. QED
    BY <2>1, <2>4, <2>5 DEF IInv, ImportSide, RunSide
<1>2. QED
  BY <1>1, ImportCreateInv, AddEmailInv, AddDocumentInv, UpdateCountsInv DEF Import

-----------------------------------------------------------------------------
(* The runs.                                                               *)

\* What a step of a run leaves of the import: nobody starts to import.
LEMMA RunStepKeepsImport ==
  ASSUME IInv, NEW c \in Clients, NEW w \in Work, w.kind # "import",
         work' = [work EXCEPT ![c] = w], batch' = batch
  PROVE  ImportSide'
<1>1. work'[c] = w /\ \A d \in Clients \ {c} : work'[d] = work[d]
  BY OneClient DEF IInv
<1>2. \A d \in Clients : Importing(d)' => Importing(d) /\ work'[d] = work[d]
  BY <1>1 DEF Importing
<1>3. QED
  BY <1>2, ImportSideKept

\* Reading and dying, which no run notices.
LEMMA QuietInv ==
  ASSUME IInv, NEW c \in Clients, NEW w \in Work,
         w.kind = "idle" \/ (w.kind = "run" /\ w.step # "working"),
         work' = [work EXCEPT ![c] = w],
         UNCHANGED <<batch, runs, shown, answered, exports>>
  PROVE  IInv'
<1>1. work' \in [Clients -> Work] /\ work'[c] = w /\ \A d \in Clients \ {c} : work'[d] = work[d]
  BY OneClient DEF IInv
<1>2. TypeOK'
  BY <1>1 DEF IInv, TypeOK
<1>3. ImportSide'
  BY RunStepKeepsImport
<1>4. RunSide'
  <2>1. \A d \in Clients : Running(d)' => Running(d) /\ work'[d] = work[d]
    BY <1>1 DEF Running
  <2>2. QED
    BY <2>1, RunSideKept
<1>5. QED
  BY <1>2, <1>3, <1>4 DEF IInv, ImportSide, RunSide

LEMMA RunEmailsInv ==
  ASSUME IInv, NEW c \in Clients, RunEmails(c)
  PROVE  IInv'
<1> DEFINE w == [Idle EXCEPT !.kind = "run", !.emails = batch.emails]
<1>1. w \in Work /\ w.kind = "run" /\ w.step # "working"
  <2>1. batch.emails \in 0..NE
    BY DEF IInv, TypeOK, Batch
  <2>2. QED
    BY <2>1, IdleType DEF Work
<1>2. work' = [work EXCEPT ![c] = w] /\ UNCHANGED <<batch, runs, shown, answered, exports>>
  BY DEF RunEmails
<1> HIDE DEF w
<1>3. QED
  BY <1>1, <1>2, QuietInv

LEMMA RunDocumentsInv ==
  ASSUME IInv, NEW c \in Clients, RunDocuments(c)
  PROVE  IInv'
<1> DEFINE w == [work[c] EXCEPT !.step = "read", !.documents = batch.documents]
<1>1. work[c] \in Work /\ batch \in Batch /\ work[c].kind = "run"
  BY DEF RunDocuments, IInv, TypeOK
<1>2. w \in Work /\ w.kind = "run" /\ w.step # "working"
  BY <1>1 DEF Batch, Work
<1>3. work' = [work EXCEPT ![c] = w] /\ UNCHANGED <<batch, runs, shown, answered, exports>>
  BY DEF RunDocuments, IInv, TypeOK
<1> HIDE DEF w
<1>4. QED
  BY <1>2, <1>3, QuietInv

LEMMA AbortInv ==
  ASSUME IInv, NEW c \in Clients, Abort(c)
  PROVE  IInv'
  BY IdleType, QuietInv DEF Abort, End

LEMMA RunCreateInv ==
  ASSUME IInv, NEW c \in Clients, NEW r \in Runs, RunCreate(c, r)
  PROVE  IInv'
<1> DEFINE w == [work[c] EXCEPT !.step = "working", !.run = r, !.left = 1..work[c].emails]
           row == [runs[r] EXCEPT !.status = "RUNNING", !.documents = work[c].documents]
<1>1. work[c] \in Work /\ runs[r] \in Run /\ NE \in Nat /\ ND \in Nat
  BY ImportRunAssumption DEF IInv, TypeOK
<1>2. /\ work[c].kind = "run" /\ work[c].step = "read" /\ runs[r].status = "NONE"
      /\ runs' = [runs EXCEPT ![r] = row] /\ work' = [work EXCEPT ![c] = w]
      /\ UNCHANGED <<batch, shown, answered, exports>>
  BY DEF RunCreate, IInv, TypeOK
<1>3. /\ w \in Work /\ w.kind = "run" /\ w.run = r /\ w.emails = work[c].emails
      /\ w.left = 1..w.emails
  <2>1. work[c].emails \in 0..NE
    BY <1>1 DEF Work
  <2>2. 1..work[c].emails \in SUBSET Emails
    BY <1>1, <2>1 DEF Emails
  <2>3. QED
    BY <1>1, <1>2, <2>1, <2>2 DEF Work
<1>4. row \in Run /\ row.status = "RUNNING" /\ row.result = runs[r].result
  BY <1>1 DEF Run, Work, Statuses
<1> HIDE DEF w, row
<1>5. work' \in [Clients -> Work] /\ work'[c] = w /\ \A d \in Clients \ {c} : work'[d] = work[d]
  BY <1>2, <1>3, OneClient DEF IInv
<1>6. /\ runs' \in [Runs -> Run] /\ runs'[r] = row /\ \A q \in Runs \ {r} : runs'[q] = runs[q]
  BY <1>2, <1>4 DEF IInv, TypeOK
<1>7. runs[r].result = NoResult
  BY <1>2 DEF IInv, RunsApart
<1>8. TypeOK'
  BY <1>2, <1>5, <1>6 DEF IInv, TypeOK
<1>9. ImportSide'
  BY <1>2, <1>3, RunStepKeepsImport
<1>10. \A d \in Clients : Running(d) => work[d].run # r
  BY <1>2 DEF IInv, RunsApart
<1>11. RunsApart'
  <2>1. \A q \in Runs : runs'[q].result # NoResult <=> runs'[q].status = "SUCCEEDED"
    BY <1>4, <1>6, <1>7 DEF IInv, RunsApart
  <2>2. ASSUME NEW d \in Clients, Running(d)'
        PROVE  /\ work'[d].run \in Runs
               /\ runs'[work'[d].run].status \in {"RUNNING", "CANCELLED"}
               /\ \A k \in Clients \ {d} : Running(k)' => work'[k].run # work'[d].run
               /\ \A e \in (1..work'[d].emails) \ work'[d].left : shown'[e] # NoRun
    <3>1. CASE d = c
      BY <1>3, <1>4, <1>5, <1>6, <1>10, <3>1 DEF Running
    <3>2. CASE d # c
      <4>1. Running(d) /\ work'[d] = work[d] /\ work[d].run # r
        BY <1>5, <1>10, <2>2, <3>2 DEF Running
      <4>2. \A k \in Clients \ {d, c} : Running(k)' => Running(k) /\ work'[k] = work[k]
        BY <1>5 DEF Running
      <4>3. work'[c].run = r
        BY <1>3, <1>5
      <4>4. QED
        BY <1>2, <1>6, <4>1, <4>2, <4>3 DEF IInv, RunsApart
    <3>3. QED
      BY <3>1, <3>2
  <2>3. QED
    BY <2>1, <2>2 DEF RunsApart
<1>12. ResultsAreSaved'
  BY <1>2, <1>4, <1>6, <1>7 DEF IInv, ResultsAreSaved
<1>13. ExportsSucceeded' /\ CountedExportsCoverAll'
  <2>1. exports \subseteq [run: Runs, counted: BOOLEAN] /\ \A x \in exports : x.run # r
    BY <1>2 DEF IInv, TypeOK, ExportsSucceeded
  <2>2. \A x \in exports : runs'[x.run] = runs[x.run]
    BY <1>6, <2>1
  <2>3. QED
    BY <1>2, <2>2 DEF IInv, ExportsSucceeded, CountedExportsCoverAll
<1>14. QED
  BY <1>8, <1>9, <1>11, <1>12, <1>13 DEF IInv, ImportSide

LEMMA RunSaveInv ==
  ASSUME IInv, NEW c \in Clients, NEW e \in Emails, RunSave(c, e)
  PROVE  IInv'
<1> DEFINE w == [work[c] EXCEPT !.left = @ \ {e}]
<1>1. work[c] \in Work
  BY DEF IInv, TypeOK
<1>2. /\ Running(c) /\ work' = [work EXCEPT ![c] = w]
      /\ shown' = [shown EXCEPT ![e] = work[c].run]
      /\ UNCHANGED <<batch, runs, answered, exports>>
  BY DEF RunSave, IInv, TypeOK
<1>3. /\ w \in Work /\ w.kind = "run" /\ w.run = work[c].run /\ w.emails = work[c].emails
      /\ w.left = work[c].left \ {e}
  BY <1>1, <1>2 DEF Work, Running
<1> HIDE DEF w
<1>4. work' \in [Clients -> Work] /\ work'[c] = w /\ \A d \in Clients \ {c} : work'[d] = work[d]
  BY <1>2, <1>3, OneClient DEF IInv
<1>5. work[c].run \in Runs /\ work[c].run # NoRun
  BY <1>2, ImportRunAssumption DEF IInv, RunsApart
<1>6. /\ shown' \in [Emails -> Runs \cup {NoRun}] /\ shown'[e] # NoRun
      /\ \A f \in Emails : shown[f] # NoRun => shown'[f] # NoRun
      /\ \A f : f # e => shown'[f] = shown[f]
  BY <1>2, <1>5 DEF IInv, TypeOK
<1>7. TypeOK'
  BY <1>2, <1>4, <1>6 DEF IInv, TypeOK
<1>8. ImportSide'
  BY <1>2, <1>3, RunStepKeepsImport
<1>9. RunsApart'
  <2>1. \A d \in Clients : Running(d)' =>
           Running(d) /\ work'[d].run = work[d].run /\ work'[d].emails = work[d].emails
    BY <1>2, <1>3, <1>4 DEF Running
  <2>2. \A d \in Clients : Running(d)' =>
           \A f \in (1..work'[d].emails) \ work'[d].left : shown'[f] # NoRun
    BY <1>2, <1>3, <1>4, <1>6, <2>1 DEF IInv, RunsApart
  <2>3. QED
    BY <1>2, <2>1, <2>2 DEF IInv, RunsApart
<1>10. ResultsAreSaved'
  <2>1. \A r \in Runs : runs[r].result = NoResult \/ runs[r].result \subseteq Emails
    BY DEF IInv, TypeOK, Run
  <2>2. QED
    BY <1>2, <1>6, <2>1 DEF IInv, ResultsAreSaved
<1>11. ExportsSucceeded' /\ CountedExportsCoverAll'
  BY <1>2 DEF IInv, ExportsSucceeded, CountedExportsCoverAll
<1>12. QED
  BY <1>7, <1>8, <1>9, <1>10, <1>11 DEF IInv, ImportSide

LEMMA RunCompleteInv ==
  ASSUME IInv, NEW c \in Clients, RunComplete(c)
  PROVE  IInv'
<1> DEFINE r == work[c].run
           row == Completed(runs[r], 1..work[c].emails)
<1>1. work[c] \in Work /\ NE \in Nat
  BY ImportRunAssumption DEF IInv, TypeOK
<1>2. /\ Running(c) /\ work[c].left = {}
      /\ runs' = [runs EXCEPT ![r] = Completed(@, 1..work[c].emails)]
      /\ work' = [work EXCEPT ![c] = Idle] /\ UNCHANGED <<batch, shown, answered, exports>>
  BY DEF RunComplete, End
<1>3. /\ r \in Runs /\ runs[r].status \in {"RUNNING", "CANCELLED"}
      /\ \A d \in Clients \ {c} : Running(d) => work[d].run # r
      /\ \A e \in 1..work[c].emails : shown[e] # NoRun
  BY <1>2 DEF IInv, RunsApart
<1>4. /\ row \in Run /\ row.status = "SUCCEEDED" /\ row.result = 1..work[c].emails
      /\ row.result # NoResult
  <2>1. work[c].emails \in 0..NE
    BY <1>1 DEF Work
  <2>2. 1..work[c].emails \in SUBSET Emails
    BY <1>1, <2>1 DEF Emails
  <2>3. 1..work[c].emails # NoResult
    BY <2>2, ImportRunAssumption DEF Emails
  <2>4. runs[r] \in Run
    BY <1>3 DEF IInv, TypeOK
  <2>5. QED
    BY <2>2, <2>3, <2>4 DEF Completed, Run, Statuses
<1>5. runs' = [runs EXCEPT ![r] = row]
  BY <1>2, <1>3 DEF IInv, TypeOK
<1> HIDE DEF r, row
<1>6. /\ runs' \in [Runs -> Run] /\ runs'[r] = row /\ \A q \in Runs \ {r} : runs'[q] = runs[q]
  BY <1>3, <1>4, <1>5 DEF IInv, TypeOK
<1>7. work' \in [Clients -> Work] /\ work'[c] = Idle /\ \A d \in Clients \ {c} : work'[d] = work[d]
  BY <1>2, IdleType, OneClient DEF IInv
<1>8. TypeOK'
  BY <1>2, <1>6, <1>7 DEF IInv, TypeOK
<1>9. ImportSide'
  BY <1>2, IdleType, RunStepKeepsImport
<1>10. RunsApart'
  <2>1. \A d \in Clients : Running(d)' => d # c /\ Running(d) /\ work'[d] = work[d]
    BY <1>7, IdleType DEF Running
  <2>2. \A q \in Runs : runs'[q].result # NoResult <=> runs'[q].status = "SUCCEEDED"
    BY <1>4, <1>6 DEF IInv, RunsApart
  <2>3. QED
    BY <1>2, <1>3, <1>6, <2>1, <2>2 DEF IInv, RunsApart
<1>11. ResultsAreSaved'
  BY <1>2, <1>3, <1>4, <1>6 DEF IInv, ResultsAreSaved
<1>12. ExportsSucceeded' /\ CountedExportsCoverAll'
  <2>1. exports \subseteq [run: Runs, counted: BOOLEAN] /\ \A x \in exports : x.run # r
    BY <1>3 DEF IInv, TypeOK, ExportsSucceeded
  <2>2. \A x \in exports : runs'[x.run] = runs[x.run]
    BY <1>6, <2>1
  <2>3. QED
    BY <1>2, <2>2 DEF IInv, ExportsSucceeded, CountedExportsCoverAll
<1>13. QED
  BY <1>8, <1>9, <1>10, <1>11, <1>12 DEF IInv, ImportSide

-----------------------------------------------------------------------------
(* Cancellations, reviews and exports.                                     *)

\* Requests of one transaction leave the clients and the import alone.
LEMMA ImportUnmoved ==
  ASSUME IInv, UNCHANGED <<batch, work>>
  PROVE  ImportSide'
<1>1. \A d \in Clients : Importing(d)' => Importing(d) /\ work'[d] = work[d]
  BY DEF Importing
<1>2. QED
  BY <1>1, ImportSideKept

LEMMA CancelInv ==
  ASSUME IInv, NEW r \in Runs, Cancel(r)
  PROVE  IInv'
<1> DEFINE row == [runs[r] EXCEPT !.status = "CANCELLED"]
<1>1. /\ runs[r] \in Run /\ runs[r].status = "RUNNING"
      /\ runs' = [runs EXCEPT ![r] = row] /\ UNCHANGED <<batch, shown, work, answered, exports>>
  BY DEF Cancel, IInv, TypeOK
<1>2. row \in Run /\ row.status = "CANCELLED" /\ row.result = runs[r].result
  BY <1>1 DEF Run, Statuses
<1> HIDE DEF row
<1>3. /\ runs' \in [Runs -> Run] /\ runs'[r] = row /\ \A q \in Runs \ {r} : runs'[q] = runs[q]
  BY <1>1, <1>2 DEF IInv, TypeOK
<1>4. TypeOK' /\ ImportSide'
  BY <1>1, <1>3, ImportUnmoved DEF IInv, TypeOK
<1>5. RunsApart'
  <2>1. \A d \in Clients : Running(d)' <=> Running(d)
    BY <1>1 DEF Running
  <2>2. \A q \in Runs : runs'[q].result # NoResult <=> runs'[q].status = "SUCCEEDED"
    BY <1>1, <1>2, <1>3 DEF IInv, RunsApart
  <2>3. \A q \in Runs : runs[q].status \in {"RUNNING", "CANCELLED"}
                        => runs'[q].status \in {"RUNNING", "CANCELLED"}
    BY <1>2, <1>3
  <2>4. QED
    BY <1>1, <2>1, <2>2, <2>3 DEF IInv, RunsApart
<1>6. ResultsAreSaved'
  BY <1>1, <1>2, <1>3 DEF IInv, ResultsAreSaved
<1>7. ExportsSucceeded' /\ CountedExportsCoverAll'
  <2>1. exports \subseteq [run: Runs, counted: BOOLEAN] /\ \A x \in exports : x.run # r
    BY <1>1 DEF IInv, TypeOK, ExportsSucceeded
  <2>2. \A x \in exports : runs'[x.run] = runs[x.run]
    BY <1>3, <2>1
  <2>3. QED
    BY <1>1, <2>2 DEF IInv, ExportsSucceeded, CountedExportsCoverAll
<1>8. QED
  BY <1>4, <1>5, <1>6, <1>7 DEF IInv, ImportSide

LEMMA ReviewInv ==
  ASSUME IInv, NEW r \in Runs, NEW e \in Emails, Review(r, e)
  PROVE  IInv'
<1> PICK result \in {{e}, {}} :
      runs' = [runs EXCEPT ![r] = [status |-> "SUCCEEDED", result |-> result,
                                   documents |-> batch.documents]]
  BY DEF Review
<1> DEFINE row == [status |-> "SUCCEEDED", result |-> result, documents |-> batch.documents]
<1>1. /\ runs[r].status = "NONE" /\ runs' = [runs EXCEPT ![r] = row]
      /\ shown' = [shown EXCEPT ![e] = r] /\ UNCHANGED <<batch, work, answered, exports>>
  BY DEF Review
<1>2. row \in Run /\ row.status = "SUCCEEDED" /\ row.result \subseteq {e} /\ row.result # NoResult
  <2>1. batch.documents \in 0..ND /\ result \in SUBSET Emails
    BY DEF IInv, TypeOK, Batch
  <2>2. result # NoResult
    BY <2>1, ImportRunAssumption DEF Emails
  <2>3. QED
    BY <2>1, <2>2 DEF Run, Statuses
<1> HIDE DEF row
<1>3. /\ runs' \in [Runs -> Run] /\ runs'[r] = row /\ \A q \in Runs \ {r} : runs'[q] = runs[q]
  BY <1>1, <1>2 DEF IInv, TypeOK
<1>4. /\ shown' \in [Emails -> Runs \cup {NoRun}] /\ shown'[e] # NoRun
      /\ \A f : f # e => shown'[f] = shown[f]
  BY <1>1, ImportRunAssumption DEF IInv, TypeOK
<1>5. TypeOK' /\ ImportSide'
  BY <1>1, <1>3, <1>4, ImportUnmoved DEF IInv, TypeOK
<1>6. RunsApart'
  <2>1. \A d \in Clients : Running(d)' <=> Running(d)
    BY <1>1 DEF Running
  <2>2. \A d \in Clients : Running(d) => work[d].run # r
    BY <1>1 DEF IInv, RunsApart
  <2>3. \A q \in Runs : runs'[q].result # NoResult <=> runs'[q].status = "SUCCEEDED"
    BY <1>2, <1>3 DEF IInv, RunsApart
  <2>4. ASSUME NEW d \in Clients, Running(d)
        PROVE  /\ work[d].run \in Runs
               /\ runs'[work[d].run].status \in {"RUNNING", "CANCELLED"}
               /\ \A k \in Clients \ {d} : Running(k) => work[k].run # work[d].run
               /\ \A f \in (1..work[d].emails) \ work[d].left : shown'[f] # NoRun
    BY <1>3, <1>4, <2>2, <2>4 DEF IInv, RunsApart
  <2>5. QED
    BY <1>1, <2>1, <2>3, <2>4 DEF RunsApart
<1>7. ResultsAreSaved'
  BY <1>2, <1>3, <1>4 DEF IInv, ResultsAreSaved
<1>8. ExportsSucceeded' /\ CountedExportsCoverAll'
  <2>1. exports \subseteq [run: Runs, counted: BOOLEAN] /\ \A x \in exports : x.run # r
    BY <1>1 DEF IInv, TypeOK, ExportsSucceeded
  <2>2. \A x \in exports : runs'[x.run] = runs[x.run]
    BY <1>3, <2>1
  <2>3. QED
    BY <1>1, <2>2 DEF IInv, ExportsSucceeded, CountedExportsCoverAll
<1>9. QED
  BY <1>5, <1>6, <1>7, <1>8 DEF IInv, ImportSide

LEMMA ExportInv ==
  ASSUME IInv, NEW r \in Runs, Export(r)
  PROVE  IInv'
<1> DEFINE x == [run |-> r, counted |-> batch.counted]
<1>1. /\ runs[r].result # NoResult /\ runs[r].result = Stored
      /\ exports' = exports \cup {x} /\ UNCHANGED <<batch, runs, shown, work, answered>>
  BY DEF Export, Valid
<1>2. x \in [run: Runs, counted: BOOLEAN] /\ x.run = r /\ x.counted = batch.counted
  BY DEF IInv, TypeOK, Batch
<1> HIDE DEF x
<1>3. TypeOK' /\ ImportSide'
  BY <1>1, <1>2, ImportUnmoved DEF IInv, TypeOK
<1>4. RunsApart' /\ ResultsAreSaved'
  <2>1. \A d \in Clients : Running(d)' <=> Running(d)
    BY <1>1 DEF Running
  <2>2. QED
    BY <1>1, <2>1 DEF IInv, RunsApart, ResultsAreSaved
<1>5. ExportsSucceeded'
  BY <1>1, <1>2 DEF IInv, ExportsSucceeded, RunsApart
<1>6. batch.counted => runs[r].result = Emails
  BY <1>1 DEF IInv, Counted, CountedIsWhole, Stored, Emails
<1>7. CountedExportsCoverAll'
  BY <1>1, <1>2, <1>6 DEF IInv, CountedExportsCoverAll
<1>8. QED
  BY <1>3, <1>4, <1>5, <1>7 DEF IInv, ImportSide

-----------------------------------------------------------------------------
(* The theorems.                                                           *)

LEMMA InitInv == Init => IInv
<1> SUFFICES ASSUME Init PROVE IInv
  OBVIOUS
<1>1. \A c \in Clients : ~Importing(c) /\ ~Running(c)
  BY IdleType DEF Init, Importing, Running
<1>2. ImportsOpen /\ OneImporter /\ Counted
  BY <1>1 DEF Init, ImportsOpen, OneImporter, Counted, CountedIsWhole, Untouched
<1>3. RunsApart /\ ResultsAreSaved
  BY <1>1 DEF Init, RunsApart, ResultsAreSaved
<1>4. ExportsSucceeded /\ CountedExportsCoverAll
  BY DEF Init, ExportsSucceeded, CountedExportsCoverAll
<1>5. QED
  BY <1>2, <1>3, <1>4, InitType DEF IInv

LEMMA StutterInv == ASSUME IInv, UNCHANGED vars PROVE IInv'
<1>1. \A c \in Clients : (Importing(c)' <=> Importing(c)) /\ (Running(c)' <=> Running(c))
  BY DEF vars, Importing, Running
<1>2. TypeOK' /\ ImportSide'
  BY ImportUnmoved DEF vars, IInv, TypeOK
<1>3. RunsApart' /\ ResultsAreSaved' /\ ExportsSucceeded' /\ CountedExportsCoverAll'
  BY <1>1 DEF vars, IInv, RunsApart, ResultsAreSaved, ExportsSucceeded, CountedExportsCoverAll
<1>4. QED
  BY <1>2, <1>3 DEF IInv, ImportSide

LEMMA NextInv == IInv /\ [Next]_vars => IInv'
<1> SUFFICES ASSUME IInv, [Next]_vars PROVE IInv'
  OBVIOUS
<1>1. ASSUME NEW c \in Clients, RunImport(c) PROVE IInv'
  BY <1>1, RunEmailsInv, RunDocumentsInv, RunCreateInv, RunSaveInv, RunCompleteInv DEF RunImport
<1>2. ASSUME NEW c \in Clients, Import(c) \/ Abort(c) PROVE IInv'
  BY <1>2, ImportInv, AbortInv
<1>3. ASSUME NEW r \in Runs, Cancel(r) \/ Export(r) \/ (\E e \in Emails : Review(r, e))
      PROVE  IInv'
  BY <1>3, CancelInv, ExportInv, ReviewInv
<1>4. CASE UNCHANGED vars
  BY <1>4, StutterInv
<1>5. QED
  BY <1>1, <1>2, <1>3, <1>4 DEF Next

\* The inductive invariant holds in every reachable state.
THEOREM Invariance == Spec => []IInv
  BY InitInv, NextInv, PTL DEF Spec

\* Every variable keeps its type; in particular the counters of the import never
\* pass the size of its source.
THEOREM TypeCorrect == Spec => []TypeOK
<1>1. IInv => TypeOK
  BY DEF IInv
<1>2. QED
  BY Invariance, <1>1, PTL

\* One importer works on a manifest, and counts are stored of whole imports only.
THEOREM ImportedOnce == Spec => [](OneImporter /\ CountedIsWhole)
<1>1. IInv => OneImporter /\ CountedIsWhole
  BY DEF IInv, Counted
<1>2. QED
  BY Invariance, <1>1, PTL

\* Every email named by the result of a run has a processed case, and what is
\* exported of a counted import covers it.
THEOREM ResultsCover == Spec => [](ResultsAreSaved /\ CountedExportsCoverAll)
<1>1. IInv => ResultsAreSaved /\ CountedExportsCoverAll
  BY DEF IInv
<1>2. QED
  BY Invariance, <1>1, PTL

\* One step does not write the row of a run that succeeded.
LEMMA SucceededKept ==
  ASSUME IInv, [Next]_vars, NEW r \in Runs, runs[r].status = "SUCCEEDED"
  PROVE  runs'[r] = runs[r]
<1>1. runs \in [Runs -> Run]
  BY DEF IInv, TypeOK
<1>2. ASSUME NEW c \in Clients, RunImport(c) PROVE runs'[r] = runs[r]
  <2>1. CASE RunComplete(c)
    <3>1. Running(c) /\ work[c].run # r
      BY <2>1 DEF RunComplete, IInv, RunsApart
    <3>2. QED
      BY <1>1, <2>1, <3>1 DEF RunComplete
  <2>2. ASSUME NEW q \in Runs, RunCreate(c, q) PROVE runs'[r] = runs[r]
    BY <1>1, <2>2 DEF RunCreate
  <2>3. QED
    BY <1>2, <2>1, <2>2 DEF RunImport, RunEmails, RunDocuments, RunSave
<1>3. ASSUME NEW c \in Clients, Import(c) \/ Abort(c) PROVE runs'[r] = runs[r]
  BY <1>3 DEF Import, ImportCreate, ImportReused, AddEmail, AddDocument, UpdateCounts, Abort
<1>4. ASSUME NEW q \in Runs, Cancel(q) \/ Export(q) \/ (\E e \in Emails : Review(q, e))
      PROVE  runs'[r] = runs[r]
  BY <1>1, <1>4 DEF Cancel, Export, Review
<1>5. QED
  BY <1>2, <1>3, <1>4 DEF Next, vars

\* The row of a succeeded run is final: no cancellation, review or other run
\* touches it, whatever the order of saves and completions.
THEOREM SucceededRunsStay == Spec => SucceededIsFinal
<1>1. IInv /\ [Next]_vars =>
        [\A r \in Runs : runs[r].status = "SUCCEEDED" => runs'[r] = runs[r]]_vars
  BY SucceededKept
<1>2. QED
  BY Invariance, <1>1, PTL DEF Spec, SucceededIsFinal

\* The second half of ImportedOnce by itself: an import whose counts are stored has
\* all its emails and documents (import_participant of ingest.py).
THEOREM CountedImportsAreWhole == Spec => []CountedIsWhole
  BY ImportedOnce, PTL

\* The second half of ResultsCover: an export of a counted import covers all its
\* emails (export_run of export.py).
THEOREM ExportsCover == Spec => []CountedExportsCoverAll
  BY ResultsCover, PTL

-----------------------------------------------------------------------------
(* The import and its runs implement the contract of RunContract.          *)

\* A run has read emails that are stored, and has some of them left.
RunsRead ==
  \A c \in Clients : work[c].kind = "run" =>
    work[c].emails <= batch.emails /\ work[c].left \subseteq 1..work[c].emails

LEMMA RunsReadInit == Init => RunsRead
  BY DEF Init, RunsRead, Idle

LEMMA RunsReadQuiet ==
  ASSUME TypeOK, TypeOK', RunsRead, batch.emails <= batch'.emails,
         \A c \in Clients : work'[c].kind = "run" => work'[c] = work[c]
  PROVE  RunsRead'
<1> SUFFICES ASSUME NEW c \in Clients, work'[c].kind = "run"
             PROVE  /\ work'[c].emails <= batch'.emails
                    /\ work'[c].left \subseteq 1..work'[c].emails
  BY DEF RunsRead
<1>1. work'[c] = work[c]
  OBVIOUS
<1>2. work[c].emails <= batch.emails /\ work[c].left \subseteq 1..work[c].emails
  BY <1>1 DEF RunsRead
<1>3. work[c].emails \in Nat /\ batch.emails \in Nat /\ batch'.emails \in Nat
  BY ImportRunAssumption DEF TypeOK, Work, Batch
<1>4. QED
  BY <1>1, <1>2, <1>3

\* Of one client's work, when nothing is stored meanwhile.
LEMMA RunsReadOne ==
  ASSUME TypeOK, RunsRead, batch' = batch, NEW c \in Clients, NEW w,
         work' = [work EXCEPT ![c] = w],
         w.kind = "run" => w.emails <= batch.emails /\ w.left \subseteq 1..w.emails
  PROVE  RunsRead'
<1>1. ASSUME NEW d \in Clients PROVE work'[d] = IF d = c THEN w ELSE work[d]
  BY DEF TypeOK
<1>2. QED
  BY <1>1 DEF RunsRead

LEMMA RunsReadRunImport ==
  ASSUME TypeOK, RunsRead, NEW c \in Clients, RunImport(c)
  PROVE  RunsRead'
<1>1. batch.emails \in Nat /\ work[c].emails \in Nat /\ work[c] \in Work
  BY ImportRunAssumption DEF TypeOK, Batch, Work
<1>2. CASE RunEmails(c)
  <2> DEFINE w == [Idle EXCEPT !.kind = "run", !.emails = batch.emails]
  <2>1. w.emails = batch.emails /\ w.left = {}
    BY DEF Idle
  <2>2. batch' = batch /\ work' = [work EXCEPT ![c] = w]
    BY <1>2 DEF RunEmails
  <2>3. w.emails <= batch.emails /\ w.left \subseteq 1..w.emails
    BY <1>1, <2>1
  <2> HIDE DEF w
  <2>4. QED
    BY <2>2, <2>3, RunsReadOne
<1>3. CASE RunDocuments(c)
  <2> DEFINE w == [work[c] EXCEPT !.step = "read", !.documents = batch.documents]
  <2>1. /\ batch' = batch /\ work[c].kind = "run"
        /\ work' = [work EXCEPT ![c] = w]
    BY <1>3 DEF RunDocuments
  <2>2. w.emails = work[c].emails /\ w.left = work[c].left
    BY <1>1 DEF Work
  <2>3. w.emails <= batch.emails /\ w.left \subseteq 1..w.emails
    BY <2>1, <2>2 DEF RunsRead
  <2> HIDE DEF w
  <2>4. QED
    BY <2>1, <2>3, RunsReadOne
<1>4. ASSUME NEW r \in Runs, RunCreate(c, r) PROVE RunsRead'
  <2> DEFINE w == [work[c] EXCEPT !.step = "working", !.run = r, !.left = 1..work[c].emails]
  <2>1. /\ batch' = batch /\ work[c].kind = "run"
        /\ work' = [work EXCEPT ![c] = w]
    BY <1>4 DEF RunCreate
  <2>2. w.emails = work[c].emails /\ w.left = 1..work[c].emails
    BY <1>1 DEF Work
  <2>3. w.emails <= batch.emails /\ w.left \subseteq 1..w.emails
    BY <2>1, <2>2 DEF RunsRead
  <2> HIDE DEF w
  <2>4. QED
    BY <2>1, <2>3, RunsReadOne
<1>5. ASSUME NEW e \in Emails, RunSave(c, e) PROVE RunsRead'
  <2> DEFINE w == [work[c] EXCEPT !.left = @ \ {e}]
  <2>1. /\ batch' = batch /\ work[c].kind = "run"
        /\ work' = [work EXCEPT ![c] = w]
    BY <1>5 DEF RunSave, Running
  <2>2. w.emails = work[c].emails /\ w.left = work[c].left \ {e}
    BY <1>1 DEF Work
  <2>3. w.emails <= batch.emails /\ w.left \subseteq 1..w.emails
    BY <2>1, <2>2 DEF RunsRead
  <2> HIDE DEF w
  <2>4. QED
    BY <2>1, <2>3, RunsReadOne
<1>6. CASE RunComplete(c)
  BY <1>6, IdleType, RunsReadOne DEF RunComplete, End
<1>7. QED
  BY <1>2, <1>3, <1>4, <1>5, <1>6 DEF RunImport

LEMMA RunsReadNext == IInv /\ RunsRead /\ [Next]_vars => RunsRead'
<1> SUFFICES ASSUME IInv, RunsRead, [Next]_vars PROVE RunsRead'
  OBVIOUS
<1>1. TypeOK /\ TypeOK' /\ batch.emails \in Nat
  BY NextInv, ImportRunAssumption DEF IInv, TypeOK, Batch
<1>2. ASSUME NEW c \in Clients, Import(c) \/ Abort(c) PROVE RunsRead'
  <2>1. batch.emails <= batch'.emails
    BY <1>1, <1>2 DEF Import, ImportCreate, ImportReused, AddEmail, AddDocument,
                      UpdateCounts, Abort, TypeOK, Batch
  <2>2. ASSUME NEW d \in Clients, work'[d].kind = "run" PROVE work'[d] = work[d]
    <3>1. CASE d # c
      BY <1>1, <1>2, <3>1 DEF Import, ImportCreate, ImportReused, AddEmail, AddDocument,
                              UpdateCounts, Abort, End, TypeOK
    <3>2. CASE d = c
      BY <1>1, <1>2, <2>2, <3>2 DEF Import, ImportCreate, ImportReused, AddEmail, AddDocument,
                                    UpdateCounts, Abort, End, TypeOK, Idle, Importing, Work
    <3>3. QED
      BY <3>1, <3>2
  <2>3. QED
    BY <1>1, <2>1, <2>2, RunsReadQuiet
<1>3. ASSUME NEW r \in Runs, Cancel(r) \/ Export(r) \/ (\E e \in Emails : Review(r, e))
      PROVE  RunsRead'
  BY <1>1, <1>3, RunsReadQuiet DEF Cancel, Export, Review
<1>4. CASE UNCHANGED vars
  BY <1>4 DEF vars, RunsRead
<1>5. QED
  BY <1>1, <1>2, <1>3, <1>4, RunsReadRunImport DEF Next

\* What the contract sees of the rows.
Processed == {e \in Emails : shown[e] # NoRun}
Results == [r \in Runs |-> runs[r].result]

LEMMA RunContractInit == Init => Contract!Init
  BY DEF Init, Contract!Init

LEMMA StoredIsCounted ==
  ASSUME IInv
  PROVE  batch.emails \in 0..NE /\ Stored \subseteq Emails /\ NE \in Nat
  BY ImportRunAssumption DEF IInv, TypeOK, Batch, Stored, Emails

LEMMA ImportIsContracted ==
  ASSUME IInv, NEW c \in Clients, Import(c)
  PROVE  [Contract!Next]_(Contract!vars)
<1>1. runs' = runs /\ shown' = shown /\ exports' = exports
  BY DEF Import, ImportCreate, ImportReused, AddEmail, AddDocument, UpdateCounts
<1>2. Processed' = Processed /\ Results' = Results
  BY <1>1 DEF Processed, Results
<1>3. batch \in Batch
  BY DEF IInv, TypeOK
<1>4. CASE ImportCreate(c) \/ ImportReused(c) \/ AddDocument(c)
  <2>1. batch'.emails = batch.emails /\ batch'.counted = batch.counted
    BY <1>3, <1>4 DEF ImportCreate, ImportReused, AddDocument, Batch
  <2>2. QED
    BY <1>1, <1>2, <2>1 DEF Contract!vars, Processed, Results
<1>5. Importing(c) => ~batch.counted /\ batch.emails = work[c].emails
  BY DEF IInv, ImportsOpen, OneImporter
<1>6. CASE AddEmail(c)
  <2>1. batch'.emails = batch.emails + 1 /\ batch'.counted = batch.counted
    BY <1>3, <1>6 DEF AddEmail, Batch
  <2>2. batch.emails < NE
    BY <1>5, <1>6 DEF AddEmail
  <2>3. Contract!Store
    BY <1>1, <1>2, <1>5, <1>6, <2>1, <2>2 DEF AddEmail, Contract!Store, Processed, Results
  <2>4. QED
    BY <2>3 DEF Contract!Next
<1>7. CASE UpdateCounts(c)
  <2>1. batch'.emails = batch.emails /\ batch'.counted = TRUE
    BY <1>3, <1>7 DEF UpdateCounts, Batch
  <2>2. batch.emails = NE
    BY <1>5, <1>7 DEF UpdateCounts
  <2>3. Contract!Count
    BY <1>1, <1>2, <1>5, <1>7, <2>1, <2>2 DEF UpdateCounts, Contract!Count, Processed, Results
  <2>4. QED
    BY <2>3 DEF Contract!Next
<1>8. QED
  BY <1>4, <1>6, <1>7 DEF Import

\* What the results of runs become when one of them does.
LEMMA ResultsSet ==
  ASSUME TypeOK, NEW r \in Runs, NEW row, runs' = [runs EXCEPT ![r] = row]
  PROVE  Results' = [Results EXCEPT ![r] = row.result]
  BY DEF TypeOK, Results

LEMMA ProcessedAdds ==
  ASSUME TypeOK, NEW e \in Emails, NEW r \in Runs, shown' = [shown EXCEPT ![e] = r]
  PROVE  Processed' = Processed \cup {e}
  BY ImportRunAssumption DEF TypeOK, Processed

LEMMA SavesProcess ==
  ASSUME IInv, RunsRead, NEW c \in Clients, NEW e \in Emails, RunSave(c, e)
  PROVE  e \in 1..batch.emails /\ Contract!Process(e)
<1>1. work[c].run \in Runs
  BY DEF RunSave, IInv, RunsApart
<1>2. Processed' = Processed \cup {e}
  BY <1>1, ProcessedAdds DEF RunSave, IInv
<1>3. work[c].emails \in Nat /\ work[c].emails <= batch.emails /\ e \in 1..work[c].emails
  BY ImportRunAssumption DEF RunSave, Running, RunsRead, IInv, TypeOK, Work
<1>4. e \in 1..batch.emails
  BY <1>3, StoredIsCounted
<1>5. Contract!Process(e)
  BY <1>2 DEF RunSave, Contract!Process, Processed, Results
<1>6. QED
  BY <1>4, <1>5

LEMMA CompletionsFinish ==
  ASSUME IInv, RunsRead, NEW c \in Clients, RunComplete(c)
  PROVE  \E r \in Runs : \E emails \in SUBSET (1..batch.emails) : Contract!Finish(r, emails)
<1> DEFINE r == work[c].run
           emails == 1..work[c].emails
<1>1. r \in Runs /\ runs[r].status # "SUCCEEDED" /\ \A e \in emails : shown[e] # NoRun
  BY DEF RunComplete, IInv, RunsApart
<1>2. work[c].emails \in 0..NE /\ work[c].emails <= batch.emails
  BY DEF RunComplete, Running, RunsRead, IInv, TypeOK, Work
<1>3. emails \subseteq 1..batch.emails /\ emails \subseteq Emails
  BY <1>2, StoredIsCounted DEF Emails
<1>4. emails \subseteq Processed
  BY <1>1, <1>3 DEF Processed
<1>5. Results[r] = NoResult
  BY <1>1 DEF IInv, RunsApart, Results
<1>6. Results' = [Results EXCEPT ![r] = emails]
  <2>1. runs' = [runs EXCEPT ![r] = Completed(runs[r], emails)]
    BY DEF RunComplete
  <2>2. Completed(runs[r], emails).result = emails
    BY <1>1 DEF Completed, IInv, TypeOK, Run
  <2>3. QED
    BY <1>1, <2>1, <2>2, ResultsSet DEF IInv
<1>7. Processed' = Processed /\ UNCHANGED <<batch, exports>>
  BY DEF RunComplete, Processed
<1>8. Contract!Finish(r, emails)
  BY <1>4, <1>5, <1>6, <1>7 DEF Contract!Finish, Processed, Results
<1>9. emails \in SUBSET (1..batch.emails)
  BY <1>3
<1>10. \E found \in SUBSET (1..batch.emails) : Contract!Finish(r, found)
  BY <1>8, <1>9 DEF Contract!Finish
<1> HIDE DEF r
<1>11. QED
  BY <1>1, <1>10

LEMMA RunImportIsContracted ==
  ASSUME IInv, RunsRead, NEW c \in Clients, RunImport(c)
  PROVE  [Contract!Next]_(Contract!vars)
<1>1. CASE RunEmails(c) \/ RunDocuments(c)
  BY <1>1 DEF RunEmails, RunDocuments, Contract!vars
<1>2. ASSUME NEW r \in Runs, RunCreate(c, r) PROVE UNCHANGED Contract!vars
  <2>1. Results' = Results
    BY <1>2 DEF RunCreate, Results, IInv, TypeOK, Run
  <2>2. QED
    BY <1>2, <2>1 DEF RunCreate, Contract!vars, Results
<1>3. ASSUME NEW e \in Emails, RunSave(c, e) PROVE Contract!Next
  BY <1>3, SavesProcess DEF Contract!Next
<1>4. CASE RunComplete(c)
  BY <1>4, CompletionsFinish DEF Contract!Next
<1>5. QED
  BY <1>1, <1>2, <1>3, <1>4 DEF RunImport

LEMMA CancelsShowNothing ==
  ASSUME IInv, NEW r \in Runs, Cancel(r)
  PROVE  UNCHANGED Contract!vars
<1>1. Results' = Results
  BY DEF Cancel, Results, IInv, TypeOK, Run
<1>2. QED
  BY <1>1 DEF Cancel, Contract!vars, Results

LEMMA ExportsSubmit ==
  ASSUME IInv, NEW r \in Runs, Export(r)
  PROVE  Contract!Submit(r)
<1>1. runs[r].result = 1..batch.emails /\ 1..batch.emails # {}
  BY DEF Export, Valid, Stored
<1>2. batch.emails > 0
  BY <1>1, StoredIsCounted
<1>3. QED
  BY <1>1, <1>2 DEF Export, Contract!Submit

LEMMA ReviewsReview ==
  ASSUME IInv, NEW r \in Runs, NEW e \in Emails, Review(r, e)
  PROVE  e \in 1..batch.emails /\ Contract!Review(r, e)
<1>1. PICK found \in {{e}, {}} :
        runs' = [runs EXCEPT ![r] = [status |-> "SUCCEEDED", result |-> found,
                                     documents |-> batch.documents]]
  BY DEF Review
<1>2. Results' = [Results EXCEPT ![r] = found]
  <2> DEFINE row == [status |-> "SUCCEEDED", result |-> found, documents |-> batch.documents]
  <2>1. row.result = found /\ runs' = [runs EXCEPT ![r] = row]
    BY <1>1
  <2> HIDE DEF row
  <2>2. QED
    BY <2>1, ResultsSet DEF IInv
<1>3. Results[r] = NoResult
  BY DEF Review, IInv, RunsApart, Results
<1>4. Processed' = Processed \cup {e}
  BY ProcessedAdds DEF Review, IInv
<1>5. UNCHANGED <<batch, exports>> /\ e \in 1..batch.emails
  BY DEF Review, Stored
<1>6. found \in SUBSET {e}
  OBVIOUS
<1>7. Contract!Review(r, e)
  BY <1>2, <1>3, <1>4, <1>5, <1>6 DEF Contract!Review, Processed, Results
<1>8. QED
  BY <1>5, <1>7

LEMMA RunContractStep == IInv /\ RunsRead /\ [Next]_vars => [Contract!Next]_(Contract!vars)
<1> SUFFICES ASSUME IInv, RunsRead, [Next]_vars PROVE [Contract!Next]_(Contract!vars)
  OBVIOUS
<1>1. ASSUME NEW c \in Clients, Abort(c) PROVE UNCHANGED Contract!vars
  BY <1>1 DEF Abort, Contract!vars
<1>2. ASSUME NEW r \in Runs, Export(r) PROVE Contract!Next
  BY <1>2, ExportsSubmit DEF Contract!Next
<1>3. ASSUME NEW r \in Runs, NEW e \in Emails, Review(r, e) PROVE Contract!Next
  BY <1>3, ReviewsReview DEF Contract!Next
<1>4. CASE UNCHANGED vars
  BY <1>4 DEF vars, Contract!vars
<1>5. QED
  BY <1>1, <1>2, <1>3, <1>4, ImportIsContracted, RunImportIsContracted, CancelsShowNothing
  DEF Next

\* Importers, runs and reviews take many transactions, overlap, are cancelled and die
\* half way; and yet each does what RunContract has it do: no run names an email that
\* is not processed or not stored, no result is replaced, nothing is stored behind the
\* counts, and nothing is submitted that leaves out a stored email
\* (import_participant, run_import, apply_review_transaction, export_run).
THEOREM RunsKeepContract == Spec => KeepsRunContract
<1>1. Init => RunsRead /\ Contract!Init
  BY RunsReadInit, RunContractInit
<1>2. Spec => []RunsRead
  BY Invariance, <1>1, RunsReadNext, PTL DEF Spec
<1>3. QED
  BY Invariance, <1>1, <1>2, RunContractStep, PTL DEF Spec, KeepsRunContract, Contract!Spec
=============================================================================
