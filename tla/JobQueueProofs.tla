--------------------------- MODULE JobQueueProofs ---------------------------
(***************************************************************************)
(* Proofs about JobQueue for any number of jobs and workers, any lease and *)
(* any max_attempts.                                                       *)
(*                                                                         *)
(* RowsAgree and LeaseHolds are not inductive: a late answer is harmless   *)
(* only because a process that still owns its row made the row's latest    *)
(* attempt, and because the retry flag that fail_job read is still right   *)
(* when its UPDATE finds the row its own. ProcsAgree says that.            *)
(***************************************************************************)
EXTENDS JobQueue, TLAPS

ProcShape(w) ==
  /\ Busy(w) => proc[w].job \in Jobs /\ proc[w].attempt >= 1
  /\ ~Busy(w) => proc[w].left = 0 /\ proc[w].job = NoJob
  /\ Busy(w) /\ Owns(w, proc[w].job) => row[proc[w].job].attempts = proc[w].attempt
  /\ proc[w].pc = "failing" /\ Owns(w, proc[w].job) =>
       (proc[w].retry <=> row[proc[w].job].attempts < row[proc[w].job].limit)
ProcsAgree == \A w \in Workers : ProcShape(w)

IInv == TypeOK /\ RowsAgree /\ ProcsAgree /\ LeaseHolds /\ ResultOfLatestAttempt

-----------------------------------------------------------------------------
(* Rows.                                                                   *)

ResultShape(r) ==
  /\ r.status = "SUCCEEDED" => r.result = r.attempts
  /\ r.status # "SUCCEEDED" => r.result = 0

LEMMA Bounds ==
  /\ 0 \in 0..LeaseSeconds /\ LeaseSeconds \in 0..LeaseSeconds /\ LeaseSeconds > 0
  /\ 0 \in 0..MaxWait
  BY JobQueueAssumption

LEMMA AbsentShape == Absent \in Row /\ RowShape(Absent) /\ ResultShape(Absent)
  BY Bounds DEF Absent, Row, RowShape, ResultShape, Statuses, Errors

\* The sweep keeps a row well formed, only ever touches a row whose lease ran
\* out, and never turns anything into a running or finished row.
LEMMA RecoveredShape ==
  ASSUME NEW r \in Row, RowShape(r), ResultShape(r)
  PROVE  /\ Recovered(r) \in Row
         /\ RowShape(Recovered(r))
         /\ ResultShape(Recovered(r))
         /\ Recovered(r).attempts = r.attempts /\ Recovered(r).limit = r.limit
         /\ Recovered(r).born = r.born
         /\ Recovered(r).status = "RUNNING" => Recovered(r) = r
         /\ ~Expired(r) => Recovered(r) = r
         /\ Recovered(r) # r => r.status = "RUNNING" /\ r.lease = 0
         /\ Recovered(r) # r => Recovered(r).status \in {"QUEUED", "FAILED"}
         /\ Expired(r) /\ r.attempts < r.limit => Recovered(r).status = "QUEUED"
<1> DEFINE e == IF r.attempts >= r.limit /\ r.error = "none" THEN "lease_expired" ELSE r.error
           s == IF r.attempts >= r.limit THEN "FAILED" ELSE "QUEUED"
<1>1. CASE ~Expired(r)
  BY <1>1 DEF Recovered, Expired
<1>2. CASE Expired(r)
  <2>1. e \in Errors /\ s \in Statuses
    BY DEF Row, Errors, Statuses
  <2>2. Recovered(r) =
          [r EXCEPT !.status = s, !.error = e, !.owner = NoOwner, !.lease = 0, !.wait = 0]
    BY <1>2 DEF Recovered, Row
  <2>3. Recovered(r) \in Row
    <3> HIDE DEF e, s
    <3> QED BY <2>1, <2>2, Bounds DEF Row
  <2>4. /\ Recovered(r).status = s /\ Recovered(r).error = e
        /\ Recovered(r).owner = NoOwner /\ Recovered(r).lease = 0 /\ Recovered(r).wait = 0
        /\ Recovered(r).attempts = r.attempts /\ Recovered(r).limit = r.limit
        /\ Recovered(r).born = r.born /\ Recovered(r).result = r.result
    <3> HIDE DEF e, s
    <3> QED BY <2>2 DEF Row
  <2>5. RowShape(Recovered(r)) /\ ResultShape(Recovered(r))
    <3>1. r.attempts \in Nat /\ r.limit \in Nat
      BY DEF Row
    <3>2. CASE r.attempts >= r.limit
      <4>1. s = "FAILED" /\ e # "none" /\ r.attempts = r.limit
        BY <3>1, <3>2 DEF RowShape
      <4>2. r.limit >= 1 /\ r.born >= 1 /\ r.result = 0
        BY <1>2 DEF Expired, RowShape, ResultShape
      <4> HIDE DEF s, e
      <4>3. QED BY <2>4, <3>1, <4>1, <4>2 DEF RowShape, ResultShape
    <3>3. CASE ~(r.attempts >= r.limit)
      BY <1>2, <2>4, <3>1, <3>3 DEF Expired, RowShape, ResultShape
    <3>4. QED BY <3>2, <3>3
  <2>6. r.attempts < r.limit => s = "QUEUED"
    BY DEF Row
  <2> HIDE DEF s, e
  <2>7. s \in {"QUEUED", "FAILED"}
    BY DEF s
  <2>8. QED
    BY <1>2, <2>3, <2>4, <2>5, <2>6, <2>7 DEF Expired
<1>3. QED
  BY <1>1, <1>2

\* What the UPDATE of claim_job makes of one row.
Claimed(r, o) == [r EXCEPT !.status = "RUNNING", !.attempts = @ + 1, !.owner = o,
                           !.lease = LeaseSeconds]
LEMMA ClaimedShape ==
  ASSUME NEW r \in Row, RowShape(r), ResultShape(r), NEW o \in Identity,
         r.status = "QUEUED", r.wait = 0
  PROVE  /\ Claimed(r, o) \in Row /\ RowShape(Claimed(r, o)) /\ ResultShape(Claimed(r, o))
         /\ Claimed(r, o).status = "RUNNING" /\ Claimed(r, o).owner = o
         /\ Claimed(r, o).attempts = r.attempts + 1 /\ Claimed(r, o).limit = r.limit
         /\ Claimed(r, o).lease = LeaseSeconds /\ Claimed(r, o).result = r.result
<1>1. /\ Claimed(r, o).status = "RUNNING" /\ Claimed(r, o).owner = o
      /\ Claimed(r, o).attempts = r.attempts + 1 /\ Claimed(r, o).limit = r.limit
      /\ Claimed(r, o).lease = LeaseSeconds /\ Claimed(r, o).wait = r.wait
      /\ Claimed(r, o).born = r.born /\ Claimed(r, o).result = r.result
  BY DEF Claimed, Row
<1>2. Claimed(r, o) \in Row
  <2>1. "RUNNING" \in Statuses /\ r.attempts + 1 \in Nat /\ o \in Identity \cup {NoOwner}
    BY DEF Statuses, Row
  <2>2. QED
    BY <2>1, Bounds DEF Claimed, Row
<1>3. RowShape(Claimed(r, o)) /\ ResultShape(Claimed(r, o))
  BY <1>1, JobQueueAssumption DEF RowShape, ResultShape, Row
<1>4. QED
  BY <1>1, <1>2, <1>3

\* complete_job on a row that is running: the answer is that of attempt n.
Finished(r, n) == [r EXCEPT !.status = "SUCCEEDED", !.result = n, !.owner = NoOwner,
                            !.lease = 0]
LEMMA FinishedShape ==
  ASSUME NEW r \in Row, RowShape(r), r.status = "RUNNING", NEW n \in Nat, n = r.attempts
  PROVE  /\ Finished(r, n) \in Row /\ RowShape(Finished(r, n)) /\ ResultShape(Finished(r, n))
         /\ Finished(r, n).status = "SUCCEEDED"
<1>1. /\ Finished(r, n).status = "SUCCEEDED" /\ Finished(r, n).owner = NoOwner
      /\ Finished(r, n).attempts = r.attempts /\ Finished(r, n).limit = r.limit
      /\ Finished(r, n).lease = 0 /\ Finished(r, n).wait = r.wait
      /\ Finished(r, n).born = r.born /\ Finished(r, n).result = n
  BY DEF Finished, Row
<1>2. Finished(r, n) \in Row
  <2>1. "SUCCEEDED" \in Statuses
    BY DEF Statuses
  <2>2. QED
    BY <2>1, Bounds DEF Finished, Row
<1>3. RowShape(Finished(r, n)) /\ ResultShape(Finished(r, n))
  BY <1>1 DEF RowShape, ResultShape, Row
<1>4. QED
  BY <1>1, <1>2, <1>3

\* The UPDATE of fail_job on a running row: queued again while attempts are left.
Failed(r, s) == [r EXCEPT !.status = s, !.error = "handler_error", !.wait = 0,
                          !.owner = NoOwner, !.lease = 0]
LEMMA FailedShape ==
  ASSUME NEW r \in Row, RowShape(r), ResultShape(r), r.status = "RUNNING",
         NEW s, \/ s = "QUEUED" /\ r.attempts < r.limit
                \/ s = "FAILED" /\ r.attempts = r.limit
  PROVE  /\ Failed(r, s) \in Row /\ RowShape(Failed(r, s)) /\ ResultShape(Failed(r, s))
         /\ Failed(r, s).status = s
<1>1. s \in Statuses /\ "handler_error" \in Errors
  BY DEF Statuses, Errors
<1>2. /\ Failed(r, s).status = s /\ Failed(r, s).owner = NoOwner
      /\ Failed(r, s).attempts = r.attempts /\ Failed(r, s).limit = r.limit
      /\ Failed(r, s).lease = 0 /\ Failed(r, s).wait = 0
      /\ Failed(r, s).born = r.born /\ Failed(r, s).result = r.result
      /\ Failed(r, s).error = "handler_error"
  BY DEF Failed, Row
<1>3. Failed(r, s) \in Row
  BY <1>1, Bounds DEF Failed, Row
<1>4. /\ r.limit >= 1 /\ r.born >= 1 /\ r.result = 0 /\ r.attempts <= r.limit
      /\ r.attempts \in Nat /\ r.limit \in Nat
  BY DEF RowShape, ResultShape, Row
<1>5. ASSUME NEW f, f.status = s, f.owner = NoOwner, f.attempts = r.attempts,
             f.limit = r.limit, f.lease = 0, f.wait = 0, f.born = r.born,
             f.result = r.result, f.error = "handler_error"
      PROVE  RowShape(f) /\ ResultShape(f)
  BY <1>4, <1>5 DEF RowShape, ResultShape
<1>6. QED
  BY <1>2, <1>3, <1>5

\* A second passes for one row.
Aged(r) == [r EXCEPT !.lease = Less(@), !.wait = Less(@)]
LEMMA AgedShape ==
  ASSUME NEW r \in Row, RowShape(r), ResultShape(r)
  PROVE  /\ Aged(r) \in Row /\ RowShape(Aged(r)) /\ ResultShape(Aged(r))
         /\ Aged(r).status = r.status /\ Aged(r).owner = r.owner
         /\ Aged(r).attempts = r.attempts /\ Aged(r).limit = r.limit
         /\ Aged(r).lease = Less(r.lease)
<1>1. /\ Aged(r).status = r.status /\ Aged(r).owner = r.owner
      /\ Aged(r).attempts = r.attempts /\ Aged(r).limit = r.limit
      /\ Aged(r).lease = Less(r.lease) /\ Aged(r).wait = Less(r.wait)
      /\ Aged(r).born = r.born /\ Aged(r).result = r.result /\ Aged(r).error = r.error
  BY DEF Aged, Row
<1>2. Less(r.lease) \in 0..LeaseSeconds /\ Less(r.wait) \in 0..MaxWait
  BY JobQueueAssumption DEF Row, Less
<1>3. Aged(r) \in Row
  BY <1>2 DEF Aged, Row
<1>4. (r.lease = 0 => Less(r.lease) = 0) /\ (r.wait = 0 => Less(r.wait) = 0)
      /\ (r.lease = 0 \/ r.lease > 0)
  BY JobQueueAssumption DEF Row, Less
<1>5. RowShape(Aged(r)) /\ ResultShape(Aged(r))
  BY <1>1, <1>2, <1>4, JobQueueAssumption DEF RowShape, ResultShape, Row
<1>6. QED
  BY <1>1, <1>3, <1>5

-----------------------------------------------------------------------------
(* The invariant. Each step changes the rows pointwise; RowsOK collects    *)
(* what has to hold of every row.                                          *)

RowsOK(table) == \A j \in Jobs :
  table[j] \in Row /\ RowShape(table[j]) /\ ResultShape(table[j])

LEMMA RowsOKDef ==
  ASSUME row \in [Jobs -> Row]
  PROVE  RowsOK(row) <=> RowsAgree /\ ResultOfLatestAttempt
  BY DEF RowsOK, RowsAgree, ResultOfLatestAttempt, ResultShape

LEMMA InitInv == Init => IInv
<1> SUFFICES ASSUME Init PROVE IInv
  OBVIOUS
<1>1. Free(Down) \in Proc /\ Free(Down).pc = "idle" /\ Free(Down).left = 0
      /\ Free(Down).job = NoJob
  BY Bounds DEF Free, Down, Proc, PCs
<1>2. TypeOK
  BY <1>1, AbsentShape, JobQueueAssumption DEF Init, TypeOK
<1>3. RowsAgree /\ ResultOfLatestAttempt
  BY AbsentShape DEF Init, RowsAgree, ResultOfLatestAttempt, ResultShape
<1>4. ProcsAgree /\ LeaseHolds
  BY <1>1 DEF Init, ProcsAgree, ProcShape, LeaseHolds, WithinLease, Busy
<1>5. QED
  BY <1>2, <1>3, <1>4 DEF IInv

\* What the processes need to know of a step that leaves their own state alone:
\* the row of a job that is leased stays, and no row comes to be theirs.
LEMMA ProcsKept ==
  ASSUME IInv, NEW w \in Workers, proc'[w] = proc[w],
         Busy(w) => \/ row'[proc[w].job] = row[proc[w].job]
                    \/ /\ proc[w].left = 0
                       /\ ~(row'[proc[w].job].status = "RUNNING"
                            /\ row'[proc[w].job].owner = IdentityOf[w])
  PROVE  /\ ProcShape(w)'
         /\ WithinLease(w)' => LET r == row'[proc'[w].job]
                               IN r.status = "RUNNING" /\ r.owner = IdentityOf[w]
                                  /\ r.attempts = proc'[w].attempt /\ r.lease = proc'[w].left
<1>1. Busy(w)' <=> Busy(w)
  BY DEF Busy
<1>2. ProcShape(w) /\ (proc[w].pc = "failing" => Busy(w)) /\ proc[w] \in Proc
  BY DEF IInv, ProcsAgree, Busy, TypeOK
<1>3. ProcShape(w)'
  BY <1>1, <1>2 DEF ProcShape, Owns
<1>4. QED
  BY <1>1, <1>2, <1>3 DEF WithinLease, IInv, LeaseHolds, Proc

LEMMA EnqueueInv ==
  ASSUME IInv, NEW j \in Jobs, NEW limit \in Limits, NEW wait \in 0..MaxWait,
         Enqueue(j, limit, wait)
  PROVE  IInv'
<1> DEFINE new == [Absent EXCEPT !.status = "QUEUED", !.limit = limit,
                                 !.wait = wait, !.born = enqueued + 1]
<1>1. limit \in Nat /\ limit >= 1 /\ enqueued \in Nat
  BY JobQueueAssumption DEF IInv, TypeOK
<1>2. new \in Row /\ RowShape(new) /\ ResultShape(new) /\ new.status = "QUEUED"
  <2>1. /\ new.status = "QUEUED" /\ new.attempts = 0 /\ new.limit = limit
        /\ new.owner = NoOwner /\ new.lease = 0 /\ new.wait = wait
        /\ new.born = enqueued + 1 /\ new.error = "none" /\ new.result = 0
    BY DEF Absent
  <2>2. new \in Row
    <3>1. "QUEUED" \in Statuses /\ "none" \in Errors
      BY DEF Statuses, Errors
    <3>2. enqueued + 1 \in Nat
      BY <1>1
    <3>3. QED BY <1>1, <3>1, <3>2, AbsentShape, Bounds DEF Row
  <2>3. RowShape(new) /\ ResultShape(new)
    <3> HIDE DEF new
    <3> QED BY <1>1, <2>1 DEF RowShape, ResultShape
  <2>4. QED BY <2>1, <2>2, <2>3
<1> HIDE DEF new
<1>3. row' = [row EXCEPT ![j] = new] /\ proc' = proc /\ enqueued' \in Nat
      /\ outages' = outages /\ row[j].status = "ABSENT"
  BY <1>1 DEF Enqueue, new
<1>4. row' \in [Jobs -> Row] /\ RowsOK(row)'
  BY <1>2, <1>3, RowsOKDef DEF IInv, TypeOK, RowsOK
<1>5. TypeOK'
  BY <1>3, <1>4 DEF IInv, TypeOK
<1>6. ASSUME NEW w \in Workers, Busy(w)
      PROVE  \/ row'[proc[w].job] = row[proc[w].job]
             \/ /\ proc[w].left = 0
                /\ ~(row'[proc[w].job].status = "RUNNING"
                     /\ row'[proc[w].job].owner = IdentityOf[w])
  <2>1. proc[w].job \in Jobs /\ proc[w].left \in Nat
    BY <1>6, JobQueueAssumption DEF IInv, ProcsAgree, ProcShape, TypeOK, Proc
  <2>2. CASE proc[w].job # j
    BY <1>3, <2>1, <2>2 DEF IInv, TypeOK
  <2>3. CASE proc[w].job = j
    <3>1. proc[w].left = 0
      BY <1>3, <1>6, <2>1, <2>3 DEF IInv, LeaseHolds, WithinLease
    <3>2. row'[j].status = "QUEUED"
      BY <1>2, <1>3 DEF IInv, TypeOK
    <3>3. QED BY <2>3, <3>1, <3>2
  <2>4. QED BY <2>2, <2>3
<1>7. ProcsAgree' /\ LeaseHolds'
  BY <1>3, <1>6, ProcsKept DEF ProcsAgree, LeaseHolds
<1>8. QED
  BY <1>4, <1>5, <1>7, RowsOKDef DEF IInv, RowsOK, RowsAgree, ResultOfLatestAttempt, ResultShape

\* Together: well formed rows and processes that still agree with them.
Agrees(w) ==
  /\ ProcShape(w)
  /\ WithinLease(w) => LET r == row[proc[w].job]
                       IN r.status = "RUNNING" /\ r.owner = IdentityOf[w]
                          /\ r.attempts = proc[w].attempt /\ r.lease = proc[w].left

LEMMA Assemble ==
  ASSUME TypeOK', RowsOK(row)', \A w \in Workers : Agrees(w)'
  PROVE  IInv'
  BY DEF Agrees, RowsOK, IInv, RowsAgree, ProcsAgree, LeaseHolds, ResultOfLatestAttempt,
         ResultShape

\* One row is updated while the other processes keep still: those whose lease
\* runs are on other rows, and the updated row is not theirs.
LEMMA OthersKept ==
  ASSUME IInv, NEW w \in Workers, proc'[w] = proc[w],
         \A j \in Jobs : \/ row'[j] = row[j]
                         \/ /\ ~(row[j].lease > 0 /\ row[j].owner = IdentityOf[w])
                            /\ ~(row'[j].status = "RUNNING" /\ row'[j].owner = IdentityOf[w])
  PROVE  Agrees(w)'
<1>1. ASSUME Busy(w)
      PROVE  \/ row'[proc[w].job] = row[proc[w].job]
             \/ /\ proc[w].left = 0
                /\ ~(row'[proc[w].job].status = "RUNNING"
                     /\ row'[proc[w].job].owner = IdentityOf[w])
  <2>1. proc[w].job \in Jobs /\ (proc[w].left = 0 \/ proc[w].left > 0)
    BY <1>1, JobQueueAssumption DEF IInv, ProcsAgree, ProcShape, TypeOK, Proc
  <2>2. proc[w].left > 0 => row[proc[w].job].lease > 0 /\ row[proc[w].job].owner = IdentityOf[w]
    BY <1>1 DEF IInv, LeaseHolds, WithinLease
  <2>3. QED
    BY <2>1, <2>2
<1>2. QED
  BY <1>1, ProcsKept DEF Agrees

LEMMA SweepShape ==
  ASSUME IInv
  PROVE  /\ Sweep \in [Jobs -> Row]
         /\ RowsOK(Sweep)
         /\ \A j \in Jobs : \/ Sweep[j] = row[j]
                            \/ row[j].lease = 0 /\ Sweep[j].status # "RUNNING"
         /\ \A j \in Jobs : Sweep[j].attempts = row[j].attempts
<1>1. \A j \in Jobs : row[j] \in Row /\ RowShape(row[j]) /\ ResultShape(row[j])
  BY DEF IInv, TypeOK, RowsAgree, ResultOfLatestAttempt, ResultShape
<1>2. \A j \in Jobs : Sweep[j] = Recovered(row[j])
  BY DEF Sweep
<1>3. QED
  BY <1>1, <1>2, RecoveredShape DEF Sweep, RowsOK

LEMMA SweepInv ==
  ASSUME IInv, row' = Sweep, UNCHANGED <<enqueued, proc, outages>>
  PROVE  IInv'
<1>1. TypeOK' /\ RowsOK(row)'
  BY SweepShape DEF IInv, TypeOK, RowsOK
<1>2. ASSUME NEW w \in Workers PROVE Agrees(w)'
  <2>1. \A j \in Jobs : row[j].lease = 0 => ~(row[j].lease > 0)
    BY DEF IInv, TypeOK, Row
  <2>2. QED
    BY <2>1, SweepShape, OthersKept
<1>3. QED
  BY <1>1, <1>2, Assemble

Holding(p, j, n) == [p EXCEPT !.pc = "running", !.job = j, !.attempt = n,
                              !.left = LeaseSeconds]

LEMMA ClaimInv ==
  ASSUME IInv, NEW w \in Workers, NEW j \in Ready(Sweep), proc[w].pc = "idle",
         row' = [Sweep EXCEPT ![j] = Claimed(Sweep[j], IdentityOf[w])],
         proc' = [proc EXCEPT ![w] = Holding(proc[w], j, Sweep[j].attempts + 1)],
         UNCHANGED <<enqueued, outages>>
  PROVE  IInv'
<1> DEFINE c == Claimed(Sweep[j], IdentityOf[w])
           p == Holding(proc[w], j, Sweep[j].attempts + 1)
<1>2. /\ row' = [Sweep EXCEPT ![j] = c] /\ proc' = [proc EXCEPT ![w] = p]
      /\ c = Claimed(Sweep[j], IdentityOf[w])
      /\ p = Holding(proc[w], j, Sweep[j].attempts + 1)
  OBVIOUS
<1> HIDE DEF c, p
<1>1. /\ j \in Jobs /\ Sweep[j] \in Row /\ RowShape(Sweep[j]) /\ ResultShape(Sweep[j])
      /\ Sweep[j].status = "QUEUED" /\ Sweep[j].wait = 0 /\ IdentityOf[w] \in Identity
  BY SweepShape, JobQueueAssumption DEF Ready, RowsOK
<1>3. /\ c \in Row /\ RowShape(c) /\ ResultShape(c)
      /\ c.status = "RUNNING" /\ c.owner = IdentityOf[w]
      /\ c.attempts = Sweep[j].attempts + 1 /\ c.lease = LeaseSeconds
  BY <1>1, <1>2, ClaimedShape
<1>4. row' \in [Jobs -> Row] /\ RowsOK(row)' /\ row'[j] = c
      /\ \A k \in Jobs \ {j} : row'[k] = Sweep[k]
  <2>1. /\ row' \in [Jobs -> Row] /\ row'[j] = c
        /\ \A k \in Jobs \ {j} : row'[k] = Sweep[k]
    BY <1>1, <1>2, <1>3, SweepShape
  <2>2. QED
    BY <1>3, <2>1, SweepShape DEF RowsOK
<1>5. p \in Proc /\ p.pc = "running" /\ p.job = j /\ p.attempt = Sweep[j].attempts + 1
      /\ p.left = LeaseSeconds
  <2>1. proc[w] \in Proc /\ "running" \in PCs /\ Sweep[j].attempts + 1 \in Nat
    BY <1>1 DEF IInv, TypeOK, PCs, Row
  <2>2. QED
    BY <1>1, <1>2, <2>1, Bounds DEF Proc, Holding
<1>6. /\ proc' \in [Workers -> Proc] /\ proc'[w] = p
      /\ \A v \in Workers \ {w} : proc'[v] = proc[v]
  BY <1>2, <1>5 DEF IInv, TypeOK
<1>7. TypeOK'
  BY <1>4, <1>6 DEF IInv, TypeOK
<1>8. Agrees(w)'
  <2>1. Sweep[j].attempts + 1 >= 1
    BY <1>1 DEF Row
  <2>2. QED
    BY <1>1, <1>3, <1>4, <1>5, <1>6, <2>1
    DEF Agrees, ProcShape, WithinLease, Busy, Owns
<1>9. ASSUME NEW v \in Workers, v # w PROVE Agrees(v)'
  <2>1. proc'[v] = proc[v] /\ IdentityOf[v] # IdentityOf[w]
    BY <1>6, <1>9, DistinctIdentities
  <2>2. \A k \in Jobs : row[k].lease = 0 => ~(row[k].lease > 0)
    BY DEF IInv, TypeOK, Row
  <2>3. row[j].lease > 0 => row[j].status = "RUNNING"
    BY <1>1 DEF IInv, RowsAgree, RowShape
  <2>4. ~(row[j].lease > 0)
    BY <1>1, <2>2, <2>3, SweepShape
  <2>5. QED
    BY <1>3, <1>4, <2>1, <2>2, <2>4, SweepShape, OthersKept
<1>10. QED
  BY <1>4, <1>7, <1>8, <1>9, Assemble

LEMMA PollInv ==
  ASSUME IInv, NEW w \in Workers, Poll(w)
  PROVE  IInv'
<1>1. CASE Ready(Sweep) = {} /\ row' = Sweep /\ UNCHANGED <<enqueued, proc, outages>>
  BY <1>1, SweepInv
<1>2. ASSUME NEW j \in Ready(Sweep), proc[w].pc = "idle", UNCHANGED <<enqueued, outages>>,
             row' = [Sweep EXCEPT ![j].status = "RUNNING", ![j].attempts = @ + 1,
                                  ![j].owner = IdentityOf[w], ![j].lease = LeaseSeconds],
             proc' = [proc EXCEPT ![w].pc = "running", ![w].job = j,
                                  ![w].attempt = Sweep[j].attempts + 1,
                                  ![w].left = LeaseSeconds]
      PROVE  IInv'
  <2>1. row' = [Sweep EXCEPT ![j] = Claimed(Sweep[j], IdentityOf[w])]
    BY <1>2, SweepShape DEF Claimed, Ready
  <2>2. proc' = [proc EXCEPT ![w] = Holding(proc[w], j, Sweep[j].attempts + 1)]
    BY <1>2 DEF Holding, IInv, TypeOK
  <2>3. proc[w].pc = "idle" /\ UNCHANGED <<enqueued, outages>>
    BY <1>2
  <2>4. QED
    BY <2>1, <2>2, <2>3, ClaimInv
<1>3. QED
  BY <1>1, <1>2 DEF Poll

LEMMA HeartbeatInv ==
  ASSUME IInv, NEW w \in Workers, Heartbeat(w)
  PROVE  IInv'
<1> DEFINE j == proc[w].job
           r == [row[j] EXCEPT !.lease = LeaseSeconds]
           p == [proc[w] EXCEPT !.left = LeaseSeconds]
<1>1. /\ j \in Jobs /\ row[j] \in Row /\ RowShape(row[j]) /\ ResultShape(row[j])
      /\ row[j].status = "RUNNING" /\ row[j].owner = IdentityOf[w] /\ proc[w] \in Proc
      /\ ProcShape(w) /\ Busy(w) /\ proc[w].pc = "running" /\ Owns(w, j)
  BY DEF Heartbeat, Owns, IInv, TypeOK, RowsAgree, ResultOfLatestAttempt, ResultShape,
         ProcsAgree, ProcShape, Busy
<1>2. /\ r.status = "RUNNING" /\ r.owner = IdentityOf[w] /\ r.lease = LeaseSeconds
      /\ r.attempts = row[j].attempts /\ r.limit = row[j].limit /\ r.wait = row[j].wait
      /\ r.born = row[j].born /\ r.result = row[j].result /\ r \in Row
  BY <1>1, Bounds DEF Row
<1>3. RowShape(r) /\ ResultShape(r)
  BY <1>1, <1>2 DEF RowShape, ResultShape
<1>4. /\ p \in Proc /\ p.left = LeaseSeconds /\ p.pc = "running" /\ p.job = j
      /\ p.attempt = proc[w].attempt
  BY <1>1, Bounds DEF Proc
<1>5. row' = [row EXCEPT ![j] = r] /\ proc' = [proc EXCEPT ![w] = p]
      /\ UNCHANGED <<enqueued, outages>>
  BY DEF Heartbeat, IInv, TypeOK
<1>6. j = proc[w].job
  OBVIOUS
<1> HIDE DEF j, r, p
<1>7. /\ row' \in [Jobs -> Row] /\ row'[j] = r /\ \A k \in Jobs \ {j} : row'[k] = row[k]
      /\ proc' \in [Workers -> Proc] /\ proc'[w] = p
      /\ \A v \in Workers \ {w} : proc'[v] = proc[v]
  BY <1>1, <1>2, <1>4, <1>5 DEF IInv, TypeOK
<1>8. TypeOK'
  BY <1>5, <1>7 DEF IInv, TypeOK
<1>9. RowsOK(row)'
  BY <1>2, <1>3, <1>7 DEF IInv, TypeOK, RowsOK, RowsAgree, ResultOfLatestAttempt, ResultShape
<1>10. Agrees(w)'
  BY <1>1, <1>2, <1>4, <1>6, <1>7 DEF Agrees, ProcShape, WithinLease, Busy, Owns
<1>11. ASSUME NEW v \in Workers, v # w PROVE Agrees(v)'
  BY <1>1, <1>2, <1>7, <1>11, DistinctIdentities, OthersKept
<1>12. QED
  BY <1>8, <1>9, <1>10, <1>11, Assemble

\* A process lets go of its job, and at most its own row is written.
LEMMA FreedInv ==
  ASSUME IInv, NEW w \in Workers, NEW j \in Jobs, j = proc[w].job, NEW STATE r,
         proc' = [proc EXCEPT ![w] = Free(@)],
         UNCHANGED <<enqueued, outages>>,
         \/ row' = row
         \/ /\ row' = [row EXCEPT ![j] = r]
            /\ Owns(w, j) /\ r \in Row /\ RowShape(r) /\ ResultShape(r)
            /\ r.status # "RUNNING"
  PROVE  IInv'
<1>1. /\ proc' \in [Workers -> Proc] /\ proc'[w] = Free(proc[w])
      /\ \A v \in Workers \ {w} : proc'[v] = proc[v]
  <2>1. Free(proc[w]) \in Proc
    <3>1. proc[w] \in Proc /\ "idle" \in PCs
      BY DEF IInv, TypeOK, PCs
    <3>2. QED
      BY <3>1, Bounds DEF Free, Proc
  <2>2. QED
    BY <2>1 DEF IInv, TypeOK
<1>2. row' \in [Jobs -> Row] /\ RowsOK(row)'
  <2>1. row \in [Jobs -> Row] /\ RowsOK(row)
    BY RowsOKDef DEF IInv, TypeOK
  <2>2. QED
    BY <2>1 DEF RowsOK
<1>3. TypeOK'
  BY <1>1, <1>2 DEF IInv, TypeOK
<1>4. Agrees(w)'
  <2>1. /\ proc'[w].pc = "idle" /\ proc'[w].left = 0 /\ proc'[w].job = NoJob
    BY <1>1 DEF Free, IInv, TypeOK, Proc
  <2>2. QED
    BY <2>1 DEF Agrees, ProcShape, WithinLease, Busy
<1>5. ASSUME NEW v \in Workers, v # w PROVE Agrees(v)'
  <2>1. proc'[v] = proc[v] /\ IdentityOf[v] # IdentityOf[w]
    BY <1>1, <1>5, DistinctIdentities
  <2>2. QED
    BY <2>1, OthersKept DEF Owns, IInv, TypeOK
<1>6. QED
  BY <1>2, <1>3, <1>4, <1>5, Assemble

LEMMA CompleteInv ==
  ASSUME IInv, NEW w \in Workers, Complete(w)
  PROVE  IInv'
<1> DEFINE j == proc[w].job
           r == Finished(row[j], proc[w].attempt)
<1>1. /\ j \in Jobs /\ row[j] \in Row /\ RowShape(row[j]) /\ proc[w].attempt \in Nat
      /\ Owns(w, j) => row[j].status = "RUNNING" /\ proc[w].attempt = row[j].attempts
  BY DEF Complete, Owns, IInv, TypeOK, Proc, RowsAgree, ProcsAgree, ProcShape, Busy
<1>2. Owns(w, j) => r \in Row /\ RowShape(r) /\ ResultShape(r) /\ r.status # "RUNNING"
  BY <1>1, FinishedShape
<1>3. /\ proc' = [proc EXCEPT ![w] = Free(@)] /\ UNCHANGED <<enqueued, outages>>
      /\ row' = row \/ (Owns(w, j) /\ row' = [row EXCEPT ![j] = r])
  BY <1>1 DEF Complete, Finished, IInv, TypeOK
<1>4. j = proc[w].job
  OBVIOUS
<1> HIDE DEF j, r
<1>5. QED
  BY <1>1, <1>2, <1>3, <1>4, FreedInv

LEMMA FailWriteInv ==
  ASSUME IInv, NEW w \in Workers, FailWrite(w)
  PROVE  IInv'
<1> DEFINE j == proc[w].job
           s == IF proc[w].retry THEN "QUEUED" ELSE "FAILED"
           r == Failed(row[j], s)
<1>1. /\ j \in Jobs /\ row[j] \in Row /\ RowShape(row[j]) /\ ResultShape(row[j])
      /\ Owns(w, j) => row[j].status = "RUNNING"
      /\ Owns(w, j) => (proc[w].retry <=> row[j].attempts < row[j].limit)
  BY DEF FailWrite, Owns, IInv, TypeOK, RowsAgree, ResultOfLatestAttempt, ResultShape,
         ProcsAgree, ProcShape, Busy
<1>2. Owns(w, j) => \/ s = "QUEUED" /\ row[j].attempts < row[j].limit
                    \/ s = "FAILED" /\ row[j].attempts = row[j].limit
  <2>1. row[j].attempts \in Nat /\ row[j].limit \in Nat /\ row[j].attempts <= row[j].limit
    BY <1>1 DEF Row, RowShape
  <2>2. CASE proc[w].retry
    BY <1>1, <2>2
  <2>3. CASE ~proc[w].retry
    BY <1>1, <2>1, <2>3
  <2>4. QED
    BY <2>2, <2>3
<1>3. /\ proc' = [proc EXCEPT ![w] = Free(@)] /\ UNCHANGED <<enqueued, outages>>
      /\ row' = row \/ (Owns(w, j) /\ row' = [row EXCEPT ![j] = r])
  BY <1>1 DEF FailWrite, Failed, IInv, TypeOK
<1>4. j = proc[w].job /\ r = Failed(row[j], s)
  OBVIOUS
<1> HIDE DEF j, s, r
<1>5. Owns(w, j) => r \in Row /\ RowShape(r) /\ ResultShape(r) /\ r.status # "RUNNING"
  BY <1>1, <1>2, <1>4, FailedShape
<1>6. QED
  BY <1>1, <1>3, <1>4, <1>5, FreedInv

\* A step of one process that leaves the table alone: it drops its job, keeps it
\* all, or starts to fail it.
LEMMA ProcStepInv ==
  ASSUME IInv, NEW w \in Workers, NEW STATE q, q \in Proc,
         row' = row, enqueued' = enqueued, outages' \in 0..MaxOutages,
         proc' = [proc EXCEPT ![w] = q],
         \/ q.pc \in {"down", "idle"} /\ q.job = NoJob /\ q.left = 0
         \/ /\ q.pc = proc[w].pc /\ q.job = proc[w].job /\ q.left = proc[w].left
            /\ q.attempt = proc[w].attempt /\ q.retry = proc[w].retry
         \/ /\ proc[w].pc = "running" /\ q.pc = "failing" /\ q.job = proc[w].job
            /\ q.left = proc[w].left /\ q.attempt = proc[w].attempt
            /\ q.retry <=> row[proc[w].job].attempts < row[proc[w].job].limit
  PROVE  IInv'
<1>1. /\ proc' \in [Workers -> Proc] /\ proc'[w] = q
      /\ \A v \in Workers \ {w} : proc'[v] = proc[v]
  BY DEF IInv, TypeOK
<1>2. TypeOK' /\ RowsOK(row)'
  BY <1>1, RowsOKDef DEF IInv, TypeOK, RowsOK
<1>3. Agrees(w)'
  <2>1. Agrees(w)
    BY DEF Agrees, IInv, ProcsAgree, LeaseHolds
  <2>2. CASE q.pc \in {"down", "idle"} /\ q.job = NoJob /\ q.left = 0
    BY <1>1, <2>2 DEF Agrees, ProcShape, WithinLease, Busy
  <2>3. CASE /\ q.pc = proc[w].pc /\ q.job = proc[w].job /\ q.left = proc[w].left
             /\ q.attempt = proc[w].attempt /\ q.retry = proc[w].retry
    BY <1>1, <2>1, <2>3 DEF Agrees, ProcShape, WithinLease, Busy, Owns
  <2>4. CASE /\ proc[w].pc = "running" /\ q.pc = "failing" /\ q.job = proc[w].job
             /\ q.left = proc[w].left /\ q.attempt = proc[w].attempt
             /\ q.retry <=> row[proc[w].job].attempts < row[proc[w].job].limit
    BY <1>1, <2>1, <2>4 DEF Agrees, ProcShape, WithinLease, Busy, Owns
  <2>5. QED
    BY <2>2, <2>3, <2>4
<1>4. ASSUME NEW v \in Workers, v # w PROVE Agrees(v)'
  BY <1>1, <1>4, OthersKept
<1>5. QED
  BY <1>2, <1>3, <1>4, Assemble

LEMMA FailReadInv ==
  ASSUME IInv, NEW w \in Workers, FailRead(w)
  PROVE  IInv'
<1> DEFINE j == proc[w].job
           q == IF Owns(w, j)
                THEN [proc[w] EXCEPT !.pc = "failing",
                                     !.retry = row[j].attempts < row[j].limit]
                ELSE Free(proc[w])
<1>1. proc[w] \in Proc /\ "failing" \in PCs /\ "idle" \in PCs /\ proc[w].pc = "running"
  BY DEF IInv, TypeOK, PCs, FailRead
<1>2. proc' = [proc EXCEPT ![w] = q] /\ row' = row /\ enqueued' = enqueued
      /\ outages' \in 0..MaxOutages
  BY DEF FailRead, IInv, TypeOK
<1>3. CASE Owns(w, j)
  <2>1. q = [proc[w] EXCEPT !.pc = "failing", !.retry = row[j].attempts < row[j].limit]
    BY <1>3
  <2>2. q \in Proc
    <3> DEFINE b == row[j].attempts < row[j].limit
    <3>1. b \in BOOLEAN
      <4>1. j \in Jobs
        BY <1>1 DEF IInv, ProcsAgree, ProcShape, Busy
      <4>2. row[j].attempts \in Nat /\ row[j].limit \in Nat
        BY <4>1 DEF IInv, TypeOK, Row
      <4> HIDE DEF j
      <4>3. QED
        BY <4>2, SMT
    <3>2. q = [proc[w] EXCEPT !.pc = "failing", !.retry = b]
      BY <2>1
    <3> HIDE DEF b, q
    <3>3. QED
      BY <1>1, <3>1, <3>2 DEF Proc
  <2>3. /\ q.pc = "failing" /\ q.job = proc[w].job
        /\ q.left = proc[w].left /\ q.attempt = proc[w].attempt
        /\ q.retry <=> row[proc[w].job].attempts < row[proc[w].job].limit
    BY <1>1, <2>1 DEF Proc
  <2> HIDE DEF q
  <2>4. QED
    BY <1>1, <1>2, <2>2, <2>3, ProcStepInv
<1>4. CASE ~Owns(w, j)
  <2>1. q = Free(proc[w])
    BY <1>4
  <2>2. q \in Proc /\ q.pc = "idle" /\ q.job = NoJob /\ q.left = 0
    BY <1>1, <2>1, Bounds DEF Free, Proc
  <2> HIDE DEF q
  <2>3. QED
    BY <1>2, <2>2, ProcStepInv
<1>5. QED
  BY <1>3, <1>4

\* Processes stop, die and start again.
LEMMA OutageInv ==
  ASSUME IInv, NEW w \in Workers, Crash(w) \/ Signal(w) \/ Exit(w) \/ Restart(w)
  PROVE  IInv'
<1>1. Down \in Proc /\ Down.pc = "down" /\ Down.job = NoJob /\ Down.left = 0
  BY Bounds DEF Down, Proc, PCs
<1>2. /\ Free(Down) \in Proc /\ Free(Down).pc = "idle"
      /\ Free(Down).job = NoJob /\ Free(Down).left = 0
  BY Bounds DEF Free, Down, Proc, PCs
<1> DEFINE q == [proc[w] EXCEPT !.stopping = TRUE]
<1>3. /\ q \in Proc /\ q.pc = proc[w].pc /\ q.job = proc[w].job /\ q.left = proc[w].left
      /\ q.attempt = proc[w].attempt /\ q.retry = proc[w].retry
  BY DEF IInv, TypeOK, Proc
<1>4. /\ outages < MaxOutages => outages + 1 \in 0..MaxOutages
      /\ outages \in 0..MaxOutages
  BY JobQueueAssumption DEF IInv, TypeOK
<1>5. CASE Crash(w)
  <2>1. proc' = [proc EXCEPT ![w] = Down] /\ row' = row /\ enqueued' = enqueued
        /\ outages' \in 0..MaxOutages
    BY <1>4, <1>5 DEF Crash
  <2>2. QED
    BY <1>1, <2>1, ProcStepInv
<1>6. CASE Signal(w)
  <2>1. proc' = [proc EXCEPT ![w] = q] /\ row' = row /\ enqueued' = enqueued
        /\ outages' \in 0..MaxOutages
    BY <1>4, <1>6 DEF Signal, IInv, TypeOK
  <2> HIDE DEF q
  <2>2. QED
    BY <1>3, <2>1, ProcStepInv
<1>7. CASE Exit(w)
  <2>1. proc' = [proc EXCEPT ![w] = Down] /\ row' = row /\ enqueued' = enqueued
        /\ outages' \in 0..MaxOutages
    BY <1>4, <1>7 DEF Exit
  <2>2. QED
    BY <1>1, <2>1, ProcStepInv
<1>8. CASE Restart(w)
  <2> DEFINE f == Free(Down)
  <2>1. proc' = [proc EXCEPT ![w] = f] /\ row' = row /\ enqueued' = enqueued
        /\ outages' \in 0..MaxOutages
    BY <1>4, <1>8 DEF Restart
  <2>2. f \in Proc /\ f.pc = "idle" /\ f.job = NoJob /\ f.left = 0
    BY <1>2
  <2> HIDE DEF f
  <2>3. QED
    BY <2>1, <2>2, ProcStepInv
<1>9. QED
  BY <1>5, <1>6, <1>7, <1>8

LEMMA TickInv ==
  ASSUME IInv, Tick
  PROVE  IInv'
<1>1. \A j \in Jobs : row'[j] = Aged(row[j])
  BY DEF Tick, Aged, IInv, TypeOK
<1>2. row' \in [Jobs -> Row] /\ RowsOK(row)'
  <2>1. RowsOK(row)
    BY RowsOKDef DEF IInv, TypeOK
  <2>2. row' = [j \in Jobs |-> Aged(row[j])]
    BY DEF Tick, Aged
  <2>3. QED
    BY <1>1, <2>1, <2>2, AgedShape DEF RowsOK
<1>3. ASSUME NEW w \in Workers
      PROVE  /\ proc'[w] \in Proc /\ proc'[w].pc = proc[w].pc /\ proc'[w].job = proc[w].job
             /\ proc'[w].attempt = proc[w].attempt /\ proc'[w].retry = proc[w].retry
             /\ proc'[w].left = Less(proc[w].left)
  <2>1. proc[w] \in Proc /\ proc'[w] = [proc[w] EXCEPT !.left = Less(@)]
    BY DEF Tick, IInv, TypeOK
  <2>2. Less(proc[w].left) \in 0..LeaseSeconds
    BY <2>1, JobQueueAssumption DEF Proc, Less
  <2>3. QED
    BY <2>1, <2>2 DEF Proc
<1>4. TypeOK'
  BY <1>2, <1>3 DEF Tick, IInv, TypeOK
<1>5. ASSUME NEW w \in Workers PROVE Agrees(w)'
  <2>1. Agrees(w) /\ proc[w].left \in Nat /\ (Busy(w)' <=> Busy(w))
    BY <1>3, JobQueueAssumption DEF Agrees, IInv, TypeOK, Proc, ProcsAgree, LeaseHolds, Busy
  <2>2. ASSUME Busy(w)
        PROVE  LET k == proc[w].job
               IN /\ row'[k].status = row[k].status /\ row'[k].owner = row[k].owner
                  /\ row'[k].attempts = row[k].attempts /\ row'[k].limit = row[k].limit
                  /\ row'[k].lease = Less(row[k].lease)
    <3>1. proc[w].job \in Jobs /\ RowsOK(row)
      BY <2>1, <2>2, RowsOKDef DEF Agrees, ProcShape, IInv, TypeOK
    <3>2. QED
      BY <1>1, <3>1, AgedShape DEF RowsOK
  <2>3. proc[w].left = 0 => Less(proc[w].left) = 0
    BY DEF Less
  <2>4. Less(proc[w].left) > 0 => proc[w].left > 0
    BY <2>1 DEF Less
  <2>5. proc[w].pc = "failing" => Busy(w)
    BY DEF Busy
  <2>6. ProcShape(w)'
    BY <1>3, <2>1, <2>2, <2>3, <2>5 DEF Agrees, ProcShape, Owns
  <2>7. QED
    BY <1>3, <2>1, <2>2, <2>4, <2>6 DEF Agrees, WithinLease
<1>6. QED
  BY <1>2, <1>4, <1>5, Assemble

LEMMA StutterInv ==
  ASSUME IInv, UNCHANGED vars
  PROVE  IInv'
  BY DEF vars, IInv, TypeOK, RowsAgree, ProcsAgree, ProcShape, Busy, Owns, LeaseHolds,
         WithinLease, ResultOfLatestAttempt

LEMMA NextInv == IInv /\ [Next]_vars => IInv'
<1> SUFFICES ASSUME IInv, [Next]_vars PROVE IInv'
  OBVIOUS
<1>1. CASE \E j \in Jobs, limit \in Limits, wait \in 0..MaxWait : Enqueue(j, limit, wait)
  BY <1>1, EnqueueInv
<1>2. CASE Recover
  BY <1>2, SweepInv DEF Recover
<1>3. ASSUME NEW w \in Workers,
             \/ Poll(w) \/ Heartbeat(w) \/ Complete(w) \/ FailRead(w) \/ FailWrite(w)
             \/ Crash(w) \/ Signal(w) \/ Exit(w) \/ Restart(w)
      PROVE  IInv'
  BY <1>3, PollInv, HeartbeatInv, CompleteInv, FailReadInv, FailWriteInv, OutageInv
<1>4. CASE Tick
  BY <1>4, TickInv
<1>5. CASE UNCHANGED vars
  BY <1>5, StutterInv
<1>6. QED
  BY <1>1, <1>2, <1>3, <1>4, <1>5 DEF Next

-----------------------------------------------------------------------------
(* The theorems.                                                           *)

\* The inductive invariant holds in every reachable state, for any number of
\* jobs, workers, attempts and outages.
THEOREM Invariance == Spec => []IInv
  BY InitInv, NextInv, PTL DEF Spec

\* Every variable keeps its type (a lease never outlasts lease_seconds).
THEOREM TypeCorrect == Spec => []TypeOK
<1>1. IInv => TypeOK
  BY DEF IInv
<1>2. QED
  BY Invariance, <1>1, PTL

\* The columns of every row of the jobs table agree: in particular no job is
\* started more often than max_attempts, however often workers crash, and none
\* is given up before (claim_job, recover_expired_jobs, fail_job, complete_job).
THEOREM RowsAlwaysAgree == Spec => []RowsAgree
<1>1. IInv => RowsAgree
  BY DEF IInv
<1>2. QED
  BY Invariance, <1>1, PTL

\* Within its lease a process is alone with its job: the row names it and its
\* attempt, and no other process within its lease has the job.
THEOREM LeaseIsExclusive == Spec => [](LeaseHolds /\ NoDoubleWork)
<1>1. IInv => LeaseHolds /\ NoDoubleWork
  BY DistinctIdentities DEF IInv, LeaseHolds, NoDoubleWork
<1>2. QED
  BY Invariance, <1>1, PTL

\* A stored result is that of the latest attempt: complete_job's owner guard
\* keeps out a worker that overran its lease.
THEOREM LateAnswersAreRefused == Spec => []ResultOfLatestAttempt
<1>1. IInv => ResultOfLatestAttempt
  BY DEF IInv
<1>2. QED
  BY Invariance, <1>1, PTL

-----------------------------------------------------------------------------
(* What one step may make of a row: the ground of the action properties    *)
(* and of the contract.                                                    *)

SameCounts(r, t) == t.attempts = r.attempts /\ t.limit = r.limit /\ t.result = r.result

Move(r, t) ==
  \/ t = r
  \/ /\ r.status = "ABSENT" /\ t.status = "QUEUED" /\ t.limit \in Limits
     /\ t.attempts = r.attempts /\ t.result = r.result
  \/ r.status = "RUNNING" /\ t.status = "QUEUED" /\ SameCounts(r, t)
  \/ r.status = "RUNNING" /\ t.status = "FAILED" /\ r.attempts = r.limit /\ SameCounts(r, t)
  \/ /\ r.status \in {"QUEUED", "RUNNING"} /\ t.status = "RUNNING"
     /\ r.attempts < r.limit /\ t.attempts = r.attempts + 1
     /\ t.limit = r.limit /\ t.result = r.result
  \/ /\ r.status = "RUNNING" /\ t.status = "SUCCEEDED" /\ r.attempts >= 1
     /\ t.result = r.attempts /\ t.attempts = r.attempts /\ t.limit = r.limit
  \/ r.status \in {"QUEUED", "RUNNING"} /\ t.status = r.status /\ SameCounts(r, t)

LEMMA RecoveredMoves ==
  ASSUME NEW r \in Row, RowShape(r), ResultShape(r)
  PROVE  Move(r, Recovered(r))
<1> DEFINE t == Recovered(r)
<1>1. /\ RowShape(t) /\ ResultShape(t) /\ t.attempts = r.attempts /\ t.limit = r.limit
      /\ t # r => r.status = "RUNNING" /\ t.status \in {"QUEUED", "FAILED"}
  BY RecoveredShape
<1> HIDE DEF t
<1>2. CASE t = r
  BY <1>2 DEF Move, t
<1>3. CASE t # r
  <2>1. t.result = 0 /\ r.result = 0
    BY <1>1, <1>3 DEF ResultShape
  <2>2. t.status = "FAILED" => r.attempts = r.limit
    BY <1>1 DEF RowShape
  <2>3. QED
    BY <1>1, <1>3, <2>1, <2>2 DEF Move, SameCounts, t
<1>4. QED
  BY <1>2, <1>3

\* A claim takes a row that waits, possibly because the sweep just put it back.
LEMMA ClaimedMoves ==
  ASSUME NEW r \in Row, RowShape(r), ResultShape(r), NEW o \in Identity,
         Recovered(r).status = "QUEUED", Recovered(r).wait = 0,
         Recovered(r).attempts < Recovered(r).limit
  PROVE  Move(r, Claimed(Recovered(r), o))
<1> DEFINE u == Recovered(r)
           t == Claimed(u, o)
<1>1. /\ u \in Row /\ RowShape(u) /\ ResultShape(u)
      /\ u.attempts = r.attempts /\ u.limit = r.limit
      /\ u # r => r.status = "RUNNING"
  BY RecoveredShape
<1>2. u.status = "QUEUED" /\ u.wait = 0 /\ u.attempts < u.limit
  OBVIOUS
<1> HIDE DEF u
<1>3. /\ t.status = "RUNNING" /\ t.attempts = u.attempts + 1 /\ t.limit = u.limit
      /\ t.result = u.result
  BY <1>1, <1>2, ClaimedShape
<1>4. r.status \in {"QUEUED", "RUNNING"}
  BY <1>1, <1>2
<1>5. u.result = 0 /\ r.result = 0
  BY <1>1, <1>2, <1>4 DEF ResultShape
<1> HIDE DEF t
<1>6. Move(r, t)
  BY <1>1, <1>2, <1>3, <1>4, <1>5 DEF Move
<1>7. QED
  BY <1>6 DEF t, u

LEMMA AgedKeepsCounts ==
  ASSUME NEW r \in Row
  PROVE  Aged(r).attempts = r.attempts
  BY DEF Aged, Row

LEMMA AgedMoves ==
  ASSUME NEW r \in Row, RowShape(r)
  PROVE  Move(r, Aged(r))
<1>1. /\ Aged(r).status = r.status /\ Aged(r).attempts = r.attempts
      /\ Aged(r).limit = r.limit /\ Aged(r).result = r.result
  BY DEF Aged, Row
<1>2. CASE r.status \in {"QUEUED", "RUNNING"}
  BY <1>1, <1>2 DEF Move, SameCounts
<1>3. CASE r.status \notin {"QUEUED", "RUNNING"}
  <2>1. r.lease = 0 /\ r.wait = 0
    BY <1>3, JobQueueAssumption DEF RowShape, Row
  <2>2. Aged(r) = r
    BY <2>1 DEF Aged, Less, Row
  <2>3. QED
    BY <2>2 DEF Move
<1>4. QED
  BY <1>2, <1>3

\* One operation writes at most one row (a claim: after the sweep).
LEMMA OneRowMoves ==
  ASSUME NEW f, NEW j \in Jobs, NEW r, row' = [f EXCEPT ![j] = r], f \in [Jobs -> Row],
         \A k \in Jobs : Move(row[k], f[k]), Move(row[j], r)
  PROVE  \A k \in Jobs : Move(row[k], row'[k])
  OBVIOUS

LEMMA WorkerMoves ==
  ASSUME IInv, NEW w \in Workers, Heartbeat(w) \/ Complete(w) \/ FailWrite(w)
  PROVE  \A k \in Jobs : Move(row[k], row'[k])
<1> DEFINE j == proc[w].job
<1>1. /\ j \in Jobs /\ row[j] \in Row /\ RowShape(row[j]) /\ ResultShape(row[j])
      /\ proc[w] \in Proc /\ ProcShape(w) /\ Busy(w)
  BY DEF Heartbeat, Complete, FailWrite, IInv, TypeOK, RowsAgree, ResultOfLatestAttempt,
         ResultShape, ProcsAgree, ProcShape, Busy
<1>2. \A k \in Jobs : Move(row[k], row[k])
  BY DEF Move
<1>3. row \in [Jobs -> Row]
  BY DEF IInv, TypeOK
<1>4. CASE row' = row
  BY <1>2, <1>4
<1>5. Owns(w, j) => row[j].status = "RUNNING" /\ row[j].attempts = proc[w].attempt
                    /\ row[j].attempts >= 1 /\ row[j].result = 0
  BY <1>1 DEF Owns, ProcShape, RowShape, ResultShape
<1>6. CASE Heartbeat(w)
  <2> DEFINE r == [row[j] EXCEPT !.lease = LeaseSeconds]
  <2>1. row' = [row EXCEPT ![j] = r] /\ Owns(w, j)
    BY <1>1, <1>3, <1>6 DEF Heartbeat
  <2>2. r.status = row[j].status /\ r.attempts = row[j].attempts /\ r.limit = row[j].limit
        /\ r.result = row[j].result
    BY <1>1 DEF Row
  <2> HIDE DEF r
  <2>3. Move(row[j], r)
    BY <1>5, <2>1, <2>2 DEF Move, SameCounts
  <2> HIDE DEF j
  <2>4. QED
    BY <1>1, <1>2, <1>3, <2>1, <2>3, OneRowMoves
<1>7. CASE Complete(w) /\ Owns(w, j)
  <2> DEFINE r == Finished(row[j], proc[w].attempt)
  <2>1. row' = [row EXCEPT ![j] = r]
    BY <1>1, <1>3, <1>7 DEF Complete, Finished
  <2>2. r.status = "SUCCEEDED" /\ r.attempts = row[j].attempts /\ r.limit = row[j].limit
        /\ r.result = proc[w].attempt
    BY <1>1 DEF Finished, Row
  <2> HIDE DEF r
  <2>3. Move(row[j], r)
    BY <1>5, <1>7, <2>2 DEF Move
  <2> HIDE DEF j
  <2>4. QED
    BY <1>1, <1>2, <1>3, <2>1, <2>3, OneRowMoves
<1>8. CASE FailWrite(w) /\ Owns(w, j)
  <2> DEFINE s == IF proc[w].retry THEN "QUEUED" ELSE "FAILED"
             r == Failed(row[j], s)
  <2>1. row' = [row EXCEPT ![j] = r]
    BY <1>1, <1>3, <1>8 DEF FailWrite, Failed
  <2>2. r.status = s /\ r.attempts = row[j].attempts /\ r.limit = row[j].limit
        /\ r.result = row[j].result
    <3> HIDE DEF s
    <3> QED BY <1>1 DEF Failed, Row
  <2>3. \/ s = "QUEUED"
        \/ s = "FAILED" /\ row[j].attempts = row[j].limit
    <3>1. row[j].attempts \in Nat /\ row[j].limit \in Nat /\ row[j].attempts <= row[j].limit
      BY <1>1 DEF Row, RowShape
    <3>2. proc[w].retry <=> row[j].attempts < row[j].limit
      BY <1>1, <1>8 DEF FailWrite, ProcShape
    <3>3. CASE proc[w].retry
      BY <3>3
    <3>4. CASE ~proc[w].retry
      BY <3>1, <3>2, <3>4
    <3>5. QED BY <3>3, <3>4
  <2> HIDE DEF r, s
  <2>4. Move(row[j], r)
    BY <1>5, <1>8, <2>2, <2>3 DEF Move, SameCounts
  <2> HIDE DEF j
  <2>5. QED
    BY <1>1, <1>2, <1>3, <2>1, <2>4, OneRowMoves
<1>9. QED
  BY <1>4, <1>6, <1>7, <1>8 DEF Complete, FailWrite

LEMMA SweepMoves ==
  ASSUME IInv
  PROVE  \A k \in Jobs : Move(row[k], Sweep[k])
  BY RecoveredMoves DEF IInv, TypeOK, RowsAgree, ResultOfLatestAttempt, ResultShape, Sweep

LEMMA PollMoves ==
  ASSUME IInv, NEW w \in Workers, Poll(w)
  PROVE  \A k \in Jobs : Move(row[k], row'[k])
<1>1. CASE row' = Sweep
  BY <1>1, SweepMoves
<1>2. ASSUME NEW j \in Ready(Sweep),
             row' = [Sweep EXCEPT ![j].status = "RUNNING", ![j].attempts = @ + 1,
                                  ![j].owner = IdentityOf[w], ![j].lease = LeaseSeconds]
      PROVE  \A k \in Jobs : Move(row[k], row'[k])
  <2> DEFINE r == Claimed(Sweep[j], IdentityOf[w])
  <2>1. row' = [Sweep EXCEPT ![j] = r] /\ j \in Jobs /\ Sweep \in [Jobs -> Row]
    BY <1>2, SweepShape DEF Claimed, Ready
  <2>2. Sweep[j] = Recovered(row[j]) /\ row[j] \in Row /\ RowShape(row[j])
        /\ ResultShape(row[j]) /\ IdentityOf[w] \in Identity
    BY <2>1, JobQueueAssumption
    DEF Sweep, IInv, TypeOK, RowsAgree, ResultOfLatestAttempt, ResultShape
  <2>3. Sweep[j].status = "QUEUED" /\ Sweep[j].wait = 0 /\ Sweep[j].attempts < Sweep[j].limit
    BY DEF Ready
  <2>4. Move(row[j], r)
    BY <2>2, <2>3, ClaimedMoves
  <2> HIDE DEF r
  <2>5. QED
    BY <2>1, <2>4, SweepMoves, OneRowMoves
<1>3. QED
  BY <1>1, <1>2 DEF Poll

LEMMA EnqueueMoves ==
  ASSUME IInv, NEW j \in Jobs, NEW limit \in Limits, NEW wait \in 0..MaxWait,
         Enqueue(j, limit, wait)
  PROVE  \A k \in Jobs : Move(row[k], row'[k])
<1> DEFINE r == [Absent EXCEPT !.status = "QUEUED", !.limit = limit, !.wait = wait,
                               !.born = enqueued + 1]
<1>1. row' = [row EXCEPT ![j] = r] /\ row \in [Jobs -> Row] /\ row[j].status = "ABSENT"
  BY DEF Enqueue, IInv, TypeOK
<1>2. r.status = "QUEUED" /\ r.limit = limit /\ r.attempts = 0 /\ r.result = 0
  BY DEF Absent
<1>3. row[j].attempts = 0 /\ row[j].result = 0
  <2>1. RowShape(row[j]) /\ row[j] \in Row
    BY DEF IInv, TypeOK, RowsAgree
  <2>2. row[j].result = 0
    BY <1>1 DEF IInv, ResultOfLatestAttempt
  <2>3. row[j].attempts <= 0 /\ row[j].attempts \in Nat
    BY <1>1, <2>1 DEF RowShape, Row
  <2>4. QED
    BY <2>2, <2>3
<1> HIDE DEF r
<1>4. Move(row[j], r)
  BY <1>1, <1>2, <1>3 DEF Move
<1>5. \A k \in Jobs : Move(row[k], row[k])
  BY DEF Move
<1>6. QED
  BY <1>1, <1>4, <1>5, OneRowMoves

LEMMA Moves == IInv /\ [Next]_vars => \A k \in Jobs : Move(row[k], row'[k])
<1> SUFFICES ASSUME IInv, [Next]_vars PROVE \A k \in Jobs : Move(row[k], row'[k])
  OBVIOUS
<1>1. CASE \E j \in Jobs, limit \in Limits, wait \in 0..MaxWait : Enqueue(j, limit, wait)
  BY <1>1, EnqueueMoves
<1>2. CASE Recover
  BY <1>2, SweepMoves DEF Recover
<1>3. ASSUME NEW w \in Workers, Poll(w) PROVE \A k \in Jobs : Move(row[k], row'[k])
  BY <1>3, PollMoves
<1>4. ASSUME NEW w \in Workers, Heartbeat(w) \/ Complete(w) \/ FailWrite(w)
      PROVE  \A k \in Jobs : Move(row[k], row'[k])
  BY <1>4, WorkerMoves
<1>5. CASE Tick
  <2>1. \A k \in Jobs : row'[k] = Aged(row[k]) /\ row[k] \in Row /\ RowShape(row[k])
    BY <1>5 DEF Tick, Aged, IInv, TypeOK, RowsAgree
  <2>2. QED
    BY <2>1, AgedMoves
<1>6. CASE row' = row
  BY <1>6 DEF Move
<1>7. QED
  BY <1>1, <1>2, <1>3, <1>4, <1>5, <1>6
  DEF Next, vars, FailRead, Crash, Signal, Exit, Restart

\* A done or given up job is never touched again (the guards of complete_job,
\* fail_job, heartbeat_job and of the sweep, together with the claim's).
THEOREM FinalRowsStay == Spec => TerminalIsFinal
<1>1. IInv /\ [Next]_vars =>
        [\A j \in Jobs : row[j].status \in Terminal => row'[j] = row[j]]_vars
  <2> SUFFICES ASSUME IInv, [Next]_vars, NEW j \in Jobs, row[j].status \in Terminal
               PROVE  row'[j] = row[j]
    OBVIOUS
  <2>1. Move(row[j], row'[j])
    BY Moves
  <2>2. QED
    BY <2>1 DEF Move, Terminal
<1>2. QED
  BY <1>1, Invariance, PTL DEF Spec, TerminalIsFinal

\* A job is started only when no older job could have been (ORDER BY created_at
\* over the table as the sweep leaves it).
THEOREM OldestFirst == Spec => NoOvertaking
<1> DEFINE Order == \A j \in Jobs : row'[j].attempts > row[j].attempts =>
       \A i \in Jobs : /\ row[i].born < row[j].born /\ row[i].attempts < row[i].limit
                       /\ row[i].status = "QUEUED" \/ Expired(row[i])
                       => row'[i].status = "QUEUED" /\ row'[i].wait > 0
<1>1. IInv /\ [Next]_vars => [Order]_vars
  <2> SUFFICES ASSUME IInv, [Next]_vars, NEW j \in Jobs,
                      row'[j].attempts > row[j].attempts, NEW i \in Jobs,
                      row[i].born < row[j].born, row[i].attempts < row[i].limit,
                      row[i].status = "QUEUED" \/ Expired(row[i])
               PROVE  row'[i].status = "QUEUED" /\ row'[i].wait > 0
    OBVIOUS
  <2>1. /\ \A k \in Jobs : row[k] \in Row /\ RowShape(row[k]) /\ Sweep[k] = Recovered(row[k])
        /\ Sweep \in [Jobs -> Row]
    BY SweepShape DEF IInv, TypeOK, RowsAgree, Sweep
  <2>2. \A k \in Jobs : Sweep[k].born = row[k].born
    <3>1. \A k \in Jobs : ResultShape(row[k])
      BY DEF IInv, ResultOfLatestAttempt, ResultShape
    <3>2. QED
      BY <2>1, <3>1, RecoveredShape
  <2>3. \A k \in Jobs : Sweep[k].attempts = row[k].attempts
    BY SweepShape
  <2>4. row[j].attempts \in Nat /\ row[j].born \in Nat /\ row[i].born \in Nat
        /\ row[i].attempts \in Nat /\ row[i].limit \in Nat
    BY <2>1 DEF Row
  <2>5. PICK w \in Workers : Poll(w) /\ row' # Sweep
    <3>1. row' # row
      BY <2>4
    <3>2. row' # Sweep
      BY <2>3, <2>4
    <3>3. ASSUME NEW k \in Jobs, NEW limit \in Limits, NEW wait \in 0..MaxWait,
                 Enqueue(k, limit, wait)
          PROVE  row'[j].attempts = 0 \/ row'[j] = row[j]
      <4>1. CASE k = j
        BY <3>3, <4>1 DEF Enqueue, Absent, IInv, TypeOK
      <4>2. CASE k # j
        BY <3>3, <4>2 DEF Enqueue, IInv, TypeOK
      <4>3. QED BY <4>1, <4>2
    <3>4. ASSUME Tick PROVE row'[j].attempts = row[j].attempts
      BY <3>4, <2>1, AgedKeepsCounts DEF Tick, Aged
    <3>5. ASSUME NEW w \in Workers, Heartbeat(w) \/ Complete(w) \/ FailWrite(w)
          PROVE  row'[j].attempts = row[j].attempts
      BY <2>1, <3>5 DEF Heartbeat, Complete, FailWrite, IInv, TypeOK, Row
    <3>6. ~(Recover \/ Tick)
      BY <2>4, <3>2, <3>4 DEF Recover
    <3>7. ASSUME NEW k \in Jobs, NEW limit \in Limits, NEW wait \in 0..MaxWait,
                 Enqueue(k, limit, wait)
          PROVE  FALSE
      BY <2>4, <3>3, <3>7
    <3>8. PICK w \in Workers :
            \/ Poll(w) \/ Heartbeat(w) \/ Complete(w) \/ FailRead(w) \/ FailWrite(w)
            \/ Crash(w) \/ Signal(w) \/ Exit(w) \/ Restart(w)
      BY <3>1, <3>6, <3>7 DEF Next, vars
    <3>9. Poll(w)
      BY <2>4, <3>1, <3>5, <3>8 DEF FailRead, Crash, Signal, Exit, Restart
    <3>10. QED
      BY <3>2, <3>9
  <2>6. PICK k \in Ready(Sweep) :
          /\ Oldest(k, Sweep)
          /\ row' = [Sweep EXCEPT ![k].status = "RUNNING", ![k].attempts = @ + 1,
                                  ![k].owner = IdentityOf[w], ![k].lease = LeaseSeconds]
    BY <2>5 DEF Poll
  <2>7. k = j
    BY <2>1, <2>3, <2>4, <2>6
  <2>8. i # k /\ row'[i] = Sweep[i]
    BY <2>1, <2>4, <2>6, <2>7 DEF Ready
  <2>9. Sweep[i].status = "QUEUED" /\ Sweep[i].attempts < Sweep[i].limit
    <3>1. Recovered(row[i]).limit = row[i].limit /\ Recovered(row[i]).status = "QUEUED"
      <4>1. CASE ~Expired(row[i])
        BY <4>1 DEF Recovered
      <4>2. CASE Expired(row[i])
        <5>1. ResultShape(row[i])
          BY DEF IInv, ResultOfLatestAttempt, ResultShape
        <5>2. QED
          BY <2>1, <4>2, <5>1, RecoveredShape
      <4>3. QED BY <4>1, <4>2
    <3>2. QED
      BY <2>1, <2>3, <3>1
  <2>10. Sweep[i].wait # 0
    <3>1. ~(Sweep[j].born <= Sweep[i].born)
      BY <2>2, <2>4
    <3>2. i \notin Ready(Sweep)
      BY <2>6, <2>7, <3>1 DEF Oldest
    <3>3. QED
      BY <2>9, <3>2 DEF Ready
  <2>11. Sweep[i].wait \in Nat
    BY <2>1, JobQueueAssumption DEF Row
  <2>12. QED
    BY <2>8, <2>9, <2>10, <2>11
<1>2. Spec => [][Order]_vars
  BY <1>1, Invariance, PTL DEF Spec
<1>3. QED
  BY <1>2, PTL DEF NoOvertaking

-----------------------------------------------------------------------------
(* The queue implements the contract of JobContract.                       *)

StateOf(r) == CASE r.status = "ABSENT" -> "absent"
                [] r.status \in {"QUEUED", "RUNNING"} -> "open"
                [] r.status = "SUCCEEDED" -> "done"
                [] r.status = "FAILED" -> "given_up"

LEMMA StateOfIs ==
  ASSUME NEW r
  PROVE  /\ r.status = "ABSENT" => StateOf(r) = "absent"
         /\ r.status \in {"QUEUED", "RUNNING"} => StateOf(r) = "open"
         /\ r.status = "SUCCEEDED" => StateOf(r) = "done"
         /\ r.status = "FAILED" => StateOf(r) = "given_up"
  BY DEF StateOf

LEMMA ContractInit == Init => Contract!Init
  BY DEF Init, Contract!Init, Absent

LEMMA ContractStep == IInv /\ [Next]_vars => [Contract!Next]_(Contract!vars)
<1> SUFFICES ASSUME IInv, [Next]_vars, NEW j \in Jobs
             PROVE  Contract!Stay(j) \/ Contract!Step(j)
  BY DEF Contract!Next
<1> DEFINE r == row[j]
           t == row'[j]
<1>1. Move(r, t) /\ r \in Row /\ t \in Row
  BY Moves, NextInv DEF IInv, TypeOK
<1>2. RowShape(r) /\ RowShape(t)
  BY NextInv DEF IInv, RowsAgree
<1> DEFINE Kept == StateOf(t) = StateOf(r) /\ SameCounts(r, t)
<1>3. Kept => Contract!Stay(j)
  <2> SUFFICES ASSUME Kept PROVE Contract!Stay(j)
    OBVIOUS
  <2>1. CASE StateOf(r) = "absent" /\ StateOf(t) = "absent"
    BY <2>1 DEF StateOf, SameCounts, Contract!Stay, Contract!Same
  <2>2. CASE StateOf(r) = "open" /\ StateOf(t) = "open"
    BY <2>2 DEF StateOf, SameCounts, Contract!Stay, Contract!Same
  <2>3. CASE StateOf(r) = "done" /\ StateOf(t) = "done"
    BY <2>3 DEF StateOf, SameCounts, Contract!Stay, Contract!Same
  <2>4. CASE StateOf(r) = "given_up" /\ StateOf(t) = "given_up"
    BY <2>4 DEF StateOf, SameCounts, Contract!Stay, Contract!Same
  <2>5. StateOf(r) \in {"absent", "open", "done", "given_up"}
    BY <1>1, StateOfIs DEF Row, Statuses
  <2>6. QED
    BY <2>1, <2>2, <2>3, <2>4, <2>5
<1>4. StateOf(r) = "absent" /\ StateOf(t) = "open" /\ t.limit \in Limits
      /\ t.attempts = r.attempts /\ t.result = r.result => Contract!Step(j)
  BY DEF StateOf, Contract!Step, Contract!Submit, Contract!Same
<1>5. StateOf(r) = "open" /\ StateOf(t) = "open" /\ r.attempts < r.limit
      /\ t.attempts = r.attempts + 1 /\ t.limit = r.limit /\ t.result = r.result
      => Contract!Step(j)
  BY DEF StateOf, Contract!Step, Contract!Try, Contract!Same
<1>6. StateOf(r) = "open" /\ StateOf(t) = "done" /\ r.attempts >= 1
      /\ t.result = r.attempts /\ t.attempts = r.attempts /\ t.limit = r.limit
      => Contract!Step(j)
  BY DEF StateOf, Contract!Step, Contract!Done, Contract!Same
<1>7. StateOf(r) = "open" /\ StateOf(t) = "given_up" /\ r.attempts = r.limit
      /\ SameCounts(r, t) => Contract!Step(j)
  BY DEF StateOf, SameCounts, Contract!Step, Contract!GiveUp, Contract!Same
<1> HIDE DEF r, t
<1>8. QED
  BY <1>1, <1>3, <1>4, <1>5, <1>6, <1>7, StateOfIs DEF Move, SameCounts

\* Leases, sweeps, late answers and crashes together look to a caller like a job
\* that is tried within its budget and ends once, done or with every try spent.
THEOREM QueueKeepsContract == Spec => KeepsContract
  BY Invariance, ContractInit, ContractStep, PTL DEF Spec, KeepsContract, Contract!Spec

=============================================================================
