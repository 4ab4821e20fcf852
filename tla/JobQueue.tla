------------------------------ MODULE JobQueue ------------------------------
(***************************************************************************)
(* The persisted job table of ClearDraft (src/cleardraft/store.py) and the *)
(* worker processes that drain it (src/cleardraft_worker/__main__.py).     *)
(*                                                                         *)
(* Every store call is one SQLite transaction and so one action, except    *)
(* fail_job, whose SELECT runs before the transaction of its UPDATE.       *)
(*                                                                         *)
(* Time is relative: a row keeps the seconds left of its lease and of its  *)
(* wait (lease_expires_at - now, available_at - now, both cut at 0), and a *)
(* Tick lets a second pass everywhere.                                     *)
(***************************************************************************)
EXTENDS Naturals

CONSTANTS
  Jobs,          (* the jobs that may be enqueued                               *)
  Workers,       (* the worker processes                                        *)
  Identity,      (* the lease owner names, WORKER_ID or host name and pid       *)
  IdentityOf,    (* the name each process claims under                          *)
  NoOwner,       (* lease_owner IS NULL                                         *)
  NoJob,         (* a process that holds no job                                 *)
  LeaseSeconds,  (* lease_seconds of run_worker                                 *)
  Limits,        (* the max_attempts values callers enqueue with                *)
  MaxWait,       (* bound: the furthest available_at of a new job               *)
  MaxOutages     (* bound: crashes and stop signals in a behaviour              *)

ASSUME JobQueueAssumption ==
  /\ IdentityOf \in [Workers -> Identity]
  /\ NoOwner \notin Identity
  /\ NoJob \notin Jobs
  /\ LeaseSeconds \in Nat \ {0}        \* "lease_seconds must be positive"
  /\ Limits \subseteq Nat \ {0}        \* "max_attempts must be positive"
  /\ MaxWait \in Nat
  /\ MaxOutages \in Nat

\* Two live processes never use one name: host name and pid, or a WORKER_ID
\* that the deployment gives to one process only.
ASSUME DistinctIdentities ==
  \A v, w \in Workers : IdentityOf[v] = IdentityOf[w] => v = w

VARIABLES
  row,       \* the jobs table
  enqueued,  \* how many rows were inserted: the created_at order
  proc,      \* what each worker process is doing
  outages    \* crashes and stop signals so far
vars == <<row, enqueued, proc, outages>>

-----------------------------------------------------------------------------
(* The jobs table. result is the attempt whose handler wrote result_json.  *)

Statuses == {"ABSENT", "QUEUED", "RUNNING", "SUCCEEDED", "FAILED"}
Errors == {"none", "lease_expired", "handler_error"}
Terminal == {"SUCCEEDED", "FAILED"}

Row == [status: Statuses, attempts: Nat, limit: Nat, owner: Identity \cup {NoOwner},
        lease: 0..LeaseSeconds, wait: 0..MaxWait, born: Nat, error: Errors, result: Nat]

Absent == [status |-> "ABSENT", attempts |-> 0, limit |-> 0, owner |-> NoOwner,
           lease |-> 0, wait |-> 0, born |-> 0, error |-> "none", result |-> 0]

\* What recover_expired_jobs and the head of claim_job do to one row.
Expired(r) == r.status = "RUNNING" /\ r.lease = 0

MutantRecoveredGivesUp(r) ==
  IF Expired(r)
  THEN [r EXCEPT !.status = "FAILED", !.error = "lease_expired",
                 !.owner = NoOwner, !.lease = 0, !.wait = 0]
  ELSE r

Recovered(r) ==
  IF ~Expired(r) THEN r
  ELSE LET spent == r.attempts >= r.limit
       IN [r EXCEPT !.status = IF spent THEN "FAILED" ELSE "QUEUED",
                    !.error = IF spent /\ r.error = "none" THEN "lease_expired" ELSE @,
                    !.owner = NoOwner, !.lease = 0, !.wait = 0]

MutantSweepIgnoresLease ==
  [j \in Jobs |-> IF row[j].status = "RUNNING" THEN Recovered([row[j] EXCEPT !.lease = 0])
                  ELSE row[j]]
Sweep == [j \in Jobs |-> Recovered(row[j])]

\* The claimable rows of a table, and the one ORDER BY created_at, id picks.
Ready(table) ==
  {j \in Jobs : /\ table[j].status = "QUEUED"
                /\ table[j].wait = 0
                /\ table[j].attempts < table[j].limit}

MutantNewestFirst(j, table) == \A k \in Ready(table) : table[k].born <= table[j].born
Oldest(j, table) == \A k \in Ready(table) : table[j].born <= table[k].born

\* WHERE id=? AND status='RUNNING' AND lease_owner=?
MutantOwnsIgnoresOwner(w, j) == row[j].status = "RUNNING"
Owns(w, j) == row[j].status = "RUNNING" /\ row[j].owner = IdentityOf[w]

-----------------------------------------------------------------------------
(* The worker processes.                                                   *)

PCs == {"down", "idle", "running", "failing"}

\* left is what the process may know of its lease; retry is what the SELECT of
\* fail_job found, for its UPDATE.
Proc == [pc: PCs, stopping: BOOLEAN, job: Jobs \cup {NoJob}, attempt: Nat,
         left: 0..LeaseSeconds, retry: BOOLEAN]

Down == [pc |-> "down", stopping |-> FALSE, job |-> NoJob, attempt |-> 0,
         left |-> 0, retry |-> FALSE]

Free(p) == [p EXCEPT !.pc = "idle", !.job = NoJob, !.attempt = 0, !.left = 0,
                     !.retry = FALSE]

Init ==
  /\ row = [j \in Jobs |-> Absent]
  /\ enqueued = 0
  /\ proc = [w \in Workers |-> Free(Down)]
  /\ outages = 0

-----------------------------------------------------------------------------
(* Operations on the table.                                                *)

Enqueue(j, limit, wait) ==
  /\ row[j].status = "ABSENT"
  /\ row' = [row EXCEPT ![j] = [Absent EXCEPT !.status = "QUEUED", !.limit = limit,
                                              !.wait = wait, !.born = enqueued + 1]]
  /\ enqueued' = enqueued + 1
  /\ UNCHANGED <<proc, outages>>

\* recover_expired_jobs called on its own.
Recover ==
  /\ row' = Sweep
  /\ UNCHANGED <<enqueued, proc, outages>>

\* claim_job, the first call of process_one: the sweep is committed even when
\* nothing can be claimed, and then the loop sleeps and polls again.
MutantPollNeverSweeps(w) ==
  /\ proc[w].pc = "idle" /\ ~proc[w].stopping
  /\ \E j \in Ready(row) :
        /\ Oldest(j, row)
        /\ row' = [row EXCEPT ![j].status = "RUNNING", ![j].attempts = @ + 1,
                              ![j].owner = IdentityOf[w], ![j].lease = LeaseSeconds]
        /\ proc' = [proc EXCEPT ![w].pc = "running", ![w].job = j,
                                ![w].attempt = row[j].attempts + 1,
                                ![w].left = LeaseSeconds]
  /\ UNCHANGED <<enqueued, outages>>

Poll(w) ==
  /\ proc[w].pc = "idle" /\ ~proc[w].stopping
  /\ \/ /\ Ready(Sweep) = {}
        /\ row' = Sweep
        /\ UNCHANGED proc
     \/ \E j \in Ready(Sweep) :
        /\ Oldest(j, Sweep)
        /\ row' = [Sweep EXCEPT ![j].status = "RUNNING", ![j].attempts = @ + 1,
                                ![j].owner = IdentityOf[w], ![j].lease = LeaseSeconds]
        /\ proc' = [proc EXCEPT ![w].pc = "running", ![w].job = j,
                                ![w].attempt = Sweep[j].attempts + 1,
                                ![w].left = LeaseSeconds]
  /\ UNCHANGED <<enqueued, outages>>

\* heartbeat_job, open to a handler: process_one itself never renews a lease.
\* It asks who owns the row, not whether the lease is still running.
Heartbeat(w) ==
  /\ proc[w].pc = "running"
  /\ Owns(w, proc[w].job)
  /\ row' = [row EXCEPT ![proc[w].job].lease = LeaseSeconds]
  /\ proc' = [proc EXCEPT ![w].left = LeaseSeconds]
  /\ UNCHANGED <<enqueued, outages>>

\* The handler returned: complete_job, whose outcome process_one ignores.
Complete(w) ==
  LET j == proc[w].job IN
  /\ proc[w].pc = "running"
  /\ row' = IF Owns(w, j)
            THEN [row EXCEPT ![j].status = "SUCCEEDED", ![j].result = proc[w].attempt,
                             ![j].owner = NoOwner, ![j].lease = 0]
            ELSE row
  /\ proc' = [proc EXCEPT ![w] = Free(@)]
  /\ UNCHANGED <<enqueued, outages>>

\* The handler raised: the SELECT of fail_job finds out whether to retry.
FailRead(w) ==
  LET j == proc[w].job IN
  /\ proc[w].pc = "running"
  /\ proc' = IF Owns(w, j)
             THEN [proc EXCEPT ![w].pc = "failing",
                               ![w].retry = row[j].attempts < row[j].limit]
             ELSE [proc EXCEPT ![w] = Free(@)]
  /\ UNCHANGED <<row, enqueued, outages>>

\* The UPDATE of fail_job, guarded again; the worker asks for no retry delay.
FailWrite(w) ==
  LET j == proc[w].job IN
  /\ proc[w].pc = "failing"
  /\ row' = IF Owns(w, j)
            THEN [row EXCEPT ![j].status = IF proc[w].retry THEN "QUEUED" ELSE "FAILED",
                             ![j].error = "handler_error", ![j].wait = 0,
                             ![j].owner = NoOwner, ![j].lease = 0]
            ELSE row
  /\ proc' = [proc EXCEPT ![w] = Free(@)]
  /\ UNCHANGED <<enqueued, outages>>

-----------------------------------------------------------------------------
(* Processes come and go, time passes.                                     *)

\* The process is killed, loses its host or dies on a store error.
Crash(w) ==
  /\ proc[w].pc # "down" /\ outages < MaxOutages
  /\ proc' = [proc EXCEPT ![w] = Down]
  /\ outages' = outages + 1
  /\ UNCHANGED <<row, enqueued>>

\* SIGTERM or SIGINT only sets a flag, read between two jobs.
Signal(w) ==
  /\ proc[w].pc # "down" /\ ~proc[w].stopping /\ outages < MaxOutages
  /\ proc' = [proc EXCEPT ![w].stopping = TRUE]
  /\ outages' = outages + 1
  /\ UNCHANGED <<row, enqueued>>

Exit(w) ==
  /\ proc[w].pc = "idle" /\ proc[w].stopping
  /\ proc' = [proc EXCEPT ![w] = Down]
  /\ UNCHANGED <<row, enqueued, outages>>

\* A process is started again, under the same name.
Restart(w) ==
  /\ proc[w].pc = "down"
  /\ proc' = [proc EXCEPT ![w] = Free(Down)]
  /\ UNCHANGED <<row, enqueued, outages>>

Less(n) == IF n = 0 THEN 0 ELSE n - 1

Tick ==
  /\ \/ \E j \in Jobs : row[j].lease > 0 \/ row[j].wait > 0
     \/ \E w \in Workers : proc[w].left > 0
  /\ row' = [j \in Jobs |-> [row[j] EXCEPT !.lease = Less(@), !.wait = Less(@)]]
  /\ proc' = [w \in Workers |-> [proc[w] EXCEPT !.left = Less(@)]]
  /\ UNCHANGED <<enqueued, outages>>

-----------------------------------------------------------------------------
Finish(w) == Complete(w) \/ FailRead(w) \/ FailWrite(w)

Next ==
  \/ \E j \in Jobs, limit \in Limits, wait \in 0..MaxWait : Enqueue(j, limit, wait)
  \/ Recover
  \/ \E w \in Workers :
        \/ Poll(w) \/ Heartbeat(w) \/ Complete(w) \/ FailRead(w) \/ FailWrite(w)
        \/ Crash(w) \/ Signal(w) \/ Exit(w) \/ Restart(w)
  \/ Tick

Spec == Init /\ [][Next]_vars

\* A live process keeps polling, a handler ends and time passes. Nothing makes
\* anybody call Enqueue, Recover or Heartbeat, and nothing starts a process again
\* (docker-compose.yml gives the worker no restart policy).
Fairness ==
  /\ WF_vars(Tick)
  /\ \A w \in Workers : WF_vars(Poll(w)) /\ WF_vars(Finish(w)) /\ WF_vars(Exit(w))

FairSpec == Spec /\ Fairness

-----------------------------------------------------------------------------
(* What the queue promises.                                                *)

\* Every variable keeps its type; in particular a lease never outlasts
\* lease_seconds.
TypeOK ==
  /\ row \in [Jobs -> Row]
  /\ enqueued \in Nat
  /\ proc \in [Workers -> Proc]
  /\ outages \in 0..MaxOutages

\* The columns of a row agree: a job that waits has an attempt left, a leased
\* job is one that runs, a job is given up only when its attempts are spent and
\* with a reason, and no attempt is made beyond max_attempts (store.py claim_job,
\* recover_expired_jobs, fail_job and complete_job each write some of them).
RowShape(r) ==
  /\ r.attempts <= r.limit
  /\ r.status = "ABSENT" => r.limit = 0
  /\ r.status # "ABSENT" => r.limit >= 1 /\ r.born >= 1
  /\ r.status = "QUEUED" => r.attempts < r.limit
  /\ r.status = "RUNNING" <=> r.owner # NoOwner
  /\ r.lease > 0 => r.status = "RUNNING"
  /\ r.wait > 0 => r.status = "QUEUED"
  /\ r.status = "RUNNING" => r.attempts >= 1
  /\ r.status = "FAILED" => r.attempts = r.limit /\ r.error # "none"
RowsAgree == \A j \in Jobs : RowShape(row[j])

\* The process believes in its lease: it holds a job and its time is not up.
Busy(w) == proc[w].pc \in {"running", "failing"}
WithinLease(w) == Busy(w) /\ proc[w].left > 0

\* While a process is within its lease the row still names it and its attempt:
\* no sweep, claim or late answer of another process has touched the job
\* ("jobs are claimed atomically with ... lease expiry").
LeaseHolds ==
  \A w \in Workers : WithinLease(w) =>
    LET r == row[proc[w].job]
    IN r.status = "RUNNING" /\ r.owner = IdentityOf[w]
       /\ r.attempts = proc[w].attempt /\ r.lease = proc[w].left

\* Two processes within their leases never work on one job.
NoDoubleWork ==
  \A v, w \in Workers : v # w /\ WithinLease(v) /\ WithinLease(w) => proc[v].job # proc[w].job

\* A process that overran its lease cannot store its answer over the attempt
\* that replaced it: a stored result is the one of the latest attempt.
ResultOfLatestAttempt ==
  \A j \in Jobs : /\ row[j].status = "SUCCEEDED" => row[j].result = row[j].attempts
                  /\ row[j].status # "SUCCEEDED" => row[j].result = 0

\* A finished or given up job is never touched again, whatever late workers,
\* sweeps and heartbeats do.
TerminalIsFinal ==
  [][\A j \in Jobs : row[j].status \in Terminal => row'[j] = row[j]]_vars

\* A job is never started before an older one that could be started, and a job
\* whose worker disappeared keeps its place: it may not be overtaken either.
NoOvertaking ==
  [][\A j \in Jobs : row'[j].attempts > row[j].attempts =>
       \A i \in Jobs : /\ row[i].born < row[j].born /\ row[i].attempts < row[i].limit
                       /\ row[i].status = "QUEUED" \/ Expired(row[i])
                       => row'[i].status = "QUEUED" /\ row'[i].wait > 0]_vars

\* As long as some worker is up, every job ends, done or given up, although the
\* others crash or are stopped and any of them may overrun its lease (process_one
\* sweeps expired leases before it claims).
SomeWorkerStays == <>[](\E w \in Workers : proc[w].pc # "down")
EveryJobEnds ==
  SomeWorkerStays =>
    \A j \in Jobs : row[j].status = "QUEUED" ~> row[j].status \in Terminal

-----------------------------------------------------------------------------
\* The contract's view of a row.
Contract == INSTANCE JobContract WITH
  state <- [j \in Jobs |-> CASE row[j].status = "ABSENT" -> "absent"
                             [] row[j].status \in {"QUEUED", "RUNNING"} -> "open"
                             [] row[j].status = "SUCCEEDED" -> "done"
                             [] row[j].status = "FAILED" -> "given_up"],
  tries <- [j \in Jobs |-> row[j].attempts],
  budget <- [j \in Jobs |-> row[j].limit],
  result <- [j \in Jobs |-> row[j].result]

\* The queue with its leases implements the contract enqueue_job offers.
KeepsContract == Contract!Spec
=============================================================================
