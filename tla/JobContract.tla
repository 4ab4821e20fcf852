----------------------------- MODULE JobContract -----------------------------
(***************************************************************************)
(* What a caller of enqueue_job may rely on, without leases, workers or    *)
(* time: a job is tried at most as often as it was enqueued for, ends once *)
(* and for all, is given up only when every try is spent, and its result   *)
(* is that of the last try. One store call may move several jobs, because  *)
(* the sweep of claim_job does, but each job by one step only, or by its   *)
(* last recovery and a new try together.                                   *)
(***************************************************************************)
EXTENDS Naturals

CONSTANTS Jobs,    (* the jobs                           *)
          Limits   (* the numbers of tries on offer      *)

VARIABLES state,   (* absent, open, done or given up     *)
          tries,   (* how often a worker started it      *)
          budget,  (* how often one may start it         *)
          result   (* the try that produced the result   *)
vars == <<state, tries, budget, result>>

Init ==
  /\ state = [j \in Jobs |-> "absent"]
  /\ tries = [j \in Jobs |-> 0]
  /\ budget = [j \in Jobs |-> 0]
  /\ result = [j \in Jobs |-> 0]

Same(f, j) == f'[j] = f[j]

Stay(j) == Same(state, j) /\ Same(tries, j) /\ Same(budget, j) /\ Same(result, j)

Submit(j) ==
  /\ state[j] = "absent" /\ state'[j] = "open"
  /\ budget'[j] \in Limits
  /\ Same(tries, j) /\ Same(result, j)

Try(j) ==
  /\ state[j] = "open" /\ tries[j] < budget[j]
  /\ tries'[j] = tries[j] + 1
  /\ Same(state, j) /\ Same(budget, j) /\ Same(result, j)

Done(j) ==
  /\ state[j] = "open" /\ tries[j] >= 1
  /\ state'[j] = "done" /\ result'[j] = tries[j]
  /\ Same(tries, j) /\ Same(budget, j)

GiveUp(j) ==
  /\ state[j] = "open" /\ tries[j] = budget[j]
  /\ state'[j] = "given_up"
  /\ Same(tries, j) /\ Same(budget, j) /\ Same(result, j)

Step(j) == Submit(j) \/ Try(j) \/ Done(j) \/ GiveUp(j)

Next == \A j \in Jobs : Stay(j) \/ Step(j)

Spec == Init /\ [][Next]_vars
=============================================================================
