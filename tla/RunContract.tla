---------------------------- MODULE RunContract ----------------------------
(***************************************************************************)
(* What one may rely on who imports a source, runs it and submits what the *)
(* runs found, without clients, transactions or deaths: emails are stored  *)
(* one by one and counted when they are all there; a run has one result,   *)
(* and of emails that are processed; what is submitted is a result that    *)
(* names all that is stored.                                               *)
(***************************************************************************)
EXTENDS Naturals

CONSTANTS NE,           (* the emails of the source                        *)
          Runs,         (* runs and reviews                                *)
          NoResult      (* a run has none yet                              *)

VARIABLES stored,       (* how many emails are                             *)
          counted,      (* the import has its counts                       *)
          processed,    (* the emails whose case shows a result            *)
          result,       (* of each run: the emails that it names           *)
          submitted     (* the runs submitted, and if after the counts   *)
vars == <<stored, counted, processed, result, submitted>>

Init ==
  /\ stored = 0 /\ ~counted
  /\ processed = {}
  /\ result = [r \in Runs |-> NoResult]
  /\ submitted = {}

Store ==
  /\ stored < NE /\ ~counted
  /\ stored' = stored + 1
  /\ UNCHANGED <<counted, processed, result, submitted>>

Count ==
  /\ stored = NE /\ ~counted
  /\ counted'
  /\ UNCHANGED <<stored, processed, result, submitted>>

Process(e) ==
  /\ processed' = processed \cup {e}
  /\ UNCHANGED <<stored, counted, result, submitted>>

\* A run names what is processed; what it names is never replaced.
Finish(r, emails) ==
  /\ result[r] = NoResult /\ emails \subseteq processed
  /\ result' = [result EXCEPT ![r] = emails]
  /\ UNCHANGED <<stored, counted, processed, submitted>>

\* A review is a run of one email, or of none.
Review(r, e) ==
  /\ result[r] = NoResult
  /\ processed' = processed \cup {e}
  /\ \E emails \in SUBSET {e} : result' = [result EXCEPT ![r] = emails]
  /\ UNCHANGED <<stored, counted, submitted>>

Submit(r) ==
  /\ stored > 0 /\ result[r] = 1..stored
  /\ submitted' = submitted \cup {[run |-> r, counted |-> counted]}
  /\ UNCHANGED <<stored, counted, processed, result>>

Next ==
  \/ Store \/ Count
  \/ \E e \in 1..stored : Process(e)
  \/ \E r \in Runs :
       \/ \E emails \in SUBSET (1..stored) : Finish(r, emails)
       \/ \E e \in 1..stored : Review(r, e)
       \/ Submit(r)

Spec == Init /\ [][Next]_vars
=============================================================================
