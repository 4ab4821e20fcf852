---------------------------- MODULE CaseContract ----------------------------
(***************************************************************************)
(* What the people who work on a case may rely on, without requests in     *)
(* flight, documents or transactions: a review, a closing and a reopening  *)
(* take effect at once, on the version of the case that they name, or not  *)
(* at all. Runs, corrections and arbitrations may replace what was found   *)
(* at any time, but not what is on record and not the disposition.         *)
(***************************************************************************)
EXTENDS Naturals

CONSTANTS Fields,       (* the comparison fields                     *)
          Categories,   (* the email categories                      *)
          Comparison,   (* the one that is compared                  *)
          NoCategory    (* the case was never processed              *)

VARIABLES version,      (* of the case                               *)
          closed,       (* its disposition                           *)
          category,     (* of its email                              *)
          offered,      (* the categories of an open question        *)
          open,         (* the fields that differ or are unresolved  *)
          named,        (* the fields that a review on record names  *)
          decided       (* the versions that were decided on         *)
vars == <<version, closed, category, offered, open, named, decided>>

Init ==
  /\ version = 1 /\ ~closed
  /\ category = NoCategory /\ offered = {}
  /\ open = {} /\ named = {}
  /\ decided = {}

\* Whoever decides saw the version that the case has, and is the only one.
Decide ==
  /\ version \notin decided
  /\ decided' = decided \cup {version}
  /\ version' = version + 1

\* A review settles or opens the field that it names and leaves the others as
\* they are at that moment, as it leaves an open question. One that names no
\* field leaves all of them.
Judged ==
  /\ Decide
  /\ category' = IF category = NoCategory THEN Comparison ELSE category
  /\ UNCHANGED <<closed, offered>>

Review(f) ==
  /\ Judged
  /\ open' \in {open, open \cup {f}, open \ {f}}
  /\ named' = named \cup {f}

Endorse == Judged /\ UNCHANGED <<open, named>>

Close ==
  /\ ~closed /\ open \subseteq named
  /\ Decide /\ closed'
  /\ UNCHANGED <<category, offered, open, named>>

Reopen ==
  /\ closed
  /\ Decide /\ ~closed'
  /\ UNCHANGED <<category, offered, open, named>>

\* A document or a pair.
Attach ==
  /\ version' = version + 1
  /\ UNCHANGED <<closed, category, offered, open, named, decided>>

\* A run, a correction or an arbitration.
Replace ==
  /\ version' = version + 1
  /\ category' \in Categories /\ offered' \subseteq Categories /\ open' \subseteq Fields
  /\ UNCHANGED <<closed, named, decided>>

Next == (\E f \in Fields : Review(f)) \/ Endorse \/ Close \/ Reopen \/ Attach \/ Replace

Spec == Init /\ [][Next]_vars
=============================================================================
