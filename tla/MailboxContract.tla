--------------------------- MODULE MailboxContract --------------------------
(***************************************************************************)
(* What one may rely on who reads mail in the inbox of a live connection,  *)
(* without clients, batches or transactions: cases are never taken away;   *)
(* while retrievals come one at a time each new one has the next number;   *)
(* and until a retrieval dies or somebody sets the cursor, each message is *)
(* delivered once, in the order of arrival, and before the cursor passes.  *)
(***************************************************************************)
EXTENDS Naturals

CONSTANT Demo           (* the uid of a message that is on no server       *)

VARIABLES arrived,      (* the uids on the server are 1..arrived           *)
          cursor,       (* the uid up to which the mailbox was read        *)
          inbox,        (* the cases, each with its number and its uid     *)
          missed,       (* the uids that were not read, or are the demo's  *)
          calm,         (* no retrieval died and nobody set the cursor     *)
          serial        (* retrievals came one at a time                   *)
vars == <<arrived, cursor, inbox, missed, calm, serial>>

Init ==
  /\ arrived = 0 /\ cursor = 0
  /\ inbox = {} /\ missed = {}
  /\ calm = TRUE /\ serial = TRUE

Arrive ==
  /\ arrived' = arrived + 1
  /\ UNCHANGED <<cursor, inbox, missed, calm, serial>>

\* The number of the next case: email_live_1, email_live_2, ...
IsNext(n) ==
  /\ n > 0 /\ \A e \in inbox : e.number < n
  /\ n = 1 \/ \E e \in inbox : e.number + 1 = n

Deliver ==
  /\ \E e \in inbox' :
       /\ inbox' = inbox \cup {e}
       /\ IsNext(e.number)
       /\ e.uid # Demo =>
            /\ e.uid \in 1..arrived
            /\ calm => e.uid > cursor /\ \A d \in inbox : d.uid < e.uid
  /\ UNCHANGED <<arrived, cursor, missed, calm, serial>>

\* Messages whose FETCH fails, or whose place a demo message takes.
Miss ==
  /\ missed \subseteq missed' /\ \A u \in missed' \ missed : u > cursor
  /\ UNCHANGED <<arrived, cursor, inbox, calm, serial>>

Pass ==
  /\ cursor' > cursor
  /\ calm => /\ \A u \in 1..cursor' : u \in missed \/ \E e \in inbox : e.uid = u
             /\ \A e \in inbox : e.uid <= cursor'
  /\ UNCHANGED <<arrived, inbox, missed, calm, serial>>

\* A retrieval dies, or an operator sets the cursor.
Disturb ==
  /\ ~calm' /\ cursor' \in Nat
  /\ UNCHANGED <<arrived, inbox, missed, serial>>

\* Retrievals that overlap keep at least what is there.
Overlap ==
  /\ ~serial'
  /\ arrived <= arrived' /\ inbox \subseteq inbox' /\ missed \subseteq missed'

Next == Arrive \/ Deliver \/ Miss \/ Pass \/ Disturb \/ Overlap

Spec == Init /\ [][Next]_vars
=============================================================================
