------------------------------ MODULE Mailbox ------------------------------
(***************************************************************************)
(* The live mailbox of ClearDraft: retrievals that fetch what lies above   *)
(* the cursor of a connection, import it, run it and move the cursor       *)
(* (src/cleardraft/mailbox.py, the mailbox parts of store.py and api.py).  *)
(*                                                                         *)
(* A retrieval reads the cursor, reads the display numbers in use, talks   *)
(* to the IMAP server, imports (see ImportRun) and writes the cursor, each *)
(* in a transaction of its own; the API serves retrievals in parallel.     *)
(* Messages have the UIDs 1, 2, ... in the order of their arrival.         *)
(***************************************************************************)
EXTENDS Naturals, FiniteSets, Sequences

CONSTANTS
  Clients,       (* the threads that serve requests                         *)
  MaxUid,        (* bound: the messages that arrive                         *)
  PageSize,      (* max_count: the messages of one retrieval                *)
  File,          (* the name of the attachment of each message              *)
  MaxRequests,   (* bound: the retrievals, syncs and resets of a behaviour  *)
  Rewinds        (* whether operators reset or sync the cursor              *)

ASSUME MailboxAssumption ==
  /\ MaxUid \in Nat /\ PageSize \in Nat \ {0} /\ MaxRequests \in Nat
  /\ DOMAIN File = 1..MaxUid
  /\ Rewinds \in BOOLEAN

Uids == 1..MaxUid

\* The uid of a message of the demo fixture, which is on no server.
Demo == 0

VARIABLES
  arrived,   \* the messages in the folder are 1..arrived
  cursor,    \* last_uid of the connection
  imports,   \* the imports of mailbox batches: their manifests and what is stored
  work,      \* what each client is doing
  requests,  \* how many requests were served or are being served
  history    \* for the properties: the uids that a retrieval or a sync has passed
             \* over, whether no retrieval died and nobody set the cursor, and
             \* whether retrievals and syncs came one at a time
vars == <<arrived, cursor, imports, work, requests, history>>

-----------------------------------------------------------------------------
(* A mail is a message as it is imported: its uid, the number n of its     *)
(* display name email_live_n, and the message whose attachment it got. The *)
(* manifest of an import is the set of its mails, names included.          *)

Mail == [uid: Uids \cup {Demo}, number: Nat \ {0}, document: Uids \cup {Demo}]

Import == [manifest: SUBSET Mail, stored: SUBSET Mail]

Numbers == {m.number : m \in UNION {imports[i].stored : i \in DOMAIN imports}}

\* start_sequence: the greatest display number of a stored case.
Greatest(S) == CHOOSE n \in S \cup {0} : \A k \in S : k <= n

Stored(u) == \E i \in DOMAIN imports : \E m \in imports[i].stored : m.uid = u

Steps == {"idle", "read", "numbered", "fetched", "importing", "imported", "syncing"}

Work == [step: Steps, cursor: Nat, start: Nat, highest: Nat, mails: SUBSET Mail, import: Nat]

Idle == [step |-> "idle", cursor |-> 0, start |-> 0, highest |-> 0, mails |-> {}, import |-> 0]

Nothing == [unread |-> {}, demo |-> {}, synced |-> {}, calm |-> TRUE, serial |-> TRUE]

Init ==
  /\ arrived = 0
  /\ cursor = 0
  /\ imports = <<>>
  /\ work = [c \in Clients |-> Idle]
  /\ requests = 0
  /\ history = Nothing

Serve == requests < MaxRequests /\ requests' = requests + 1

End(c) == work' = [work EXCEPT ![c] = Idle]

Alone(c) == \A d \in Clients \ {c} : work[d].step = "idle"

Arrive ==
  /\ arrived < MaxUid
  /\ arrived' = arrived + 1
  /\ UNCHANGED <<cursor, imports, work, requests, history>>

-----------------------------------------------------------------------------
(* retrieve_mailbox_and_run                                                *)

RetrieveCursor(c) ==
  /\ work[c].step = "idle"
  /\ Serve
  /\ work' = [work EXCEPT ![c].step = "read", ![c].cursor = cursor]
  /\ history' = [history EXCEPT !.serial = @ /\ Alone(c)]
  /\ UNCHANGED <<arrived, cursor, imports>>

RetrieveNumber(c) ==
  /\ work[c].step = "read"
  /\ work' = [work EXCEPT ![c].step = "numbered", ![c].start = Greatest(Numbers)]
  /\ UNCHANGED <<arrived, cursor, imports, requests, history>>

\* The first PageSize uids above the cursor that was read.
MutantNew(low) == {u \in 1..arrived : u >= low}
New(low) == {u \in 1..arrived : u > low}
Selected(low) == {u \in New(low) : Cardinality({v \in New(low) : v < u}) < PageSize}

\* The mails of the messages that could be fetched: numbered in the order of the
\* uids, and with the attachments in one dictionary, where of two with one name
\* the later message's is left.
MutantMails(got, start) ==
  {[uid |-> u, number |-> start + Cardinality({v \in got : v < u}),
    document |-> Greatest({v \in got : File[v] = File[u]})] : u \in got}
Mails(got, start) ==
  {[uid |-> u, number |-> start + Cardinality({v \in got : v <= u}),
    document |-> Greatest({v \in got : File[v] = File[u]})] : u \in got}

Fetched(c, mails, highest) ==
  work' = [work EXCEPT ![c].step = "fetched", ![c].mails = mails, ![c].highest = highest]

\* fetch_from_imap. The highest uid counts the messages whose FETCH failed.
MutantFetchPassesAll(c) ==
  /\ work[c].step = "numbered"
  /\ \E got \in SUBSET Selected(work[c].cursor) :
       /\ Fetched(c, Mails(got, work[c].start), Greatest({arrived, work[c].cursor}))
       /\ history' = [history EXCEPT !.unread = @ \cup (Selected(work[c].cursor) \ got)]
  /\ UNCHANGED <<arrived, cursor, imports, requests>>

MutantFetchFromZero(c) ==
  /\ work[c].step = "numbered"
  /\ \E got \in SUBSET Selected(work[c].cursor) :
       /\ Fetched(c, Mails(got, work[c].start), Greatest(Selected(work[c].cursor)))
       /\ history' = [history EXCEPT !.unread = @ \cup (Selected(work[c].cursor) \ got)]
  /\ UNCHANGED <<arrived, cursor, imports, requests>>

Fetch(c) ==
  /\ work[c].step = "numbered"
  /\ \E got \in SUBSET Selected(work[c].cursor) :
       /\ Fetched(c, Mails(got, work[c].start),
                  Greatest(Selected(work[c].cursor) \cup {work[c].cursor}))
       /\ history' = [history EXCEPT !.unread = @ \cup (Selected(work[c].cursor) \ got)]
  /\ UNCHANGED <<arrived, cursor, imports, requests>>

\* generate_demo_inbound_batch: in demo mode, and in auto mode also when the
\* server cannot be reached.
FetchDemo(c) ==
  /\ work[c].step = "numbered"
  /\ Fetched(c, {[uid |-> Demo, number |-> work[c].start + 1, document |-> Demo]},
             work[c].cursor + 1)
  /\ history' = [history EXCEPT !.demo = @ \cup {work[c].cursor + 1}]
  /\ UNCHANGED <<arrived, cursor, imports, requests>>

\* Nothing came, also when nothing could be read: the cursor is moved up at once.
RetrieveNothing(c) ==
  /\ work[c].step = "fetched" /\ work[c].mails = {}
  /\ cursor' = work[c].highest
  /\ End(c)
  /\ UNCHANGED <<arrived, imports, requests, history>>

\* get_or_create_import: a manifest that is known is taken for imported. A demo
\* message carries the time and is never known.
Known(c) == {i \in DOMAIN imports : imports[i].manifest = work[c].mails /\
                                    \A m \in work[c].mails : m.uid # Demo}

MutantImportNew(c) ==
  /\ work[c].step = "fetched" /\ work[c].mails # {}
  /\ imports' = Append(imports, [manifest |-> work[c].mails, stored |-> {}])
  /\ cursor' = work[c].highest
  /\ work' = [work EXCEPT ![c].step = "importing", ![c].import = Len(imports) + 1]
  /\ UNCHANGED <<arrived, requests, history>>

ImportNew(c) ==
  /\ work[c].step = "fetched" /\ work[c].mails # {}
  /\ Known(c) = {}
  /\ imports' = Append(imports, [manifest |-> work[c].mails, stored |-> {}])
  /\ work' = [work EXCEPT ![c].step = "importing", ![c].import = Len(imports) + 1]
  /\ UNCHANGED <<arrived, cursor, requests, history>>

ImportKnown(c) ==
  /\ work[c].step = "fetched" /\ work[c].mails # {}
  /\ \E i \in Known(c) : work' = [work EXCEPT ![c].step = "imported", ![c].import = i]
  /\ UNCHANGED <<arrived, cursor, imports, requests, history>>

\* add_email, mail by mail; the last one ends the import.
AddEmail(c, m) ==
  LET i == work[c].import IN
  /\ work[c].step = "importing"
  /\ m \in work[c].mails \ imports[i].stored
  /\ \A k \in work[c].mails \ imports[i].stored : m.number <= k.number
  /\ imports' = [imports EXCEPT ![i].stored = @ \cup {m}]
  /\ work' = IF imports'[i].stored = work[c].mails
             THEN [work EXCEPT ![c].step = "imported"] ELSE work
  /\ UNCHANGED <<arrived, cursor, requests, history>>

\* run_import and then update_mailbox_cursor, which overwrites what is there.
Advance(c) ==
  /\ work[c].step = "imported"
  /\ cursor' = work[c].highest
  /\ End(c)
  /\ UNCHANGED <<arrived, imports, requests, history>>

\* The retrieval raises or its process dies.
Die(c) ==
  /\ work[c].step # "idle"
  /\ End(c)
  /\ history' = [history EXCEPT !.calm = FALSE]
  /\ UNCHANGED <<arrived, cursor, imports, requests>>

-----------------------------------------------------------------------------
(* What operators do to the cursor.                                        *)

\* reset_mailbox_cursor
Reset ==
  /\ Rewinds
  /\ Serve
  /\ cursor' = 0
  /\ history' = [history EXCEPT !.calm = FALSE]
  /\ UNCHANGED <<arrived, imports, work>>

\* sync_mailbox_cursor_to_latest, which asks the server and then writes: past all
\* messages, or before the last ones that are to be kept.
SyncAsk(c, keep) ==
  /\ Rewinds
  /\ work[c].step = "idle"
  /\ Serve
  /\ work' = [work EXCEPT ![c].step = "syncing",
                          ![c].highest = IF arrived > keep THEN arrived - keep ELSE 0]
  /\ history' = [history EXCEPT !.serial = @ /\ Alone(c)]
  /\ UNCHANGED <<arrived, cursor, imports>>

SyncWrite(c) ==
  /\ work[c].step = "syncing"
  /\ cursor' = work[c].highest
  /\ history' = [history EXCEPT !.synced = @ \cup 1..work[c].highest, !.calm = FALSE]
  /\ End(c)
  /\ UNCHANGED <<arrived, imports, requests>>

-----------------------------------------------------------------------------
Retrieve(c) ==
  \/ RetrieveCursor(c) \/ RetrieveNumber(c)
  \/ Fetch(c) \/ FetchDemo(c) \/ RetrieveNothing(c)
  \/ ImportNew(c) \/ ImportKnown(c)
  \/ \E m \in work[c].mails : AddEmail(c, m)
  \/ Advance(c)

Next ==
  \/ Arrive
  \/ \E c \in Clients : Retrieve(c) \/ Die(c) \/ SyncWrite(c)
  \/ \E c \in Clients, keep \in 0..MaxUid : SyncAsk(c, keep)
  \/ Reset

Spec == Init /\ [][Next]_vars

-----------------------------------------------------------------------------
(* What holds, whatever retrievals, operators and crashes do.              *)

\* Every variable keeps its type.
TypeOK ==
  /\ arrived \in 0..MaxUid
  /\ cursor \in Nat
  /\ imports \in Seq(Import)
  /\ work \in [Clients -> Work]
  /\ requests \in 0..MaxRequests
  /\ history \in [unread: SUBSET Nat, demo: SUBSET Nat, synced: SUBSET Nat,
                  calm: BOOLEAN, serial: BOOLEAN]

\* No message is passed over without a trace: below the cursor a uid is in the
\* manifest of some import, or its FETCH failed, or a demo message or an operator
\* took its place.
PassedHasTrace ==
  \A u \in 1..cursor :
    \/ u \in history.unread \cup history.demo \cup history.synced
    \/ \E i \in DOMAIN imports : \E m \in imports[i].manifest : m.uid = u

(* What holds of retrievals that come one at a time.                        *)

\* "live mail reads as email_live_1, email_live_2, ..." (mailbox.py): one inbox
\* over all imports, where a number names one mail, whatever retries and partial
\* imports there were.
OneMailPerNumber ==
  history.serial => \A i, j \in DOMAIN imports : i # j =>
    \A m \in imports[i].stored, k \in imports[j].stored : m.number # k.number

\* "Retrieval is read-only and only ever moves the cursor forward" (api.py).
RetrievalMovesForward ==
  [][history.serial => \A c \in Clients : RetrieveNothing(c) \/ Advance(c) => cursor' >= cursor]_vars

\* "Retrieve = fetch UIDs greater than last_uid, capped, import, run, advance the
\* cursor" (docs/plan-corrections-and-live-mailbox.md): unless a retrieval died,
\* all mail below the cursor that was fetched is stored.
PassedIsStored ==
  history.serial /\ history.calm =>
    \A u \in 1..cursor :
      u \in history.unread \cup history.demo \/ Stored(u)

\* "re-retrieving the same messages produces the same manifest and will not
\* create a duplicate import" (docs/plan-corrections-and-live-mailbox.md): true
\* until a retrieval dies or somebody sets the cursor.
OneImportPerMessage ==
  history.serial /\ history.calm =>
    \A i, j \in DOMAIN imports : i # j =>
      \A m \in imports[i].stored, k \in imports[j].stored : m.uid = k.uid => m.uid = Demo

\* The cases of the inbox, one for each mail that is stored, in whatever import.
Delivered == UNION {{[import |-> i, uid |-> m.uid, number |-> m.number, document |-> m.document]
                     : m \in imports[i].stored} : i \in DOMAIN imports}

Contract == INSTANCE MailboxContract WITH
  inbox <- Delivered, missed <- history.unread \cup history.demo,
  calm <- history.calm, serial <- history.serial
\* Retrievals take six transactions and a conversation with the server, die anywhere and
\* are repeated; and yet the inbox is what MailboxContract has it be: no number is
\* skipped or given twice, no message is delivered twice or out of order, and the cursor
\* passes nothing that is not there.
KeepsMailboxContract == Contract!Spec

-----------------------------------------------------------------------------
(* What does not even hold of those.                                       *)

\* "fetch UIDs greater than last_uid" (docs/plan-corrections-and-live-mailbox.md):
\* a message whose FETCH failed stays above the cursor until it was stored.
FailedFetchIsRetried == \A u \in history.unread : u <= cursor => Stored(u)

\* "deterministic fallback replay for zero-risk demos" (mailbox.py): a demo
\* message takes no real message's place.
DemoIsHarmless == \A u \in history.demo : u <= cursor /\ u <= arrived => Stored(u)

\* "Repeated filenames do not identify repeated content" (IMPLEMENTATION_PLAN.md):
\* a stored mail has the attachment of its own message.
AttachmentsAreOwn ==
  \A i \in DOMAIN imports : \A m \in imports[i].stored : m.document = m.uid
=============================================================================
