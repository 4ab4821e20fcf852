-------------------------- MODULE CaseReviewProofs --------------------------
(***************************************************************************)
(* Proofs about CaseReview for any fields, documents, threads and any      *)
(* number of requests.                                                     *)
(*                                                                         *)
(* What a review computed is right because a version names one content of  *)
(* the row; that is inductive together with the fact that no guarded event *)
(* on record carries a version the row may still reach.                    *)
(***************************************************************************)
EXTENDS CaseReview, TLAPS

EventsPast ==
  \A i \in DOMAIN events : Guarded(events[i]) => events[i].expected < row.version

IInv == /\ TypeOK /\ SameVersionSameRow /\ EventsPast /\ OneReviewPerVersion
        /\ ClosedStaysExamined /\ ClearsAreRecorded

-----------------------------------------------------------------------------
(* Lemmas about rows and events.                                           *)

LEMMA OpenFieldsType ==
  ASSUME NEW d \in SUBSET Docs
  PROVE  OpenFields(d) \subseteq Fields
<1>1. ASSUME NEW p \in (d \cap SIs) \X (d \cap BLs) PROVE Differs[p] \subseteq Fields
  BY CaseReviewAssumption
<1>2. QED
  BY <1>1 DEF OpenFields

LEMMA BumpedShape ==
  ASSUME NEW r \in Row
  PROVE  /\ Bumped(r) \in Row /\ Bumped(r).version = r.version + 1
         /\ Bumped(r).closed = r.closed /\ Bumped(r).category = r.category
         /\ Bumped(r).offered = r.offered /\ Bumped(r).compared = r.compared
         /\ Bumped(r).open = r.open
  BY DEF Bumped, Row

LEMMA SavedShape ==
  ASSUME NEW r \in Row, NEW k \in Categories \cup {NoCategory}, NEW o \in SUBSET Categories,
         NEW d \in SUBSET Docs
  PROVE  /\ Saved(r, k, o, d) \in Row
         /\ Saved(r, k, o, d).version = r.version + 1
         /\ Saved(r, k, o, d).closed = r.closed
         /\ Saved(r, k, o, d).compared => Saved(r, k, o, d).open = OpenFields(d)
<1> DEFINE b == k = Comparison
           f == IF b THEN OpenFields(d) ELSE {}
           s == [Bumped(r) EXCEPT !.category = k, !.offered = o, !.compared = b, !.open = f]
<1>1. Saved(r, k, o, d) = s
  BY DEF Saved
<1>2. b \in BOOLEAN /\ f \in SUBSET Fields /\ (b => f = OpenFields(d))
  BY OpenFieldsType
<1> HIDE DEF b, f
<1>3. s \in Row /\ s.version = r.version + 1 /\ s.closed = r.closed
      /\ s.compared = b /\ s.open = f
  BY <1>2, BumpedShape DEF Row
<1> HIDE DEF s
<1>4. QED
  BY <1>1, <1>2, <1>3

\* One more event: what a new one adds to the reviewed fields and to the versions
\* that are used up.
LEMMA Appended ==
  ASSUME IInv, NEW e \in Events, events' = Append(events, e)
  PROVE  /\ events' \in Seq(Events)
         /\ DOMAIN events' = DOMAIN events \cup {Len(events) + 1}
         /\ \A i \in DOMAIN events : events'[i] = events[i] /\ i # Len(events) + 1
         /\ events'[Len(events) + 1] = e
         /\ Reviewed \subseteq Reviewed'
         /\ e.field # NoField => e.field \in Reviewed'
<1>1. events \in Seq(Events)
  BY DEF IInv, TypeOK
<1>2. /\ events' \in Seq(Events)
      /\ DOMAIN events' = DOMAIN events \cup {Len(events) + 1}
      /\ \A i \in DOMAIN events : events'[i] = events[i] /\ i # Len(events) + 1
      /\ events'[Len(events) + 1] = e
  BY <1>1
<1>3. QED
  BY <1>2 DEF Reviewed

\* Every write of the row moves its version, so what requests have read is
\* either still there or recognisably gone.
LEMMA SameRowKept ==
  ASSUME IInv, row' \in Row, row' = row \/ row'.version = row.version + 1,
         \A c \in Clients :
           \/ request'[c].kind \notin {"review", "decide"}
           \/ /\ request[c].kind \in {"review", "decide"}
              /\ request'[c].row = request[c].row
           \/ request'[c].row = row
  PROVE  SameVersionSameRow'
<1>1. row \in Row /\ request \in [Clients -> Request]
  BY DEF IInv, TypeOK
<1>2. row.version \in Nat /\ row'.version \in Nat
  BY <1>1 DEF Row
<1>3. ASSUME NEW c \in Clients, request'[c].kind \in {"review", "decide"}
      PROVE  /\ request'[c].row.version <= row'.version
             /\ request'[c].row.version = row'.version => request'[c].row = row'
  <2>1. CASE request'[c].row = row
    BY <1>2, <2>1
  <2>2. CASE request[c].kind \in {"review", "decide"} /\ request'[c].row = request[c].row
    <3>1. /\ request[c].row.version <= row.version
          /\ request[c].row.version = row.version => request[c].row = row
      BY <2>2 DEF IInv, SameVersionSameRow
    <3>2. request[c].row.version \in Nat
      BY <1>1 DEF Request, Row
    <3>3. QED
      BY <1>2, <2>2, <3>1, <3>2
  <2>3. QED
    BY <1>3, <2>1, <2>2
<1>4. QED
  BY <1>3 DEF SameVersionSameRow

LEMMA Versions ==
  ASSUME IInv
  PROVE  row.version \in Nat /\ \A i \in DOMAIN events : events[i].expected \in Nat
<1>1. row \in Row /\ \A i \in DOMAIN events : events[i] \in Events
  BY DEF IInv, TypeOK
<1>2. QED
  BY <1>1 DEF Row, Events

\* A guarded event uses up the version the row had.
LEMMA GuardedEvent ==
  ASSUME IInv, NEW e \in Events, events' = Append(events, e), row' \in Row,
         row'.version = row.version + 1, e.expected = row.version
  PROVE  EventsPast' /\ OneReviewPerVersion'
<1>1. row.version \in Nat /\ \A i \in DOMAIN events : events[i].expected \in Nat
  BY Versions
<1>2. EventsPast'
  BY <1>1, Appended DEF IInv, EventsPast
<1>3. \A i \in DOMAIN events : Guarded(events[i]) => events[i].expected # e.expected
  BY <1>1 DEF IInv, EventsPast
<1>4. QED
  BY <1>2, <1>3, Appended DEF IInv, OneReviewPerVersion

\* A decision adds an event of no account to the guarded ones.
LEMMA UnguardedEvent ==
  ASSUME IInv, NEW e \in Events, events' = Append(events, e), ~Guarded(e), row' = row
  PROVE  EventsPast' /\ OneReviewPerVersion'
<1>1. EventsPast'
  BY Appended DEF IInv, EventsPast
<1>2. QED
  BY <1>1, Appended DEF IInv, OneReviewPerVersion

LEMMA NoEvent ==
  ASSUME IInv, events' = events, row' \in Row, row' = row \/ row'.version = row.version + 1
  PROVE  EventsPast' /\ OneReviewPerVersion'
<1>1. row.version \in Nat /\ \A i \in DOMAIN events : events[i].expected \in Nat
  BY Versions
<1>2. EventsPast'
  BY <1>1 DEF IInv, EventsPast
<1>3. QED
  BY <1>2 DEF IInv, OneReviewPerVersion

\* The row changes in nothing but its version: findings and disposition stay.
LEMMA FindingsKept ==
  ASSUME IInv, row'.closed = row.closed, row'.compared = row.compared, row'.open = row.open,
         Reviewed \subseteq Reviewed', replaced' = replaced, source' = source
  PROVE  ClosedStaysExamined' /\ ClearsAreRecorded'
  BY DEF IInv, ClosedStaysExamined, ClearsAreRecorded

-----------------------------------------------------------------------------
(* The invariant.                                                          *)

LEMMA NewType == New \in Row /\ New.version = 1 /\ ~New.closed /\ ~New.compared
  BY DEF New, Row

LEMMA IdleType ==
  /\ Idle \in Request /\ Idle.kind = "idle" /\ Idle.step = "start"
  /\ Idle.source = [docs |-> {}, pair |-> NoPair] /\ Idle.source \in Source
<1>1. "idle" \in Kinds /\ "start" \in Steps /\ "resolve_classification" \in Decisions
  BY DEF Kinds, Steps, Decisions
<1>2. [docs |-> {}, pair |-> NoPair] \in Source
  BY DEF Source
<1>3. QED
  BY <1>1, <1>2, NewType DEF Idle, Request

LEMMA InitInv == Init => IInv
<1> SUFFICES ASSUME Init PROVE IInv
  OBVIOUS
<1>1. TypeOK
  <2>1. source \in Source
    BY IdleType DEF Init, Idle
  <2>2. events \in Seq(Events)
    BY DEF Init
  <2>3. request \in [Clients -> Request] /\ row \in Row
    BY IdleType, NewType DEF Init
  <2>4. docs \subseteq Docs /\ requests \in 0..MaxRequests
    BY CaseReviewAssumption DEF Init
  <2>5. pair \in (SIs \X BLs) \cup {NoPair} /\ replaced \in BOOLEAN /\ ran \in BOOLEAN
    BY DEF Init
  <2>6. QED
    BY <2>1, <2>2, <2>3, <2>4, <2>5 DEF TypeOK
<1>2. SameVersionSameRow
  BY IdleType DEF Init, SameVersionSameRow
<1>3. EventsPast /\ OneReviewPerVersion
  BY DEF Init, EventsPast, OneReviewPerVersion
<1>4. ClosedStaysExamined /\ ClearsAreRecorded
  BY NewType DEF Init, ClosedStaysExamined, ClearsAreRecorded
<1>5. QED
  BY <1>1, <1>2, <1>3, <1>4 DEF IInv

\* A thread takes up a request: only its own entry changes.
LEMMA BeginInv ==
  ASSUME IInv, NEW c \in Clients, NEW r \in Request, Begin(c, r),
         r.kind \notin {"review", "decide"} \/ r.row = row
  PROVE  IInv'
<1>1. /\ request' = [request EXCEPT ![c] = r] /\ requests' \in 0..MaxRequests
      /\ UNCHANGED <<row, docs, pair, events, ran, source, replaced>>
  BY CaseReviewAssumption DEF Begin, Serve, IInv, TypeOK
<1>2. TypeOK' /\ row' \in Row
  BY <1>1 DEF IInv, TypeOK
<1>3. SameVersionSameRow'
  BY <1>1, <1>2, SameRowKept DEF IInv, TypeOK
<1>4. EventsPast' /\ OneReviewPerVersion'
  BY <1>1, <1>2, NoEvent
<1>5. ClosedStaysExamined' /\ ClearsAreRecorded'
  <2>1. Reviewed' = Reviewed
    BY <1>1 DEF Reviewed
  <2>2. QED
    BY <1>1, <2>1, FindingsKept
<1>6. QED
  BY <1>2, <1>3, <1>4, <1>5 DEF IInv

\* A request ends with nothing written: refused, or dead.
LEMMA EndInv ==
  ASSUME IInv, NEW c \in Clients, End(c),
         UNCHANGED <<row, docs, pair, events, ran, requests, source, replaced>>
  PROVE  IInv'
<1>1. TypeOK' /\ row' \in Row
  BY IdleType DEF End, IInv, TypeOK
<1>2. \A d \in Clients : request'[d] = request[d] \/ request'[d].kind = "idle"
  BY IdleType DEF End, IInv, TypeOK
<1>3. SameVersionSameRow'
  BY <1>1, <1>2, SameRowKept
<1>4. EventsPast' /\ OneReviewPerVersion'
  BY <1>1, NoEvent
<1>5. Reviewed' = Reviewed
  BY DEF Reviewed
<1>6. QED
  BY <1>1, <1>3, <1>4, <1>5, FindingsKept DEF IInv

LEMMA EventType ==
  ASSUME IInv, NEW a \in Actions, NEW f \in Fields \cup {NoField}, NEW n \in Nat
  PROVE  /\ Event(a, f, n) \in Events /\ Event(a, f, n).field = f
         /\ Event(a, f, n).expected = n /\ (Guarded(Event(a, f, n)) <=> a \notin Decisions)
  BY DEF IInv, TypeOK, Event, Events, Guarded

LEMMA ActionsAre ==
  /\ FieldActions \subseteq Actions /\ Decisions \subseteq Actions
  /\ "close_case" \in Actions /\ "reopen_case" \in Actions
  /\ "close_case" \notin Decisions /\ "reopen_case" \notin Decisions
  /\ FieldActions \cap Decisions = {}
  BY DEF Actions, FieldActions, Decisions

\* A review writes the row it read, with other open fields and its event.
LEMMA ReviewInv ==
  ASSUME IInv, NEW c \in Clients, NEW a \in FieldActions, NEW f \in Fields \cup {NoField},
         NEW open \in SUBSET Fields,
         request[c].kind = "review", row.version = request[c].row.version,
         row'.version = row.version + 1, row'.closed = row.closed,
         row'.compared = row.compared, row'.open = open, row' \in Row,
         open \subseteq row.open \cup ({f} \ {NoField}),
         row.open \subseteq open \cup ({f} \ {NoField}),
         events' = Append(events, Event(a, f, request[c].row.version)), End(c),
         ran' \in BOOLEAN, UNCHANGED <<docs, pair, requests, source, replaced>>
  PROVE  IInv'
<1> DEFINE e == Event(a, f, request[c].row.version)
<1>1. /\ e \in Events /\ e.field = f /\ e.expected = row.version
  <2>1. a \in Actions /\ request[c].row.version \in Nat
    BY Versions, ActionsAre
  <2>2. e \in Events /\ e.field = f /\ e.expected = request[c].row.version
    <3> DEFINE n == request[c].row.version
    <3>1. n \in Nat
      BY <2>1
    <3> HIDE DEF n
    <3>2. /\ Event(a, f, n) \in Events /\ Event(a, f, n).field = f
          /\ Event(a, f, n).expected = n
      BY <2>1, <3>1, EventType
    <3>3. QED
      BY <3>2 DEF n
  <2> HIDE DEF e
  <2>3. QED
    BY <2>2
<1>2. events' = Append(events, e)
  OBVIOUS
<1> HIDE DEF e
<1>3. TypeOK'
  BY <1>1, <1>2, Appended, IdleType DEF End, IInv, TypeOK
<1>4. SameVersionSameRow'
  BY SameRowKept, IdleType DEF End, IInv, TypeOK
<1>5. EventsPast' /\ OneReviewPerVersion'
  BY <1>1, <1>2, GuardedEvent
<1>6. Reviewed \subseteq Reviewed' /\ ({f} \ {NoField}) \subseteq Reviewed'
  BY <1>1, <1>2, Appended
<1>7. ClosedStaysExamined'
  BY <1>6 DEF IInv, ClosedStaysExamined
<1>8. ClearsAreRecorded'
  BY <1>6 DEF IInv, ClearsAreRecorded
<1>9. QED
  BY <1>3, <1>4, <1>5, <1>7, <1>8 DEF IInv

LEMMA ReviewFieldInv ==
  ASSUME IInv, NEW c \in Clients, ReviewField(c)
  PROVE  IInv'
<1> DEFINE old == request[c].row
<1>1. old = row
  BY DEF ReviewField, IInv, SameVersionSameRow
<1>2. row \in Row /\ CategoryOf(row) \in Categories
  BY CaseReviewAssumption DEF IInv, TypeOK, CategoryOf, Row
<1>3. PICK a \in FieldActions, f \in Fields : \E open \in ReviewedOpen(a, f, old.open) :
        /\ row' = [Bumped(row) EXCEPT !.category = CategoryOf(old),
                                      !.offered = old.offered, !.open = open]
        /\ events' = Append(events, Event(a, f, old.version))
  BY DEF ReviewField
<1>4. PICK open \in ReviewedOpen(a, f, row.open) :
        /\ row' = [Bumped(row) EXCEPT !.category = CategoryOf(row),
                                      !.offered = row.offered, !.open = open]
        /\ events' = Append(events, Event(a, f, row.version))
  BY <1>1, <1>3
<1>5. open \in {row.open, row.open \ {f}, row.open \cup {f}}
  BY <1>4 DEF ReviewedOpen, FieldActions
<1>6. /\ open \subseteq row.open \cup {f} /\ row.open \subseteq open \cup {f}
      /\ open \in SUBSET Fields
  BY <1>2, <1>5 DEF Row
<1>7. /\ row' \in Row /\ row'.version = row.version + 1 /\ row'.closed = row.closed
      /\ row'.compared = row.compared /\ row'.open = open
  BY <1>2, <1>4, <1>6, BumpedShape DEF Row
<1>8. f # NoField
  BY CaseReviewAssumption
<1>9. /\ request[c].kind = "review" /\ row.version = request[c].row.version /\ End(c)
      /\ ran' \in BOOLEAN /\ UNCHANGED <<docs, pair, requests, source, replaced>>
  BY DEF ReviewField
<1>10. QED
  BY <1>1, <1>4, <1>6, <1>7, <1>8, <1>9, ReviewInv

LEMMA ReviewCaseInv ==
  ASSUME IInv, NEW c \in Clients, ReviewCase(c)
  PROVE  IInv'
<1>1. request[c].row = row
  BY DEF ReviewCase, IInv, SameVersionSameRow
<1>2. row \in Row /\ CategoryOf(row) \in Categories
  BY CaseReviewAssumption DEF IInv, TypeOK, CategoryOf, Row
<1>3. row' = [Bumped(row) EXCEPT !.category = CategoryOf(row), !.offered = row.offered,
                                 !.compared = row.compared, !.open = row.open]
  BY <1>1 DEF ReviewCase
<1>4. /\ row' \in Row /\ row'.version = row.version + 1 /\ row'.closed = row.closed
      /\ row'.compared = row.compared /\ row'.open = row.open /\ row.open \in SUBSET Fields
  BY <1>2, <1>3, BumpedShape DEF Row
<1>5. PICK a \in FieldActions : events' = Append(events, Event(a, NoField, row.version))
  BY <1>1 DEF ReviewCase
<1>6. /\ request[c].kind = "review" /\ row.version = request[c].row.version /\ End(c)
      /\ ran' \in BOOLEAN /\ UNCHANGED <<docs, pair, requests, source, replaced>>
  BY DEF ReviewCase
<1>7. QED
  BY <1>1, <1>4, <1>5, <1>6, ReviewInv

\* Closing and reopening: the disposition and the version move, and the event is
\* recorded with them.
LEMMA DispositionInv ==
  ASSUME IInv, NEW a \in {"close_case", "reopen_case"}, NEW b \in BOOLEAN, Serve,
         row' = [Bumped(row) EXCEPT !.closed = b], b => row.open \subseteq Reviewed,
         events' = Append(events, Event(a, NoField, row.version)), replaced' = FALSE,
         UNCHANGED <<docs, pair, request, ran, source>>
  PROVE  IInv'
<1> DEFINE e == Event(a, NoField, row.version)
<1>1. e \in Events /\ e.expected = row.version
  <2>1. a \in Actions /\ row.version \in Nat
    BY Versions, ActionsAre
  <2>2. QED
    BY <2>1, EventType
<1>2. events' = Append(events, e)
  OBVIOUS
<1> HIDE DEF e
<1>3. /\ row \in Row /\ row' \in Row /\ row'.version = row.version + 1
      /\ row'.open = row.open /\ row'.compared = row.compared /\ row'.closed = b
  BY BumpedShape DEF IInv, TypeOK, Row
<1>4. TypeOK'
  <2>1. requests' \in 0..MaxRequests
    BY CaseReviewAssumption DEF Serve, IInv, TypeOK
  <2>2. events' \in Seq(Events)
    BY <1>1, <1>2, Appended
  <2>3. QED
    BY <1>3, <2>1, <2>2 DEF IInv, TypeOK
<1>5. SameVersionSameRow'
  BY <1>3, SameRowKept
<1>6. EventsPast' /\ OneReviewPerVersion'
  BY <1>1, <1>2, <1>3, GuardedEvent
<1>7. Reviewed \subseteq Reviewed'
  BY <1>1, <1>2, Appended
<1>8. ClosedStaysExamined' /\ ClearsAreRecorded'
  BY <1>3, <1>7 DEF IInv, ClosedStaysExamined, ClearsAreRecorded
<1>9. QED
  BY <1>4, <1>5, <1>6, <1>8 DEF IInv

LEMMA CloseInv == ASSUME IInv, Close PROVE IInv'
  BY DispositionInv DEF Close

LEMMA ReopenInv == ASSUME IInv, Reopen PROVE IInv'
  BY DispositionInv DEF Reopen

\* Documents and pairs touch the version of the row at most.
LEMMA SourceInv ==
  ASSUME IInv, Serve, row' = row \/ row' = Bumped(row), docs' \subseteq Docs,
         pair' \in (SIs \X BLs) \cup {NoPair}, UNCHANGED <<events, request, ran, source, replaced>>
  PROVE  IInv'
<1>1. /\ row' \in Row /\ (row' = row \/ row'.version = row.version + 1)
      /\ row'.closed = row.closed /\ row'.compared = row.compared /\ row'.open = row.open
  BY BumpedShape DEF IInv, TypeOK
<1>2. TypeOK'
  BY <1>1, CaseReviewAssumption DEF Serve, IInv, TypeOK
<1>3. SameVersionSameRow'
  BY <1>1, SameRowKept
<1>4. EventsPast' /\ OneReviewPerVersion'
  BY <1>1, NoEvent
<1>5. Reviewed' = Reviewed
  BY DEF Reviewed
<1>6. QED
  BY <1>1, <1>2, <1>3, <1>4, <1>5, FindingsKept DEF IInv

\* A request moves on, having read documents or runs or having created a run.
LEMMA AdvanceInv ==
  ASSUME IInv, NEW c \in Clients, NEW q \in Request, request' = [request EXCEPT ![c] = q],
         q.kind = request[c].kind, q.row = request[c].row, ran' \in BOOLEAN,
         UNCHANGED <<row, docs, pair, events, requests, source, replaced>>
  PROVE  IInv'
<1>1. TypeOK' /\ row' \in Row
  BY DEF IInv, TypeOK
<1>2. SameVersionSameRow'
  BY <1>1, SameRowKept DEF IInv, TypeOK
<1>3. EventsPast' /\ OneReviewPerVersion'
  BY <1>1, NoEvent
<1>4. Reviewed' = Reviewed
  BY DEF Reviewed
<1>5. QED
  BY <1>1, <1>2, <1>3, <1>4, FindingsKept DEF IInv

\* A decision reads its documents.
LEMMA DecisionDocumentsInv ==
  ASSUME IInv, NEW c \in Clients, DecisionDocuments(c)
  PROVE  IInv'
<1> DEFINE q == [request[c] EXCEPT !.step = "read", !.source = [docs |-> docs, pair |-> pair]]
<1>1. /\ request' = [request EXCEPT ![c] = q] /\ request[c] \in Request /\ ran' \in BOOLEAN
      /\ UNCHANGED <<row, docs, pair, events, requests, source, replaced>>
  BY DEF DecisionDocuments, IInv, TypeOK
<1>2. q \in Request /\ q.kind = request[c].kind /\ q.row = request[c].row
  <2>1. [docs |-> docs, pair |-> pair] \in Source /\ "read" \in Steps
    BY DEF IInv, TypeOK, Source, Steps
  <2>2. QED
    BY <1>1, <2>1 DEF Request
<1> HIDE DEF q
<1>3. QED
  BY <1>1, <1>2, AdvanceInv

\* A decision looks for the latest run.
LEMMA DecisionRunInv ==
  ASSUME IInv, NEW c \in Clients, DecisionRun(c)
  PROVE  IInv'
<1> DEFINE q == [request[c] EXCEPT !.step = "looked", !.ran = ran]
<1>1. /\ request' = [request EXCEPT ![c] = q] /\ request[c] \in Request
      /\ ran \in BOOLEAN /\ ran' \in BOOLEAN
      /\ UNCHANGED <<row, docs, pair, events, requests, source, replaced>>
  BY DEF DecisionRun, IInv, TypeOK
<1>2. q \in Request /\ q.kind = request[c].kind /\ q.row = request[c].row
  <2>1. "looked" \in Steps
    BY DEF Steps
  <2>2. QED
    BY <1>1, <2>1 DEF Request
<1> HIDE DEF q
<1>3. QED
  BY <1>1, <1>2, AdvanceInv

\* A run goes on record.
LEMMA RunCreateInv ==
  ASSUME IInv, NEW c \in Clients, RunCreate(c)
  PROVE  IInv'
<1> DEFINE q == [request[c] EXCEPT !.step = "recorded"]
<1>1. /\ request' = [request EXCEPT ![c] = q] /\ request[c] \in Request /\ ran' \in BOOLEAN
      /\ UNCHANGED <<row, docs, pair, events, requests, source, replaced>>
  BY DEF RunCreate, IInv, TypeOK
<1>2. q \in Request /\ q.kind = request[c].kind /\ q.row = request[c].row
  <2>1. "recorded" \in Steps
    BY DEF Steps
  <2>2. QED
    BY <1>1, <2>1 DEF Request
<1> HIDE DEF q
<1>3. QED
  BY <1>1, <1>2, AdvanceInv

\* A decision goes on record.
LEMMA DecisionEventInv ==
  ASSUME IInv, NEW c \in Clients, DecisionEvent(c)
  PROVE  IInv'
<1> DEFINE q == [request[c] EXCEPT !.step = "recorded"]
           e == Event(request[c].action, NoField, request[c].row.version)
<1>1. /\ request' = [request EXCEPT ![c] = q] /\ request[c] \in Request
      /\ events' = Append(events, e)
      /\ UNCHANGED <<row, docs, pair, ran, requests, source, replaced>>
  BY DEF DecisionEvent, IInv, TypeOK
<1>2. q \in Request /\ q.kind = request[c].kind /\ q.row = request[c].row
  <2>1. "recorded" \in Steps
    BY DEF Steps
  <2>2. QED
    BY <1>1, <2>1 DEF Request
<1>3. e \in Events /\ ~Guarded(e)
  <2>1. request[c].action \in Decisions /\ request[c].row.version \in Nat
    BY <1>1 DEF Request, Row
  <2>2. QED
    BY <2>1, EventType, ActionsAre
<1> HIDE DEF q, e
<1>4. TypeOK' /\ row' \in Row
  BY <1>1, <1>2, <1>3, Appended DEF IInv, TypeOK
<1>5. SameVersionSameRow'
  BY <1>1, <1>2, <1>4, SameRowKept DEF IInv, TypeOK
<1>6. EventsPast' /\ OneReviewPerVersion'
  BY <1>1, <1>3, UnguardedEvent
<1>7. Reviewed \subseteq Reviewed'
  BY <1>1, <1>3, Appended
<1>8. QED
  BY <1>1, <1>4, <1>5, <1>6, <1>7, FindingsKept DEF IInv

\* A result is saved over whatever is there.
LEMMA SaveInv ==
  ASSUME IInv, NEW c \in Clients, NEW k \in Categories \cup {NoCategory}, NEW o \in SUBSET Categories,
         row' = Saved(row, k, o, request[c].source.docs), source' = request[c].source,
         replaced' = row.closed, End(c), UNCHANGED <<docs, pair, events, ran, requests>>
  PROVE  IInv'
<1> DEFINE d == request[c].source.docs
<1>1. d \in SUBSET Docs /\ request[c].source \in Source /\ row \in Row
  <2>1. request[c] \in Request /\ row \in Row
    BY DEF IInv, TypeOK
  <2>2. QED
    BY <2>1 DEF Request, Source
<1> HIDE DEF d
<1>2. /\ row' \in Row /\ row'.version = row.version + 1 /\ row'.closed = row.closed
      /\ row'.compared => row'.open = OpenFields(d)
  BY <1>1, SavedShape DEF d
<1>3. TypeOK'
  <2>1. row.closed \in BOOLEAN
    BY <1>1 DEF Row
  <2>2. QED
    BY <1>1, <1>2, <2>1, IdleType DEF End, IInv, TypeOK
<1>4. SameVersionSameRow'
  BY <1>2, SameRowKept, IdleType DEF End, IInv, TypeOK
<1>5. EventsPast' /\ OneReviewPerVersion'
  BY <1>2, NoEvent
<1>6. ClosedStaysExamined'
  BY <1>2 DEF ClosedStaysExamined
<1>7. ClearsAreRecorded'
  <2>1. source'.docs = d
    BY DEF d
  <2>2. QED
    BY <1>2, <2>1 DEF ClearsAreRecorded, OpenFields
<1>8. QED
  BY <1>3, <1>4, <1>5, <1>6, <1>7 DEF IInv

LEMMA DecisionSaveInv ==
  ASSUME IInv, NEW c \in Clients, DecisionSave(c)
  PROVE  IInv'
<1>1. request[c].category \in Categories \cup {NoCategory}
  BY DEF IInv, TypeOK, Request
<1>2. QED
  BY <1>1, SaveInv DEF DecisionSave

LEMMA RunSaveInv ==
  ASSUME IInv, NEW c \in Clients, RunSave(c)
  PROVE  IInv'
<1>1. PICK reading \in Readings :
        row' = Saved(row, reading.category, reading.offered, request[c].source.docs)
  BY DEF RunSave
<1>2. reading.category \in Categories /\ reading.offered \in SUBSET Categories
  BY CaseReviewAssumption
<1>3. QED
  BY <1>1, <1>2, SaveInv DEF RunSave

\* The three requests that start by reading.
LEMMA ReadInv ==
  ASSUME IInv, NEW c \in Clients,
         ReviewRead(c) \/ ArbitrationRead(c) \/ CorrectionRead(c) \/ RunRead(c)
  PROVE  IInv'
<1>1. row \in Row /\ Idle \in Request /\ {"review", "decide", "run"} \subseteq Kinds
      /\ Decisions = {"resolve_classification", "classification_correction"}
  BY IdleType DEF IInv, TypeOK, Kinds, Decisions
<1>2. CASE ReviewRead(c)
  <2> DEFINE r == [Idle EXCEPT !.kind = "review", !.row = row]
  <2>1. r \in Request /\ r.row = row
    BY <1>1 DEF Request
  <2>2. Begin(c, r)
    BY <1>2 DEF ReviewRead
  <2> HIDE DEF r
  <2>3. QED
    BY <2>1, <2>2, BeginInv
<1>3. ASSUME NEW k \in Categories, NEW a \in Decisions,
             Begin(c, [Idle EXCEPT !.kind = "decide", !.row = row, !.category = k, !.action = a])
      PROVE  IInv'
  <2> DEFINE r == [Idle EXCEPT !.kind = "decide", !.row = row, !.category = k, !.action = a]
  <2>1. r \in Request /\ r.row = row
    BY <1>1 DEF Request
  <2>2. Begin(c, r)
    BY <1>3
  <2> HIDE DEF r
  <2>3. QED
    BY <2>1, <2>2, BeginInv
<1>4. CASE ArbitrationRead(c)
  <2>1. row.offered \subseteq Categories
    BY <1>1 DEF Row
  <2>2. QED
    BY <1>1, <1>3, <1>4, <2>1 DEF ArbitrationRead
<1>5. CASE CorrectionRead(c)
  BY <1>1, <1>3, <1>5 DEF CorrectionRead
<1>6. CASE RunRead(c)
  <2> DEFINE r == [Idle EXCEPT !.kind = "run", !.source = [docs |-> docs, pair |-> pair]]
  <2>1. [docs |-> docs, pair |-> pair] \in Source
    BY DEF IInv, TypeOK, Source
  <2>2. r \in Request /\ r.kind = "run"
    BY <1>1, <2>1 DEF Request
  <2>3. Begin(c, r)
    BY <1>6 DEF RunRead
  <2> HIDE DEF r
  <2>4. QED
    BY <2>2, <2>3, BeginInv
<1>7. QED
  BY <1>2, <1>4, <1>5, <1>6

LEMMA NextInv == IInv /\ [Next]_vars => IInv'
<1> SUFFICES ASSUME IInv, [Next]_vars PROVE IInv'
  OBVIOUS
<1>1. ASSUME NEW c \in Clients, Handler(c) PROVE IInv'
  <2>1. CASE ReviewRead(c) \/ ArbitrationRead(c) \/ CorrectionRead(c) \/ RunRead(c)
    BY <2>1, ReadInv
  <2>2. CASE ReviewField(c) \/ ReviewCase(c)
    BY <2>2, ReviewFieldInv, ReviewCaseInv
  <2>3. CASE ReviewRefused(c) \/ DecisionFails(c) \/ Abort(c)
    BY <2>3, EndInv DEF ReviewRefused, DecisionFails, Abort
  <2>4. CASE DecisionDocuments(c) \/ DecisionRun(c) \/ DecisionEvent(c) \/ DecisionSave(c)
    BY <2>4, DecisionDocumentsInv, DecisionRunInv, DecisionEventInv, DecisionSaveInv
  <2>5. CASE RunCreate(c) \/ RunSave(c)
    BY <2>5, RunCreateInv, RunSaveInv
  <2>6. QED
    BY <1>1, <2>1, <2>2, <2>3, <2>4, <2>5 DEF Handler
<1>2. CASE Close \/ Reopen
  BY <1>2, CloseInv, ReopenInv
<1>3. ASSUME NEW d \in Docs, Upload(d) PROVE IInv'
  BY <1>3, SourceInv DEF Upload, IInv, TypeOK
<1>4. ASSUME NEW s \in SIs, NEW b \in BLs, SelectPair(s, b) PROVE IInv'
  BY <1>4, SourceInv DEF SelectPair, IInv, TypeOK
<1>5. CASE UNCHANGED vars
  BY <1>5 DEF vars, IInv, TypeOK, SameVersionSameRow, EventsPast, OneReviewPerVersion,
              ClosedStaysExamined, ClearsAreRecorded, Reviewed
<1>6. QED
  BY <1>1, <1>2, <1>3, <1>4, <1>5 DEF Next

-----------------------------------------------------------------------------
(* The theorems.                                                           *)

\* The inductive invariant holds in every reachable state.
THEOREM Invariance == Spec => []IInv
  BY InitInv, NextInv, PTL DEF Spec

\* Every variable keeps its type, in particular the open fields are fields.
THEOREM TypeCorrect == Spec => []TypeOK
<1>1. IInv => TypeOK
  BY DEF IInv
<1>2. QED
  BY Invariance, <1>1, PTL

\* The version of a case names one content of its row: the compare-and-swap of
\* apply_review_transaction is enough for a result that was computed from a row
\* read in another transaction.
THEOREM VersionNamesContent == Spec => []SameVersionSameRow
<1>1. IInv => SameVersionSameRow
  BY DEF IInv
<1>2. QED
  BY Invariance, <1>1, PTL

\* Reviews, closings and reopenings on record were each the only one computed
\* against their version, whatever arbitrations, corrections and runs write in
\* between without asking for a version.
THEOREM ReviewsAreSerial == Spec => []OneReviewPerVersion
<1>1. IInv => OneReviewPerVersion
  BY DEF IInv
<1>2. QED
  BY Invariance, <1>1, PTL

\* Open fields of a closed case are on record as reviewed until a run or a
\* decision replaces the result; and no field that the compared documents leave
\* open is cleared without a review event that names it.
THEOREM FindingsAreAccountable == Spec => [](ClosedStaysExamined /\ ClearsAreRecorded)
<1>1. IInv => ClosedStaysExamined /\ ClearsAreRecorded
  BY DEF IInv
<1>2. QED
  BY Invariance, <1>1, PTL

\* The first half by itself: a case stays closed only on fields that reviewers have
\* named, or on a result that came after the closing (close_case of store.py).
THEOREM ClosedCasesWereExamined == Spec => []ClosedStaysExamined
  BY FindingsAreAccountable, PTL

-----------------------------------------------------------------------------
(* The case implements the contract of CaseContract.                       *)

Decided == {events[i].expected : i \in {j \in DOMAIN events : Guarded(events[j])}}

\* What a person chose is a category, also while the decision is on its way.
Choices == \A c \in Clients : request[c].kind = "decide" => request[c].category \in Categories

LEMMA ChoicesKept == IInv /\ Choices /\ [Next]_vars => Choices'
<1> SUFFICES ASSUME IInv, Choices, [Next]_vars, NEW d \in Clients, request'[d].kind = "decide"
             PROVE  request'[d].category \in Categories
  BY DEF Choices
<1>1. request \in [Clients -> Request] /\ row.offered \subseteq Categories
  BY DEF IInv, TypeOK, Row
<1>2. request'[d] = request[d] => request'[d].category \in Categories
  BY DEF Choices
<1>3. ASSUME NEW c \in Clients, Handler(c) PROVE request'[d].category \in Categories
  <2>1. CASE ReviewRead(c) \/ RunRead(c)
    BY <1>1, <1>2, <2>1, IdleType DEF ReviewRead, RunRead, Begin, Request
  <2>2. CASE ArbitrationRead(c) \/ CorrectionRead(c)
    BY <1>1, <1>2, <2>2, IdleType DEF ArbitrationRead, CorrectionRead, Begin, Request
  <2>3. CASE End(c)
    BY <1>1, <1>2, <2>3, IdleType DEF End
  <2>4. CASE ReviewField(c) \/ ReviewCase(c) \/ ReviewRefused(c) \/ DecisionSave(c)
             \/ DecisionFails(c) \/ RunSave(c) \/ Abort(c)
    BY <2>3, <2>4 DEF ReviewField, ReviewCase, ReviewRefused, DecisionSave, DecisionFails,
                      RunSave, Abort
  <2>5. CASE DecisionDocuments(c) \/ DecisionRun(c) \/ DecisionEvent(c) \/ RunCreate(c)
    BY <1>1, <1>2, <2>5 DEF DecisionDocuments, DecisionRun, DecisionEvent, RunCreate, Choices,
                            Request
  <2>6. QED
    BY <1>3, <2>1, <2>2, <2>4, <2>5 DEF Handler
<1>4. CASE request' = request
  BY <1>2, <1>4
<1>5. QED
  BY <1>3, <1>4 DEF Next, Close, Reopen, Upload, SelectPair, vars

\* Nobody has decided on the version that the case has.
LEMMA VersionUndecided == ASSUME IInv PROVE row.version \notin Decided
  BY Versions DEF IInv, EventsPast, Decided

\* What an event adds to the versions that were decided on, and to the fields.
LEMMA Decides ==
  ASSUME IInv, NEW e \in Events, events' = Append(events, e)
  PROVE  /\ Decided' = IF Guarded(e) THEN Decided \cup {e.expected} ELSE Decided
         /\ Reviewed' = Reviewed \cup ({e.field} \ {NoField})
<1>1. /\ DOMAIN events' = DOMAIN events \cup {Len(events) + 1}
      /\ \A i \in DOMAIN events : events'[i] = events[i] /\ i # Len(events) + 1
      /\ events'[Len(events) + 1] = e
  BY Appended
<1>2. ASSUME NEW v
      PROVE  v \in Decided' <=> (v \in Decided \/ (Guarded(e) /\ v = e.expected))
  BY <1>1 DEF Decided
<1>3. ASSUME NEW f
      PROVE  f \in Reviewed' <=> (f \in Reviewed \/ (f = e.field /\ f # NoField))
  BY <1>1 DEF Reviewed
<1>4. QED
  BY <1>2, <1>3

\* A guarded event that carries the version of the row, and moves it.
LEMMA DecidesNow ==
  ASSUME IInv, NEW a \in Actions \ Decisions, NEW f \in Fields \cup {NoField},
         events' = Append(events, Event(a, f, row.version)), row'.version = row.version + 1
  PROVE  Contract!Decide /\ Reviewed' = Reviewed \cup ({f} \ {NoField})
<1> DEFINE e == Event(a, f, row.version)
<1>1. e \in Events /\ e.field = f /\ e.expected = row.version /\ Guarded(e)
  BY Versions, EventType
<1>2. events' = Append(events, e)
  OBVIOUS
<1> HIDE DEF e
<1>3. Decided' = Decided \cup {row.version} /\ Reviewed' = Reviewed \cup ({f} \ {NoField})
  BY <1>1, <1>2, Decides
<1>4. QED
  BY <1>3, VersionUndecided DEF Contract!Decide, Decided

LEMMA ReviewFieldReviews ==
  ASSUME IInv, NEW c \in Clients, ReviewField(c)
  PROVE  \E f \in Fields : Contract!Review(f)
<1>1. request[c].row = row /\ row \in Row
  BY DEF ReviewField, IInv, TypeOK, SameVersionSameRow
<1>2. PICK a \in FieldActions, f \in Fields : \E open \in ReviewedOpen(a, f, row.open) :
        /\ row' = [Bumped(row) EXCEPT !.category = CategoryOf(row),
                                      !.offered = row.offered, !.open = open]
        /\ events' = Append(events, Event(a, f, row.version))
  BY <1>1 DEF ReviewField
<1>3. PICK open \in ReviewedOpen(a, f, row.open) :
        /\ row' = [Bumped(row) EXCEPT !.category = CategoryOf(row),
                                      !.offered = row.offered, !.open = open]
        /\ events' = Append(events, Event(a, f, row.version))
  BY <1>2
<1>4. open \in {row.open, row.open \cup {f}, row.open \ {f}}
  BY <1>3 DEF ReviewedOpen, FieldActions
<1>5. /\ row'.version = row.version + 1 /\ row'.closed = row.closed /\ row'.open = open
      /\ row'.offered = row.offered /\ row'.category = CategoryOf(row)
  BY <1>1, <1>3, BumpedShape DEF Row
<1>6. Contract!Decide /\ Reviewed' = Reviewed \cup {f}
  <2>1. a \in Actions \ Decisions /\ f # NoField
    BY ActionsAre, CaseReviewAssumption
  <2>2. QED
    BY <1>3, <1>5, <2>1, DecidesNow
<1>7. Contract!Judged
  BY <1>5, <1>6 DEF Contract!Judged, CategoryOf
<1>8. QED
  BY <1>4, <1>5, <1>6, <1>7 DEF Contract!Review

LEMMA ReviewCaseEndorses ==
  ASSUME IInv, NEW c \in Clients, ReviewCase(c)
  PROVE  Contract!Endorse
<1>1. request[c].row = row /\ row \in Row
  BY DEF ReviewCase, IInv, TypeOK, SameVersionSameRow
<1>2. /\ row'.version = row.version + 1 /\ row'.closed = row.closed /\ row'.open = row.open
      /\ row'.offered = row.offered /\ row'.category = CategoryOf(row)
  BY <1>1, BumpedShape DEF ReviewCase, Row
<1>3. PICK a \in FieldActions : events' = Append(events, Event(a, NoField, row.version))
  BY <1>1 DEF ReviewCase
<1>4. Contract!Decide /\ Reviewed' = Reviewed
  BY <1>2, <1>3, ActionsAre, DecidesNow
<1>5. QED
  BY <1>2, <1>4 DEF Contract!Endorse, Contract!Judged, CategoryOf

\* Closing and reopening, which one transaction serves.
LEMMA DispositionDecides ==
  ASSUME IInv, NEW a \in {"close_case", "reopen_case"}, NEW b \in BOOLEAN,
         row' = [Bumped(row) EXCEPT !.closed = b],
         events' = Append(events, Event(a, NoField, row.version))
  PROVE  /\ Contract!Decide /\ Reviewed' = Reviewed /\ row'.closed = b
         /\ row'.category = row.category /\ row'.offered = row.offered /\ row'.open = row.open
<1>1. row \in Row /\ a \in Actions \ Decisions
  BY ActionsAre DEF IInv, TypeOK
<1>2. /\ row'.version = row.version + 1 /\ row'.closed = b /\ row'.category = row.category
      /\ row'.offered = row.offered /\ row'.open = row.open
  BY <1>1, BumpedShape DEF Row
<1>3. QED
  BY <1>1, <1>2, DecidesNow

LEMMA CloseCloses == ASSUME IInv, Close PROVE Contract!Close
<1>1. /\ Contract!Decide /\ Reviewed' = Reviewed /\ row'.closed = TRUE
      /\ row'.category = row.category /\ row'.offered = row.offered /\ row'.open = row.open
  BY DispositionDecides DEF Close
<1>2. QED
  BY <1>1 DEF Close, Contract!Close

LEMMA ReopenReopens == ASSUME IInv, Reopen PROVE Contract!Reopen
<1>1. /\ Contract!Decide /\ Reviewed' = Reviewed /\ row'.closed = FALSE
      /\ row'.category = row.category /\ row'.offered = row.offered /\ row'.open = row.open
  BY DispositionDecides DEF Reopen
<1>2. QED
  BY <1>1 DEF Reopen, Contract!Reopen

\* Documents and pairs.
LEMMA SourceAttaches ==
  ASSUME IInv, row' = row \/ row' = Bumped(row), UNCHANGED events
  PROVE  [Contract!Next]_(Contract!vars)
<1>1. Reviewed' = Reviewed /\ Decided' = Decided
  BY DEF Reviewed, Decided
<1>2. CASE row' = row
  BY <1>1, <1>2 DEF Contract!vars, Decided
<1>3. CASE row' = Bumped(row)
  <2>1. Contract!Attach
    BY <1>1, <1>3, BumpedShape DEF IInv, TypeOK, Contract!Attach, Decided
  <2>2. QED
    BY <2>1 DEF Contract!Next
<1>4. QED
  BY <1>2, <1>3

\* A decision on record is none of the versions that reviews compete for.
LEMMA RecordingIsSilent ==
  ASSUME IInv, NEW c \in Clients, DecisionEvent(c)
  PROVE  UNCHANGED Contract!vars
<1> DEFINE e == Event(request[c].action, NoField, request[c].row.version)
<1>1. e \in Events /\ ~Guarded(e) /\ e.field = NoField
  <2>1. request[c].action \in Decisions /\ request[c].row.version \in Nat
    BY DEF IInv, TypeOK, Request, Row
  <2>2. QED
    BY <2>1, EventType, ActionsAre
<1>2. events' = Append(events, e) /\ row' = row
  BY DEF DecisionEvent
<1> HIDE DEF e
<1>3. Decided' = Decided /\ Reviewed' = Reviewed
  BY <1>1, <1>2, Decides
<1>4. QED
  BY <1>2, <1>3 DEF Contract!vars, Decided

\* A result is saved over whatever is there, whoever was looking at it.
LEMMA SaveReplaces ==
  ASSUME IInv, NEW c \in Clients, NEW k \in Categories, NEW o \in SUBSET Categories,
         row' = Saved(row, k, o, request[c].source.docs), UNCHANGED events
  PROVE  Contract!Replace
<1> DEFINE d == request[c].source.docs
<1>1. row \in Row /\ d \in SUBSET Docs
  BY DEF IInv, TypeOK, Request, Source
<1> HIDE DEF d
<1>2. /\ row' \in Row /\ row'.version = row.version + 1 /\ row'.closed = row.closed
      /\ row'.category = k
  <2>1. row' = Saved(row, k, o, d)
    BY DEF d
  <2>2. Saved(row, k, o, d).category = k
    <3>1. Bumped(row) \in Row
      BY <1>1, BumpedShape
    <3>2. QED
      BY <3>1 DEF Saved, Row
  <2>3. QED
    BY <1>1, <2>1, <2>2, SavedShape
<1>3. row'.open \subseteq Fields /\ row'.offered \subseteq Categories
  BY <1>2 DEF Row
<1>4. Reviewed' = Reviewed /\ Decided' = Decided
  BY DEF Reviewed, Decided
<1>5. QED
  BY <1>2, <1>3, <1>4 DEF Contract!Replace, Decided

LEMMA NothingSeen ==
  ASSUME UNCHANGED <<row, events>>
  PROVE  UNCHANGED Contract!vars
  BY DEF Contract!vars, Reviewed

LEMMA CaseContractInit == Init => Contract!Init
  BY DEF Init, New, Contract!Init, Reviewed

LEMMA CaseContractStep == IInv /\ Choices /\ [Next]_vars => [Contract!Next]_(Contract!vars)
<1> SUFFICES ASSUME IInv, Choices, [Next]_vars PROVE [Contract!Next]_(Contract!vars)
  OBVIOUS
<1>1. ASSUME NEW c \in Clients, Handler(c) PROVE [Contract!Next]_(Contract!vars)
  <2>1. CASE ReviewField(c)
    BY <2>1, ReviewFieldReviews DEF Contract!Next
  <2>2. CASE ReviewCase(c)
    BY <2>2, ReviewCaseEndorses DEF Contract!Next
  <2>3. CASE DecisionEvent(c)
    BY <2>3, RecordingIsSilent
  <2>4. CASE DecisionSave(c)
    <3>1. request[c].category \in Categories
      BY <2>4 DEF DecisionSave, Choices
    <3>2. Contract!Replace
      BY <2>4, <3>1, SaveReplaces DEF DecisionSave
    <3>3. QED
      BY <3>2 DEF Contract!Next
  <2>5. CASE RunSave(c)
    <3>1. PICK reading \in Readings :
            row' = Saved(row, reading.category, reading.offered, request[c].source.docs)
      BY <2>5 DEF RunSave
    <3>2. reading.category \in Categories /\ reading.offered \in SUBSET Categories
      BY CaseReviewAssumption
    <3>3. Contract!Replace
      BY <2>5, <3>1, <3>2, SaveReplaces DEF RunSave
    <3>4. QED
      BY <3>3 DEF Contract!Next
  <2>6. CASE UNCHANGED <<row, events>>
    BY <2>6, NothingSeen
  <2>7. CASE \/ ReviewRead(c) \/ ArbitrationRead(c) \/ CorrectionRead(c) \/ RunRead(c)
             \/ ReviewRefused(c) \/ DecisionDocuments(c) \/ DecisionRun(c) \/ DecisionFails(c)
             \/ RunCreate(c) \/ Abort(c)
    BY <2>6, <2>7 DEF ReviewRead, ArbitrationRead, CorrectionRead, RunRead, Begin, ReviewRefused,
                      DecisionDocuments, DecisionRun, DecisionFails, RunCreate, Abort
  <2>8. QED
    BY <1>1, <2>1, <2>2, <2>3, <2>4, <2>5, <2>7 DEF Handler
<1>2. CASE Close
  BY <1>2, CloseCloses DEF Contract!Next
<1>3. CASE Reopen
  BY <1>3, ReopenReopens DEF Contract!Next
<1>4. ASSUME NEW d \in Docs, Upload(d) PROVE [Contract!Next]_(Contract!vars)
  BY <1>4, SourceAttaches DEF Upload
<1>5. ASSUME NEW s \in SIs, NEW b \in BLs, SelectPair(s, b)
      PROVE  [Contract!Next]_(Contract!vars)
  BY <1>5, SourceAttaches DEF SelectPair
<1>6. CASE UNCHANGED vars
  BY <1>6, NothingSeen DEF vars
<1>7. QED
  BY <1>1, <1>2, <1>3, <1>4, <1>5, <1>6 DEF Next

\* Requests that read and write in different transactions, that ask for no
\* version or that die half way look to the people on a case like decisions that
\* take effect at once, each the only one on its version, and replacements that
\* touch neither the record nor the disposition.
THEOREM CaseKeepsContract == Spec => KeepsCaseContract
<1>1. Init => Choices
  BY IdleType DEF Init, Choices
<1>2. Spec => []Choices
  BY Invariance, <1>1, ChoicesKept, PTL DEF Spec
<1>3. QED
  BY Invariance, <1>2, CaseContractInit, CaseContractStep, PTL
     DEF Spec, KeepsCaseContract, Contract!Spec
=============================================================================
