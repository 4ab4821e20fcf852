---------------------------- MODULE ScreenProofs ----------------------------
(***************************************************************************)
(* Proofs about what people see: of all cases at once (Inbox), and of one  *)
(* case in a browser (CasePage).                                           *)
(***************************************************************************)
EXTENDS Inbox, CasePage, FiniteSetTheorems, WellFoundedInduction, TLAPS

-----------------------------------------------------------------------------
(* The funnel. The buckets are told apart by the state of a case, which is *)
(* decided in this order: closed, sourceless, asked, complete.             *)

LEMMA StateOfOpen ==
  ASSUME NEW c
  PROVE  /\ State(c) = "Closed" => c.processed /\ c.closed
         /\ State(c) = "Complete" => ~Sourceless(c) /\ ~c.asked
                                     /\ Verification(c) \in {"MATCH", "NOT_APPLICABLE"}
         /\ State(c) = "Needs classification review" => ~Sourceless(c)
<1>1. CASE ~c.processed
  BY <1>1 DEF State
<1>2. CASE c.processed /\ c.closed
  BY <1>2 DEF State
<1>3. CASE c.processed /\ ~c.closed
  BY <1>3 DEF State
<1>. QED BY <1>1, <1>2, <1>3

\* The sizes of two disjoint finite sets add up.
LEMMA Parts ==
  ASSUME NEW S, NEW T, IsFiniteSet(S), IsFiniteSet(T), S \cap T = {}
  PROVE  /\ IsFiniteSet(S \cup T)
         /\ Cardinality(S \cup T) = Cardinality(S) + Cardinality(T)
<1>1. /\ IsFiniteSet(S \cup T)
      /\ Cardinality(S \cup T) = Cardinality(S) + Cardinality(T) - Cardinality({})
  BY FS_Union
<1>2. Cardinality({}) = 0 /\ Cardinality(S) \in Nat /\ Cardinality(T) \in Nat
  BY FS_EmptySet, FS_CardinalityType
<1>. QED BY <1>1, <1>2

\* A finite set is the sum of four disjoint parts and of what they leave.
LEMMA FiveParts ==
  ASSUME NEW W, IsFiniteSet(W), NEW A \in SUBSET W, NEW B \in SUBSET W,
         NEW C \in SUBSET W, NEW D \in SUBSET W,
         A \cap B = {}, C \cap D = {}, (A \cup B) \cap (C \cup D) = {}
  PROVE  Cardinality(C) + Cardinality(W \ ((A \cup B) \cup (C \cup D))) + Cardinality(D)
           + Cardinality(A) + Cardinality(B) = Cardinality(W)
<1>. DEFINE S == A \cup B
            T == C \cup D
            U == S \cup T
            V == W \ U
<1>1. /\ IsFiniteSet(A) /\ IsFiniteSet(B) /\ IsFiniteSet(C) /\ IsFiniteSet(D)
      /\ IsFiniteSet(V)
  BY FS_Subset
<1>2. /\ Cardinality(A) \in Nat /\ Cardinality(B) \in Nat
      /\ Cardinality(C) \in Nat /\ Cardinality(D) \in Nat /\ Cardinality(V) \in Nat
  BY <1>1, FS_CardinalityType
<1>3. /\ IsFiniteSet(S) /\ Cardinality(S) = Cardinality(A) + Cardinality(B)
      /\ IsFiniteSet(T) /\ Cardinality(T) = Cardinality(C) + Cardinality(D)
  BY <1>1, Parts
<1>4. S \cap T = {}
  OBVIOUS
<1>. HIDE DEF S, T
<1>5. IsFiniteSet(U) /\ Cardinality(U) = Cardinality(S) + Cardinality(T)
  BY <1>3, <1>4, Parts
<1>6. U \cap V = {} /\ U \cup V = W
  BY DEF S, T
<1>. HIDE DEF U, V
<1>7. Cardinality(W) = Cardinality(U) + Cardinality(V)
  BY <1>1, <1>5, <1>6, Parts
<1>8. Cardinality(C) + Cardinality(V) + Cardinality(D) + Cardinality(A) + Cardinality(B) = Cardinality(W)
  BY <1>2, <1>3, <1>5, <1>7
<1>. QED BY <1>8 DEF S, T, U, V

\* The five buckets of a query.
LEMMA Buckets ==
  ASSUME NEW q
  PROVE  LET f == Funnel(q)
             decided == f.auto_cleared \cup f.operator_closed
             named == f.counterparty \cup f.arbitration
         IN /\ f.comparisons \in SUBSET Emails
            /\ f.auto_cleared \in SUBSET f.comparisons
            /\ f.operator_closed \in SUBSET f.comparisons
            /\ f.counterparty \in SUBSET f.comparisons
            /\ f.arbitration \in SUBSET f.comparisons
            /\ f.auto_cleared \cap f.operator_closed = {}
            /\ f.counterparty \cap f.arbitration = {}
            /\ decided \cap named = {}
            /\ f.operator = f.comparisons \ (decided \cup named)
<1>. DEFINE comparisons == {e \in Counted(q) : cases[e].category = Comparison}
            complete == In(comparisons, "Complete")
            closed == In(comparisons, "Closed")
            open == comparisons \ closed
            counterparty == {e \in open : Sourceless(cases[e])}
            arbitration == In(open, "Needs classification review")
<1>1. Funnel(q) =
        [comparisons |-> comparisons, auto_cleared |-> complete, operator_closed |-> closed,
         counterparty |-> counterparty, arbitration |-> arbitration,
         operator |-> open \ (complete \cup counterparty \cup arbitration)]
  BY DEF Funnel
<1>2. comparisons \in SUBSET Emails
  BY DEF Counted, Within
<1>3. /\ \A e \in complete : e \in comparisons /\ State(cases[e]) = "Complete"
      /\ \A e \in closed : e \in comparisons /\ State(cases[e]) = "Closed"
      /\ \A e \in arbitration : e \in open /\ State(cases[e]) = "Needs classification review"
      /\ \A e \in counterparty : e \in open /\ Sourceless(cases[e])
  BY DEF In
<1>. HIDE DEF comparisons, complete, closed, counterparty, arbitration
<1>4. complete \cap closed = {}
  BY <1>3
<1>5. counterparty \cap arbitration = {}
  BY <1>3, StateOfOpen
<1>6. complete \cap (counterparty \cup arbitration) = {}
  BY <1>3, StateOfOpen
<1>7. closed \cap (counterparty \cup arbitration) = {}
  BY <1>3
<1>8. open \ (complete \cup counterparty \cup arbitration)
        = comparisons \ ((complete \cup closed) \cup (counterparty \cup arbitration))
  OBVIOUS
<1>9. /\ Funnel(q).comparisons = comparisons
      /\ Funnel(q).auto_cleared = complete
      /\ Funnel(q).operator_closed = closed
      /\ Funnel(q).counterparty = counterparty
      /\ Funnel(q).arbitration = arbitration
      /\ Funnel(q).operator = open \ (complete \cup counterparty \cup arbitration)
  BY <1>1
<1>10. /\ complete \in SUBSET comparisons /\ closed \in SUBSET comparisons
       /\ counterparty \in SUBSET comparisons /\ arbitration \in SUBSET comparisons
  BY <1>3
<1>11. (complete \cup closed) \cap (counterparty \cup arbitration) = {}
  BY <1>6, <1>7
<1>. QED BY <1>2, <1>4, <1>5, <1>8, <1>9, <1>10, <1>11

LEMMA Partition == FunnelIsAPartition
<1>. SUFFICES ASSUME NEW q \in Queries
              PROVE  NeedsHuman(q) + Cardinality(Funnel(q).auto_cleared)
                       + Cardinality(Funnel(q).operator_closed) = Cardinality(Funnel(q).comparisons)
  BY DEF FunnelIsAPartition
<1>. DEFINE W == Funnel(q).comparisons
            A == Funnel(q).auto_cleared
            B == Funnel(q).operator_closed
            C == Funnel(q).counterparty
            D == Funnel(q).arbitration
<1>1. /\ W \in SUBSET Emails
      /\ A \in SUBSET W /\ B \in SUBSET W /\ C \in SUBSET W /\ D \in SUBSET W
      /\ A \cap B = {} /\ C \cap D = {} /\ (A \cup B) \cap (C \cup D) = {}
      /\ Funnel(q).operator = W \ ((A \cup B) \cup (C \cup D))
  BY Buckets
<1>2. NeedsHuman(q) = Cardinality(C) + Cardinality(Funnel(q).operator) + Cardinality(D)
  BY DEF NeedsHuman
<1>. HIDE DEF W, A, B, C, D
<1>3. IsFiniteSet(W)
  BY <1>1, InboxAssumption, FS_Subset
<1>4. Cardinality(C) + Cardinality(W \ ((A \cup B) \cup (C \cup D))) + Cardinality(D)
        + Cardinality(A) + Cardinality(B) = Cardinality(W)
  BY <1>1, <1>3, FiveParts
<1>. QED BY <1>1, <1>2, <1>4 DEF W, A, B, C, D

\* For every set of cases, in whatever states, every funnel adds up.
THEOREM FunnelAddsUp == Spec => []FunnelIsAPartition
<1>. QED BY Partition, PTL

-----------------------------------------------------------------------------
(* The invariant of Inbox.                                                 *)

\* What is shown of a case in the funnel depends on this: a category is that of
\* an imported case, and where nothing was compared no field is open.
Consistent(c) ==
  /\ c.category # NoCategory => c.import # 0
  /\ c.finding.compared \/ c.finding.differ \cup c.finding.unresolved = {}

InboxInv ==
  /\ TypeOK
  /\ Len(imports) <= requests
  /\ \A e \in Emails : Consistent(cases[e])

LEMMA FindingTypes ==
  /\ NoFinding \in Finding
  /\ Findings \subseteq Finding
  /\ \A f \in Findings : f.compared \/ f.differ \cup f.unresolved = {}
  /\ \A d, u \in SUBSET Fields : Compared(d, u) \in Finding /\ Compared(d, u).compared
<1>1. NoFinding \in Finding /\ NoFinding.differ \cup NoFinding.unresolved = {}
  BY DEF NoFinding, Finding
<1>2. \A d, u \in SUBSET Fields : Compared(d, u) \in Finding /\ Compared(d, u).compared
  BY DEF Compared, Finding, ReviewReasons, NoReason
<1>3. \A r \in ReviewReasons, b \in BOOLEAN : Blocked(r, b) \in Finding /\ Blocked(r, b).compared
  BY DEF Blocked, Finding
<1>4. ASSUME NEW f \in Verified PROVE f \in Finding /\ (f.compared \/ f.differ \cup f.unresolved = {})
  <2>. DEFINE pairs == {Compared(d, u) : d \in SUBSET Fields, u \in SUBSET Fields}
              blocked == {Blocked(r, FALSE) : r \in ReviewReasons \ {"missing_value"}}
              failed == Blocked("unreadable", TRUE)
              Fine(x) == x \in Finding /\ (x.compared \/ x.differ \cup x.unresolved = {})
  <2>1. Fine(NoFinding)
    BY <1>1
  <2>2. \A x \in pairs : Fine(x)
    BY <1>2
  <2>3. \A x \in blocked : Fine(x)
    BY <1>3
  <2>4. Fine(failed)
    BY <1>3 DEF ReviewReasons
  <2>5. Verified = {NoFinding} \cup pairs \cup blocked \cup {failed}
    BY DEF Verified
  <2>. HIDE DEF pairs, blocked, failed, Fine
  <2>6. Fine(f)
    BY <1>4, <2>1, <2>2, <2>3, <2>4, <2>5
  <2>. QED BY <2>6 DEF Fine
<1>5. Findings \subseteq Verified
  BY InboxAssumption
<1>. QED BY <1>1, <1>2, <1>4, <1>5

\* One case is replaced by a consistent one, or several are.
LEMMA CasesReplaced ==
  ASSUME InboxInv, NEW e \in Emails, NEW c \in Case, Consistent(c), cases' = [cases EXCEPT ![e] = c]
  PROVE  cases' \in [Emails -> Case] /\ \A d \in Emails : Consistent(cases[d])'
<1>1. cases \in [Emails -> Case] /\ \A d \in Emails : Consistent(cases[d])
  BY DEF InboxInv, TypeOK
<1>2. \A d \in Emails : cases'[d] = IF d = e THEN c ELSE cases[d]
  BY <1>1
<1>3. \A d \in Emails : Consistent(cases'[d])
  BY <1>1, <1>2
<1>. QED BY <1>1, <1>3 DEF Consistent

LEMMA Served == ASSUME InboxInv, Serve PROVE requests' \in 0..MaxRequests /\ Len(imports) <= requests'
                                              /\ Len(imports) + 1 <= requests'
<1>1. imports \in Seq([mode: {"mailbox", "zip"}, count: Nat]) /\ requests \in 0..MaxRequests
      /\ Len(imports) <= requests /\ MaxRequests \in Nat
  BY InboxAssumption DEF InboxInv, TypeOK
<1>2. Len(imports) \in Nat
  BY <1>1
<1>. QED BY <1>1, <1>2 DEF Serve

LEMMA ImportInv == ASSUME InboxInv, NEW S \in SUBSET Emails, Import(S) PROVE InboxInv'
<1>. DEFINE R == [mode: {"mailbox", "zip"}, count: Nat]
            row == [mode |-> IF S \subseteq Live THEN "mailbox" ELSE "zip", count |-> 0]
            new == [Absent EXCEPT !.import = Len(imports) + 1]
<1>1. /\ imports \in Seq(R) /\ cases \in [Emails -> Case] /\ taught \in Seq(Teachings)
      /\ MaxRequests \in Nat
  BY InboxAssumption DEF InboxInv, TypeOK
<1>2. requests' \in 0..MaxRequests /\ Len(imports) + 1 <= requests'
  BY Served DEF Import
<1>3. row \in R /\ imports' = Append(imports, row)
  BY DEF Import
<1>4. imports' \in Seq(R) /\ Len(imports') = Len(imports) + 1 /\ Len(imports) \in Nat
  <2>. HIDE DEF R, row
  <2>. QED BY <1>1, <1>3
<1>5. new \in Case /\ Consistent(new)
  <2>1. Len(imports) + 1 \in 0..MaxRequests /\ Len(imports) + 1 # 0
    BY <1>1, <1>2, <1>4
  <2>2. Absent \in Case
    BY <1>1, FindingTypes DEF Absent, Case
  <2>3. new \in Case /\ new.category = NoCategory /\ new.finding = NoFinding
    BY <2>1, <2>2 DEF Case, Absent
  <2>. HIDE DEF new
  <2>. QED BY <2>3 DEF Consistent, NoFinding
<1>6. \A e \in Emails : cases'[e] = IF e \in S THEN new ELSE cases[e]
  BY DEF Import
<1>7. cases' \in [Emails -> Case]
  <2>. HIDE DEF new
  <2>1. cases' = [e \in Emails |-> IF e \in S THEN new ELSE cases[e]]
    BY DEF Import, new
  <2>. QED BY <1>1, <1>5, <2>1
<1>8. \A e \in Emails : Consistent(cases'[e])
  <2>. HIDE DEF new
  <2>. QED BY <1>5, <1>6 DEF InboxInv
<1>. QED BY <1>1, <1>2, <1>4, <1>7, <1>8 DEF InboxInv, TypeOK, Consistent, Import

LEMMA CountInv == ASSUME InboxInv, NEW i \in DOMAIN imports, Count(i) PROVE InboxInv'
<1>. DEFINE R == [mode: {"mailbox", "zip"}, count: Nat]
            n == Cardinality(Within({i}))
<1>1. imports \in Seq(R)
  BY DEF InboxInv, TypeOK
<1>2. n \in Nat
  <2>1. Within({i}) \in SUBSET Emails /\ IsFiniteSet(Emails)
    BY InboxAssumption DEF Within
  <2>. QED BY <2>1, FS_Subset, FS_CardinalityType
<1>3. imports' = [imports EXCEPT ![i].count = n]
  BY DEF Count
<1>. HIDE DEF n
<1>4. imports' \in Seq(R) /\ Len(imports') = Len(imports)
  <2>1. imports[i] \in R
    <3>. HIDE DEF R
    <3>. QED BY <1>1
  <2>2. [imports[i] EXCEPT !.count = n] \in R
    BY <1>2, <2>1
  <2>3. imports' = [imports EXCEPT ![i] = [imports[i] EXCEPT !.count = n]]
    BY <1>3
  <2>. HIDE DEF R
  <2>. QED BY <1>1, <2>2, <2>3
<1>. QED BY <1>4 DEF InboxInv, TypeOK, Count, Consistent

\* A run or a decision replaces the finding of an imported case.
LEMMA SavedInv ==
  ASSUME InboxInv, NEW e \in Emails, NEW category \in Categories,
         NEW asked \in BOOLEAN, NEW handled \in BOOLEAN, Save(e, category, asked, handled)
  PROVE  InboxInv'
<1>1. cases[e] \in Case /\ cases[e].import # 0
  BY DEF InboxInv, TypeOK, Save
<1>2. PICK f \in IF category = Comparison THEN Findings ELSE {NoFinding} :
        cases' = [cases EXCEPT ![e] =
          [@ EXCEPT !.category = category, !.asked = asked, !.processed = TRUE,
                    !.verified = TRUE, !.finding = f, !.handled = handled]]
  BY DEF Save
<1>3. f \in Finding /\ (f.compared \/ f.differ \cup f.unresolved = {})
  <2>1. f \in Findings \/ f = NoFinding
    OBVIOUS
  <2>2. NoFinding.differ \cup NoFinding.unresolved = {}
    BY DEF NoFinding
  <2>. QED BY <2>1, <2>2, FindingTypes
<1>. DEFINE c == [cases[e] EXCEPT !.category = category, !.asked = asked, !.processed = TRUE,
                                  !.verified = TRUE, !.finding = f, !.handled = handled]
<1>4. c \in Case /\ c.import = cases[e].import /\ c.finding = f
  BY <1>1, <1>3 DEF Case
<1>5. cases' = [cases EXCEPT ![e] = c]
  BY <1>2
<1>. HIDE DEF c
<1>6. Consistent(c)
  BY <1>1, <1>3, <1>4 DEF Consistent
<1>7. cases' \in [Emails -> Case] /\ \A d \in Emails : Consistent(cases[d])'
  BY <1>4, <1>5, <1>6, CasesReplaced
<1>. QED BY <1>7, Served DEF InboxInv, TypeOK, Save

\* A review leaves a finding that was compared compared.
LEMMA ReviewedCases ==
  ASSUME InboxInv, NEW e \in Emails, NEW f \in Fields, NEW differ \in SUBSET Fields,
         NEW unresolved \in SUBSET Fields, cases[e].finding.compared,
         Reviewed(e, f, differ, unresolved)
  PROVE  cases' \in [Emails -> Case] /\ \A d \in Emails : Consistent(cases[d])'
<1>. DEFINE c == [cases[e] EXCEPT !.finding = Compared(differ, unresolved),
                                  !.seen = @ \cup {f}, !.handled = TRUE]
<1>1. cases[e] \in Case /\ cases \in [Emails -> Case] /\ Consistent(cases[e])
  BY DEF InboxInv, TypeOK
<1>2. Compared(differ, unresolved) \in Finding /\ Compared(differ, unresolved).compared
  BY FindingTypes
<1>3. c \in Case /\ c.import = cases[e].import /\ c.category = cases[e].category
      /\ c.finding = Compared(differ, unresolved)
  BY <1>1, <1>2 DEF Case
<1>4. cases' = [cases EXCEPT ![e] = c]
  BY <1>1 DEF Reviewed
<1>. HIDE DEF c
<1>5. Consistent(c)
  BY <1>1, <1>2, <1>3 DEF Consistent
<1>. QED BY <1>3, <1>4, <1>5, CasesReplaced

LEMMA ReviewInv == ASSUME InboxInv, NEW e \in Emails, NEW f \in Fields, Review(e, f) PROVE InboxInv'
<1>. DEFINE differ == cases[e].finding.differ
            unresolved == cases[e].finding.unresolved
<1>1. differ \in SUBSET Fields /\ unresolved \in SUBSET Fields
  BY DEF InboxInv, TypeOK, Case, Finding
<1>2. PICK d \in SUBSET Fields, u \in SUBSET Fields : Reviewed(e, f, d, u)
  BY <1>1 DEF Review
<1>3. cases' \in [Emails -> Case] /\ \A d2 \in Emails : Consistent(cases[d2])'
  BY <1>2, ReviewedCases DEF Review
<1>. QED BY <1>3, Served DEF InboxInv, TypeOK, Review

\* A review of a whole case gives it a category at most.
LEMMA ReviewCaseInv == ASSUME InboxInv, NEW e \in Emails, ReviewCase(e) PROVE InboxInv'
<1>. DEFINE given == IF cases[e].category = NoCategory THEN Comparison ELSE cases[e].category
            c == [cases[e] EXCEPT !.category = given, !.processed = TRUE]
<1>1. cases[e] \in Case /\ cases[e].import # 0 /\ Consistent(cases[e])
  BY DEF InboxInv, TypeOK, ReviewCase
<1>2. cases' = [cases EXCEPT ![e] = c]
  BY DEF ReviewCase
<1>3. given \in Categories \cup {NoCategory}
  BY <1>1, InboxAssumption DEF Case
<1>. HIDE DEF given
<1>4. c \in Case /\ c.import = cases[e].import /\ c.finding = cases[e].finding
  BY <1>1, <1>3 DEF Case
<1>. HIDE DEF c
<1>5. Consistent(c)
  BY <1>1, <1>4 DEF Consistent
<1>6. cases' \in [Emails -> Case] /\ \A d \in Emails : Consistent(cases[d])'
  BY <1>2, <1>4, <1>5, CasesReplaced
<1>. QED BY <1>6, Served DEF InboxInv, TypeOK, ReviewCase

LEMMA TeachInv == ASSUME InboxInv, NEW e \in Emails, NEW t \in Teachings, Teach(e, t) PROVE InboxInv'
<1>. DEFINE d == cases[e].finding.differ \ {t.field}
            u == cases[e].finding.unresolved \ {t.field}
<1>1. d \in SUBSET Fields /\ u \in SUBSET Fields /\ t.field \in Fields
  BY InboxAssumption DEF InboxInv, TypeOK, Case, Finding
<1>2. Reviewed(e, t.field, d, u) /\ cases[e].finding.compared
  BY DEF Teach
<1>. HIDE DEF d, u
<1>3. cases' \in [Emails -> Case] /\ \A d2 \in Emails : Consistent(cases[d2])'
  BY <1>1, <1>2, ReviewedCases
<1>4. taught' \in Seq(Teachings)
  BY DEF InboxInv, TypeOK, Teach
<1>. QED BY <1>3, <1>4, Served DEF InboxInv, TypeOK, Teach

\* Closing and reopening move the disposition only.
LEMMA DisposedInv ==
  ASSUME InboxInv, NEW e \in Emails, Close(e) \/ Reopen(e)
  PROVE  InboxInv'
<1>1. PICK b \in BOOLEAN : cases' = [cases EXCEPT ![e].closed = b]
  BY DEF Close, Reopen
<1>. DEFINE c == [cases[e] EXCEPT !.closed = b]
<1>2. cases[e] \in Case /\ cases \in [Emails -> Case] /\ Consistent(cases[e])
  BY DEF InboxInv, TypeOK
<1>3. c \in Case /\ c.import = cases[e].import /\ c.category = cases[e].category
      /\ c.finding = cases[e].finding
  BY <1>2 DEF Case
<1>4. cases' = [cases EXCEPT ![e] = c]
  BY <1>1, <1>2
<1>. HIDE DEF c
<1>5. cases' \in [Emails -> Case] /\ \A d \in Emails : Consistent(cases[d])'
  BY <1>2, <1>3, <1>4, CasesReplaced DEF Consistent
<1>. QED BY <1>5, Served DEF InboxInv, TypeOK, Close, Reopen

LEMMA InboxInit == Init => InboxInv
<1>. SUFFICES ASSUME Init PROVE InboxInv
  OBVIOUS
<1>1. Absent \in Case /\ Consistent(Absent)
  BY FindingTypes, InboxAssumption DEF Absent, Case, Consistent, NoFinding
<1>2. \A e \in Emails : cases[e] = Absent
  BY DEF Init
<1>3. cases \in [Emails -> Case]
  BY <1>1 DEF Init
<1>4. /\ imports \in Seq([mode: {"mailbox", "zip"}, count: Nat]) /\ Len(imports) = 0
      /\ taught \in Seq(Teachings) /\ requests \in 0..MaxRequests /\ requests = 0
  BY InboxAssumption DEF Init
<1>. QED BY <1>1, <1>2, <1>3, <1>4 DEF InboxInv, TypeOK

LEMMA InboxNext == InboxInv /\ [Next]_vars => InboxInv'
<1>. SUFFICES ASSUME InboxInv, [Next]_vars PROVE InboxInv'
  OBVIOUS
<1>1. ASSUME NEW e \in Emails, Handle(e) PROVE InboxInv'
  <2>1. CASE \E category \in Categories, asked \in BOOLEAN : Run(e, category, asked)
    BY <2>1, SavedInv DEF Run
  <2>2. CASE \E category \in Categories : Decide(e, category)
    BY <2>2, SavedInv DEF Decide
  <2>. QED BY <1>1, <2>1, <2>2, ReviewInv, ReviewCaseInv, TeachInv, DisposedInv DEF Handle
<1>2. CASE UNCHANGED vars
  BY <1>2 DEF vars, InboxInv, TypeOK, Consistent
<1>. QED BY <1>1, <1>2, ImportInv, CountInv DEF Next

LEMMA InboxInvariant == Spec => []InboxInv
<1>. QED BY InboxInit, InboxNext, PTL DEF Spec

\* Every table that Inbox keeps has its types: no finding names a field that
\* does not exist and no case is in an import that was never made.
THEOREM InboxTypes == Spec => []TypeOK
<1>1. InboxInv => TypeOK
  BY DEF InboxInv
<1>. QED BY InboxInvariant, <1>1, PTL

\* An open comparison with an open field or an open question is in one of the
\* three buckets that need a human.
THEOREM OpenWorkCounts == Spec => []OpenWorkIsCounted
<1>1. InboxInv => OpenWorkIsCounted
  <2>. SUFFICES ASSUME InboxInv, NEW e \in Emails,
                       cases[e].category = Comparison, ~cases[e].closed,
                       cases[e].finding.differ \cup cases[e].finding.unresolved # {} \/ cases[e].asked
                PROVE  LET f == Funnel([import |-> cases[e].import, mailbox |-> FALSE])
                       IN e \in f.counterparty \cup f.operator \cup f.arbitration
    BY DEF OpenWorkIsCounted
  <2>. DEFINE c == cases[e]
              q == [import |-> cases[e].import, mailbox |-> FALSE]
              f == Funnel(q)
  <2>1. Consistent(c) /\ c.import # 0
    BY InboxAssumption DEF InboxInv, Consistent
  <2>2. e \in Counted(q)
    BY <2>1 DEF Counted, Measured, Within, Visible
  <2>3. State(c) # "Closed"
    BY StateOfOpen
  <2>4. State(c) # "Complete"
    <3>1. CASE c.asked
      BY <3>1, StateOfOpen
    <3>2. CASE c.finding.differ \cup c.finding.unresolved # {}
      <4>1. Verification(c) \notin {"MATCH", "NOT_APPLICABLE"}
        BY <2>1, <3>2 DEF Verification, Consistent
      <4>. QED BY <4>1, StateOfOpen
    <3>. QED BY <3>1, <3>2
  <2>5. e \in f.comparisons /\ e \notin f.auto_cleared /\ e \notin f.operator_closed
    <3>. HIDE DEF q
    <3>. QED BY <2>2, <2>3, <2>4 DEF Funnel, In
  <2>. HIDE DEF q
  <2>6. e \in f.counterparty \cup f.operator \cup f.arbitration
    BY <2>5, Buckets
  <2>. QED BY <2>6 DEF q
<1>. QED BY InboxInvariant, <1>1, PTL

-----------------------------------------------------------------------------
(* The precedents. The youngest teaching that applies is the one with the  *)
(* greatest index; that there is one needs the least-number principle.     *)

LEMMA Least ==
  ASSUME NEW T \in SUBSET Nat, T # {}
  PROVE  \E x \in T : \A y \in T : x <= y
<1>. DEFINE R == OpToRel(<, Nat)
<1>1. IsWellFoundedOn(R, Nat)
  BY NatLessThanWellFounded
<1>2. \A x, y \in Nat : x < y => <<x, y>> \in R
  BY DEF OpToRel
<1>. HIDE DEF R
<1>3. PICK x \in T : \A y \in T : ~(<<y, x>> \in R)
  BY <1>1, WFMin
<1>4. \A y \in T : ~(y < x)
  BY <1>2, <1>3
<1>5. \A y \in T : x <= y
  BY <1>4
<1>. QED BY <1>5

\* Max of the community modules picks an element of a set of positions.
LEMMA MaxIn ==
  ASSUME NEW n \in Nat, NEW S \in SUBSET (1..n), S # {}
  PROVE  Max(S) \in S /\ \A y \in S : Max(S) >= y
<1>. DEFINE T == {k \in Nat : \E x \in S : k = n - x}
<1>1. T \in SUBSET Nat /\ \A x \in S : n - x \in T
  OBVIOUS
<1>2. T # {}
  BY <1>1
<1>3. PICK t \in T : \A y \in T : t <= y
  <2>. HIDE DEF T
  <2>. QED BY <1>1, <1>2, Least
<1>4. PICK x \in S : t = n - x
  BY <1>3
<1>5. ASSUME NEW y \in S PROVE x >= y
  <2>1. t <= n - y
    BY <1>1, <1>3
  <2>. QED BY <2>1, <1>4
<1>. QED BY <1>5 DEF Max

\* Where a teaching applies there is a precedent.
LEMMA AppliesSuffices ==
  ASSUME InboxInv, NEW f, NEW si \in Texts, NEW bl \in Texts, Applying(f, si, bl) # {}
  PROVE  Precedent(f, si, bl) # "none"
<1>1. taught \in Seq(Teachings) /\ Len(taught) \in Nat /\ DOMAIN taught = 1..Len(taught)
  BY DEF InboxInv, TypeOK
<1>2. Applying(f, si, bl) \in SUBSET (1..Len(taught))
  BY <1>1 DEF Applying
<1>3. Max(Applying(f, si, bl)) \in Applying(f, si, bl)
  BY <1>1, <1>2, MaxIn
<1>4. {si, bl} # {NoText}
  BY InboxAssumption
<1>. QED BY <1>3, <1>4 DEF Precedent, Applying

\* An equivalence that was taught with a reason is suggested for every pair of
\* texts that reads alike, in either order, whatever was taught after it.
THEOREM TeachingGeneralizes == Spec => []TaughtIsSuggested
<1>1. InboxInv => TaughtIsSuggested
  <2>. SUFFICES ASSUME InboxInv, NEW i \in DOMAIN taught, taught[i].why,
                       NEW si \in Texts, NEW bl \in Texts,
                       LET f == taught[i].field IN
                         Both(Normal(f, taught[i].old), Normal(f, taught[i].new), Normal(f, si), Normal(f, bl))
                PROVE  /\ Precedent(taught[i].field, si, bl) # "none"
                       /\ Precedent(taught[i].field, bl, si) # "none"
    BY DEF TaughtIsSuggested
  <2>. DEFINE f == taught[i].field
  <2>1. /\ Both(Normal(f, taught[i].old), Normal(f, taught[i].new), Normal(f, si), Normal(f, bl))
        /\ Both(Normal(f, taught[i].old), Normal(f, taught[i].new), Normal(f, bl), Normal(f, si))
    BY DEF Both
  <2>2. Basis(taught[i], f, si, bl) # "none" /\ Basis(taught[i], f, bl, si) # "none"
    BY <2>1 DEF Basis
  <2>3. i \in Applying(f, si, bl) /\ i \in Applying(f, bl, si)
    BY <2>2 DEF Applying
  <2>. QED BY <2>3, AppliesSuffices
<1>. QED BY InboxInvariant, <1>1, PTL

-----------------------------------------------------------------------------
(* The case page. A view anywhere in the browser (cached, shown, sent with *)
(* a request or answered) is the fixture, or the row of its version, or    *)
(* merged; rows are only ever appended, so it stays so. That is all there  *)
(* is to AcceptedWasShown: the server compares the version, and the        *)
(* version names the row.                                                  *)

\* v is a view of the rows R.
Matches(v, R) ==
  /\ v.closed => \E w \in DOMAIN R : R[w].closed
  /\ ~v.merged =>
       \/ v.version = 0 /\ v.result = 0 /\ ~v.closed
       \/ v.version \in DOMAIN R /\ v.result = R[v.version].result
                                 /\ v.closed = R[v.version].closed

ViewOK(v, R) == v \in Views /\ Matches(v, R)
CallOK(c, R) == c \in Calls /\ Matches(c.shown, R) /\ Matches(c.view, R)
PageOK(p, R) == p \in [at: {"away", "loading", "shown"}, view: Views] /\ Matches(p.view, R)

PageInv ==
  /\ rows \in Seq(Rows) /\ rows # <<>>
  /\ ViewOK(cache, rows)
  /\ PageOK(page, rows)
  /\ \A c \in calls : CallOK(c, rows)
  /\ accepted \in [result: Nat, seen: Nat, excused: BOOLEAN]
  /\ AcceptedWasShown

LEMMA BlankMatches == ASSUME NEW R PROVE Blank \in Views /\ Matches(Blank, R)
  BY DEF Blank, Views, Matches

\* The server appends: versions keep their rows.
LEMMA AppendMatches ==
  ASSUME NEW R \in Seq(Rows), NEW r \in Rows, NEW v \in Views, Matches(v, R)
  PROVE  Matches(v, Append(R, r))
<1> DEFINE S == Append(R, r)
<1>1. Len(S) = Len(R) + 1 /\ \A w \in DOMAIN R : w \in DOMAIN S /\ S[w] = R[w]
  OBVIOUS
<1> HIDE DEF S
<1>2. Matches(v, S)
  BY <1>1 DEF Matches
<1> QED BY <1>2 DEF S

\* The latest row, and the answer that a read of it gets.
LEMMA RowType == ASSUME PageInv PROVE /\ Version \in Nat \ {0} /\ Version \in DOMAIN rows
                                   /\ Row \in Rows
  BY DEF PageInv, Version, Row

LEMMA DetailMatches == ASSUME PageInv PROVE ViewOK(Detail, rows)
<1>1. Version \in Nat /\ Version \in DOMAIN rows /\ Row \in Rows
  BY RowType
<1>2. Detail \in Views
  BY <1>1 DEF Detail, Views, Rows
<1>3. Matches(Detail, rows)
  BY <1>1 DEF Detail, Matches, Row
<1> QED BY <1>2, <1>3 DEF ViewOK

\* What a write to the server leaves of the browser.
LEMMA Stored ==
  ASSUME PageInv, NEW r \in Rows, Store(r)
  PROVE  /\ rows' \in Seq(Rows) /\ rows' # <<>>
         /\ ViewOK(cache, rows')
         /\ PageOK(page, rows')
         /\ \A c \in calls : CallOK(c, rows')
<1>1. rows \in Seq(Rows) /\ rows' = Append(rows, r)
  BY DEF PageInv, Store
<1>2. rows' \in Seq(Rows) /\ rows' # <<>>
  BY <1>1
<1>3. ASSUME NEW v \in Views, Matches(v, rows) PROVE Matches(v, rows')
  BY <1>1, <1>3, AppendMatches
<1>4. ViewOK(cache, rows') /\ PageOK(page, rows')
  BY <1>3 DEF PageInv, ViewOK, PageOK
<1>5. ASSUME NEW c \in calls PROVE CallOK(c, rows')
  <2>1. CallOK(c, rows)
    BY DEF PageInv
  <2>2. c \in Calls /\ c.shown \in Views /\ c.view \in Views
    BY <2>1 DEF CallOK, Calls
  <2>3. Matches(c.shown, rows') /\ Matches(c.view, rows')
    BY <1>3, <2>1, <2>2, Zenon DEF CallOK
  <2> QED BY <2>2, <2>3 DEF CallOK
<1> QED BY <1>2, <1>4, <1>5

\* What the server writes are rows.
LEMMA WrittenType ==
  ASSUME PageInv
  PROVE  /\ \A kind \in Kinds : Written(kind) \in Rows
         /\ \A result \in {Row.result, Version + 1} :
              [Row EXCEPT !.result = result] \in Rows
         /\ [Row EXCEPT !.closed = ~@] \in Rows
<1>1. Version \in Nat /\ Row \in Rows
  BY RowType
<1>2. \A n \in Nat : [Row EXCEPT !.result = n] \in Rows
  BY <1>1 DEF Rows
<1>3. \A b \in BOOLEAN : [Row EXCEPT !.closed = b] \in Rows
  BY <1>1 DEF Rows
<1>4. Row.result \in Nat /\ (~Row.closed) \in BOOLEAN
  BY <1>1 DEF Rows
<1>5. ASSUME NEW kind \in Kinds PROVE Written(kind) \in Rows
  <2>1. Version + 1 \in Nat /\ TRUE \in BOOLEAN /\ FALSE \in BOOLEAN
    BY <1>1
  <2>2. /\ [Row EXCEPT !.result = Version + 1] \in Rows
        /\ [Row EXCEPT !.closed = TRUE] \in Rows
        /\ [Row EXCEPT !.closed = FALSE] \in Rows
    BY <2>1, <1>2, <1>3
  <2> QED BY <2>2, <1>1, Zenon DEF Written
<1>6. ASSUME NEW result \in {Row.result, Version + 1}
      PROVE  [Row EXCEPT !.result = result] \in Rows
  BY <1>1, <1>2, <1>4
<1>7. [Row EXCEPT !.closed = ~@] \in Rows
  BY <1>3, <1>4
<1> QED BY <1>5, <1>6, <1>7

\* A call that takes a step stays a call.
LEMMA Advanced ==
  ASSUME NEW R, NEW c \in calls, \A d \in calls : CallOK(d, R),
         NEW step \in {"sent", "checked", "written", "served", "refused"},
         NEW view, ViewOK(view, R), Advance(c, step, view)
  PROVE  \A d \in calls' : CallOK(d, R)
<1>1. CallOK([c EXCEPT !.step = step, !.view = view], R)
  BY DEF CallOK, Calls, ViewOK
<1> QED BY <1>1 DEF Advance

\* A new call shows a view of the page, or none.
LEMMA Called ==
  ASSUME NEW R, NEW kind \in Kinds, NEW heard \in {"page", "session", "nobody"},
         NEW shown, ViewOK(shown, R)
  PROVE  CallOK(Call(kind, heard, shown), R)
  BY BlankMatches DEF CallOK, Calls, Call, ViewOK

\* Whoever listens to them, calls stay calls.
LEMMA Reheard ==
  ASSUME NEW R, NEW c, CallOK(c, R), NEW heard \in {"page", "session", "nobody"}
  PROVE  CallOK([c EXCEPT !.heard = heard], R)
  BY DEF CallOK, Calls

\* A decision on a view that is the row of its version was made on that row.
LEMMA AcceptedRow ==
  ASSUME PageInv, NEW c \in calls, c.shown.version = Version, Accept(c)
  PROVE  /\ accepted' \in [result: Nat, seen: Nat, excused: BOOLEAN]
         /\ AcceptedWasShown'
<1>1. CallOK(c, rows) /\ Version # 0 /\ Row \in Rows
  BY RowType DEF PageInv
<1>2. c.shown \in Views
  BY <1>1 DEF CallOK, Calls
<1>3. accepted' \in [result: Nat, seen: Nat, excused: BOOLEAN]
  BY <1>1, <1>2 DEF Accept, Views, Rows
<1>4. c.shown.merged \/ c.shown.result = Row.result
  BY <1>1 DEF CallOK, Matches, Row
<1>5. AcceptedWasShown'
  BY <1>4 DEF Accept, AcceptedWasShown
<1> QED BY <1>3, <1>5

-----------------------------------------------------------------------------
(* The user.                                                               *)

LEMMA IssuedOK ==
  ASSUME PageInv, NEW c, CallOK(c, rows), Issue(c), UNCHANGED rows
  PROVE  \A d \in calls' : CallOK(d, rows')
  BY DEF PageInv, Issue

LEMMA PrefetchInv == ASSUME PageInv, Prefetch PROVE PageInv'
<1>1. CallOK(Call("prefetch", "session", Blank), rows)
  BY Called, BlankMatches DEF Kinds, Reads, ViewOK
<1>2. \A d \in calls' : CallOK(d, rows')
  BY <1>1, IssuedOK DEF Prefetch
<1> QED BY <1>2 DEF Prefetch, PageInv, AcceptedWasShown

LEMMA VisitCachedInv == ASSUME PageInv, VisitCached PROVE PageInv'
<1>1. PageOK(page', rows)
  BY DEF PageInv, VisitCached, Shown, PageOK, ViewOK
<1> QED BY <1>1 DEF VisitCached, PageInv, AcceptedWasShown

LEMMA VisitColdInv == ASSUME PageInv, VisitCold PROVE PageInv'
<1>1. CallOK(Call("load", "page", Blank), rows)
  BY Called, BlankMatches DEF Kinds, Reads, ViewOK
<1>2. \A d \in calls' : CallOK(d, rows')
  BY <1>1, IssuedOK DEF VisitCold
<1>3. PageOK(page', rows)
  BY BlankMatches DEF VisitCold, Loading, PageOK
<1> QED BY <1>2, <1>3 DEF VisitCold, PageInv, AcceptedWasShown

LEMMA ExpireInv == ASSUME PageInv, Expire PROVE PageInv'
<1>1. ViewOK(cache', rows)
  BY BlankMatches DEF Expire, ViewOK
<1> QED BY <1>1 DEF Expire, PageInv, AcceptedWasShown

LEMMA LeaveInv == ASSUME PageInv, Leave PROVE PageInv'
<1>1. ASSUME NEW c \in calls
      PROVE  CallOK([c EXCEPT !.heard = IF @ = "page" THEN "session" ELSE @], rows)
  <2>1. CallOK(c, rows) /\ c.heard \in {"page", "session", "nobody"}
    BY DEF PageInv, CallOK, Calls
  <2> QED BY <2>1, Reheard
<1>2. \A d \in calls' : CallOK(d, rows')
  BY <1>1 DEF Leave
<1>3. PageOK(page', rows)
  BY BlankMatches DEF Leave, Away, PageOK
<1> QED BY <1>2, <1>3 DEF Leave, PageInv, AcceptedWasShown

LEMMA OrphansOK ==
  ASSUME NEW R, NEW S, \A c \in S : CallOK(c, R)
  PROVE  \A d \in Orphans(S) : CallOK(d, R)
<1>1. ASSUME NEW c \in S PROVE CallOK([c EXCEPT !.heard = "nobody"], R)
  BY Reheard
<1> QED BY <1>1 DEF Orphans

LEMMA ReloadInv == ASSUME PageInv, Reload PROVE PageInv'
<1>1. CallOK(Call("load", "page", Blank), rows)
  BY Called, BlankMatches DEF Kinds, Reads, ViewOK
<1>2. \A d \in Orphans(calls) : CallOK(d, rows)
  BY OrphansOK DEF PageInv
<1>3. \A d \in calls' : CallOK(d, rows')
  BY <1>1, <1>2 DEF Reload
<1>4. PageOK(page', rows) /\ ViewOK(cache', rows)
  BY BlankMatches DEF Reload, Loading, PageOK, ViewOK
<1> QED BY <1>3, <1>4 DEF Reload, PageInv, AcceptedWasShown

LEMMA SubmitInv ==
  ASSUME PageInv, NEW kind \in Swaps \cup Reverified, Submit(kind)
  PROVE  PageInv'
<1>1. ViewOK(page.view, rows)
  BY DEF PageInv, PageOK, ViewOK
<1>2. CallOK(Call(kind, "page", page.view), rows)
  BY <1>1, Called DEF Kinds
<1>3. \A d \in calls' : CallOK(d, rows')
  BY <1>2, IssuedOK DEF Submit
<1>4. ViewOK(cache', rows)
  BY BlankMatches DEF Submit, ViewOK, PageInv
<1> QED BY <1>3, <1>4 DEF Submit, PageInv, AcceptedWasShown
-----------------------------------------------------------------------------
(* The server.                                                             *)

LEMMA SwapInv == ASSUME PageInv, NEW c \in calls, Swap(c) PROVE PageInv'
<1>1. Written(c.kind) \in Rows
  BY WrittenType DEF PageInv, CallOK, Calls
<1>2. /\ rows' \in Seq(Rows) /\ rows' # <<>>
      /\ ViewOK(cache, rows') /\ PageOK(page, rows')
      /\ \A d \in calls : CallOK(d, rows')
  BY <1>1, Stored DEF Swap
<1>3. ViewOK(Blank, rows')
  BY BlankMatches DEF ViewOK
<1>4. \A d \in calls' : CallOK(d, rows')
  <2>1. CASE c.kind \in Carrying
    BY <2>1, <1>2, <1>3, Advanced DEF Swap
  <2>2. CASE c.kind \notin Carrying
    BY <2>2, <1>2, <1>3, Advanced DEF Swap
  <2> QED BY <2>1, <2>2
<1>5. accepted' \in [result: Nat, seen: Nat, excused: BOOLEAN] /\ AcceptedWasShown'
  BY AcceptedRow DEF Swap
<1> QED BY <1>2, <1>4, <1>5 DEF Swap, PageInv

LEMMA CheckInv == ASSUME PageInv, NEW c \in calls, Check(c) PROVE PageInv'
<1>1. CallOK([c EXCEPT !.step = "checked"], rows)
  BY DEF PageInv, CallOK, Calls
<1>2. \A d \in calls' : CallOK(d, rows')
  BY <1>1 DEF Check, PageInv
<1>3. accepted' \in [result: Nat, seen: Nat, excused: BOOLEAN] /\ AcceptedWasShown'
  BY AcceptedRow DEF Check
<1> QED BY <1>2, <1>3 DEF Check, PageInv

LEMMA SaveResultInv == ASSUME PageInv, NEW c \in calls, SaveResult(c) PROVE PageInv'
<1>1. [Row EXCEPT !.result = Version + 1] \in Rows
  BY WrittenType
<1>2. /\ rows' \in Seq(Rows) /\ rows' # <<>>
      /\ ViewOK(cache, rows') /\ PageOK(page, rows')
      /\ \A d \in calls : CallOK(d, rows')
  BY <1>1, Stored DEF SaveResult
<1>3. \A d \in calls' : CallOK(d, rows')
  BY <1>2, Advanced, BlankMatches DEF SaveResult, ViewOK
<1> QED BY <1>2, <1>3 DEF SaveResult, PageInv, AcceptedWasShown

LEMMA RefuseInv == ASSUME PageInv, NEW c \in calls, Refuse(c) PROVE PageInv'
<1>1. \A d \in calls' : CallOK(d, rows')
  BY Advanced, BlankMatches DEF Refuse, ViewOK, PageInv
<1> QED BY <1>1 DEF Refuse, PageInv, AcceptedWasShown

LEMMA AnswerInv == ASSUME PageInv, NEW c \in calls, Answer(c) PROVE PageInv'
<1>1. \A d \in calls' : CallOK(d, rows')
  BY Advanced, DetailMatches DEF Answer, PageInv
<1> QED BY <1>1 DEF Answer, PageInv, AcceptedWasShown

LEMMA OtherWritesInv == ASSUME PageInv, OtherWrites PROVE PageInv'
<1>1. PICK r \in Rows : Store(r)
  BY WrittenType DEF OtherWrites
<1>2. /\ rows' \in Seq(Rows) /\ rows' # <<>>
      /\ ViewOK(cache, rows') /\ PageOK(page, rows')
      /\ \A d \in calls : CallOK(d, rows')
  BY <1>1, Stored
<1> QED BY <1>2 DEF OtherWrites, PageInv, AcceptedWasShown

-----------------------------------------------------------------------------
(* The browser.                                                            *)

LEMMA DoneOK ==
  ASSUME PageInv, NEW c, Done(c), UNCHANGED rows
  PROVE  \A d \in calls' : CallOK(d, rows')
  BY DEF PageInv, Done

\* A page that shows what a call or the cache brought.
LEMMA ShownOK ==
  ASSUME PageInv, NEW v, ViewOK(v, rows)
  PROVE  PageOK(Shown(v), rows)
  BY DEF Shown, PageOK, ViewOK

LEMMA ReceiveCaseInv == ASSUME PageInv, NEW c \in calls, ReceiveCase(c) PROVE PageInv'
<1>1. \A d \in calls' : CallOK(d, rows')
  BY DoneOK DEF ReceiveCase
<1>2. ViewOK(c.view, rows)
  BY DEF PageInv, CallOK, Calls, ViewOK
<1>3. PageOK(page', rows)
  BY <1>2, ShownOK DEF ReceiveCase, PageInv
<1> QED BY <1>1, <1>2, <1>3 DEF ReceiveCase, PageInv, AcceptedWasShown

LEMMA ReceiveCachedInv == ASSUME PageInv, NEW c \in calls, ReceiveCached(c) PROVE PageInv'
<1>1. \A d \in calls' : CallOK(d, rows')
  BY DoneOK DEF ReceiveCached
<1>2. PageOK(page', rows)
  BY ShownOK DEF ReceiveCached, PageInv
<1> QED BY <1>1, <1>2 DEF ReceiveCached, PageInv, AcceptedWasShown

LEMMA ReceiveRefreshInv == ASSUME PageInv, NEW c \in calls, ReceiveRefresh(c) PROVE PageInv'
<1>1. c.heard \in {"page", "session", "nobody"}
  BY DEF PageInv, CallOK, Calls
<1>2. CallOK(Call("refresh", c.heard, Blank), rows)
  BY <1>1, Called, BlankMatches DEF Kinds, Reads, ViewOK
<1>3. \A d \in calls' : CallOK(d, rows')
  BY <1>2 DEF ReceiveRefresh, PageInv
<1> QED BY <1>3 DEF ReceiveRefresh, PageInv, AcceptedWasShown

\* A merged view keeps only this: if it is closed, the case was once.
LEMMA ReceiveVersionInv == ASSUME PageInv, NEW c \in calls, ReceiveVersion(c) PROVE PageInv'
<1>1. \A d \in calls' : CallOK(d, rows')
  BY DoneOK DEF ReceiveVersion
<1>2. c.shown.version \in Nat
  BY DEF PageInv, CallOK, Calls, Views
<1>3. PageOK(page', rows)
  <2> DEFINE v == [page.view EXCEPT !.version = c.shown.version + 1, !.merged = TRUE]
  <2>1. page \in [at: {"away", "loading", "shown"}, view: Views] /\ Matches(page.view, rows)
    BY DEF PageInv, PageOK
  <2>2. v \in Views /\ v.merged = TRUE /\ v.closed = page.view.closed
    <3>1. page.view \in Views /\ c.shown.version + 1 \in Nat
      BY <2>1, <1>2
    <3>2. \A n \in Nat : LET w == [page.view EXCEPT !.version = n, !.merged = TRUE] IN
            w \in Views /\ w.merged = TRUE /\ w.closed = page.view.closed
      BY <3>1 DEF Views
    <3> QED BY <3>1, <3>2
  <2>3. page' = IF c.heard = "page" THEN [page EXCEPT !.view = v] ELSE page
    BY DEF ReceiveVersion
  <2> HIDE DEF v
  <2>4. PageOK([page EXCEPT !.view = v], rows)
    BY <2>1, <2>2 DEF PageOK, Matches
  <2> QED BY <2>1, <2>3, <2>4 DEF PageOK
<1> QED BY <1>1, <1>3 DEF ReceiveVersion, PageInv, AcceptedWasShown

LEMMA ReceiveRefusedInv == ASSUME PageInv, NEW c \in calls, ReceiveRefused(c) PROVE PageInv'
<1>1. \A d \in calls' : CallOK(d, rows')
  BY DoneOK DEF ReceiveRefused
<1> QED BY <1>1 DEF ReceiveRefused, PageInv, AcceptedWasShown

LEMMA LoseInv == ASSUME PageInv, NEW c \in calls, Lose(c) PROVE PageInv'
<1>1. \A d \in Orphans({c}) : CallOK(d, rows)
  BY OrphansOK DEF PageInv
<1>2. \A d \in calls' : CallOK(d, rows')
  BY <1>1 DEF Lose, PageInv
<1>3. PageOK(Shown(Blank), rows)
  BY ShownOK, BlankMatches DEF ViewOK
<1>4. PageOK([page EXCEPT !.view.local = TRUE], rows)
  BY DEF PageInv, PageOK, Views, Matches
<1>5. PageOK(page', rows)
  BY <1>3, <1>4 DEF Lose, Failed, PageInv
<1> QED BY <1>2, <1>5 DEF Lose, PageInv, AcceptedWasShown
-----------------------------------------------------------------------------
LEMMA PageInitInv == ASSUME PageInit PROVE PageInv
<1>1. rows \in Seq(Rows) /\ rows # <<>>
  BY DEF PageInit, Rows
<1>2. ViewOK(cache, rows) /\ PageOK(page, rows)
  BY BlankMatches DEF PageInit, Away, ViewOK, PageOK
<1> QED BY <1>1, <1>2 DEF PageInit, PageInv, AcceptedWasShown

LEMMA PageNextInv == ASSUME PageInv, [PageNext]_pageVars PROVE PageInv'
<1>1. CASE \/ Prefetch \/ VisitCached \/ VisitCold \/ Expire
           \/ Leave \/ Reload \/ OtherWrites
  BY <1>1, PrefetchInv, VisitCachedInv, VisitColdInv, ExpireInv, LeaveInv, ReloadInv,
     OtherWritesInv
<1>2. ASSUME NEW kind \in Swaps \cup Reverified, Submit(kind) PROVE PageInv'
  BY <1>2, SubmitInv
<1>3. ASSUME NEW c \in calls,
             \/ Swap(c) \/ Check(c) \/ SaveResult(c) \/ Refuse(c) \/ Answer(c)
      PROVE  PageInv'
  BY <1>3, SwapInv, CheckInv, SaveResultInv, RefuseInv, AnswerInv
<1>4. ASSUME NEW c \in calls,
             \/ ReceiveCase(c) \/ ReceiveCached(c) \/ ReceiveRefresh(c)
             \/ ReceiveVersion(c) \/ ReceiveRefused(c) \/ Lose(c)
      PROVE  PageInv'
  BY <1>4, ReceiveCaseInv, ReceiveCachedInv, ReceiveRefreshInv, ReceiveVersionInv,
     ReceiveRefusedInv, LoseInv
<1>5. CASE UNCHANGED pageVars
  BY <1>5 DEF pageVars, PageInv, AcceptedWasShown
<1> QED BY <1>1, <1>2, <1>3, <1>4, <1>5 DEF PageNext

\* Whatever the browser, the server and everybody else do, the state of
\* CasePage has its types.
THEOREM PageTypes == PageSpec => []PageTypeOK
<1>1. PageInv => PageTypeOK
  BY DEF PageInv, PageTypeOK, ViewOK, PageOK, CallOK
<1> QED BY <1>1, PageInitInv, PageNextInv, PTL DEF PageSpec

\* A decision that the server takes was made on the result that it decides
\* on, with any number of calls in flight and any number of versions.
THEOREM DecisionsAreOnWhatWasShown == PageSpec => []AcceptedWasShown
<1>1. PageInv => AcceptedWasShown
  BY DEF PageInv
<1> QED BY <1>1, PageInitInv, PageNextInv, PTL DEF PageSpec

\* A page shows a case as closed only if the server recorded it.
THEOREM ClosedPagesAreRecorded == PageSpec => []ClosedIsRecorded
<1>1. PageInv => ClosedIsRecorded
  BY DEF PageInv, PageOK, Matches, ClosedIsRecorded
<1> QED BY <1>1, PageInitInv, PageNextInv, PTL DEF PageSpec
=============================================================================
