---------------------------- MODULE MailboxProofs --------------------------
(***************************************************************************)
(* Proofs about Mailbox: its types, that no message is passed over without *)
(* a trace, and, of retrievals that come one at a time, that numbers name  *)
(* one mail, that the cursor moves forward, and that fetched mail is       *)
(* stored, and stored once.                                                *)
(***************************************************************************)
EXTENDS Mailbox, FiniteSetTheorems, WellFoundedInduction, TLAPS

-----------------------------------------------------------------------------
(* Greatest elements.                                                      *)

Bounded(S) == \E b \in Nat : \A n \in S : n <= b

LEMMA LeastExists ==
  ASSUME NEW T \in SUBSET Nat, T # {}
  PROVE  \E x \in T : \A y \in T : x <= y
<1>1. PICK x \in T : \A y \in T : ~ (<<y, x>> \in OpToRel(<, Nat))
  BY NatLessThanWellFounded, WFMin
<1>2. ASSUME NEW y \in T, y < x PROVE FALSE
  <2> DEFINE p == <<y, x>>
  <2>1. p \in Nat \X Nat /\ p[1] < p[2]
    BY <1>2
  <2> HIDE DEF p
  <2>2. p \in {q \in Nat \X Nat : q[1] < q[2]}
    BY <2>1
  <2> QED BY <1>1, <2>2 DEF p, OpToRel
<1> QED BY <1>2

\* Greatest(S) is the greatest element of a bounded set of numbers, or 0.
LEMMA GreatestType ==
  ASSUME NEW S \in SUBSET Nat, Bounded(S)
  PROVE  /\ Greatest(S) \in S \cup {0}
         /\ Greatest(S) \in Nat
         /\ \A k \in S : k <= Greatest(S)
<1> DEFINE T == {b \in Nat : \A n \in S : n <= b}
<1>1. T \in SUBSET Nat /\ T # {}
  BY DEF Bounded
<1>2. PICK g \in T : \A b \in T : g <= b
  BY <1>1, LeastExists
<1>3. g \in S \cup {0}
  <2> SUFFICES ASSUME g # 0, g \notin S PROVE FALSE
    OBVIOUS
  <2>1. g \in Nat /\ \A n \in S : n \in Nat /\ n <= g /\ n # g
    OBVIOUS
  <2> HIDE DEF T
  <2>2. g - 1 \in Nat /\ \A n \in S : n <= g - 1
    BY <2>1
  <2>3. g - 1 \in T
    BY <2>2 DEF T
  <2>4. g <= g - 1
    BY <1>2, <2>3
  <2> QED BY <2>1, <2>2, <2>4
<1>4. \E n \in S \cup {0} : \A k \in S : k <= n
  BY <1>3
<1>5. Greatest(S) \in S \cup {0} /\ \A k \in S : k <= Greatest(S)
  BY <1>4, Zenon DEF Greatest
<1>6. \A x \in S \cup {0} : x \in Nat
  OBVIOUS
<1> QED BY <1>5, <1>6, Zenon

LEMMA UidsBounded ==
  ASSUME NEW S \in SUBSET (Uids \cup {Demo})
  PROVE  S \in SUBSET Nat /\ Bounded(S)
<1>1. MaxUid \in Nat /\ \A n \in S : n \in Nat /\ n <= MaxUid
  BY MailboxAssumption DEF Uids, Demo
<1> QED BY <1>1 DEF Bounded

-----------------------------------------------------------------------------
(* The inductive invariant.                                                *)

Working(c, steps) == work[c].step \in steps

\* What was stored is bounded, and of the manifest.
Contained ==
  /\ Bounded(Numbers)
  /\ \A i \in DOMAIN imports : imports[i].stored \subseteq imports[i].manifest

\* A client that imports has an import, whose manifest its mails are.
Linked ==
  \A c \in Clients : Working(c, {"importing", "imported"}) =>
    /\ work[c].import \in DOMAIN imports
    /\ imports[work[c].import].manifest = work[c].mails

\* The uids that have a trace. A client has read a cursor below which all have one,
\* and is about to write one below which all have one or are among its mails.
Passed(u) == u \in history.unread \cup history.demo \cup history.synced
Listed(u) == \E i \in DOMAIN imports : \E m \in imports[i].manifest : m.uid = u
Mailed(c, u) == \E m \in work[c].mails : m.uid = u

Traced ==
  /\ PassedHasTrace
  /\ \A c \in Clients :
       /\ Working(c, {"read", "numbered"}) =>
            \A u \in 1..work[c].cursor : Passed(u) \/ Listed(u)
       /\ Working(c, {"fetched", "importing", "imported"}) =>
            \A u \in 1..work[c].highest : Passed(u) \/ Listed(u) \/ Mailed(c, u)

\* Of retrievals that come one at a time.
OneWorks ==
  history.serial => \A c, d \in Clients : c = d \/ work[c].step = "idle" \/ work[d].step = "idle"

Forward ==
  history.serial => \A c \in Clients :
    /\ Working(c, {"read", "numbered"}) => cursor <= work[c].cursor
    /\ Working(c, {"fetched", "importing", "imported"}) => cursor <= work[c].highest

Above(c, i) == \A m \in work[c].mails, k \in imports[i].stored : k.number < m.number

Numbered ==
  /\ OneMailPerNumber
  /\ history.serial => \A c \in Clients :
       /\ Working(c, {"numbered"}) => \A k \in Numbers : k <= work[c].start
       /\ Working(c, {"fetched"}) => \A i \in DOMAIN imports : Above(c, i)
       /\ Working(c, {"importing"}) => \A i \in DOMAIN imports \ {work[c].import} : Above(c, i)

\* And if none of them died.
Orderly == history.serial /\ history.calm

Kept ==
  Orderly =>
    /\ PassedIsStored
    /\ \A i \in DOMAIN imports :
         \/ imports[i].stored = imports[i].manifest
         \/ \E c \in Clients : Working(c, {"importing"}) /\ work[c].import = i
    /\ \A c \in Clients :
         /\ Working(c, {"read", "numbered"}) => work[c].cursor = cursor
         /\ Working(c, {"fetched", "importing", "imported"}) =>
              \A u \in 1..work[c].highest :
                u \in history.unread \cup history.demo \/ Stored(u) \/ Mailed(c, u)

\* The uids of what is stored are not above the cursor, but for those of the import at
\* work, which are not below.
Old(i) == \A m \in imports[i].stored : m.uid <= cursor

Fresh(c) == \A m \in work[c].mails : m.uid = Demo \/ (cursor < m.uid /\ m.uid <= work[c].highest)

Apart ==
  Orderly =>
    /\ OneImportPerMessage
    /\ \A i \in DOMAIN imports :
         \/ Old(i)
         \/ \E c \in Clients : Working(c, {"importing", "imported"}) /\ work[c].import = i
    /\ \A c \in Clients : Working(c, {"fetched", "importing", "imported"}) => Fresh(c)

\* Mails are numbered without a gap from the last number that was given, in the order
\* of their uids.
Series(S, start) ==
  /\ \A m \in S : /\ start < m.number
                  /\ m.number = start + 1 \/ \E k \in S : k.number + 1 = m.number
  /\ \A m, k \in S : /\ k.number < m.number => k.uid < m.uid
                     /\ k.number = m.number => k = m

OnServer(S) == \A m \in S : m.uid = Demo \/ m.uid \in 1..arrived

Serried ==
  \A c \in Clients :
    /\ Working(c, {"numbered", "fetched", "importing"}) => work[c].start \in Numbers \cup {0}
    /\ Working(c, {"fetched", "importing"}) =>
         Series(work[c].mails, work[c].start) /\ OnServer(work[c].mails)

\* And one at a time, nobody gives numbers meanwhile, and mails are stored in their order.
Below(c, i) == \A k \in imports[i].stored : k.number <= work[c].start

InTurn(c) ==
  \A k \in imports[work[c].import].stored,
     m \in work[c].mails \ imports[work[c].import].stored : k.number < m.number

Consecutive ==
  history.serial => \A c \in Clients :
    /\ Working(c, {"numbered", "fetched"}) => \A i \in DOMAIN imports : Below(c, i)
    /\ Working(c, {"importing"}) =>
         InTurn(c) /\ \A i \in DOMAIN imports \ {work[c].import} : Below(c, i)

IInv == /\ TypeOK /\ Contained /\ Linked /\ Traced
        /\ OneWorks /\ Forward /\ Numbered /\ Kept /\ Apart
        /\ Serried /\ Consecutive

-----------------------------------------------------------------------------
(* What the operators return.                                              *)

LEMMA SelectedType ==
  ASSUME TypeOK, NEW low \in Nat
  PROVE  Selected(low) \subseteq {u \in Uids : low < u /\ u <= arrived}
BY MailboxAssumption DEF TypeOK, Selected, New, Uids

LEMMA GreatestUid ==
  ASSUME TypeOK, NEW low \in Nat
  PROVE  LET g == Greatest(Selected(low) \cup {low})
         IN /\ g \in Nat /\ low <= g
            /\ \A u \in Selected(low) : u <= g
            /\ \A u \in 1..g : u <= low \/ u \in Selected(low)
<1> DEFINE S == Selected(low)
           g == Greatest(S \cup {low})
<1>1. /\ S \subseteq {u \in Uids : low < u /\ u <= arrived}
      /\ arrived \in Nat /\ arrived <= MaxUid
  BY SelectedType, MailboxAssumption DEF TypeOK
<1>2. S \cup {low} \subseteq Nat /\ \A u \in S \cup {low} : u <= low + arrived
  BY <1>1 DEF Uids
<1>3. Bounded(S \cup {low})
  <2>1. low + arrived \in Nat
    BY <1>1
  <2> QED BY <1>2, <2>1 DEF Bounded
<1>4. g \in S \cup {low, 0} /\ g \in Nat /\ \A k \in S \cup {low} : k <= g
  <2> HIDE DEF S
  <2> QED BY <1>2, <1>3, GreatestType
<1>5. ASSUME NEW u \in 1..g, low < u PROVE u \in S
  <2>1. g \in S
    BY <1>4, <1>5
  <2>2. g \in New(low) /\ Cardinality({v \in New(low) : v < g}) < PageSize
    BY <2>1 DEF Selected
  <2>3. u \in New(low)
    BY <1>1, <1>5, <2>2 DEF New
  <2> DEFINE T == {v \in New(low) : v < g}
             R == {v \in New(low) : v < u}
  <2>4. IsFiniteSet(T)
    <3>1. T \in SUBSET Nat /\ \A s \in T : s <= arrived
      BY <1>1 DEF New
    <3> QED BY <1>1, <3>1, FS_BoundedSetOfNaturals
  <2>5. R \in SUBSET T
    BY <1>1, <1>4, <1>5 DEF New
  <2>6. Cardinality(R) <= Cardinality(T) /\ Cardinality(R) \in Nat /\ Cardinality(T) \in Nat
    BY <2>4, <2>5, FS_Subset, FS_CardinalityType
  <2>7. Cardinality(R) < PageSize
    <3> HIDE DEF R
    <3> QED BY <2>2, <2>6, MailboxAssumption
  <2> QED BY <2>3, <2>7 DEF Selected
<1>6. \A u \in 1..g : u <= low \/ u \in S
  BY <1>4, <1>5
<1> QED BY <1>4, <1>6 DEF S, g

\* The places of some uids among them.
LEMMA Places ==
  ASSUME NEW got \in SUBSET Uids, NEW u \in got
  PROVE  LET Place(v) == Cardinality({w \in got : w <= v})
         IN /\ Place(u) \in Nat \ {0}
            /\ \A v \in got : v < u => Place(v) < Place(u)
            /\ Place(u) = 1 \/ \E v \in got : Place(v) + 1 = Place(u)
<1> DEFINE Till(v) == {w \in got : w <= v}
           Place(v) == Cardinality(Till(v))
<1>1. \A v \in got : v \in Nat
  BY MailboxAssumption DEF Uids
<1>2. ASSUME NEW v \in got PROVE IsFiniteSet(Till(v)) /\ v \in Till(v)
  <2> DEFINE S == Till(v)
  <2>1. S \in SUBSET Nat /\ v \in S /\ \A w \in S : w <= v
    BY <1>1
  <2> HIDE DEF S
  <2>2. IsFiniteSet(S)
    BY <1>1, <2>1, FS_BoundedSetOfNaturals
  <2> QED BY <2>1, <2>2 DEF S
<1> DEFINE T == Till(u) \ {u}
<1>3. /\ IsFiniteSet(T) /\ Cardinality(T) = Place(u) - 1
      /\ Place(u) \in Nat /\ Cardinality(T) \in Nat
  <2> DEFINE S == Till(u)
  <2>1. IsFiniteSet(S) /\ u \in S
    BY <1>2
  <2> HIDE DEF S
  <2>2. IsFiniteSet(S \ {u}) /\ Cardinality(S \ {u}) = Cardinality(S) - 1
    BY <2>1, FS_RemoveElement
  <2> QED BY <2>1, <2>2, FS_CardinalityType DEF S
<1>4. ASSUME NEW v \in got, v < u PROVE Place(v) < Place(u)
  <2> DEFINE R == Till(v)
  <2>1. IsFiniteSet(R) /\ R \subseteq T
    BY <1>1, <1>2, <1>4
  <2> HIDE DEF R, T
  <2>2. Cardinality(R) <= Cardinality(T) /\ Cardinality(R) \in Nat
    BY <1>3, <2>1, FS_Subset, FS_CardinalityType
  <2> HIDE DEF Till
  <2>3. Cardinality(R) = Place(v)
    BY DEF R
  <2> QED BY <1>3, <2>2, <2>3
<1>5. CASE T = {}
  <2>1. Cardinality(T) = 0
    BY <1>5, FS_EmptySet
  <2> QED BY <1>3, <1>4, <2>1
<1>6. CASE T # {}
  <2> DEFINE v == Greatest(T)
  <2>1. T \in SUBSET (Uids \cup {Demo})
    OBVIOUS
  <2>2. v \in T /\ \A w \in T : w <= v
    <3> HIDE DEF T
    <3>1. v \in T \cup {0} /\ (\A w \in T : w <= v) /\ T \in SUBSET Nat
      BY <2>1, UidsBounded, GreatestType
    <3>2. PICK w \in T : TRUE
      BY <1>6
    <3>3. w \in Nat /\ w <= v
      BY <3>1, <3>2
    <3>4. CASE v = 0
      BY <3>1, <3>3, <3>4
    <3> QED BY <3>1, <3>4
  <2> HIDE DEF v
  <2>3. Till(v) = T
    <3>1. v \in got /\ v < u
      BY <1>1, <2>2
    <3>2. \A w \in Till(v) : w \in T
      BY <1>1, <3>1
    <3>3. \A w \in T : w \in Till(v)
      BY <2>2
    <3> QED BY <3>2, <3>3
  <2>4. v \in got /\ Place(v) + 1 = Place(u)
    BY <1>3, <2>2, <2>3
  <2>5. Place(u) \in Nat \ {0}
    <3>1. Place(v) \in Nat
      BY <1>3, <2>3
    <3> QED BY <2>4, <3>1, <1>3
  <2> QED BY <1>4, <2>4, <2>5
<1>7. QED BY <1>5, <1>6

\* The mails of fetched messages carry their uids and numbers above the last one.
LEMMA MailsType ==
  ASSUME NEW got \in SUBSET Uids, NEW start \in Nat
  PROVE  /\ Mails(got, start) \subseteq Mail
         /\ \A m \in Mails(got, start) : m.uid \in got /\ start < m.number
         /\ \A u \in got : \E m \in Mails(got, start) : m.uid = u
<1>1. ASSUME NEW u \in got
      PROVE  /\ start + Cardinality({v \in got : v <= u}) \in Nat
             /\ start < start + Cardinality({v \in got : v <= u})
  <2> DEFINE S == {v \in got : v <= u}
  <2>0. \A v \in got : v \in Nat
    BY MailboxAssumption DEF Uids
  <2>1. S \in SUBSET Nat /\ u \in Nat /\ u \in S /\ \A s \in S : s <= u
    BY <2>0
  <2>2. IsFiniteSet(S)
    <3> HIDE DEF S
    <3> QED BY <2>1, FS_BoundedSetOfNaturals
  <2>3. Cardinality(S) \in Nat /\ Cardinality(S) # 0
    <3> HIDE DEF S
    <3> QED BY <2>1, <2>2, FS_CardinalityType, FS_EmptySet
  <2> QED BY <2>3
<1>2. ASSUME NEW u \in got
      PROVE  Greatest({v \in got : File[v] = File[u]}) \in Uids \cup {Demo}
  <2> DEFINE S == {v \in got : File[v] = File[u]}
  <2>1. S \in SUBSET (Uids \cup {Demo})
    OBVIOUS
  <2>2. Greatest(S) \in S \cup {0}
    <3> HIDE DEF S
    <3> QED BY <2>1, UidsBounded, GreatestType
  <2> QED BY <2>1, <2>2 DEF Demo
<1>3. ASSUME NEW m \in Mails(got, start)
      PROVE  m \in Mail /\ m.uid \in got /\ start < m.number
  <2>1. PICK u \in got :
          m = [uid |-> u, number |-> start + Cardinality({v \in got : v <= u}),
               document |-> Greatest({v \in got : File[v] = File[u]})]
    BY DEF Mails
  <2>2. m.uid = u /\ m.number = start + Cardinality({v \in got : v <= u})
        /\ m.document = Greatest({v \in got : File[v] = File[u]})
    BY <2>1
  <2>3. m.number \in Nat \ {0} /\ start < m.number
    BY <1>1, <2>2
  <2> QED BY <1>2, <2>1, <2>2, <2>3 DEF Mail
<1>4. ASSUME NEW u \in got PROVE \E m \in Mails(got, start) : m.uid = u
  <2> DEFINE m == [uid |-> u, number |-> start + Cardinality({v \in got : v <= u}),
                   document |-> Greatest({v \in got : File[v] = File[u]})]
  <2>1. m \in Mails(got, start)
    BY DEF Mails
  <2>2. m.uid = u
    OBVIOUS
  <2> QED BY <2>1, <2>2
<1> QED BY <1>3, <1>4

LEMMA MailsSeries ==
  ASSUME NEW got \in SUBSET Uids, NEW start \in Nat
  PROVE  Series(Mails(got, start), start)
<1> DEFINE Place(u) == Cardinality({w \in got : w <= u})
<1>1. ASSUME NEW u \in got
      PROVE  /\ Place(u) \in Nat \ {0} /\ u \in Nat
             /\ \A v \in got : v < u => Place(v) < Place(u)
             /\ Place(u) = 1 \/ \E v \in got : Place(v) + 1 = Place(u)
  <2>1. u \in Nat
    BY MailboxAssumption DEF Uids
  <2> QED BY <2>1, Places
<1>2. ASSUME NEW m \in Mails(got, start)
      PROVE  /\ m.uid \in got /\ m.number = start + Place(m.uid)
             /\ m.document = Greatest({v \in got : File[v] = File[m.uid]})
             /\ m = [uid |-> m.uid, number |-> m.number, document |-> m.document]
  <2>1. PICK u \in got :
          m = [uid |-> u, number |-> start + Cardinality({v \in got : v <= u}),
               document |-> Greatest({v \in got : File[v] = File[u]})]
    BY DEF Mails
  <2>2. m.uid = u /\ m.number = start + Cardinality({v \in got : v <= u})
        /\ m.document = Greatest({v \in got : File[v] = File[u]})
    BY <2>1
  <2> QED BY <2>1, <2>2
<1>3. ASSUME NEW u \in got
      PROVE  \E m \in Mails(got, start) : m.uid = u /\ m.number = start + Place(u)
  <2> DEFINE m == [uid |-> u, number |-> start + Cardinality({v \in got : v <= u}),
                   document |-> Greatest({v \in got : File[v] = File[u]})]
  <2>1. m \in Mails(got, start)
    BY DEF Mails
  <2>2. m.uid = u /\ m.number = start + Place(u)
    OBVIOUS
  <2> QED BY <2>1, <2>2
<1> HIDE DEF Place
<1>4. ASSUME NEW m \in Mails(got, start)
      PROVE  /\ start < m.number
             /\ m.number = start + 1 \/ \E k \in Mails(got, start) : k.number + 1 = m.number
  <2>1. m.uid \in got /\ m.number = start + Place(m.uid) /\ Place(m.uid) \in Nat \ {0}
    BY <1>1, <1>2
  <2>2. CASE Place(m.uid) = 1
    BY <2>1, <2>2
  <2>3. ASSUME NEW v \in got, Place(v) + 1 = Place(m.uid)
        PROVE  \E k \in Mails(got, start) : k.number + 1 = m.number
    <3>1. PICK k \in Mails(got, start) : k.uid = v /\ k.number = start + Place(v)
      BY <1>3
    <3>2. Place(v) \in Nat
      BY <1>1
    <3> QED BY <2>1, <2>3, <3>1, <3>2
  <2> QED BY <1>1, <2>1, <2>2, <2>3
<1>5. ASSUME NEW m \in Mails(got, start), NEW k \in Mails(got, start)
      PROVE  /\ k.number < m.number => k.uid < m.uid
             /\ k.number = m.number => k = m
  <2>1. /\ m.uid \in got /\ m.number = start + Place(m.uid) /\ Place(m.uid) \in Nat /\ m.uid \in Nat
        /\ k.uid \in got /\ k.number = start + Place(k.uid) /\ Place(k.uid) \in Nat /\ k.uid \in Nat
    BY <1>1, <1>2
  <2>2. m.uid < k.uid => Place(m.uid) < Place(k.uid)
    BY <1>1, <2>1
  <2>3. k.uid < m.uid => Place(k.uid) < Place(m.uid)
    BY <1>1, <2>1
  <2>4. k.uid = m.uid => k = m
    BY <1>2
  <2>5. m.uid < k.uid \/ k.uid < m.uid \/ k.uid = m.uid
    BY <2>1
  <2> QED BY <2>1, <2>2, <2>3, <2>4, <2>5
<1> QED BY <1>4, <1>5 DEF Series

-----------------------------------------------------------------------------
(* What the steps do to the imports.                                       *)

LEMMA NewImport ==
  ASSUME TypeOK, NEW c \in Clients, ImportNew(c)
  PROVE  LET n == Len(imports) + 1
         IN /\ imports' \in Seq(Import)
            /\ DOMAIN imports' = DOMAIN imports \cup {n}
            /\ n \notin DOMAIN imports /\ n \in Nat
            /\ \A i \in DOMAIN imports : imports'[i] = imports[i]
            /\ imports'[n].manifest = work[c].mails
            /\ imports'[n].stored = {}
<1>1. imports \in Seq(Import) /\ Len(imports) \in Nat
  BY DEF TypeOK
<1>2. work[c].mails \subseteq Mail
  BY DEF TypeOK, Work
<1>3. [manifest |-> work[c].mails, stored |-> {}] \in Import
  BY <1>2 DEF Import
<1> QED BY <1>1, <1>3 DEF ImportNew

LEMMA OneMore ==
  ASSUME TypeOK, Linked, NEW c \in Clients, NEW m \in work[c].mails, AddEmail(c, m)
  PROVE  LET n == work[c].import
         IN /\ n \in DOMAIN imports
            /\ imports[n].manifest = work[c].mails
            /\ imports' \in Seq(Import)
            /\ DOMAIN imports' = DOMAIN imports
            /\ \A i \in DOMAIN imports : i # n => imports'[i] = imports[i]
            /\ imports'[n].manifest = imports[n].manifest
            /\ imports'[n].stored = imports[n].stored \cup {m}
<1> DEFINE n == work[c].import
<1>1. n \in DOMAIN imports /\ imports[n].manifest = work[c].mails
  BY DEF AddEmail, Linked, Working
<1>2. imports \in Seq(Import) /\ imports[n] \in Import /\ m \in Mail
  BY <1>1 DEF TypeOK, Work
<1>3. [imports[n] EXCEPT !.stored = @ \cup {m}] \in Import
  BY <1>2 DEF Import
<1>4. imports' = [imports EXCEPT ![n].stored = @ \cup {m}]
  BY DEF AddEmail
<1>5. imports' = [imports EXCEPT ![n] = [imports[n] EXCEPT !.stored = @ \cup {m}]]
  BY <1>4
<1>6. imports' \in Seq(Import) /\ DOMAIN imports' = DOMAIN imports
  BY <1>1, <1>2, <1>3, <1>5
<1>7. imports'[n] = [imports[n] EXCEPT !.stored = @ \cup {m}]
  BY <1>1, <1>5
<1>8. \A i \in DOMAIN imports : i # n => imports'[i] = imports[i]
  BY <1>1, <1>2, <1>5
<1>9. imports'[n].manifest = imports[n].manifest /\ imports'[n].stored = imports[n].stored \cup {m}
  BY <1>2, <1>7 DEF Import
<1> QED BY <1>1, <1>6, <1>8, <1>9

\* Imports stay, with their manifests and with what is stored of them.
LEMMA ImportsStay ==
  ASSUME TypeOK, Linked, [Next]_vars, NEW i \in DOMAIN imports
  PROVE  /\ i \in DOMAIN imports'
         /\ imports'[i].manifest = imports[i].manifest
         /\ imports[i].stored \subseteq imports'[i].stored
<1>1. CASE imports' = imports
  BY <1>1
<1>2. ASSUME NEW c \in Clients, ImportNew(c)
      PROVE  /\ i \in DOMAIN imports'
             /\ imports'[i].manifest = imports[i].manifest
             /\ imports[i].stored \subseteq imports'[i].stored
  BY <1>2, NewImport
<1>3. ASSUME NEW c \in Clients, NEW m \in work[c].mails, AddEmail(c, m)
      PROVE  /\ i \in DOMAIN imports'
             /\ imports'[i].manifest = imports[i].manifest
             /\ imports[i].stored \subseteq imports'[i].stored
  <2>1. CASE i = work[c].import
    BY <1>3, <2>1, OneMore
  <2>2. CASE i # work[c].import
    BY <1>3, <2>2, OneMore
  <2> QED BY <2>1, <2>2
<1> QED
  BY <1>1, <1>2, <1>3 DEF Next, vars, Retrieve, Arrive, RetrieveCursor, RetrieveNumber, Fetch, FetchDemo,
     RetrieveNothing, ImportKnown, Advance, Die, SyncWrite, SyncAsk, Reset

-----------------------------------------------------------------------------
(* What each step does.                                                    *)

LEMMA IdleType == Idle \in Work
BY DEF Idle, Work, Steps

LEMMA NumbersType == TypeOK => Numbers \subseteq Nat
<1> SUFFICES ASSUME TypeOK, NEW i \in DOMAIN imports, NEW m \in imports[i].stored
             PROVE  m.number \in Nat
  BY DEF Numbers
<1>1. imports[i] \in Import
  BY DEF TypeOK
<1> QED BY <1>1 DEF Import, Mail

WorkTyped == work' \in [Clients -> Work]
Others(c) == \A d \in Clients : d # c => work'[d] = work[d]
SameMarks == /\ history'.unread = history.unread
             /\ history'.demo = history.demo
             /\ history'.synced = history.synced
SameOrder == history'.calm = history.calm /\ history'.serial = history.serial
HistoryTyped == history' \in [unread: SUBSET Nat, demo: SUBSET Nat, synced: SUBSET Nat,
                              calm: BOOLEAN, serial: BOOLEAN]

LEMMA Sets ==
  ASSUME TypeOK, NEW c \in Clients, NEW w \in Work, work' = [work EXCEPT ![c] = w]
  PROVE  WorkTyped /\ Others(c) /\ work'[c] = w
BY DEF TypeOK, WorkTyped, Others

LEMMA Ends ==
  ASSUME TypeOK, NEW c \in Clients, End(c)
  PROVE  WorkTyped /\ Others(c) /\ work'[c].step = "idle"
<1>1. WorkTyped /\ Others(c) /\ work'[c] = Idle
  BY IdleType, Sets DEF End
<1> QED BY <1>1 DEF Idle

LEMMA HistoryStays ==
  ASSUME TypeOK, history' = history
  PROVE  HistoryTyped /\ SameMarks /\ SameOrder
BY DEF TypeOK, HistoryTyped, SameMarks, SameOrder

LEMMA ReadEffect ==
  ASSUME TypeOK, NEW c \in Clients, RetrieveCursor(c)
  PROVE  /\ WorkTyped /\ Others(c) /\ work[c].step = "idle"
         /\ work'[c].step = "read" /\ work'[c].cursor = cursor
         /\ cursor' = cursor /\ imports' = imports /\ arrived' = arrived
         /\ requests' \in 0..MaxRequests
         /\ HistoryTyped /\ SameMarks /\ history'.calm = history.calm
         /\ history'.serial => history.serial /\ Alone(c)
<1> DEFINE w == [work[c] EXCEPT !.step = "read", !.cursor = cursor]
<1>1. w \in Work /\ w.step = "read" /\ w.cursor = cursor
  BY DEF TypeOK, Work, Steps
<1>2. work' = [work EXCEPT ![c] = w]
  BY DEF RetrieveCursor, TypeOK
<1>3. WorkTyped /\ Others(c) /\ work'[c] = w
  <2> HIDE DEF w
  <2> QED BY <1>1, <1>2, Sets
<1>4. requests' \in 0..MaxRequests
  BY MailboxAssumption DEF RetrieveCursor, Serve, TypeOK
<1>5. Alone(c) \in BOOLEAN
  BY DEF Alone
<1>6. /\ HistoryTyped /\ SameMarks /\ history'.calm = history.calm
      /\ history'.serial => history.serial /\ Alone(c)
  BY <1>5 DEF RetrieveCursor, TypeOK, HistoryTyped, SameMarks
<1> QED BY <1>1, <1>3, <1>4, <1>6 DEF RetrieveCursor

LEMMA NumberEffect ==
  ASSUME TypeOK, Contained, NEW c \in Clients, RetrieveNumber(c)
  PROVE  /\ WorkTyped /\ Others(c) /\ work[c].step = "read"
         /\ work'[c].step = "numbered" /\ work'[c].cursor = work[c].cursor
         /\ work'[c].start \in Numbers \cup {0} /\ \A k \in Numbers : k <= work'[c].start
         /\ cursor' = cursor /\ imports' = imports /\ arrived' = arrived
         /\ requests' = requests /\ history' = history
<1> DEFINE g == Greatest(Numbers)
           w == [work[c] EXCEPT !.step = "numbered", !.start = g]
<1>1. g \in Nat /\ g \in Numbers \cup {0} /\ \A k \in Numbers : k <= g
  BY NumbersType, GreatestType DEF Contained
<1>2. work' = [work EXCEPT ![c] = w]
  BY DEF RetrieveNumber, TypeOK
<1> HIDE DEF g
<1>3. w \in Work /\ w.step = "numbered" /\ w.cursor = work[c].cursor /\ w.start = g
  BY <1>1 DEF TypeOK, Work, Steps
<1>4. WorkTyped /\ Others(c) /\ work'[c] = w
  <2> HIDE DEF w
  <2> QED BY <1>2, <1>3, Sets
<1> QED BY <1>1, <1>3, <1>4 DEF RetrieveNumber

LEMMA FetchedEffect ==
  ASSUME TypeOK, NEW c \in Clients, NEW mails \in SUBSET Mail, NEW highest \in Nat,
         Fetched(c, mails, highest)
  PROVE  /\ WorkTyped /\ Others(c)
         /\ work'[c].step = "fetched" /\ work'[c].mails = mails /\ work'[c].highest = highest
         /\ work'[c].start = work[c].start
<1> DEFINE w == [work[c] EXCEPT !.step = "fetched", !.mails = mails, !.highest = highest]
<1>1. /\ w \in Work /\ w.step = "fetched" /\ w.mails = mails /\ w.highest = highest
      /\ w.start = work[c].start
  BY DEF TypeOK, Work, Steps
<1>2. work' = [work EXCEPT ![c] = w]
  <2>1. /\ work \in [Clients -> Work]
        /\ work' = [work EXCEPT ![c].step = "fetched", ![c].mails = mails, ![c].highest = highest]
    BY DEF Fetched, TypeOK
  <2>2. work'[c] = w
    BY <2>1
  <2> QED BY <2>1, <2>2
<1>3. WorkTyped /\ Others(c) /\ work'[c] = w
  <2> HIDE DEF w
  <2> QED BY <1>1, <1>2, Sets
<1> QED BY <1>1, <1>3

\* The messages that were selected are the mails or left unread; below the highest uid
\* lies nothing else that is above the cursor.
LEMMA FetchEffect ==
  ASSUME TypeOK, NEW c \in Clients, Fetch(c)
  PROVE  /\ WorkTyped /\ Others(c) /\ work[c].step = "numbered" /\ work'[c].step = "fetched"
         /\ work[c].cursor \in Nat /\ work'[c].highest \in Nat
         /\ work[c].cursor <= work'[c].highest
         /\ \A u \in 1..work'[c].highest :
              u <= work[c].cursor \/ u \in history'.unread \/ \E m \in work'[c].mails : m.uid = u
         /\ \A m \in work'[c].mails :
              work[c].start < m.number /\ work[c].cursor < m.uid /\ m.uid <= work'[c].highest
         /\ work'[c].start = work[c].start
         /\ Series(work'[c].mails, work[c].start) /\ OnServer(work'[c].mails)
         /\ \A u \in history'.unread \ history.unread : work[c].cursor < u
         /\ cursor' = cursor /\ imports' = imports /\ arrived' = arrived /\ requests' = requests
         /\ HistoryTyped /\ SameOrder
         /\ history.unread \subseteq history'.unread
         /\ history'.demo = history.demo /\ history'.synced = history.synced
<1> DEFINE low == work[c].cursor
           start == work[c].start
           S == Selected(low)
           g == Greatest(S \cup {low})
<1>1. low \in Nat /\ start \in Nat
  BY DEF TypeOK, Work
<1>2. PICK got \in SUBSET S :
        /\ Fetched(c, Mails(got, start), g)
        /\ history' = [history EXCEPT !.unread = @ \cup (S \ got)]
  BY DEF Fetch
<1>3. S \subseteq {u \in Uids : low < u /\ u <= arrived} /\ \A u \in Uids : u \in Nat /\ u > 0
  BY <1>1, SelectedType, MailboxAssumption DEF Uids
<1>4. /\ g \in Nat /\ low <= g
      /\ \A u \in S : u <= g
      /\ \A u \in 1..g : u <= low \/ u \in S
  BY <1>1, GreatestUid
<1> HIDE DEF S, g, low, start
<1>5. /\ Mails(got, start) \subseteq Mail
      /\ \A m \in Mails(got, start) : m.uid \in got /\ start < m.number
      /\ \A u \in got : \E m \in Mails(got, start) : m.uid = u
  BY <1>1, <1>3, MailsType
<1>6. /\ WorkTyped /\ Others(c) /\ work'[c].step = "fetched"
      /\ work'[c].mails = Mails(got, start) /\ work'[c].highest = g /\ work'[c].start = work[c].start
  BY <1>2, <1>4, <1>5, FetchedEffect
<1>7. /\ HistoryTyped /\ SameOrder /\ history'.unread = history.unread \cup (S \ got)
      /\ history'.demo = history.demo /\ history'.synced = history.synced
  BY <1>2, <1>3 DEF TypeOK, HistoryTyped, SameOrder
<1>8. \A u \in 1..g : u <= low \/ u \in history'.unread \/ \E m \in Mails(got, start) : m.uid = u
  BY <1>4, <1>5, <1>7
<1>9. \A m \in Mails(got, start) : start < m.number /\ low < m.uid /\ m.uid <= g
  BY <1>3, <1>4, <1>5
<1>10. /\ cursor' = cursor /\ imports' = imports /\ arrived' = arrived /\ requests' = requests
       /\ work[c].step = "numbered"
  BY DEF Fetch
<1>11. Series(Mails(got, start), start)
  BY <1>1, <1>3, MailsSeries
<1>12. OnServer(Mails(got, start))
  <2>1. arrived \in Nat
    BY MailboxAssumption DEF TypeOK
  <2> QED BY <1>3, <1>5, <2>1 DEF OnServer
<1>13. \A u \in history'.unread \ history.unread : low < u
  BY <1>3, <1>7
<1>14. OnServer(work'[c].mails)
  BY <1>6, <1>12 DEF OnServer
<1> QED BY <1>1, <1>4, <1>6, <1>7, <1>8, <1>9, <1>10, <1>11, <1>13, <1>14 DEF low, start

LEMMA DemoEffect ==
  ASSUME TypeOK, NEW c \in Clients, FetchDemo(c)
  PROVE  /\ WorkTyped /\ Others(c) /\ work[c].step = "numbered" /\ work'[c].step = "fetched"
         /\ work[c].cursor \in Nat /\ work'[c].highest = work[c].cursor + 1
         /\ \A m \in work'[c].mails : work[c].start < m.number /\ m.uid = Demo
         /\ work'[c].start = work[c].start
         /\ Series(work'[c].mails, work[c].start) /\ OnServer(work'[c].mails)
         /\ cursor' = cursor /\ imports' = imports /\ arrived' = arrived /\ requests' = requests
         /\ HistoryTyped /\ SameOrder
         /\ history'.demo = history.demo \cup {work[c].cursor + 1}
         /\ history'.unread = history.unread /\ history'.synced = history.synced
<1> DEFINE m == [uid |-> Demo, number |-> work[c].start + 1, document |-> Demo]
<1>1. work[c].cursor \in Nat /\ work[c].start \in Nat
  BY DEF TypeOK, Work
<1>2. {m} \in SUBSET Mail /\ work[c].start < m.number /\ m.number = work[c].start + 1 /\ m.uid = Demo
  BY <1>1 DEF Mail
<1>3. Fetched(c, {m}, work[c].cursor + 1)
  BY DEF FetchDemo
<1> HIDE DEF m
<1>4. /\ WorkTyped /\ Others(c) /\ work'[c].step = "fetched"
      /\ work'[c].mails = {m} /\ work'[c].highest = work[c].cursor + 1
      /\ work'[c].start = work[c].start
  BY <1>1, <1>2, <1>3, FetchedEffect
<1>5. /\ HistoryTyped /\ SameOrder /\ history'.demo = history.demo \cup {work[c].cursor + 1}
      /\ history'.unread = history.unread /\ history'.synced = history.synced
  BY <1>1 DEF FetchDemo, TypeOK, HistoryTyped, SameOrder
<1>6. /\ cursor' = cursor /\ imports' = imports /\ arrived' = arrived /\ requests' = requests
      /\ work[c].step = "numbered"
  BY DEF FetchDemo
<1>7. Series(work'[c].mails, work[c].start) /\ OnServer(work'[c].mails)
  <2>1. m.number \in Nat /\ ~ (m.number < m.number)
    BY <1>1, <1>2
  <2> QED BY <1>2, <1>4, <2>1 DEF Series, OnServer
<1> QED BY <1>1, <1>2, <1>4, <1>5, <1>6, <1>7

LEMMA NothingEffect ==
  ASSUME TypeOK, NEW c \in Clients, RetrieveNothing(c)
  PROVE  /\ WorkTyped /\ Others(c) /\ work[c].step = "fetched" /\ work'[c].step = "idle"
         /\ work[c].mails = {}
         /\ cursor' = work[c].highest /\ cursor' \in Nat
         /\ imports' = imports /\ arrived' = arrived /\ requests' = requests /\ history' = history
<1>1. work[c].highest \in Nat
  BY DEF TypeOK, Work
<1> QED BY <1>1, Ends DEF RetrieveNothing

LEMMA NewEffect ==
  ASSUME TypeOK, NEW c \in Clients, ImportNew(c)
  PROVE  /\ WorkTyped /\ Others(c) /\ work[c].step = "fetched" /\ work'[c].step = "importing"
         /\ work'[c].import = Len(imports) + 1
         /\ work'[c].mails = work[c].mails /\ work'[c].highest = work[c].highest
         /\ work'[c].start = work[c].start
         /\ cursor' = cursor /\ arrived' = arrived /\ requests' = requests /\ history' = history
<1> DEFINE n == Len(imports) + 1
           w == [work[c] EXCEPT !.step = "importing", !.import = n]
<1>1. n \in Nat
  BY DEF TypeOK
<1>2. work' = [work EXCEPT ![c] = w]
  BY DEF ImportNew, TypeOK
<1> HIDE DEF n
<1>3. /\ w \in Work /\ w.step = "importing" /\ w.import = n
      /\ w.mails = work[c].mails /\ w.highest = work[c].highest /\ w.start = work[c].start
  BY <1>1 DEF TypeOK, Work, Steps
<1>4. WorkTyped /\ Others(c) /\ work'[c] = w
  <2> HIDE DEF w
  <2> QED BY <1>2, <1>3, Sets
<1> QED BY <1>3, <1>4 DEF ImportNew, n

LEMMA KnownEffect ==
  ASSUME TypeOK, NEW c \in Clients, ImportKnown(c)
  PROVE  /\ WorkTyped /\ Others(c) /\ work[c].step = "fetched" /\ work'[c].step = "imported"
         /\ work'[c].import \in DOMAIN imports
         /\ imports[work'[c].import].manifest = work[c].mails
         /\ work'[c].mails = work[c].mails /\ work'[c].highest = work[c].highest
         /\ work'[c].start = work[c].start
         /\ cursor' = cursor /\ imports' = imports /\ arrived' = arrived
         /\ requests' = requests /\ history' = history
<1>1. PICK i \in Known(c) : work' = [work EXCEPT ![c].step = "imported", ![c].import = i]
  BY DEF ImportKnown
<1> DEFINE w == [work[c] EXCEPT !.step = "imported", !.import = i]
<1>2. i \in DOMAIN imports /\ imports[i].manifest = work[c].mails /\ i \in Nat
  BY DEF Known, TypeOK
<1>3. work' = [work EXCEPT ![c] = w]
  BY <1>1 DEF TypeOK
<1>4. /\ w \in Work /\ w.step = "imported" /\ w.import = i
      /\ w.mails = work[c].mails /\ w.highest = work[c].highest /\ w.start = work[c].start
  BY <1>2 DEF TypeOK, Work, Steps
<1>5. WorkTyped /\ Others(c) /\ work'[c] = w
  <2> HIDE DEF w
  <2> QED BY <1>3, <1>4, Sets
<1> QED BY <1>2, <1>4, <1>5 DEF ImportKnown

LEMMA AddEffect ==
  ASSUME TypeOK, NEW c \in Clients, NEW m \in work[c].mails, AddEmail(c, m)
  PROVE  /\ WorkTyped /\ Others(c) /\ work[c].step = "importing"
         /\ work'[c].import = work[c].import
         /\ work'[c].mails = work[c].mails /\ work'[c].highest = work[c].highest
         /\ work'[c].start = work[c].start
         /\ \/ work'[c].step = "importing"
            \/ /\ work'[c].step = "imported"
               /\ imports'[work[c].import].stored = work[c].mails
         /\ cursor' = cursor /\ arrived' = arrived /\ requests' = requests /\ history' = history
<1> DEFINE w == [work[c] EXCEPT !.step = "imported"]
<1>1. /\ w \in Work /\ w.step = "imported" /\ w.import = work[c].import
      /\ w.mails = work[c].mails /\ w.highest = work[c].highest /\ w.start = work[c].start
  BY DEF TypeOK, Work, Steps
<1>2. CASE work' = work
  BY <1>2 DEF AddEmail, TypeOK, WorkTyped, Others
<1>3. CASE /\ work' = [work EXCEPT ![c] = w]
           /\ imports'[work[c].import].stored = work[c].mails
  <2>1. WorkTyped /\ Others(c) /\ work'[c] = w
    <3> HIDE DEF w
    <3> QED BY <1>1, <1>3, Sets
  <2> QED BY <1>1, <1>3, <2>1 DEF AddEmail
<1> QED BY <1>2, <1>3 DEF AddEmail

LEMMA AdvanceEffect ==
  ASSUME TypeOK, NEW c \in Clients, Advance(c)
  PROVE  /\ WorkTyped /\ Others(c) /\ work[c].step = "imported" /\ work'[c].step = "idle"
         /\ cursor' = work[c].highest /\ cursor' \in Nat
         /\ imports' = imports /\ arrived' = arrived /\ requests' = requests /\ history' = history
<1>1. work[c].highest \in Nat
  BY DEF TypeOK, Work
<1> QED BY <1>1, Ends DEF Advance

LEMMA DieEffect ==
  ASSUME TypeOK, NEW c \in Clients, Die(c)
  PROVE  /\ WorkTyped /\ Others(c) /\ work'[c].step = "idle"
         /\ cursor' = cursor /\ imports' = imports /\ arrived' = arrived /\ requests' = requests
         /\ HistoryTyped /\ SameMarks /\ history'.calm = FALSE /\ history'.serial = history.serial
<1>1. HistoryTyped /\ SameMarks /\ history'.calm = FALSE /\ history'.serial = history.serial
  BY DEF Die, TypeOK, HistoryTyped, SameMarks
<1> QED BY <1>1, Ends DEF Die

LEMMA SyncAskEffect ==
  ASSUME TypeOK, NEW c \in Clients, NEW keep \in 0..MaxUid, SyncAsk(c, keep)
  PROVE  /\ WorkTyped /\ Others(c) /\ work[c].step = "idle" /\ work'[c].step = "syncing"
         /\ cursor' = cursor /\ imports' = imports /\ arrived' = arrived
         /\ requests' \in 0..MaxRequests
         /\ HistoryTyped /\ SameMarks /\ history'.calm = history.calm
         /\ history'.serial => history.serial /\ Alone(c)
<1> DEFINE h == IF arrived > keep THEN arrived - keep ELSE 0
           w == [work[c] EXCEPT !.step = "syncing", !.highest = h]
<1>1. h \in Nat
  BY MailboxAssumption DEF TypeOK
<1>2. work' = [work EXCEPT ![c].step = "syncing", ![c].highest = h]
  BY DEF SyncAsk
<1> HIDE DEF h
<1>3. work' = [work EXCEPT ![c] = w]
  BY <1>2 DEF TypeOK
<1>4. w \in Work /\ w.step = "syncing"
  BY <1>1 DEF TypeOK, Work, Steps
<1>5. WorkTyped /\ Others(c) /\ work'[c] = w
  <2> HIDE DEF w
  <2> QED BY <1>3, <1>4, Sets
<1>6. requests' \in 0..MaxRequests
  BY MailboxAssumption DEF SyncAsk, Serve, TypeOK
<1>7. Alone(c) \in BOOLEAN
  BY DEF Alone
<1>8. history' = [history EXCEPT !.serial = @ /\ Alone(c)]
  BY DEF SyncAsk
<1>9. /\ HistoryTyped /\ SameMarks /\ history'.calm = history.calm
      /\ history'.serial => history.serial /\ Alone(c)
  BY <1>7, <1>8 DEF TypeOK, HistoryTyped, SameMarks
<1>10. work[c].step = "idle" /\ cursor' = cursor /\ imports' = imports /\ arrived' = arrived
  BY DEF SyncAsk
<1> QED BY <1>4, <1>5, <1>6, <1>9, <1>10

LEMMA SyncWriteEffect ==
  ASSUME TypeOK, NEW c \in Clients, SyncWrite(c)
  PROVE  /\ WorkTyped /\ Others(c) /\ work[c].step = "syncing" /\ work'[c].step = "idle"
         /\ cursor' = work[c].highest /\ cursor' \in Nat
         /\ imports' = imports /\ arrived' = arrived /\ requests' = requests
         /\ HistoryTyped /\ history'.calm = FALSE /\ history'.serial = history.serial
         /\ history'.unread = history.unread /\ history'.demo = history.demo
         /\ history'.synced = history.synced \cup 1..work[c].highest
<1>1. work[c].highest \in Nat
  BY DEF TypeOK, Work
<1> DEFINE S == 1..work[c].highest
<1>2. S \subseteq Nat
  BY <1>1
<1>3. history' = [history EXCEPT !.synced = @ \cup S, !.calm = FALSE]
  BY DEF SyncWrite
<1> HIDE DEF S
<1>4. /\ HistoryTyped /\ history'.calm = FALSE /\ history'.serial = history.serial
      /\ history'.unread = history.unread /\ history'.demo = history.demo
      /\ history'.synced = history.synced \cup S
  BY <1>2, <1>3 DEF TypeOK, HistoryTyped
<1>5. WorkTyped /\ Others(c) /\ work'[c].step = "idle"
  BY Ends DEF SyncWrite
<1>6. /\ work[c].step = "syncing" /\ cursor' = work[c].highest
      /\ imports' = imports /\ arrived' = arrived /\ requests' = requests
  BY DEF SyncWrite
<1> QED BY <1>1, <1>4, <1>5, <1>6 DEF S

LEMMA ResetEffect ==
  ASSUME TypeOK, Reset
  PROVE  /\ cursor' = 0 /\ work' = work /\ imports' = imports /\ arrived' = arrived
         /\ requests' \in 0..MaxRequests
         /\ HistoryTyped /\ SameMarks /\ history'.calm = FALSE /\ history'.serial = history.serial
<1>1. requests' \in 0..MaxRequests
  BY MailboxAssumption DEF Reset, Serve, TypeOK
<1>2. HistoryTyped /\ SameMarks /\ history'.calm = FALSE /\ history'.serial = history.serial
  BY DEF Reset, TypeOK, HistoryTyped, SameMarks
<1> QED BY <1>1, <1>2 DEF Reset

-----------------------------------------------------------------------------
(* Types.                                                                  *)

LEMMA InitType == Init => TypeOK
<1> SUFFICES ASSUME Init PROVE TypeOK
  OBVIOUS
<1>1. work \in [Clients -> Work]
  BY IdleType DEF Init
<1>2. arrived \in 0..MaxUid /\ requests \in 0..MaxRequests
  BY MailboxAssumption DEF Init
<1>3. cursor \in Nat /\ imports \in Seq(Import)
  BY DEF Init
<1>4. history \in [unread: SUBSET Nat, demo: SUBSET Nat, synced: SUBSET Nat,
                   calm: BOOLEAN, serial: BOOLEAN]
  BY DEF Init, Nothing
<1> QED BY <1>1, <1>2, <1>3, <1>4 DEF TypeOK

LEMMA TypeNext ==
  ASSUME TypeOK, Contained, Linked, [Next]_vars
  PROVE  TypeOK'
<1>1. CASE UNCHANGED vars
  BY <1>1 DEF vars, TypeOK
<1>2. CASE Arrive
  BY <1>2, MailboxAssumption DEF Arrive, TypeOK
<1> DEFINE Typed == /\ WorkTyped /\ HistoryTyped /\ cursor' \in Nat /\ imports' \in Seq(Import)
                    /\ arrived' \in 0..MaxUid /\ requests' \in 0..MaxRequests
<1>3. Typed => TypeOK'
  BY DEF WorkTyped, HistoryTyped, TypeOK
<1>4. /\ arrived \in 0..MaxUid /\ cursor \in Nat /\ imports \in Seq(Import)
      /\ requests \in 0..MaxRequests
  BY DEF TypeOK
<1>5. ASSUME NEW c \in Clients, RetrieveCursor(c) PROVE TypeOK'
  BY <1>3, <1>4, <1>5, ReadEffect
<1>6. ASSUME NEW c \in Clients, RetrieveNumber(c) PROVE TypeOK'
  BY <1>3, <1>4, <1>6, NumberEffect, HistoryStays
<1>7. ASSUME NEW c \in Clients, Fetch(c) PROVE TypeOK'
  BY <1>3, <1>4, <1>7, FetchEffect
<1>8. ASSUME NEW c \in Clients, FetchDemo(c) PROVE TypeOK'
  BY <1>3, <1>4, <1>8, DemoEffect
<1>9. ASSUME NEW c \in Clients, RetrieveNothing(c) PROVE TypeOK'
  BY <1>3, <1>4, <1>9, NothingEffect, HistoryStays
<1>10. ASSUME NEW c \in Clients, ImportNew(c) PROVE TypeOK'
  BY <1>3, <1>4, <1>10, NewImport, NewEffect, HistoryStays
<1>11. ASSUME NEW c \in Clients, ImportKnown(c) PROVE TypeOK'
  BY <1>3, <1>4, <1>11, KnownEffect, HistoryStays
<1>12. ASSUME NEW c \in Clients, NEW m \in work[c].mails, AddEmail(c, m) PROVE TypeOK'
  BY <1>3, <1>4, <1>12, OneMore, AddEffect, HistoryStays
<1>13. ASSUME NEW c \in Clients, Advance(c) PROVE TypeOK'
  BY <1>3, <1>4, <1>13, AdvanceEffect, HistoryStays
<1>14. ASSUME NEW c \in Clients, Die(c) PROVE TypeOK'
  BY <1>3, <1>4, <1>14, DieEffect
<1>15. ASSUME NEW c \in Clients, SyncWrite(c) PROVE TypeOK'
  BY <1>3, <1>4, <1>15, SyncWriteEffect
<1>16. ASSUME NEW c \in Clients, NEW keep \in 0..MaxUid, SyncAsk(c, keep) PROVE TypeOK'
  BY <1>3, <1>4, <1>16, SyncAskEffect
<1>17. CASE Reset
  <2>1. /\ cursor' = 0 /\ work' = work /\ imports' = imports /\ arrived' = arrived
        /\ requests' \in 0..MaxRequests /\ HistoryTyped
    BY <1>17, ResetEffect
  <2>2. WorkTyped
    BY <2>1 DEF TypeOK, WorkTyped
  <2> QED BY <1>3, <1>4, <2>1, <2>2
<1> QED
  BY <1>1, <1>2, <1>5, <1>6, <1>7, <1>8, <1>9, <1>10, <1>11, <1>12, <1>13, <1>14, <1>15, <1>16, <1>17
     DEF Next, Retrieve

-----------------------------------------------------------------------------
(* What no step takes back.                                                *)

LEMMA MarksStay ==
  ASSUME TypeOK, [Next]_vars
  PROVE  /\ \A u : Passed(u) => Passed(u)'
         /\ history.unread \subseteq history'.unread /\ history.demo \subseteq history'.demo
         /\ history'.serial => history.serial
         /\ history'.calm => history.calm
<1> DEFINE Kind == /\ history.unread \subseteq history'.unread
                   /\ history.demo \subseteq history'.demo
                   /\ history.synced \subseteq history'.synced
                   /\ history'.serial => history.serial
                   /\ history'.calm => history.calm
<1> SUFFICES Kind
  BY DEF Passed
<1>1. CASE history' = history
  BY <1>1
<1>2. ASSUME NEW c \in Clients, Retrieve(c) PROVE Kind
  <2>1. CASE RetrieveCursor(c)
    BY <2>1, ReadEffect DEF SameMarks
  <2>2. CASE Fetch(c)
    BY <2>2, FetchEffect DEF SameOrder
  <2>3. CASE FetchDemo(c)
    BY <2>3, DemoEffect DEF SameOrder
  <2> QED
    BY <1>2, <2>1, <2>2, <2>3
       DEF Retrieve, RetrieveNumber, RetrieveNothing, ImportNew, ImportKnown, AddEmail, Advance
<1>3. ASSUME NEW c \in Clients, Die(c) PROVE Kind
  BY <1>3, DieEffect DEF SameMarks
<1>4. ASSUME NEW c \in Clients, SyncWrite(c) PROVE Kind
  BY <1>4, SyncWriteEffect
<1>5. ASSUME NEW c \in Clients, NEW keep \in 0..MaxUid, SyncAsk(c, keep) PROVE Kind
  BY <1>5, SyncAskEffect DEF SameMarks
<1>6. CASE Reset
  BY <1>6, ResetEffect DEF SameMarks
<1>7. CASE history' # history
  BY <1>2, <1>3, <1>4, <1>5, <1>6, <1>7 DEF Next, vars, Arrive
<1> QED BY <1>1, <1>7

LEMMA ListsStay ==
  ASSUME TypeOK, Linked, [Next]_vars
  PROVE  /\ \A u : Listed(u) => Listed(u)'
         /\ \A u : Stored(u) => Stored(u)'
BY ImportsStay DEF Listed, Stored

LEMMA ImportsChange ==
  ASSUME [Next]_vars, imports' # imports
  PROVE  \E c \in Clients : ImportNew(c) \/ \E m \in work[c].mails : AddEmail(c, m)
BY DEF Next, vars, Retrieve, Arrive, RetrieveCursor, RetrieveNumber, Fetch, FetchDemo,
   RetrieveNothing, ImportKnown, Advance, Die, SyncWrite, SyncAsk, Reset

-----------------------------------------------------------------------------
(* The parts of the invariant that hold of all behaviours.                 *)

LEMMA InitInv == Init => IInv
<1> SUFFICES ASSUME Init PROVE IInv
  OBVIOUS
<1>1. TypeOK
  BY InitType
<1>2. \A c \in Clients : work[c].step = "idle"
  BY DEF Init, Idle
<1>3. imports = <<>> /\ DOMAIN imports = {} /\ cursor = 0
  BY DEF Init
<1>4. Numbers = {} /\ Bounded(Numbers)
  BY <1>3 DEF Numbers, Bounded
<1>5. Contained /\ Linked
  BY <1>2, <1>3, <1>4 DEF Contained, Linked, Working
<1>6. Traced /\ OneWorks /\ Forward
  BY <1>2, <1>3 DEF Traced, OneWorks, Forward, PassedHasTrace, Working
<1>7. Numbered /\ Kept /\ Apart
  BY <1>2, <1>3, <1>4
     DEF Numbered, Kept, Apart, OneMailPerNumber, PassedIsStored, OneImportPerMessage, Working
<1>8. Serried /\ Consecutive
  BY <1>2 DEF Serried, Consecutive, Working
<1> QED BY <1>1, <1>5, <1>6, <1>7, <1>8 DEF IInv

LEMMA ContainedNext ==
  ASSUME TypeOK, Contained, Linked, [Next]_vars
  PROVE  Contained'
<1>1. CASE imports' = imports
  BY <1>1 DEF Contained, Numbers
<1>2. ASSUME NEW c \in Clients, ImportNew(c) PROVE Contained'
  <2>1. \A i \in DOMAIN imports' : imports'[i].stored \subseteq imports'[i].manifest
    BY <1>2, NewImport DEF Contained
  <2>2. \A i \in DOMAIN imports' : imports'[i].stored # {} => i \in DOMAIN imports /\ imports'[i] = imports[i]
    BY <1>2, NewImport
  <2>3. ASSUME NEW k \in Numbers' PROVE k \in Numbers
    <3>1. PICK i \in DOMAIN imports' : \E m \in imports'[i].stored : k = m.number
      BY DEF Numbers
    <3>2. i \in DOMAIN imports /\ imports'[i] = imports[i]
      BY <2>2, <3>1
    <3> QED BY <3>1, <3>2 DEF Numbers
  <2>4. Bounded(Numbers')
    BY <2>3 DEF Contained, Bounded
  <2> QED BY <2>1, <2>4 DEF Contained
<1>3. ASSUME NEW c \in Clients, NEW m \in work[c].mails, AddEmail(c, m) PROVE Contained'
  <2> DEFINE n == work[c].import
  <2>1. /\ n \in DOMAIN imports
        /\ imports[n].manifest = work[c].mails
        /\ DOMAIN imports' = DOMAIN imports
        /\ \A i \in DOMAIN imports : i # n => imports'[i] = imports[i]
        /\ imports'[n].manifest = imports[n].manifest
        /\ imports'[n].stored = imports[n].stored \cup {m}
    BY <1>3, OneMore
  <2>2. \A i \in DOMAIN imports' : imports'[i].stored \subseteq imports'[i].manifest
    BY <2>1 DEF Contained
  <2>3. \A i \in DOMAIN imports' : imports'[i].stored \subseteq imports[i].stored \cup {m}
    BY <2>1
  <2>4. Numbers' \subseteq Numbers \cup {m.number}
    BY <2>1, <2>3 DEF Numbers
  <2>5. m.number \in Nat /\ Numbers \subseteq Nat
    BY NumbersType DEF TypeOK, Work, Mail
  <2>6. PICK b \in Nat : \A k \in Numbers : k <= b
    BY DEF Contained, Bounded
  <2>7. b + m.number \in Nat /\ \A k \in Numbers \cup {m.number} : k <= b + m.number
    BY <2>5, <2>6
  <2>8. Bounded(Numbers')
    BY <2>4, <2>7 DEF Bounded
  <2> QED BY <2>2, <2>8 DEF Contained
<1> QED BY <1>1, <1>2, <1>3, ImportsChange

LEMMA LinkedNext ==
  ASSUME TypeOK, Linked, Contained, [Next]_vars
  PROVE  Linked'
<1> DEFINE Holds(d) == Working(d, {"importing", "imported"})' =>
                         /\ work'[d].import \in DOMAIN imports'
                         /\ imports'[work'[d].import].manifest = work'[d].mails
<1> SUFFICES ASSUME NEW d \in Clients PROVE Holds(d)
  BY DEF Linked
<1>1. CASE work'[d] = work[d]
  BY <1>1, ImportsStay DEF Linked, Working
<1>2. CASE work'[d].step \notin {"importing", "imported"}
  BY <1>2 DEF Working
<1>3. CASE ImportNew(d)
  BY <1>3, NewImport, NewEffect
<1>4. CASE ImportKnown(d)
  BY <1>4, KnownEffect
<1>5. ASSUME NEW m \in work[d].mails, AddEmail(d, m) PROVE Holds(d)
  BY <1>5, AddEffect, OneMore
<1>6. ASSUME NEW c \in Clients, Retrieve(c) PROVE Holds(d)
  <2>1. CASE c = d
    BY <1>2, <1>3, <1>4, <1>5, <1>6, <2>1, ReadEffect, NumberEffect, FetchEffect, DemoEffect,
       NothingEffect, AdvanceEffect DEF Retrieve
  <2>2. CASE c # d
    BY <1>1, <1>6, <2>2, ReadEffect, NumberEffect, FetchEffect, DemoEffect,
       NothingEffect, NewEffect, KnownEffect, AddEffect, AdvanceEffect DEF Retrieve, Others
  <2> QED BY <2>1, <2>2
<1>7. ASSUME NEW c \in Clients, Die(c) \/ SyncWrite(c) PROVE Holds(d)
  BY <1>1, <1>2, <1>7, DieEffect, SyncWriteEffect DEF Others
<1>8. ASSUME NEW c \in Clients, NEW keep \in 0..MaxUid, SyncAsk(c, keep) PROVE Holds(d)
  BY <1>1, <1>2, <1>8, SyncAskEffect DEF Others
<1>9. CASE Arrive \/ Reset \/ UNCHANGED vars
  BY <1>1, <1>9, ResetEffect DEF Arrive, vars
<1> QED BY <1>6, <1>7, <1>8, <1>9 DEF Next

\* The cursor moves only to where a client's work or an operator puts it.
LEMMA CursorChange ==
  ASSUME [Next]_vars, cursor' # cursor
  PROVE  \/ \E c \in Clients : RetrieveNothing(c) \/ Advance(c) \/ SyncWrite(c)
         \/ Reset
BY DEF Next, vars, Retrieve, Arrive, RetrieveCursor, RetrieveNumber, Fetch, FetchDemo,
   ImportNew, ImportKnown, AddEmail, Die, SyncAsk

\* A client whose step was another's keeps its work.
LEMMA Mover ==
  ASSUME TypeOK, Contained, [Next]_vars, NEW d \in Clients, work'[d] # work[d]
  PROVE  \/ RetrieveCursor(d) \/ RetrieveNumber(d) \/ Fetch(d) \/ FetchDemo(d)
         \/ RetrieveNothing(d) \/ ImportNew(d) \/ ImportKnown(d)
         \/ (\E m \in work[d].mails : AddEmail(d, m)) \/ Advance(d)
         \/ Die(d) \/ SyncWrite(d) \/ (\E keep \in 0..MaxUid : SyncAsk(d, keep))
<1>1. ASSUME NEW c \in Clients, Retrieve(c) PROVE c = d
  BY <1>1, ReadEffect, NumberEffect, FetchEffect, DemoEffect, NothingEffect, NewEffect,
     KnownEffect, AddEffect, AdvanceEffect DEF Retrieve, Others
<1>2. ASSUME NEW c \in Clients, Die(c) \/ SyncWrite(c) PROVE c = d
  BY <1>2, DieEffect, SyncWriteEffect DEF Others
<1>3. ASSUME NEW c \in Clients, NEW keep \in 0..MaxUid, SyncAsk(c, keep) PROVE c = d
  BY <1>3, SyncAskEffect DEF Others
<1>4. ~ (Arrive \/ Reset \/ UNCHANGED vars)
  BY ResetEffect DEF Arrive, vars
<1>5. CASE \E c \in Clients : Retrieve(c)
  BY <1>1, <1>5 DEF Retrieve
<1>6. CASE \E c \in Clients : Die(c) \/ SyncWrite(c)
  BY <1>2, <1>6
<1>7. CASE \E c \in Clients, keep \in 0..MaxUid : SyncAsk(c, keep)
  BY <1>3, <1>7
<1> QED BY <1>4, <1>5, <1>6, <1>7 DEF Next

LEMMA TracedNext ==
  ASSUME TypeOK, Contained, Linked, Traced, [Next]_vars
  PROVE  Traced'
<1> DEFINE Trace(u) == Passed(u) \/ Listed(u)
           TraceNext(u) == Passed(u)' \/ Listed(u)'
<1>1. \A u : Trace(u) => TraceNext(u)
  BY MarksStay, ListsStay
<1>2. \A u \in 1..cursor : Trace(u)
  BY DEF Traced, PassedHasTrace, Passed, Listed
<1>3. ASSUME NEW c \in Clients, work[c].step \in {"importing", "imported"}
      PROVE  \A u : Mailed(c, u) => Listed(u)
  BY <1>3 DEF Linked, Working, Mailed, Listed
<1>4. \A u \in 1..cursor' : TraceNext(u)
  <2>1. CASE cursor' = cursor
    BY <1>1, <1>2, <2>1
  <2>2. ASSUME NEW c \in Clients, RetrieveNothing(c) PROVE \A u \in 1..cursor' : TraceNext(u)
    <3>1. work[c].step = "fetched" /\ cursor' = work[c].highest /\ work[c].mails = {}
      BY <2>2, NothingEffect
    <3> QED BY <1>1, <3>1 DEF Traced, Working, Mailed
  <2>3. ASSUME NEW c \in Clients, Advance(c) PROVE \A u \in 1..cursor' : TraceNext(u)
    <3>1. work[c].step = "imported" /\ cursor' = work[c].highest
      BY <2>3, AdvanceEffect
    <3> QED BY <1>1, <1>3, <3>1 DEF Traced, Working
  <2>4. ASSUME NEW c \in Clients, SyncWrite(c) PROVE \A u \in 1..cursor' : TraceNext(u)
    BY <2>4, SyncWriteEffect DEF Passed
  <2>5. ASSUME Reset PROVE \A u \in 1..cursor' : TraceNext(u)
    BY <2>5, ResetEffect
  <2> QED BY <2>1, <2>2, <2>3, <2>4, <2>5, CursorChange
<1>5. PassedHasTrace'
  BY <1>4 DEF PassedHasTrace, Passed, Listed
<1> DEFINE ReadsTraced(d) == work'[d].step \in {"read", "numbered"} =>
                               \A u \in 1..work'[d].cursor : TraceNext(u)
           WritesTraced(d) == work'[d].step \in {"fetched", "importing", "imported"} =>
                                \A u \in 1..work'[d].highest :
                                  TraceNext(u) \/ \E m \in work'[d].mails : m.uid = u
<1>6. ASSUME NEW d \in Clients PROVE ReadsTraced(d) /\ WritesTraced(d)
  <2>1. CASE work'[d] = work[d]
    <3>1. work[d].step \in {"read", "numbered"} => \A u \in 1..work[d].cursor : Trace(u)
      BY DEF Traced, Working
    <3>2. work[d].step \in {"fetched", "importing", "imported"} =>
            \A u \in 1..work[d].highest : Trace(u) \/ \E m \in work[d].mails : m.uid = u
      BY DEF Traced, Working, Mailed
    <3> HIDE DEF Trace, TraceNext
    <3> QED BY <1>1, <2>1, <3>1, <3>2
  <2>2. CASE work'[d].step \in {"idle", "syncing"}
    BY <2>2
  <2>3. CASE RetrieveCursor(d)
    BY <1>1, <1>2, <2>3, ReadEffect
  <2>4. CASE RetrieveNumber(d)
    BY <1>1, <2>4, NumberEffect DEF Traced, Working
  <2>5. CASE Fetch(d)
    <3>1. /\ work[d].step = "numbered" /\ work'[d].step = "fetched" /\ work[d].cursor \in Nat
          /\ \A u \in 1..work'[d].highest :
               u <= work[d].cursor \/ u \in history'.unread \/ \E m \in work'[d].mails : m.uid = u
      BY <2>5, FetchEffect
    <3>2. \A u \in 1..work[d].cursor : TraceNext(u)
      BY <1>1, <3>1 DEF Traced, Working
    <3>3. \A u \in history'.unread : TraceNext(u)
      BY DEF Passed
    <3>4. \A u \in 1..work'[d].highest : u <= work[d].cursor => u \in 1..work[d].cursor
      BY <3>1
    <3> HIDE DEF TraceNext
    <3> QED BY <3>1, <3>2, <3>3, <3>4
  <2>6. CASE FetchDemo(d)
    <3>1. /\ work[d].step = "numbered" /\ work'[d].step = "fetched" /\ work[d].cursor \in Nat
          /\ work'[d].highest = work[d].cursor + 1
          /\ work[d].cursor + 1 \in history'.demo
      BY <2>6, DemoEffect
    <3>2. \A u \in 1..work[d].cursor : TraceNext(u)
      BY <1>1, <3>1 DEF Traced, Working
    <3>3. \A u \in history'.demo : TraceNext(u)
      BY DEF Passed
    <3>4. \A u \in 1..work'[d].highest : u \in 1..work[d].cursor \/ u = work[d].cursor + 1
      BY <3>1
    <3> HIDE DEF TraceNext
    <3> QED BY <3>1, <3>2, <3>3, <3>4
  <2>7. CASE /\ work[d].step \in {"fetched", "importing"}
             /\ work'[d].step \in {"importing", "imported"}
             /\ work'[d].mails = work[d].mails /\ work'[d].highest = work[d].highest
    <3>1. \A u \in 1..work[d].highest : Trace(u) \/ \E m \in work[d].mails : m.uid = u
      BY <2>7 DEF Traced, Working, Mailed
    <3> HIDE DEF Trace, TraceNext
    <3> QED BY <1>1, <2>7, <3>1
  <2> QED
    BY <2>1, <2>2, <2>3, <2>4, <2>5, <2>6, <2>7, Mover, NothingEffect, NewEffect, KnownEffect,
       AddEffect, AdvanceEffect, DieEffect, SyncWriteEffect, SyncAskEffect
<1> QED BY <1>5, <1>6 DEF Traced, Working, Mailed

LEMMA OneWorksNext ==
  ASSUME TypeOK, Contained, OneWorks, [Next]_vars
  PROVE  OneWorks'
<1> SUFFICES ASSUME history'.serial, NEW c \in Clients, NEW d \in Clients, c # d,
                    work'[c].step # "idle", work'[d].step # "idle"
             PROVE  FALSE
  BY DEF OneWorks
<1>1. history.serial
  BY MarksStay
<1>2. ASSUME NEW e \in Clients, work[e].step = "idle", work'[e].step # "idle"
      PROVE  Alone(e) /\ Others(e)
  <2>1. RetrieveCursor(e) \/ \E keep \in 0..MaxUid : SyncAsk(e, keep)
    BY <1>2, Mover, NumberEffect, FetchEffect, DemoEffect, NothingEffect, NewEffect,
       KnownEffect, AddEffect, AdvanceEffect, DieEffect, SyncWriteEffect
  <2> QED BY <2>1, ReadEffect, SyncAskEffect
<1>3. CASE work[c].step = "idle"
  BY <1>2, <1>3 DEF Alone, Others
<1>4. CASE work[d].step = "idle"
  BY <1>2, <1>4 DEF Alone, Others
<1> QED BY <1>1, <1>3, <1>4 DEF OneWorks

LEMMA ForwardNext ==
  ASSUME TypeOK, Contained, OneWorks, Forward, [Next]_vars
  PROVE  Forward'
<1> SUFFICES ASSUME history'.serial, NEW d \in Clients
             PROVE  /\ work'[d].step \in {"read", "numbered"} => cursor' <= work'[d].cursor
                    /\ work'[d].step \in {"fetched", "importing", "imported"} =>
                         cursor' <= work'[d].highest
  BY DEF Forward, Working
<1>1. /\ history.serial
      /\ work[d].step \in {"read", "numbered"} => cursor <= work[d].cursor
      /\ work[d].step \in {"fetched", "importing", "imported"} => cursor <= work[d].highest
  BY MarksStay DEF Forward, Working
<1>2. work[d].cursor \in Nat /\ work[d].highest \in Nat /\ cursor \in Nat
  BY DEF TypeOK, Work
<1>3. CASE cursor' = cursor
  <2>1. CASE work'[d] = work[d]
    BY <1>1, <1>3, <2>1
  <2>2. CASE Fetch(d)
    BY <1>1, <1>2, <1>3, <2>2, FetchEffect
  <2>3. CASE FetchDemo(d)
    BY <1>1, <1>2, <1>3, <2>3, DemoEffect
  <2>4. CASE RetrieveCursor(d)
    BY <1>2, <1>3, <2>4, ReadEffect
  <2>5. CASE RetrieveNumber(d)
    BY <1>1, <1>3, <2>5, NumberEffect
  <2>6. CASE work'[d].step \in {"idle", "syncing"}
    BY <2>6
  <2>7. CASE /\ work[d].step \in {"fetched", "importing"}
             /\ work'[d].step \in {"importing", "imported"}
             /\ work'[d].highest = work[d].highest
    BY <1>1, <1>3, <2>7
  <2> QED
    BY <2>1, <2>2, <2>3, <2>4, <2>5, <2>6, <2>7, Mover, NothingEffect, NewEffect, KnownEffect,
       AddEffect, AdvanceEffect, DieEffect, SyncWriteEffect, SyncAskEffect
<1>4. ASSUME NEW c \in Clients, RetrieveNothing(c) \/ Advance(c) \/ SyncWrite(c)
      PROVE  work'[d].step = "idle"
  <2>1. work[c].step # "idle" /\ work'[c].step = "idle" /\ Others(c)
    BY <1>4, NothingEffect, AdvanceEffect, SyncWriteEffect
  <2> QED BY <1>1, <2>1 DEF OneWorks, Others
<1>5. CASE Reset
  BY <1>2, <1>5, ResetEffect
<1> QED BY <1>3, <1>4, <1>5, CursorChange

-----------------------------------------------------------------------------
(* The parts that hold while retrievals come one at a time.                *)

LEMMA NumberedNext ==
  ASSUME TypeOK, Contained, Linked, OneWorks, Numbered, [Next]_vars
  PROVE  Numbered'
<1> SUFFICES ASSUME history'.serial PROVE Numbered'
  BY DEF Numbered, OneMailPerNumber
<1>1. history.serial
  BY MarksStay
<1>2. /\ \A i \in DOMAIN imports : \A k \in imports[i].stored : k.number \in Numbers /\ k.number \in Nat
      /\ \A c \in Clients : \A m \in work[c].mails : m.number \in Nat
      /\ \A c \in Clients : work[c].start \in Nat
  BY NumbersType DEF TypeOK, Numbers, Work, Mail
<1>3. ASSUME NEW c \in Clients, NEW i \in DOMAIN imports, work[c].step = "importing", i # work[c].import
      PROVE  Above(c, i)
  BY <1>1, <1>3 DEF Numbered, Working
<1>4. \A i, j \in DOMAIN imports : i # j =>
        \A m \in imports[i].stored, k \in imports[j].stored : m.number # k.number
  BY <1>1 DEF Numbered, OneMailPerNumber
<1>5. OneMailPerNumber'
  <2> SUFFICES ASSUME NEW i \in DOMAIN imports', NEW j \in DOMAIN imports', i # j,
                      NEW m \in imports'[i].stored, NEW k \in imports'[j].stored
               PROVE  m.number # k.number
    BY DEF OneMailPerNumber
  <2>1. CASE imports' = imports
    BY <1>4, <2>1
  <2>2. ASSUME NEW c \in Clients, ImportNew(c) PROVE m.number # k.number
    <3>1. i \in DOMAIN imports /\ j \in DOMAIN imports /\ imports'[i] = imports[i] /\ imports'[j] = imports[j]
      BY <2>2, NewImport
    <3> QED BY <1>4, <3>1
  <2>3. ASSUME NEW c \in Clients, NEW e \in work[c].mails, AddEmail(c, e) PROVE m.number # k.number
    <3> DEFINE n == work[c].import
    <3>1. /\ DOMAIN imports' = DOMAIN imports
          /\ \A x \in DOMAIN imports : x # n => imports'[x] = imports[x]
          /\ imports'[n].stored = imports[n].stored \cup {e}
      BY <2>3, OneMore
    <3>2. \A x \in DOMAIN imports : x # n => \A y \in imports[x].stored : y.number # e.number
      BY <1>2, <1>3, <2>3, AddEffect DEF Above
    <3>3. i \in DOMAIN imports /\ j \in DOMAIN imports
      BY <3>1
    <3> HIDE DEF n
    <3>4. CASE i = n /\ m = e
      BY <3>1, <3>2, <3>3, <3>4
    <3>5. CASE j = n /\ k = e
      BY <3>1, <3>2, <3>3, <3>5
    <3>6. CASE m \in imports[i].stored /\ k \in imports[j].stored
      BY <1>4, <3>3, <3>6
    <3> QED BY <3>1, <3>3, <3>4, <3>5, <3>6
  <2> QED BY <2>1, <2>2, <2>3, ImportsChange
<1> DEFINE Holds(d) ==
             /\ work'[d].step = "numbered" => \A k \in Numbers' : k <= work'[d].start
             /\ work'[d].step = "fetched" => \A i \in DOMAIN imports' :
                  \A m \in work'[d].mails, k \in imports'[i].stored : k.number < m.number
             /\ work'[d].step = "importing" => \A i \in DOMAIN imports' \ {work'[d].import} :
                  \A m \in work'[d].mails, k \in imports'[i].stored : k.number < m.number
<1>6. ASSUME NEW d \in Clients PROVE Holds(d)
  <2>1. CASE work'[d].step \notin {"numbered", "fetched", "importing"}
    BY <2>1
  <2>2. CASE work'[d] = work[d] /\ imports' = imports
    BY <1>1, <2>2 DEF Numbered, Working, Numbers, Above
  <2>3. CASE work'[d] = work[d] /\ imports' # imports
    <3>1. PICK c \in Clients : ImportNew(c) \/ \E m \in work[c].mails : AddEmail(c, m)
      BY <2>3, ImportsChange
    <3>2. CASE c = d
      <4>1. PICK m \in work[d].mails : AddEmail(d, m)
        BY <2>3, <3>1, <3>2, NewEffect
      <4>2. /\ DOMAIN imports' = DOMAIN imports /\ work[d].step = "importing"
            /\ \A i \in DOMAIN imports : i # work[d].import => imports'[i] = imports[i]
        BY <4>1, OneMore, AddEffect
      <4> QED BY <1>3, <2>3, <4>2 DEF Above
    <3>3. CASE c # d
      <4>1. work[c].step # "idle"
        BY <3>1, NewEffect, AddEffect
      <4>2. work[d].step = "idle"
        BY <1>1, <3>3, <4>1 DEF OneWorks
      <4> QED BY <2>3, <4>2
    <3> QED BY <3>2, <3>3
  <2>4. CASE RetrieveNumber(d)
    BY <2>4, NumberEffect DEF Numbers
  <2>5. CASE Fetch(d) \/ FetchDemo(d)
    <3>1. /\ work[d].step = "numbered" /\ work'[d].step = "fetched" /\ imports' = imports
          /\ \A m \in work'[d].mails : work[d].start < m.number
      BY <2>5, FetchEffect, DemoEffect
    <3>2. \A k \in Numbers : k <= work[d].start
      BY <1>1, <3>1 DEF Numbered, Working
    <3>3. work'[d] \in Work
      BY <2>5, FetchEffect, DemoEffect DEF WorkTyped
    <3>4. \A m \in work'[d].mails : m.number \in Nat
      BY <3>3 DEF Work, Mail
    <3> QED BY <1>2, <3>1, <3>2, <3>4
  <2>6. CASE ImportNew(d)
    <3>1. /\ work[d].step = "fetched" /\ work'[d].step = "importing" /\ work'[d].mails = work[d].mails
          /\ \A i \in DOMAIN imports' \ {work'[d].import} : i \in DOMAIN imports /\ imports'[i] = imports[i]
      BY <2>6, NewImport, NewEffect
    <3>2. \A i \in DOMAIN imports : Above(d, i)
      BY <1>1, <3>1 DEF Numbered, Working
    <3> QED BY <3>1, <3>2 DEF Above
  <2>7. ASSUME NEW m \in work[d].mails, AddEmail(d, m) PROVE Holds(d)
    <3>1. /\ DOMAIN imports' = DOMAIN imports /\ work[d].step = "importing"
          /\ \A i \in DOMAIN imports : i # work[d].import => imports'[i] = imports[i]
          /\ work'[d].import = work[d].import /\ work'[d].mails = work[d].mails
          /\ work'[d].step \in {"importing", "imported"}
      BY <2>7, OneMore, AddEffect
    <3> QED BY <1>3, <3>1 DEF Above
  <2> QED
    BY <2>1, <2>2, <2>3, <2>4, <2>5, <2>6, <2>7, Mover, ReadEffect, NothingEffect,
       KnownEffect, AdvanceEffect, DieEffect, SyncWriteEffect, SyncAskEffect
<1> QED BY <1>5, <1>6 DEF Numbered, Working, Above

\* A client that moves the cursor while all is in order ends its retrieval, and every
\* client is idle then.
LEMMA OrderlyCursor ==
  ASSUME TypeOK, Contained, OneWorks, [Next]_vars, Orderly', cursor' # cursor
  PROVE  \E c \in Clients : /\ RetrieveNothing(c) \/ Advance(c)
                            /\ \A d \in Clients : work'[d].step = "idle"
                            /\ \A d \in Clients : d # c => work[d].step = "idle"
<1>1. history'.calm /\ history'.serial /\ history.serial
  BY MarksStay DEF Orderly
<1>2. PICK c \in Clients : RetrieveNothing(c) \/ Advance(c)
  BY <1>1, CursorChange, SyncWriteEffect, ResetEffect
<1>3. work[c].step # "idle" /\ work'[c].step = "idle" /\ Others(c)
  BY <1>2, NothingEffect, AdvanceEffect
<1>4. \A d \in Clients : d # c => work[d].step = "idle"
  BY <1>1, <1>3 DEF OneWorks
<1> QED BY <1>2, <1>3, <1>4 DEF Others

LEMMA KeptNext ==
  ASSUME TypeOK, Contained, Linked, OneWorks, Kept, [Next]_vars
  PROVE  Kept'
<1> SUFFICES ASSUME Orderly' PROVE Kept'
  BY DEF Kept
<1> DEFINE Keep(u) == u \in history.unread \cup history.demo \/ Stored(u)
           KeepNext(u) == u \in history'.unread \cup history'.demo \/ Stored(u)'
<1>1. Orderly
  BY MarksStay DEF Orderly
<1>2. \A u : Keep(u) => KeepNext(u)
  BY MarksStay, ListsStay
<1>3. \A u \in 1..cursor : Keep(u)
  BY <1>1 DEF Kept, PassedIsStored, Orderly
<1>4. \A i \in DOMAIN imports :
        \/ imports[i].stored = imports[i].manifest
        \/ \E c \in Clients : work[c].step = "importing" /\ work[c].import = i
  BY <1>1 DEF Kept, Working
<1>5. \A c \in Clients :
        /\ work[c].step \in {"read", "numbered"} => work[c].cursor = cursor
        /\ work[c].step \in {"fetched", "importing", "imported"} =>
             \A u \in 1..work[c].highest : Keep(u) \/ Mailed(c, u)
  BY <1>1 DEF Kept, Working
<1>6. ASSUME cursor' # cursor PROVE \A u \in 1..cursor' : KeepNext(u)
  <2>1. PICK c \in Clients : /\ RetrieveNothing(c) \/ Advance(c)
                             /\ \A d \in Clients : d # c => work[d].step = "idle"
    BY <1>6, OrderlyCursor
  <2>2. CASE RetrieveNothing(c)
    <3>1. work[c].step = "fetched" /\ work[c].mails = {} /\ cursor' = work[c].highest
      BY <2>2, NothingEffect
    <3>2. \A u \in 1..cursor' : Keep(u)
      BY <1>5, <3>1 DEF Mailed
    <3> QED BY <1>2, <3>2
  <2>3. CASE Advance(c)
    <3> DEFINE n == work[c].import
    <3>1. work[c].step = "imported" /\ cursor' = work[c].highest
      BY <2>3, AdvanceEffect
    <3>2. n \in DOMAIN imports /\ imports[n].manifest = work[c].mails
      BY <3>1 DEF Linked, Working
    <3>3. imports[n].stored = imports[n].manifest
      BY <1>4, <2>1, <3>1, <3>2
    <3>4. \A u : Mailed(c, u) => Stored(u)
      BY <3>2, <3>3 DEF Mailed, Stored
    <3>5. \A u \in 1..cursor' : Keep(u)
      BY <1>5, <3>1, <3>4
    <3> QED BY <1>2, <3>5
  <2> QED BY <2>1, <2>2, <2>3
<1>7. PassedIsStored'
  <2>1. \A u \in 1..cursor' : KeepNext(u)
    BY <1>2, <1>3, <1>6
  <2> QED BY <2>1 DEF PassedIsStored
<1>8. ASSUME NEW i \in DOMAIN imports'
      PROVE  \/ imports'[i].stored = imports'[i].manifest
             \/ \E c \in Clients : work'[c].step = "importing" /\ work'[c].import = i
  <2>1. CASE i \notin DOMAIN imports
    <3>1. imports' # imports
      BY <2>1
    <3>2. PICK c \in Clients : ImportNew(c)
      BY <2>1, <3>1, ImportsChange, OneMore
    <3> QED BY <2>1, <3>2, NewImport, NewEffect
  <2>2. CASE i \in DOMAIN imports /\ imports[i].stored = imports[i].manifest
    <3>1. /\ imports'[i].manifest = imports[i].manifest
          /\ imports[i].stored \subseteq imports'[i].stored
      BY <2>2, ImportsStay
    <3>2. imports'[i].stored \subseteq imports'[i].manifest
      BY ContainedNext DEF Contained
    <3> QED BY <2>2, <3>1, <3>2
  <2>3. ASSUME i \in DOMAIN imports, NEW c \in Clients, work[c].step = "importing", work[c].import = i
        PROVE  \/ imports'[i].stored = imports'[i].manifest
               \/ \E d \in Clients : work'[d].step = "importing" /\ work'[d].import = i
    <3>1. CASE work'[c] = work[c]
      BY <2>3, <3>1
    <3>2. ASSUME NEW m \in work[c].mails, AddEmail(c, m)
          PROVE  \/ imports'[i].stored = imports'[i].manifest
                 \/ \E d \in Clients : work'[d].step = "importing" /\ work'[d].import = i
      BY <2>3, <3>2, AddEffect, OneMore
    <3>3. ~ Die(c)
      BY DieEffect DEF Orderly
    <3> QED BY <2>3, <3>1, <3>2, <3>3, Mover, ReadEffect, NumberEffect, FetchEffect, DemoEffect,
               NothingEffect, NewEffect, KnownEffect, AdvanceEffect, SyncWriteEffect, SyncAskEffect
  <2> QED BY <1>4, <2>1, <2>2, <2>3
<1> DEFINE Holds(d) ==
             /\ work'[d].step \in {"read", "numbered"} => work'[d].cursor = cursor'
             /\ work'[d].step \in {"fetched", "importing", "imported"} =>
                  \A u \in 1..work'[d].highest : KeepNext(u) \/ \E m \in work'[d].mails : m.uid = u
<1>9. ASSUME NEW d \in Clients PROVE Holds(d)
  <2>1. CASE work'[d].step \in {"idle", "syncing"}
    BY <2>1
  <2>2. CASE cursor' # cursor
    <3>1. work'[d].step = "idle"
      BY <2>2, OrderlyCursor
    <3> QED BY <3>1
  <2>3. CASE cursor' = cursor /\ work'[d] = work[d]
    <3> HIDE DEF Keep, KeepNext
    <3> QED BY <1>2, <1>5, <2>3 DEF Mailed
  <2>4. CASE RetrieveCursor(d)
    BY <2>4, ReadEffect
  <2>5. CASE RetrieveNumber(d)
    BY <1>5, <2>5, NumberEffect
  <2>6. CASE Fetch(d)
    <3>1. /\ work[d].step = "numbered" /\ work'[d].step = "fetched"
          /\ work[d].cursor \in Nat /\ work'[d].highest \in Nat
          /\ \A u \in 1..work'[d].highest :
               u <= work[d].cursor \/ u \in history'.unread \/ \E m \in work'[d].mails : m.uid = u
      BY <2>6, FetchEffect
    <3>2. \A u \in 1..work'[d].highest : u <= work[d].cursor => Keep(u)
      BY <1>3, <1>5, <3>1
    <3>3. \A u \in history'.unread : KeepNext(u)
      OBVIOUS
    <3> HIDE DEF Keep, KeepNext
    <3> QED BY <1>2, <3>1, <3>2, <3>3
  <2>7. CASE FetchDemo(d)
    <3>1. /\ work[d].step = "numbered" /\ work'[d].step = "fetched" /\ work[d].cursor \in Nat
          /\ work'[d].highest = work[d].cursor + 1
          /\ work[d].cursor + 1 \in history'.demo
      BY <2>7, DemoEffect
    <3>2. \A u \in 1..work'[d].highest : u \in 1..work[d].cursor \/ u = work[d].cursor + 1
      BY <3>1
    <3>3. \A u \in 1..work[d].cursor : Keep(u)
      BY <1>3, <1>5, <3>1
    <3>4. \A u \in history'.demo : KeepNext(u)
      OBVIOUS
    <3> HIDE DEF Keep, KeepNext
    <3> QED BY <1>2, <3>1, <3>2, <3>3, <3>4
  <2>8. CASE /\ work[d].step \in {"fetched", "importing"}
             /\ work'[d].step \in {"importing", "imported"}
             /\ work'[d].mails = work[d].mails /\ work'[d].highest = work[d].highest
    <3>1. \A u \in 1..work[d].highest : Keep(u) \/ \E m \in work[d].mails : m.uid = u
      BY <1>5, <2>8 DEF Mailed
    <3> HIDE DEF Keep, KeepNext
    <3> QED BY <1>2, <2>8, <3>1
  <2> HIDE DEF Holds
  <2> QED
    BY <2>1, <2>2, <2>3, <2>4, <2>5, <2>6, <2>7, <2>8, Mover, NothingEffect, NewEffect, KnownEffect,
       AddEffect, AdvanceEffect, DieEffect, SyncWriteEffect, SyncAskEffect
<1> QED BY <1>7, <1>8, <1>9 DEF Kept, Working, Mailed

LEMMA ApartNext ==
  ASSUME TypeOK, Contained, Linked, OneWorks, Forward, Kept, Apart, [Next]_vars
  PROVE  Apart'
<1> SUFFICES ASSUME Orderly' PROVE Apart'
  BY DEF Apart
<1>1. Orderly /\ history.serial
  BY MarksStay DEF Orderly
<1>2. /\ cursor \in Nat /\ cursor' \in Nat
      /\ \A c \in Clients : work[c].highest \in Nat
      /\ \A c \in Clients : \A m \in work[c].mails : m.uid \in Nat
      /\ \A i \in DOMAIN imports : \A m \in imports[i].stored : m.uid \in Nat
  <2>1. \A m \in Mail : m.uid \in Nat
    <3>1. \A u \in Uids \cup {Demo} : u \in Nat
      BY MailboxAssumption DEF Uids, Demo
    <3> QED BY <3>1 DEF Mail
  <2>2. /\ cursor \in Nat
        /\ \A c \in Clients : work[c].highest \in Nat /\ work[c].mails \subseteq Mail
        /\ \A i \in DOMAIN imports : imports[i].stored \subseteq Mail
    <3>1. /\ \A c \in Clients : work[c] \in Work
          /\ \A i \in DOMAIN imports : imports[i] \in Import
      BY DEF TypeOK
    <3>2. cursor \in Nat
      BY DEF TypeOK
    <3> QED BY <3>1, <3>2 DEF Work, Import
  <2>3. cursor' \in Nat
    BY TypeNext DEF TypeOK
  <2> QED BY <2>1, <2>2, <2>3
<1> DEFINE AtWork(c, i) == work[c].step \in {"importing", "imported"} /\ work[c].import = i
<1>3. \A i \in DOMAIN imports : Old(i) \/ \E c \in Clients : AtWork(c, i)
  BY <1>1 DEF Apart, Working
<1>4. \A c \in Clients : work[c].step \in {"fetched", "importing", "imported"} => Fresh(c)
  BY <1>1 DEF Apart, Working
<1>5. \A i, j \in DOMAIN imports : i # j =>
        \A m \in imports[i].stored, k \in imports[j].stored : m.uid = k.uid => m.uid = Demo
  BY <1>1 DEF Apart, OneImportPerMessage, Orderly
\* The mail that is added is of no other import.
<1>6. ASSUME NEW c \in Clients, NEW e \in work[c].mails, AddEmail(c, e),
             NEW j \in DOMAIN imports, j # work[c].import, NEW k \in imports[j].stored
      PROVE  k.uid = e.uid => e.uid = Demo
  <2>1. work[c].step = "importing"
    BY <1>6, AddEffect
  <2>2. ~ \E d \in Clients : AtWork(d, j)
    BY <1>1, <1>6, <2>1 DEF OneWorks
  <2>3. k.uid <= cursor
    BY <1>3, <2>2 DEF Old
  <2>4. e.uid = Demo \/ cursor < e.uid
    BY <1>4, <2>1 DEF Fresh
  <2> QED BY <1>2, <2>3, <2>4
<1>7. OneImportPerMessage'
  <2> SUFFICES ASSUME NEW i \in DOMAIN imports', NEW j \in DOMAIN imports', i # j,
                      NEW m \in imports'[i].stored, NEW k \in imports'[j].stored, m.uid = k.uid
               PROVE  m.uid = Demo
    BY DEF OneImportPerMessage
  <2>1. CASE imports' = imports
    BY <1>5, <2>1
  <2>2. ASSUME NEW c \in Clients, ImportNew(c) PROVE m.uid = Demo
    <3>1. i \in DOMAIN imports /\ j \in DOMAIN imports /\ imports'[i] = imports[i] /\ imports'[j] = imports[j]
      BY <2>2, NewImport
    <3> QED BY <1>5, <3>1
  <2>3. ASSUME NEW c \in Clients, NEW e \in work[c].mails, AddEmail(c, e) PROVE m.uid = Demo
    <3> DEFINE n == work[c].import
    <3>1. /\ DOMAIN imports' = DOMAIN imports
          /\ \A x \in DOMAIN imports : x # n => imports'[x] = imports[x]
          /\ imports'[n].stored = imports[n].stored \cup {e}
      BY <2>3, OneMore
    <3>2. \A x \in DOMAIN imports : x # n =>
            \A y \in imports[x].stored : y.uid = e.uid => e.uid = Demo
      BY <1>6, <2>3
    <3>3. i \in DOMAIN imports /\ j \in DOMAIN imports
      BY <3>1
    <3> HIDE DEF n
    <3>4. CASE i = n /\ m = e
      BY <3>1, <3>2, <3>3, <3>4
    <3>5. CASE j = n /\ k = e
      BY <3>1, <3>2, <3>3, <3>5
    <3>6. CASE m \in imports[i].stored /\ k \in imports[j].stored
      BY <1>5, <3>3, <3>6
    <3> QED BY <3>1, <3>3, <3>4, <3>5, <3>6
  <2> QED BY <2>1, <2>2, <2>3, ImportsChange
<1> DEFINE OldNext(i) == \A m \in imports'[i].stored : m.uid <= cursor'
           AtWorkNext(i) == \E c \in Clients :
             work'[c].step \in {"importing", "imported"} /\ work'[c].import = i
\* A client that imports goes on, or moves the cursor past its mails.
<1>8. ASSUME NEW i \in DOMAIN imports, NEW c \in Clients, AtWork(c, i) PROVE OldNext(i) \/ AtWorkNext(i)
  <2>1. CASE work'[c] = work[c]
    BY <1>8, <2>1
  <2>2. ASSUME NEW m \in work[c].mails, AddEmail(c, m) PROVE AtWorkNext(i)
    BY <1>8, <2>2, AddEffect
  <2>3. CASE Advance(c)
    <3>1. work[c].step = "imported" /\ cursor' = work[c].highest /\ imports' = imports
      BY <2>3, AdvanceEffect
    <3>2. imports[i].stored \subseteq work[c].mails
      BY <1>8 DEF Contained, Linked, Working
    <3>3. \A m \in work[c].mails : m.uid <= cursor'
      BY <1>2, <1>4, <3>1 DEF Fresh, Demo
    <3> QED BY <3>1, <3>2, <3>3
  <2>4. ~ Die(c)
    BY DieEffect DEF Orderly
  <2> HIDE DEF OldNext, AtWorkNext
  <2> QED BY <1>8, <2>1, <2>2, <2>3, <2>4, Mover, ReadEffect, NumberEffect, FetchEffect, DemoEffect,
             NothingEffect, NewEffect, KnownEffect, SyncWriteEffect, SyncAskEffect
<1>9. cursor <= cursor'
  <2>1. CASE cursor' = cursor
    BY <1>2, <2>1
  <2>2. CASE cursor' # cursor
    <3>1. PICK c \in Clients : RetrieveNothing(c) \/ Advance(c)
      BY <2>2, OrderlyCursor
    <3>2. work[c].step \in {"fetched", "imported"} /\ cursor' = work[c].highest
      BY <3>1, NothingEffect, AdvanceEffect
    <3> QED BY <1>1, <3>2 DEF Forward, Working
  <2> QED BY <2>1, <2>2
<1>10. ASSUME NEW i \in DOMAIN imports' PROVE OldNext(i) \/ AtWorkNext(i)
  <2>1. CASE i \notin DOMAIN imports
    <3>1. PICK c \in Clients : ImportNew(c)
      BY <2>1, ImportsChange, OneMore
    <3> QED BY <2>1, <3>1, NewImport, NewEffect
  <2>2. CASE i \in DOMAIN imports /\ Old(i) /\ imports'[i] = imports[i]
    <3>1. \A m \in imports[i].stored : m.uid <= cursor'
      BY <1>2, <1>9, <2>2 DEF Old
    <3> QED BY <2>2, <3>1
  <2>3. CASE i \in DOMAIN imports /\ imports'[i] # imports[i]
    <3>1. PICK c \in Clients : \E m \in work[c].mails : AddEmail(c, m)
      BY <2>3, ImportsChange, NewImport
    <3>2. AtWork(c, i)
      BY <2>3, <3>1, OneMore, AddEffect
    <3> QED BY <1>8, <2>3, <3>2
  <2>4. ASSUME i \in DOMAIN imports, NEW c \in Clients, AtWork(c, i) PROVE OldNext(i) \/ AtWorkNext(i)
    BY <1>8, <2>4
  <2> QED BY <1>3, <2>1, <2>2, <2>3, <2>4
<1> DEFINE FreshNext(d) == work'[d].step \in {"fetched", "importing", "imported"} =>
             \A m \in work'[d].mails : m.uid = Demo \/ (cursor' < m.uid /\ m.uid <= work'[d].highest)
<1>11. ASSUME NEW d \in Clients PROVE FreshNext(d)
  <2>1. CASE work'[d].step \in {"idle", "read", "numbered", "syncing"}
    BY <2>1
  <2>2. CASE cursor' # cursor
    <3>1. work'[d].step = "idle"
      BY <2>2, OrderlyCursor
    <3> QED BY <3>1
  <2>3. CASE cursor' = cursor /\ work'[d] = work[d]
    BY <1>4, <2>3 DEF Fresh
  <2>4. CASE Fetch(d)
    <3>1. work[d].step = "numbered" /\ work[d].cursor = cursor
      BY <1>1, <2>4, FetchEffect DEF Kept, Working
    <3> QED BY <2>4, <3>1, FetchEffect
  <2>5. CASE FetchDemo(d)
    BY <2>5, DemoEffect
  <2>6. CASE /\ work[d].step \in {"fetched", "importing"} /\ cursor' = cursor
             /\ work'[d].mails = work[d].mails /\ work'[d].highest = work[d].highest
    BY <1>4, <2>6 DEF Fresh
  <2> HIDE DEF FreshNext
  <2> QED
    BY <2>1, <2>2, <2>3, <2>4, <2>5, <2>6, Mover, ReadEffect, NumberEffect, NothingEffect, NewEffect,
       KnownEffect, AddEffect, AdvanceEffect, DieEffect, SyncWriteEffect, SyncAskEffect
<1> QED BY <1>7, <1>10, <1>11 DEF Apart, Working, Old, Fresh

-----------------------------------------------------------------------------
(* The order in which mails are numbered and stored.                       *)

LEMMA NumbersStay ==
  ASSUME TypeOK, Linked, [Next]_vars
  PROVE  Numbers \subseteq Numbers'
BY ImportsStay DEF Numbers

\* Mail that was on the server stays there.
LEMMA ArrivedStays ==
  ASSUME TypeOK, [Next]_vars
  PROVE  arrived \in Nat /\ arrived' \in Nat /\ arrived <= arrived'
<1>1. arrived \in Nat
  BY MailboxAssumption DEF TypeOK
<1>2. arrived' = arrived \/ arrived' = arrived + 1
  BY DEF Next, vars, Retrieve, Arrive, RetrieveCursor, RetrieveNumber, Fetch, FetchDemo, RetrieveNothing,
     ImportNew, ImportKnown, AddEmail, Advance, Die, SyncWrite, SyncAsk, Reset
<1> QED BY <1>1, <1>2

LEMMA SerriedNext ==
  ASSUME TypeOK, Contained, Linked, Serried, [Next]_vars
  PROVE  Serried'
<1>1. ASSUME NEW S, OnServer(S) PROVE OnServer(S)'
  BY <1>1, ArrivedStays DEF OnServer
<1> DEFINE Holds(d) ==
             /\ work'[d].step \in {"numbered", "fetched", "importing"} =>
                  work'[d].start \in Numbers' \cup {0}
             /\ work'[d].step \in {"fetched", "importing"} =>
                  /\ Series(work'[d].mails, work'[d].start)
                  /\ \A m \in work'[d].mails : m.uid = Demo \/ m.uid \in 1..arrived'
<1>2. ASSUME NEW d \in Clients PROVE Holds(d)
  <2>1. CASE work'[d].step \notin {"numbered", "fetched", "importing"}
    BY <2>1
  <2>2. CASE /\ work[d].step \in {"fetched", "importing"}
             /\ work'[d].step \in {"fetched", "importing"}
             /\ work'[d].mails = work[d].mails /\ work'[d].start = work[d].start
    <3>1. /\ work[d].start \in Numbers \cup {0}
          /\ Series(work[d].mails, work[d].start) /\ OnServer(work[d].mails)
      BY <2>2 DEF Serried, Working
    <3>2. \A m \in work[d].mails : m.uid = Demo \/ m.uid \in 1..arrived'
      BY <3>1, ArrivedStays DEF OnServer
    <3> QED BY <2>2, <3>1, <3>2, NumbersStay
  <2>3. CASE work[d].step = "numbered" /\ work'[d] = work[d]
    BY <2>3, NumbersStay DEF Serried, Working
  <2>4. CASE RetrieveNumber(d)
    BY <2>4, NumberEffect, NumbersStay
  <2>5. CASE Fetch(d) \/ FetchDemo(d)
    <3>1. /\ work[d].step = "numbered" /\ work'[d].start = work[d].start /\ arrived' = arrived
          /\ Series(work'[d].mails, work[d].start) /\ OnServer(work'[d].mails)
      BY <2>5, FetchEffect, DemoEffect
    <3>2. work[d].start \in Numbers \cup {0}
      BY <3>1 DEF Serried, Working
    <3> QED BY <3>1, <3>2, NumbersStay DEF OnServer
  <2>6. CASE work'[d] = work[d]
    BY <2>1, <2>2, <2>3, <2>6
  <2> HIDE DEF Holds
  <2> QED
    BY <2>1, <2>2, <2>4, <2>5, <2>6, Mover, ReadEffect, NothingEffect, NewEffect, KnownEffect,
       AddEffect, AdvanceEffect, DieEffect, SyncWriteEffect, SyncAskEffect
<1> QED BY <1>2 DEF Serried, Working, OnServer

LEMMA ConsecutiveNext ==
  ASSUME TypeOK, Contained, Linked, OneWorks, Serried, Consecutive, [Next]_vars
  PROVE  Consecutive'
<1> SUFFICES ASSUME history'.serial PROVE Consecutive'
  BY DEF Consecutive
<1>1. history.serial
  BY MarksStay
<1> DEFINE Under(d, i) == \A k \in imports'[i].stored : k.number <= work'[d].start
           Turn(d) == \A k \in imports'[work'[d].import].stored,
                         m \in work'[d].mails \ imports'[work'[d].import].stored : k.number < m.number
           Holds(d) ==
             /\ work'[d].step \in {"numbered", "fetched"} => \A i \in DOMAIN imports' : Under(d, i)
             /\ work'[d].step = "importing" =>
                  Turn(d) /\ \A i \in DOMAIN imports' \ {work'[d].import} : Under(d, i)
<1>2. ASSUME NEW d \in Clients PROVE Holds(d)
  <2>1. CASE work'[d].step \notin {"numbered", "fetched", "importing"}
    BY <2>1
  <2>2. CASE work'[d] = work[d] /\ imports' = imports
    BY <1>1, <2>2 DEF Consecutive, Working, Below, InTurn
  <2>3. CASE RetrieveNumber(d)
    <3>1. /\ work'[d].step = "numbered" /\ imports' = imports
          /\ \A k \in Numbers : k <= work'[d].start
      BY <2>3, NumberEffect
    <3>2. \A i \in DOMAIN imports : \A k \in imports[i].stored : k.number \in Numbers
      BY DEF Numbers
    <3> QED BY <3>1, <3>2
  <2>4. CASE Fetch(d) \/ FetchDemo(d)
    <3>1. /\ work[d].step = "numbered" /\ work'[d].step = "fetched"
          /\ work'[d].start = work[d].start /\ imports' = imports
      BY <2>4, FetchEffect, DemoEffect
    <3>2. \A i \in DOMAIN imports : Below(d, i)
      BY <1>1, <3>1 DEF Consecutive, Working
    <3> QED BY <3>1, <3>2 DEF Below
  <2>5. CASE ImportNew(d)
    <3>1. /\ work[d].step = "fetched" /\ work'[d].step = "importing" /\ work'[d].start = work[d].start
          /\ imports'[work'[d].import].stored = {}
          /\ \A i \in DOMAIN imports' \ {work'[d].import} : i \in DOMAIN imports /\ imports'[i] = imports[i]
      BY <2>5, NewImport, NewEffect
    <3>2. \A i \in DOMAIN imports : Below(d, i)
      BY <1>1, <3>1 DEF Consecutive, Working
    <3> QED BY <3>1, <3>2 DEF Below
  <2>6. ASSUME NEW e \in work[d].mails, AddEmail(d, e) PROVE Holds(d)
    <3> DEFINE n == work[d].import
    <3>1. /\ n \in DOMAIN imports /\ DOMAIN imports' = DOMAIN imports /\ work[d].step = "importing"
          /\ \A i \in DOMAIN imports : i # n => imports'[i] = imports[i]
          /\ imports'[n].stored = imports[n].stored \cup {e}
          /\ work'[d].import = n /\ work'[d].mails = work[d].mails
          /\ work'[d].start = work[d].start /\ work'[d].step \in {"importing", "imported"}
      BY <2>6, OneMore, AddEffect
    <3>2. InTurn(d) /\ \A i \in DOMAIN imports \ {n} : Below(d, i)
      BY <1>1, <3>1 DEF Consecutive, Working
    <3>3. ASSUME NEW m \in work[d].mails \ imports[n].stored, m # e PROVE e.number < m.number
      <4>1. e.number <= m.number
        BY <3>3, <2>6 DEF AddEmail
      <4>2. e.number # m.number
        BY <3>1, <3>3 DEF Serried, Working, Series
      <4>3. e.number \in Nat /\ m.number \in Nat
        BY <3>3 DEF TypeOK, Work, Mail
      <4> QED BY <4>1, <4>2, <4>3
    <3>4. Turn(d)
      <4> HIDE DEF n
      <4>1. \A k \in imports[n].stored, m \in work[d].mails \ imports[n].stored : k.number < m.number
        BY <3>2 DEF InTurn, n
      <4> QED BY <3>1, <3>3, <4>1
    <3>5. \A i \in DOMAIN imports' \ {n} : Under(d, i)
      BY <3>1, <3>2 DEF Below
    <3> QED BY <3>1, <3>4, <3>5
  <2>7. CASE work'[d] = work[d] /\ imports' # imports
    <3>1. PICK c \in Clients : ImportNew(c) \/ \E m \in work[c].mails : AddEmail(c, m)
      BY <2>7, ImportsChange
    <3>2. CASE c = d
      BY <2>5, <2>6, <3>1, <3>2
    <3>3. CASE c # d
      <4>1. work[c].step # "idle"
        BY <3>1, NewEffect, AddEffect
      <4>2. work[d].step = "idle"
        BY <1>1, <3>3, <4>1 DEF OneWorks
      <4> QED BY <2>7, <4>2
    <3> QED BY <3>2, <3>3
  <2> HIDE DEF Holds
  <2> QED
    BY <2>1, <2>2, <2>3, <2>4, <2>5, <2>6, <2>7, Mover, ReadEffect, NothingEffect, KnownEffect,
       AdvanceEffect, DieEffect, SyncWriteEffect, SyncAskEffect
<1> QED BY <1>2 DEF Consecutive, Working, Below, InTurn

-----------------------------------------------------------------------------
(* The theorems.                                                           *)

LEMMA InvNext == IInv /\ [Next]_vars => IInv'
BY TypeNext, ContainedNext, LinkedNext, TracedNext, OneWorksNext, ForwardNext, NumberedNext,
   KeptNext, ApartNext, SerriedNext, ConsecutiveNext DEF IInv

THEOREM Invariance == Spec => []IInv
<1>1. Init => IInv
  BY InitInv
<1> QED BY <1>1, InvNext, PTL DEF Spec

\* The cursor, the imports and what each client carries keep their types, whatever
\* retrievals, operators and crashes do.
THEOREM TypeCorrect == Spec => []TypeOK
<1>1. IInv => TypeOK
  BY DEF IInv
<1> QED BY <1>1, Invariance, PTL

\* The cursor of a connection passes no uid without a trace: it is in the manifest of an
\* import, its FETCH failed, or a demo message or an operator took its place.
THEOREM NothingPassesUnseen == Spec => []PassedHasTrace
<1>1. IInv => PassedHasTrace
  BY DEF IInv, Traced
<1> QED BY <1>1, Invariance, PTL

\* Of retrievals that come one at a time, a display number names one mail over all
\* imports of the inbox.
THEOREM NumbersNameOneMail == Spec => []OneMailPerNumber
<1>1. IInv => OneMailPerNumber
  BY DEF IInv, Numbered
<1> QED BY <1>1, Invariance, PTL

\* Retrievals that come one at a time and of which none died store all fetched mail
\* below the cursor.
THEOREM FetchedMailIsStored == Spec => []PassedIsStored
<1>1. IInv => PassedIsStored
  BY DEF IInv, Kept, PassedIsStored, Orderly
<1> QED BY <1>1, Invariance, PTL

\* They store each message in one import.
THEOREM NoMessageTwice == Spec => []OneImportPerMessage
<1>1. IInv => OneImportPerMessage
  BY DEF IInv, Apart, OneImportPerMessage, Orderly
<1> QED BY <1>1, Invariance, PTL

\* A retrieval that ends while no other was under way never moves the cursor back.
THEOREM CursorMovesForward == Spec => RetrievalMovesForward
<1> DEFINE A == history.serial => \A c \in Clients :
                  RetrieveNothing(c) \/ Advance(c) => cursor' >= cursor
<1>1. IInv /\ [Next]_vars => [A]_vars
  <2> SUFFICES ASSUME IInv, history.serial, NEW c \in Clients, RetrieveNothing(c) \/ Advance(c)
               PROVE  cursor' >= cursor
    OBVIOUS
  <2>1. TypeOK /\ Forward
    BY DEF IInv
  <2>2. work[c].step \in {"fetched", "imported"} /\ cursor' = work[c].highest
    BY <2>1, NothingEffect, AdvanceEffect
  <2> QED BY <2>1, <2>2 DEF Forward, Working
<1>2. [][A]_vars => RetrievalMovesForward
  BY DEF RetrievalMovesForward
<1> QED BY <1>1, <1>2, Invariance, PTL DEF Spec

-----------------------------------------------------------------------------
(* The mailbox implements the contract of MailboxContract.                 *)

Entry(i, m) == [import |-> i, uid |-> m.uid, number |-> m.number, document |-> m.document]

LEMMA IsDelivered ==
  /\ \A i \in DOMAIN imports : \A m \in imports[i].stored : Entry(i, m) \in Delivered
  /\ \A e \in Delivered : \E i \in DOMAIN imports : \E m \in imports[i].stored : e = Entry(i, m)
BY DEF Delivered, Entry

\* What is delivered changes only with the imports.
LEMMA SameDelivered == imports' = imports => Delivered' = Delivered
BY DEF Delivered

LEMMA AddDelivers ==
  ASSUME TypeOK, Linked, NEW c \in Clients, NEW m \in work[c].mails, AddEmail(c, m)
  PROVE  Delivered' = Delivered \cup {Entry(work[c].import, m)}
<1> DEFINE n == work[c].import
<1>1. /\ n \in DOMAIN imports /\ DOMAIN imports' = DOMAIN imports
      /\ \A i \in DOMAIN imports : i # n => imports'[i] = imports[i]
      /\ imports'[n].stored = imports[n].stored \cup {m}
  BY OneMore
<1>2. /\ \A i \in DOMAIN imports' : \A k \in imports'[i].stored : Entry(i, k) \in Delivered'
      /\ \A e \in Delivered' : \E i \in DOMAIN imports' : \E k \in imports'[i].stored : e = Entry(i, k)
  BY DEF Delivered, Entry
<1> HIDE DEF n
<1>3. ASSUME NEW e \in Delivered' PROVE e \in Delivered \cup {Entry(n, m)}
  <2>1. PICK i \in DOMAIN imports' : \E k \in imports'[i].stored : e = Entry(i, k)
    BY <1>2
  <2>2. PICK k \in imports'[i].stored : e = Entry(i, k)
    BY <2>1
  <2>3. CASE k \in imports[i].stored
    BY <1>1, <2>2, <2>3, IsDelivered
  <2>4. CASE i = n /\ k = m
    BY <2>2, <2>4
  <2> QED BY <1>1, <2>2, <2>3, <2>4
<1>4. ASSUME NEW e \in Delivered PROVE e \in Delivered'
  <2>1. PICK i \in DOMAIN imports : \E k \in imports[i].stored : e = Entry(i, k)
    BY IsDelivered
  <2>2. PICK k \in imports[i].stored : e = Entry(i, k)
    BY <2>1
  <2>3. i \in DOMAIN imports' /\ k \in imports'[i].stored
    BY <1>1, <2>2
  <2> QED BY <1>2, <2>2, <2>3
<1>5. Entry(n, m) \in Delivered'
  BY <1>1, <1>2
<1> QED BY <1>3, <1>4, <1>5 DEF n

LEMMA NewDelivers ==
  ASSUME TypeOK, NEW c \in Clients, ImportNew(c)
  PROVE  Delivered' = Delivered
<1> DEFINE n == Len(imports) + 1
<1>1. /\ DOMAIN imports' = DOMAIN imports \cup {n}
      /\ \A i \in DOMAIN imports : imports'[i] = imports[i]
      /\ imports'[n].stored = {}
  BY NewImport
<1>2. /\ \A i \in DOMAIN imports' : \A k \in imports'[i].stored : Entry(i, k) \in Delivered'
      /\ \A e \in Delivered' : \E i \in DOMAIN imports' : \E k \in imports'[i].stored : e = Entry(i, k)
  BY DEF Delivered, Entry
<1> HIDE DEF n
<1>3. \A e \in Delivered' : e \in Delivered
  BY <1>1, <1>2, IsDelivered
<1>4. \A e \in Delivered : e \in Delivered'
  BY <1>1, <1>2, IsDelivered
<1> QED BY <1>3, <1>4

\* Only the import of a mail changes what is delivered, and by one case.
LEMMA DeliveredGrows ==
  ASSUME TypeOK, Linked, [Next]_vars
  PROVE  Delivered \subseteq Delivered'
<1>1. CASE imports' = imports
  BY <1>1, SameDelivered
<1> QED BY <1>1, ImportsChange, NewDelivers, AddDelivers

\* A client that imports stores its mails in the order of the contract: without a gap in
\* the numbers and after all that arrived before.
LEMMA ImportsDeliver ==
  ASSUME IInv, history.serial, NEW c \in Clients, NEW e \in work[c].mails, AddEmail(c, e)
  PROVE  Contract!Deliver
<1> DEFINE n == work[c].import
           entry == Entry(n, e)
<1>1. TypeOK /\ Linked /\ Contained
  BY DEF IInv
<1>2. /\ work[c].step = "importing"
      /\ UNCHANGED <<arrived, cursor, history>>
  BY <1>1, AddEffect
<1>3. n \in DOMAIN imports /\ imports[n].stored \subseteq work[c].mails /\ e \notin imports[n].stored
  BY <1>1, <1>2 DEF Linked, Contained, Working, AddEmail
<1>4. /\ InTurn(c)
      /\ \A i \in DOMAIN imports \ {n} : Below(c, i)
      /\ work[c].start \in Numbers \cup {0}
      /\ Series(work[c].mails, work[c].start) /\ OnServer(work[c].mails)
  BY <1>2 DEF IInv, Serried, Consecutive, Working
<1>5. /\ work[c].start \in Nat /\ cursor \in Nat
      /\ \A m \in work[c].mails : m.number \in Nat /\ m.uid \in Nat
      /\ \A i \in DOMAIN imports : \A m \in imports[i].stored : m.number \in Nat /\ m.uid \in Nat
  <2>1. \A m \in Mail : m.number \in Nat /\ m.uid \in Nat
    <3>1. \A u \in Uids \cup {Demo} : u \in Nat
      BY MailboxAssumption DEF Uids, Demo
    <3> QED BY <3>1 DEF Mail
  <2>2. work[c] \in Work /\ cursor \in Nat /\ \A i \in DOMAIN imports : imports[i] \in Import
    BY <1>1 DEF TypeOK
  <2>3. /\ work[c].start \in Nat /\ work[c].mails \subseteq Mail
        /\ \A i \in DOMAIN imports : imports[i].stored \subseteq Mail
    BY <2>2 DEF Work, Import
  <2> QED BY <2>1, <2>2, <2>3
<1>6. /\ entry.number = e.number /\ entry.uid = e.uid
      /\ Delivered' = Delivered \cup {entry}
  BY <1>1, AddDelivers DEF Entry
<1>7. ASSUME NEW i \in DOMAIN imports, NEW m \in imports[i].stored PROVE m.number < e.number
  <2>1. CASE i = n
    BY <1>3, <1>4, <2>1 DEF InTurn
  <2>2. CASE i # n
    <3>1. m.number <= work[c].start /\ work[c].start < e.number
      BY <1>4, <2>2 DEF Below, Series
    <3> QED BY <1>5, <3>1
  <2> QED BY <2>1, <2>2
<1>8. \A d \in Delivered : \E i \in DOMAIN imports : \E m \in imports[i].stored :
        d.number = m.number /\ d.uid = m.uid /\ d = Entry(i, m)
  BY IsDelivered DEF Entry
<1>9. \A d \in Delivered : d.number < e.number
  BY <1>7, <1>8
<1>10. e.number = 1 \/ \E d \in Delivered : d.number + 1 = e.number
  <2>1. CASE e.number = work[c].start + 1
    <3>1. CASE work[c].start = 0
      BY <2>1, <3>1
    <3>2. CASE work[c].start \in Numbers
      <4>1. PICK i \in DOMAIN imports : \E m \in imports[i].stored : m.number = work[c].start
        BY <3>2 DEF Numbers
      <4>2. PICK m \in imports[i].stored : m.number = work[c].start
        BY <4>1
      <4>3. Entry(i, m) \in Delivered /\ Entry(i, m).number = m.number
        BY IsDelivered DEF Entry
      <4> QED BY <2>1, <4>2, <4>3
    <3> QED BY <1>4, <3>1, <3>2
  <2>2. ASSUME NEW k \in work[c].mails, k.number + 1 = e.number
        PROVE  \E d \in Delivered : d.number + 1 = e.number
    <3>1. k \in imports[n].stored
      <4> SUFFICES ASSUME k \notin imports[n].stored PROVE FALSE
        OBVIOUS
      <4>1. e.number <= k.number
        BY DEF AddEmail
      <4> QED BY <1>5, <2>2, <4>1
    <3>2. Entry(n, k) \in Delivered /\ Entry(n, k).number = k.number
      BY <1>3, <3>1, IsDelivered DEF Entry
    <3> QED BY <2>2, <3>2
  <2> QED BY <1>4, <2>1, <2>2 DEF Series
<1>11. Contract!IsNext(e.number)
  <2>1. e.number > 0
    BY <1>4, <1>5 DEF Series
  <2> QED BY <1>9, <1>10, <2>1 DEF Contract!IsNext
<1>12. ASSUME history.calm, e.uid # Demo PROVE e.uid > cursor /\ \A d \in Delivered : d.uid < e.uid
  <2>1. Orderly
    BY <1>12 DEF Orderly
  <2>2. Fresh(c) /\ \A i \in DOMAIN imports :
          Old(i) \/ \E d \in Clients : Working(d, {"importing", "imported"}) /\ work[d].import = i
    BY <1>2, <2>1 DEF IInv, Apart, Working
  <2>3. cursor < e.uid
    BY <1>12, <2>2 DEF Fresh
  <2>4. \A d \in Clients : d # c => work[d].step = "idle"
    BY <1>2 DEF IInv, OneWorks
  <2>5. ASSUME NEW i \in DOMAIN imports, NEW m \in imports[i].stored PROVE m.uid < e.uid
    <3>1. CASE i = n
      <4>1. m \in work[c].mails /\ m.number < e.number
        BY <1>3, <1>7, <3>1
      <4> QED BY <1>4, <4>1 DEF Series
    <3>2. CASE i # n
      <4>1. Old(i)
        BY <2>2, <2>4, <3>2 DEF Working
      <4>2. m.uid <= cursor
        BY <4>1 DEF Old
      <4> QED BY <1>5, <2>3, <4>2
    <3> QED BY <3>1, <3>2
  <2>6. \A d \in Delivered : d.uid < e.uid
    BY <1>8, <2>5
  <2> QED BY <1>5, <2>3, <2>6
<1>13. e.uid # Demo => e.uid \in 1..arrived
  BY <1>4 DEF OnServer
<1> HIDE DEF entry
<1>14. /\ entry \in Delivered' /\ Delivered' = Delivered \cup {entry}
       /\ Contract!IsNext(entry.number)
       /\ entry.uid # Demo =>
            /\ entry.uid \in 1..arrived
            /\ history.calm => entry.uid > cursor /\ \A d \in Delivered : d.uid < entry.uid
  BY <1>6, <1>11, <1>12, <1>13
<1> QED BY <1>2, <1>14, Zenon DEF Contract!Deliver

\* A fetch passes over messages that lie above the cursor, wherever that is by now.
LEMMA FetchesMiss ==
  ASSUME IInv, history.serial, NEW c \in Clients, Fetch(c) \/ FetchDemo(c)
  PROVE  Contract!Miss
<1> DEFINE missed == history.unread \cup history.demo
<1>1. TypeOK /\ cursor \in Nat
  BY DEF IInv, TypeOK
<1>2. /\ work[c].step = "numbered" /\ work[c].cursor \in Nat
      /\ cursor' = cursor /\ imports' = imports /\ arrived' = arrived /\ SameOrder
  BY <1>1, FetchEffect, DemoEffect
<1>3. cursor <= work[c].cursor
  BY <1>2 DEF IInv, Forward, Working
<1>4. /\ missed \subseteq missed'
      /\ \A u \in missed' \ missed : u > work[c].cursor
      /\ \A u \in missed' : u \in Nat
  <2>1. \A u \in missed' : u \in Nat
    <3>1. HistoryTyped
      BY <1>1, FetchEffect, DemoEffect
    <3> QED BY <3>1 DEF HistoryTyped
  <2>2. CASE Fetch(c)
    <3>1. /\ history.unread \subseteq history'.unread /\ history'.demo = history.demo
          /\ \A u \in history'.unread \ history.unread : work[c].cursor < u
      BY <1>1, <2>2, FetchEffect
    <3> QED BY <1>2, <2>1, <3>1
  <2>3. CASE FetchDemo(c)
    <3>1. history'.unread = history.unread /\ history'.demo = history.demo \cup {work[c].cursor + 1}
      BY <1>1, <2>3, DemoEffect
    <3>2. work[c].cursor + 1 > work[c].cursor
      BY <1>2
    <3> QED BY <2>1, <3>1, <3>2
  <2> QED BY <2>2, <2>3
<1>5. \A u \in missed' \ missed : u > cursor
  <2> HIDE DEF missed
  <2> QED BY <1>1, <1>2, <1>3, <1>4
<1>6. Delivered' = Delivered
  BY <1>2, SameDelivered
<1> QED BY <1>2, <1>4, <1>5, <1>6 DEF Contract!Miss, SameOrder

\* A retrieval that ends has passed only what was missed or is delivered.
LEMMA EndsPass ==
  ASSUME IInv, history.serial, NEW c \in Clients, RetrieveNothing(c) \/ Advance(c)
  PROVE  Contract!Pass \/ UNCHANGED Contract!vars
<1>1. TypeOK /\ cursor \in Nat
  BY DEF IInv, TypeOK
<1>2. [Next]_vars
  BY DEF Next, Retrieve
<1>3. /\ work[c].step \in {"fetched", "imported"}
      /\ cursor' = work[c].highest /\ cursor' \in Nat
      /\ imports' = imports /\ UNCHANGED <<arrived, history>>
  BY <1>1, NothingEffect, AdvanceEffect
<1>4. cursor <= cursor'
  BY <1>3 DEF IInv, Forward, Working
<1>5. Delivered' = Delivered
  BY <1>3, SameDelivered
<1>6. CASE cursor' = cursor
  BY <1>3, <1>5, <1>6 DEF Contract!vars
<1>7. CASE cursor' # cursor
  <2>1. ASSUME history.calm
        PROVE  /\ \A u \in 1..cursor' :
                    u \in history.unread \cup history.demo \/ \E e \in Delivered : e.uid = u
               /\ \A e \in Delivered : e.uid <= cursor'
    <3>1. Orderly'
      BY <1>3, <2>1 DEF Orderly
    <3>2. PassedIsStored' /\ Apart'
      BY <1>2, InvNext, <3>1 DEF IInv, Kept, Orderly
    <3>3. \A u \in 1..cursor' : u \in history.unread \cup history.demo \/ Stored(u)
      BY <1>3, <3>1, <3>2 DEF PassedIsStored, Orderly, Stored
    <3>4. \A u : Stored(u) => \E e \in Delivered : e.uid = u
      <4>1. ASSUME NEW i \in DOMAIN imports, NEW m \in imports[i].stored
            PROVE  Entry(i, m) \in Delivered /\ Entry(i, m).uid = m.uid
        BY IsDelivered DEF Entry
      <4> QED BY <4>1 DEF Stored
    <3>5. \A d \in Clients : work'[d].step = "idle"
      BY <1>1, <1>2, <1>7, <3>1, OrderlyCursor DEF IInv
    <3>6. \A i \in DOMAIN imports' : \A m \in imports'[i].stored : m.uid <= cursor'
      <4>1. \A i \in DOMAIN imports' : Old(i)'
        BY <3>1, <3>2, <3>5 DEF Apart, Working
      <4> QED BY <4>1 DEF Old
    <3>7. \A e \in Delivered : e.uid <= cursor'
      BY <1>3, <3>6, IsDelivered DEF Entry
    <3> QED BY <3>3, <3>4, <3>7
  <2>2. cursor' > cursor
    BY <1>1, <1>3, <1>4, <1>7
  <2> QED BY <1>3, <1>5, <2>1, <2>2 DEF Contract!Pass
<1> QED BY <1>6, <1>7

LEMMA ServesAndAsks ==
  ASSUME IInv, history.serial, history'.serial = history.serial, NEW c \in Clients,
         RetrieveCursor(c) \/ \E keep \in 0..MaxUid : SyncAsk(c, keep)
  PROVE  UNCHANGED Contract!vars
<1>1. TypeOK
  BY DEF IInv
<1>2. /\ cursor' = cursor /\ imports' = imports /\ arrived' = arrived
      /\ SameMarks /\ history'.calm = history.calm
  BY <1>1, ReadEffect, SyncAskEffect
<1> QED BY <1>2, SameDelivered DEF Contract!vars, SameMarks

LEMMA Disturbs ==
  ASSUME IInv, Reset \/ \E c \in Clients : Die(c) \/ SyncWrite(c)
  PROVE  Contract!Disturb
<1>1. TypeOK /\ cursor \in Nat
  BY DEF IInv, TypeOK
<1>2. /\ cursor' \in Nat /\ imports' = imports /\ arrived' = arrived
      /\ history'.unread = history.unread /\ history'.demo = history.demo
      /\ history'.calm = FALSE /\ history'.serial = history.serial
  <2>1. CASE Reset
    <3>1. cursor' = 0 /\ imports' = imports /\ arrived' = arrived
      BY <1>1, <2>1, ResetEffect
    <3>2. cursor' \in Nat
      BY <3>1
    <3>3. SameMarks /\ history'.calm = FALSE /\ history'.serial = history.serial
      BY <1>1, <2>1, ResetEffect
    <3> QED BY <3>1, <3>2, <3>3 DEF SameMarks
  <2>2. ASSUME NEW c \in Clients, Die(c)
        PROVE  /\ cursor' = cursor /\ imports' = imports /\ arrived' = arrived
               /\ history'.unread = history.unread /\ history'.demo = history.demo
               /\ history'.calm = FALSE /\ history'.serial = history.serial
    BY <1>1, <2>2, DieEffect DEF SameMarks
  <2>3. ASSUME NEW c \in Clients, SyncWrite(c)
        PROVE  /\ cursor' \in Nat /\ imports' = imports /\ arrived' = arrived
               /\ history'.unread = history.unread /\ history'.demo = history.demo
               /\ history'.calm = FALSE /\ history'.serial = history.serial
    BY <1>1, <2>3, SyncWriteEffect
  <2> QED BY <1>1, <2>1, <2>2, <2>3
<1> QED BY <1>2, SameDelivered DEF Contract!Disturb

\* Retrievals that overlap take nothing away.
LEMMA Overlaps ==
  ASSUME IInv, [Next]_vars, ~ history'.serial
  PROVE  Contract!Overlap
<1>1. TypeOK /\ Linked
  BY DEF IInv
<1>2. history.unread \subseteq history'.unread /\ history.demo \subseteq history'.demo
  BY <1>1, MarksStay
<1> QED BY <1>1, <1>2, ArrivedStays, DeliveredGrows DEF Contract!Overlap

LEMMA ContractStep == IInv /\ [Next]_vars => [Contract!Next]_(Contract!vars)
<1> SUFFICES ASSUME IInv, [Next]_vars PROVE Contract!Next \/ UNCHANGED Contract!vars
  OBVIOUS
<1>1. CASE ~ history'.serial
  BY <1>1, Overlaps DEF Contract!Next
<1>2. CASE history'.serial
  <2>1. TypeOK /\ Linked
    BY DEF IInv
  <2>2. history.serial /\ history'.serial = history.serial
    <3>1. history.serial \in BOOLEAN /\ history'.serial \in BOOLEAN
      BY <2>1, TypeNext DEF IInv, TypeOK
    <3> QED BY <1>2, <2>1, <3>1, MarksStay
  <2>3. CASE Arrive
    <3>1. Delivered' = Delivered
      BY <2>3, SameDelivered DEF Arrive
    <3>2. Contract!Arrive
      BY <2>3, <3>1 DEF Arrive, Contract!Arrive
    <3> QED BY <3>2 DEF Contract!Next
  <2>4. ASSUME NEW c \in Clients, Retrieve(c) PROVE Contract!Next \/ UNCHANGED Contract!vars
    <3>1. CASE RetrieveCursor(c)
      BY <2>2, <3>1, ServesAndAsks
    <3>2. CASE RetrieveNumber(c) \/ ImportKnown(c) \/ ImportNew(c)
      <4>1. Delivered' = Delivered /\ UNCHANGED <<arrived, cursor, history>>
        BY <2>1, <3>2, SameDelivered, NewDelivers DEF RetrieveNumber, ImportKnown, ImportNew
      <4> QED BY <4>1 DEF Contract!vars
    <3>3. CASE Fetch(c) \/ FetchDemo(c)
      BY <2>2, <3>3, FetchesMiss DEF Contract!Next
    <3>4. ASSUME NEW e \in work[c].mails, AddEmail(c, e) PROVE Contract!Next
      BY <2>2, <3>4, ImportsDeliver DEF Contract!Next
    <3>5. CASE RetrieveNothing(c) \/ Advance(c)
      BY <2>2, <3>5, EndsPass DEF Contract!Next
    <3> QED BY <2>4, <3>1, <3>2, <3>3, <3>4, <3>5 DEF Retrieve
  <2>5. CASE Reset \/ \E c \in Clients : Die(c) \/ SyncWrite(c)
    BY <2>5, Disturbs DEF Contract!Next
  <2>6. CASE \E c \in Clients, keep \in 0..MaxUid : SyncAsk(c, keep)
    BY <2>2, <2>6, ServesAndAsks
  <2>7. CASE UNCHANGED vars
    BY <2>7, SameDelivered DEF vars, Contract!vars
  <2> QED BY <2>3, <2>4, <2>5, <2>6, <2>7 DEF Next
<1> QED BY <1>1, <1>2

LEMMA ContractInit == Init => Contract!Init
<1> SUFFICES ASSUME Init PROVE Contract!Init
  OBVIOUS
<1>1. Delivered = {}
  BY DEF Init, Delivered
<1> QED BY <1>1 DEF Init, Nothing, Contract!Init

\* Retrievals take many transactions and a conversation with the server, die half way
\* and are repeated; and yet each does what MailboxContract has it do: cases are only
\* added, numbered without a gap and one by one; until a retrieval dies or an operator
\* sets the cursor each message comes once, in the order of arrival, and the cursor
\* passes only what is delivered or was missed (retrieve_mailbox_and_run,
\* fetch_from_imap, import_participant, update_mailbox_cursor).
THEOREM MailboxKeepsContract == Spec => KeepsMailboxContract
BY Invariance, ContractInit, ContractStep, PTL DEF Spec, KeepsMailboxContract, Contract!Spec
=============================================================================
