------------------------------ MODULE CasePage ------------------------------
(***************************************************************************)
(* The case page of the web application in one browser tab, the cache of   *)
(* its API client, and the calls between them and the server               *)
(* (apps/web/src/app/cases/[id]/page.tsx, apps/web/src/api/client.ts).     *)
(* Everybody else who works on the case is OtherWrites. The server is      *)
(* reduced to what CaseReview shows of it: each version of the case is one *)
(* content of its row, and a request that names an older one is refused.   *)
(*                                                                         *)
(* A call is handled by the server and by the browser in steps of their    *)
(* own, so answers arrive in any order, after their page was left, or      *)
(* never, and a lost answer may belong to a request that was carried out.  *)
(***************************************************************************)
EXTENDS Naturals, Sequences, FiniteSets

CONSTANTS
  MaxVersion,    (* bound: the versions of the case                         *)
  MaxCalls       (* bound: the calls in flight                              *)

ASSUME CasePageAssumption == MaxVersion \in Nat \ {0} /\ MaxCalls \in Nat

VARIABLES
  rows,      \* the case on the server: rows[v] is its row at version v
  cache,     \* caseDetailMemoryCache of the case; Blank when it has no entry
  page,      \* the page: away, loading, or showing a view of the case
  calls,     \* the calls in flight
  accepted   \* history: the last decision the server took from this browser
pageVars == <<rows, cache, page, calls, accepted>>

-----------------------------------------------------------------------------
(* Of a row, result names the version at which its result was computed and *)
(* closed is its disposition. A view is a CaseDetail: merged when answers  *)
(* wrote into it that carry no case, local when it holds edits that the    *)
(* server does not have. Version 0 is the fixture case-1042.               *)

Rows == [result: Nat, closed: BOOLEAN]
Views == [version: Nat, result: Nat, closed: BOOLEAN, merged: BOOLEAN, local: BOOLEAN]

Blank == [version |-> 0, result |-> 0, closed |-> FALSE, merged |-> FALSE, local |-> FALSE]

Version == Len(rows)
Row == rows[Version]

\* mapDetail of the answer to a GET of the case.
Detail == [version |-> Version, result |-> Row.result, closed |-> Row.closed,
           merged |-> FALSE, local |-> FALSE]

Reads == {"prefetch", "load", "refresh"}
Swaps == {"review", "close", "reopen", "upload", "pair"}
Reverified == {"correct", "arbitrate"}
Kinds == Reads \cup Swaps \cup Reverified

\* The answers that hold the case, and those after which it is read again.
Carrying == Reads \cup {"review", "close", "reopen"}
Refreshing == {"upload", "correct"}

Calls == [kind: Kinds, heard: {"page", "session", "nobody"}, shown: Views, view: Views,
          step: {"sent", "checked", "written", "served", "refused"}]

Call(kind, heard, shown) ==
  [kind |-> kind, heard |-> heard, step |-> "sent", shown |-> shown, view |-> Blank]

Away == [at |-> "away", view |-> Blank]
Loading == [at |-> "loading", view |-> Blank]
Shown(v) == [at |-> "shown", view |-> v]

PageInit ==
  /\ rows = <<[result |-> 1, closed |-> FALSE]>>
  /\ cache = Blank
  /\ page = Away
  /\ calls = {}
  /\ accepted = [result |-> 0, seen |-> 0, excused |-> FALSE]

Issue(c) == Cardinality(calls) < MaxCalls /\ c \notin calls /\ calls' = calls \cup {c}

-----------------------------------------------------------------------------
(* The user. Lists and the warm-up of the application prefetch cases. A    *)
(* page that finds its case in the cache asks nothing, in spite of its     *)
(* "background revalidation": getCase answers from the same cache.         *)

Prefetch ==
  /\ cache = Blank
  /\ \A c \in calls : c.kind # "prefetch"
  /\ Issue(Call("prefetch", "session", Blank))
  /\ UNCHANGED <<rows, cache, page, accepted>>

VisitCached ==
  /\ page.at = "away" /\ cache # Blank
  /\ page' = Shown(cache)
  /\ UNCHANGED <<rows, cache, calls, accepted>>

VisitCold ==
  /\ page.at = "away" /\ cache = Blank
  /\ page' = Loading
  /\ Issue(Call("load", "page", Blank))
  /\ UNCHANGED <<rows, cache, accepted>>

\* An entry older than CACHE_TTL_MS counts as none.
Expire ==
  /\ cache # Blank
  /\ cache' = Blank
  /\ UNCHANGED <<rows, page, calls, accepted>>

\* Calls outlive their page: their answers still reach the client.
Leave ==
  /\ page.at # "away"
  /\ page' = Away
  /\ calls' = {[c EXCEPT !.heard = IF @ = "page" THEN "session" ELSE @] : c \in calls}
  /\ UNCHANGED <<rows, cache, accepted>>

\* What the server has received it carries out, although nobody listens.
Orphans(S) ==
  LET unserved == {c \in S : c.kind \notin Reads /\ c.step \in {"sent", "checked"}}
  IN {[c EXCEPT !.heard = "nobody"] : c \in unserved}

\* The browser loads the page anew; the cache is a variable of the old one.
Reload ==
  /\ page.at # "away"
  /\ page' = Loading
  /\ cache' = Blank
  /\ calls' = Orphans(calls) \cup {Call("load", "page", Blank)}
  /\ UNCHANGED <<rows, accepted>>

\* Buttons are disabled while their own call is in flight; that of the pair is not.
Button(kind) == IF kind = "reopen" THEN "close" ELSE kind
Enabled(kind) ==
  /\ kind = "pair" \/ \A c \in calls : c.heard = "page" => Button(c.kind) # Button(kind)
  /\ kind = "close" => ~page.view.closed
  /\ kind = "reopen" => page.view.closed

\* Requests that change documents or category drop the cached case first.
Submit(kind) ==
  /\ page.at = "shown" /\ Enabled(kind)
  /\ Issue(Call(kind, "page", page.view))
  /\ cache' = IF kind \in {"upload", "pair", "correct", "arbitrate"} /\ page.view.version # 0
              THEN Blank ELSE cache
  /\ UNCHANGED <<rows, page, accepted>>

-----------------------------------------------------------------------------
(* The server. Everything but reads bumps the version.                     *)

\* A call takes its next step, unless the browser that made it is gone.
Advance(c, step, view) ==
  calls' = (calls \ {c}) \cup
           (IF c.heard = "nobody" THEN {} ELSE {[c EXCEPT !.step = step, !.view = view]})

Store(r) == Version < MaxVersion /\ rows' = Append(rows, r)

\* Reviews, closing, reopening, uploads and pairs, which compare the version
\* and write in one transaction. A new document or pair leaves the result.
Written(kind) ==
  CASE kind = "review" -> [Row EXCEPT !.result = Version + 1]
    [] kind = "close" -> [Row EXCEPT !.closed = TRUE]
    [] kind = "reopen" -> [Row EXCEPT !.closed = FALSE]
    [] OTHER -> Row

Accept(c) ==
  accepted' = [result |-> Row.result, seen |-> c.shown.result,
               excused |-> c.shown.merged \/ c.shown.local]

MutantSwap(c) ==
  /\ c.kind \in Swaps /\ c.step = "sent" /\ c.shown.version # 0
  /\ c.kind = "close" => ~Row.closed
  /\ c.kind = "reopen" => Row.closed
  /\ Store(Written(c.kind))
  /\ Accept(c)
  /\ Advance(c, IF c.kind \in Carrying THEN "written" ELSE "served", Blank)
  /\ UNCHANGED <<cache, page>>

Swap(c) ==
  /\ c.kind \in Swaps /\ c.step = "sent"
  /\ c.shown.version = Version
  /\ c.kind = "close" => ~Row.closed
  /\ c.kind = "reopen" => Row.closed
  /\ Store(Written(c.kind))
  /\ Accept(c)
  /\ Advance(c, IF c.kind \in Carrying THEN "written" ELSE "served", Blank)
  /\ UNCHANGED <<cache, page>>

\* Corrections and arbitrations compare the version when they read the case,
\* and save what they computed in a later transaction, without comparing.
Check(c) ==
  /\ c.kind \in Reverified /\ c.step = "sent"
  /\ c.shown.version = Version
  /\ Accept(c)
  /\ calls' = (calls \ {c}) \cup {[c EXCEPT !.step = "checked"]}
  /\ UNCHANGED <<rows, cache, page>>

SaveResult(c) ==
  /\ c.step = "checked"
  /\ Store([Row EXCEPT !.result = Version + 1])
  /\ Advance(c, "served", Blank)
  /\ UNCHANGED <<cache, page, accepted>>

\* 409: another version, or one that cannot be closed (unreviewed_fields).
Refuse(c) ==
  /\ c.kind \notin Reads /\ c.step = "sent" /\ c.shown.version # 0
  /\ c.shown.version # Version \/ c.kind \in {"close", "reopen"}
  /\ Advance(c, "refused", Blank)
  /\ UNCHANGED <<rows, cache, page, accepted>>

\* The case of the answer is read after the transaction that wrote it.
Answer(c) ==
  /\ \/ c.kind \in Reads /\ c.step = "sent"
     \/ c.step = "written"
  /\ Advance(c, "served", Detail)
  /\ UNCHANGED <<rows, cache, page, accepted>>

\* Other browsers, runs and the mailbox, by requests that CaseReview models.
OtherWrites ==
  /\ \/ \E result \in {Row.result, Version + 1} : Store([Row EXCEPT !.result = result])
     \/ Store([Row EXCEPT !.closed = ~@])
  /\ UNCHANGED <<cache, page, calls, accepted>>

-----------------------------------------------------------------------------
(* The browser handles an answer. setDetail of a page that was left does   *)
(* nothing; what the client caches it caches all the same.                 *)

Done(c) == calls' = calls \ {c}

ReceiveCase(c) ==
  /\ c.kind \in Carrying /\ c.step = "served"
  /\ cache' = c.view
  /\ page' = IF c.heard = "page" THEN Shown(c.view) ELSE page
  /\ Done(c)
  /\ UNCHANGED <<rows, accepted>>

\* getCase after an upload or a correction; what was cached in between will do.
ReceiveCached(c) ==
  /\ c.kind \in Refreshing /\ c.step = "served" /\ cache # Blank
  /\ page' = IF c.heard = "page" THEN Shown(cache) ELSE page
  /\ Done(c)
  /\ UNCHANGED <<rows, cache, accepted>>

ReceiveRefresh(c) ==
  /\ c.kind \in Refreshing /\ c.step = "served" /\ cache = Blank
  /\ calls' = (calls \ {c}) \cup {Call("refresh", c.heard, Blank)}
  /\ UNCHANGED <<rows, cache, page, accepted>>

\* case_version of these answers is the expected version plus one, and goes
\* into the view that is shown by now.
ReceiveVersion(c) ==
  /\ c.kind \in {"pair", "arbitrate"} /\ c.step = "served"
  /\ page' = IF c.heard = "page"
             THEN [page EXCEPT !.view = [@ EXCEPT !.version = c.shown.version + 1, !.merged = TRUE]]
             ELSE page
  /\ Done(c)
  /\ UNCHANGED <<rows, cache, accepted>>

ReceiveRefused(c) ==
  /\ c.step = "refused"
  /\ Done(c)
  /\ UNCHANGED <<rows, cache, page, accepted>>

\* No answer, or one of another status. Reviews are then applied to the page
\* alone, and a page that could not be loaded shows the fixture. The request
\* itself may be lost, still on its way, or done.
MutantFailed(c) ==
  CASE c.heard = "page" /\ c.kind = "review" -> [page EXCEPT !.view.local = TRUE]
    [] c.heard = "page" /\ c.kind = "close" -> [page EXCEPT !.view.closed = TRUE]
    [] c.heard = "page" /\ c.kind = "load" -> Shown(Blank)
    [] OTHER -> page

Failed(c) ==
  CASE c.heard = "page" /\ c.kind = "review" -> [page EXCEPT !.view.local = TRUE]
    [] c.heard = "page" /\ c.kind = "load" -> Shown(Blank)
    [] OTHER -> page

Lose(c) ==
  /\ c.heard # "nobody"
  /\ page' = Failed(c)
  /\ calls' \in {calls \ {c}, (calls \ {c}) \cup Orphans({c})}
  /\ UNCHANGED <<rows, cache, accepted>>

PageNext ==
  \/ Prefetch \/ VisitCached \/ VisitCold \/ Expire \/ Leave \/ Reload
  \/ \E kind \in Swaps \cup Reverified : Submit(kind)
  \/ \E c \in calls :
       \/ Swap(c) \/ Check(c) \/ SaveResult(c) \/ Refuse(c) \/ Answer(c)
       \/ ReceiveCase(c) \/ ReceiveCached(c) \/ ReceiveRefresh(c) \/ ReceiveVersion(c)
       \/ ReceiveRefused(c) \/ Lose(c)
  \/ OtherWrites

PageSpec == PageInit /\ [][PageNext]_pageVars

-----------------------------------------------------------------------------
PageTypeOK ==
  /\ rows \in Seq(Rows) /\ rows # <<>>
  /\ cache \in Views
  /\ page \in [at: {"away", "loading", "shown"}, view: Views]
  /\ calls \subseteq Calls
  /\ accepted \in [result: Nat, seen: Nat, excused: BOOLEAN]

\* A decision that the server takes from this browser was made on the result
\* that it decides on, however old the cache and however late the answers:
\* the version goes with the result it was read with. Two views are excepted,
\* those with local edits and those whose version was written into them by
\* the answer to a pair or an arbitration (README, Known divergences).
AcceptedWasShown == accepted.excused \/ accepted.seen = accepted.result

\* "a case must never appear closed unless the server recorded it": at the
\* version shown, or at an older one if the version was written in later.
ClosedIsRecorded ==
  page.view.closed =>
    /\ \E v \in DOMAIN rows : rows[v].closed
    /\ page.view.merged \/ rows[page.view.version].closed
=============================================================================
