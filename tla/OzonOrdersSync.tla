--------------------------- MODULE OzonOrdersSync ---------------------------
(***************************************************************************)
(* The Ozon orders synchronization (service/ozon_orders.go): read the      *)
(* postings of the last 30 days, first those of the FBO scheme by offset   *)
(* against the total of the answer, then, whether or not that failed,      *)
(* those of the FBS scheme by last_id, and upsert each page.               *)
(*                                                                         *)
(* Data.  A posting is its place in the order of creation, which is the    *)
(* order of both lists; those created in the second a run starts in, which *)
(* the window's end cuts off, count as created after the start.  All are   *)
(* younger than 30 days.  A version stands for the columns an upsert       *)
(* renews (status, products, analytics, financial data) and is the number  *)
(* of the change that made it; 0 is no row.                                *)
(***************************************************************************)
EXTENDS Integers, FiniteSets

CONSTANTS
  Fbo, Fbs,     \* the postings of each scheme
  Limit,        \* OZON_LIMIT, at most what the API serves
  MaxChanges,   \* bound: status changes and removals at Ozon
  FaultKinds,   \* "api", "db", "commit", "crash", "cancel"
  MaxFaults     \* bound: faults

Postings == Fbo \cup Fbs

ASSUME PostingAssumption ==
  /\ IsFiniteSet(Postings) /\ Fbo \cap Fbs = {}
  /\ Postings = 1..Cardinality(Postings)
ASSUME NumberAssumption == Limit \in Nat \ {0} /\ {MaxChanges, MaxFaults} \subseteq Nat

VARIABLES
  \* Ozon
  placed,   \* the postings created so far are 1..placed
  listed,   \* those the lists show
  version,  \* [Postings -> Nat]
  changes,
  \* ozon_orders
  rows,     \* [Postings -> Nat]
  \* the process
  pc, to, offset,
  lastID,   \* 0 stands for the empty string
  items,    \* the page: [S -> Nat], the version of each of its postings
  more,     \* the loop goes on after this page
  errMsg,   \* "", or the scheme whose error it holds
  live, faults,
  \* history of the run, read by the properties only
  begun,    \* the postings listed ever since it started, in their version of then,
            \* but for those of pages that were acknowledged and did not commit
  shifted   \* one has left the FBO list meanwhile

ozon == <<placed, listed, version, changes>>
walk == <<offset, lastID, items, more>>
run == <<to, errMsg, live, begun, shifted>>
syncVars == <<ozon, rows, pc, walk, run, faults>>

Running == pc # "idle"

Init ==
  /\ placed \in 0..Cardinality(Postings) /\ listed = 1..placed
  /\ version = [p \in Postings |-> 1] /\ changes = 1
  /\ rows = [p \in Postings |-> 0]
  /\ pc = "idle" /\ offset = 0 /\ lastID = 0 /\ items = <<>> /\ more = FALSE
  /\ to = 0 /\ errMsg = "" /\ live = TRUE /\ begun = <<>> /\ shifted = FALSE
  /\ faults = 0

-----------------------------------------------------------------------------
(* The world. *)

\* Ozon (external): a posting is created, changes, or leaves its list.
Place ==
  /\ placed < Cardinality(Postings)
  /\ placed' = placed + 1 /\ listed' = listed \cup {placed'}
  /\ UNCHANGED <<version, changes, rows, pc, walk, run, faults>>

\* The run is not to answer for the postings of S any more.
Excuse(S) == begun' = [q \in DOMAIN begun \ S |-> begun[q]]

ChangePosting ==
  /\ changes <= MaxChanges /\ changes' = changes + 1
  /\ \E p \in listed : version' = [version EXCEPT ![p] = changes']
  /\ UNCHANGED <<placed, listed, rows, pc, walk, run, faults>>

Remove ==
  /\ changes <= MaxChanges /\ changes' = changes + 1
  /\ \E p \in listed :
       /\ listed' = listed \ {p}
       /\ Excuse({p})
       /\ shifted' = (shifted \/ (Running /\ p \in Fbo))
  /\ UNCHANGED <<placed, version, rows, pc, walk, to, errMsg, live, faults>>

Strikes(kind) == kind \in FaultKinds /\ faults < MaxFaults /\ faults' = faults + 1

Breaks(kind) ==
  \/ ~live /\ UNCHANGED faults
  \/ live /\ Strikes(kind)

\* A walk's locals at its start, and the run's when it is over.
NewWalk == offset' = 0 /\ lastID' = 0 /\ items' = <<>> /\ more' = FALSE

EndRun ==
  /\ pc' = "idle" /\ NewWalk
  /\ to' = 0 /\ errMsg' = "" /\ live' = TRUE /\ begun' = <<>> /\ shifted' = FALSE

Crash ==
  /\ Running /\ Strikes("crash")
  /\ EndRun
  /\ UNCHANGED <<ozon, rows>>

Cancel ==
  /\ Running /\ live /\ Strikes("cancel")
  /\ live' = FALSE
  /\ UNCHANGED <<ozon, rows, pc, walk, to, errMsg, begun, shifted>>

-----------------------------------------------------------------------------
(* One run of SyncOzonOrders. *)

\* calculateDateRange fixes the window for both walks.
Start ==
  /\ ~Running
  /\ pc' = "fbo" /\ to' = placed
  /\ begun' = [p \in listed |-> version[p]]
  /\ UNCHANGED <<ozon, rows, walk, errMsg, live, shifted, faults>>

\* The end of a syncScheme: FBS follows FBO, the log follows FBS.
EndOfScheme(scheme) == pc' = (IF scheme = "fbo" THEN "fbs" ELSE "log") /\ NewWalk

\* A slip: an error of FBO ends the run.
Fail_EndsRun(scheme) == errMsg' = scheme /\ pc' = "log" /\ NewWalk

Fail(scheme) == errMsg' = scheme /\ EndOfScheme(scheme)

\* A slip: the window is left open at its end.
InWindow_Open(S) == S \cap listed

\* The filter of both requests.
InWindow(S) == {p \in S \cap listed : p <= to}

\* How many come before p in a list (external).
Rank(p, S) == Cardinality({q \in S : q < p})

\* A page has come: to its callback, or, when it is empty, out of the loop.
\* The loop will go on after the callback when more_ holds.
OnPage(scheme, S, more_) ==
  IF S = {} THEN EndOfScheme(scheme)
  ELSE /\ items' = [p \in S |-> version[p]] /\ more' = more_
       /\ pc' = IF scheme = "fbo" THEN "upsertFbo" ELSE "upsertFbs"
       /\ UNCHANGED <<offset, lastID>>

\* FetchFBOBatch, and the loop of FetchAllFBOOrders up to the callback.  The
\* answer holds the total of the window beside the page.
FetchFBOBatch ==
  /\ pc = "fbo"
  /\ \/ /\ live
        /\ LET list == InWindow(Fbo)
               page == {p \in list : Rank(p, list) \in offset..offset + Limit - 1}
               len == Cardinality(page)
           IN OnPage("fbo", page, len = Limit /\ offset + len < Cardinality(list))
        /\ UNCHANGED <<errMsg, faults>>
     \/ Breaks("api") /\ Fail("fbo")
  /\ UNCHANGED <<ozon, rows, to, live, begun, shifted>>

\* FetchFBSBatch, and the loop of FetchAllFBSOrders up to the callback.  The
\* answer says has_next when there is more, and may say it on a full last page.
FetchFBSBatch ==
  /\ pc = "fbs"
  /\ \/ /\ live
        /\ LET behind == {p \in InWindow(Fbs) : p > lastID}
               page == {p \in behind : Rank(p, behind) < Limit}
               full == Cardinality(page) = Limit
           IN \E has_next \in {page # behind, full} : OnPage("fbs", page, has_next /\ full)
        /\ UNCHANGED <<errMsg, faults>>
     \/ Breaks("api") /\ Fail("fbs")
  /\ UNCHANGED <<ozon, rows, to, live, begun, shifted>>

\* OzonOrderRepo.UpsertBatch, one transaction.
StorePage ==
  rows' = [p \in Postings |-> IF p \in DOMAIN items THEN items[p] ELSE rows[p]]

\* The page is acknowledged.  It commits in the deferred br.Close, whose error is
\* dropped.
Acknowledged ==
  \/ StorePage /\ UNCHANGED <<begun, faults>>
  \/ Strikes("commit") /\ Excuse(DOMAIN items) /\ UNCHANGED rows

\* A slip: the walk asks for the same page again.
NextFBO_SamePage == UNCHANGED offset

NextFBO == offset' = offset + Cardinality(DOMAIN items)

\* newLastID: the page's last posting.
NextFBS == lastID' \in DOMAIN items /\ \A p \in DOMAIN items : p <= lastID'

\* The callback of FBO and the rest of the loop body.
UpsertFBO ==
  /\ pc = "upsertFbo"
  /\ \/ /\ live /\ Acknowledged
        /\ IF more THEN pc' = "fbo" /\ NextFBO /\ items' = <<>> /\ UNCHANGED <<lastID, more>>
           ELSE EndOfScheme("fbo")
        /\ UNCHANGED errMsg
     \/ Breaks("db") /\ (StorePage \/ UNCHANGED rows) /\ Fail("fbo") /\ UNCHANGED begun
  /\ UNCHANGED <<ozon, to, live, shifted>>

\* The callback of FBS and the rest of the loop body.
UpsertFBS ==
  /\ pc = "upsertFbs"
  /\ \/ /\ live /\ Acknowledged
        /\ IF more THEN pc' = "fbs" /\ NextFBS /\ items' = <<>> /\ UNCHANGED <<offset, more>>
           ELSE EndOfScheme("fbs")
        /\ UNCHANGED errMsg
     \/ Breaks("db") /\ (StorePage \/ UNCHANGED rows) /\ Fail("fbs") /\ UNCHANGED begun
  /\ UNCHANGED <<ozon, to, live, shifted>>

\* The deferred insert into ozon_sync_logs, whether or not it succeeds, and the
\* return of nil.
InsertOzonLog ==
  /\ pc = "log"
  /\ EndRun
  /\ UNCHANGED <<ozon, rows, faults>>

SyncStep == FetchFBOBatch \/ UpsertFBO \/ FetchFBSBatch \/ UpsertFBS \/ InsertOzonLog

SyncNext == Place \/ ChangePosting \/ Remove \/ Crash \/ Cancel \/ Start \/ SyncStep

SyncSpec == Init /\ [][SyncNext]_syncVars
FairSyncSpec == SyncSpec /\ WF_syncVars(SyncStep)

-----------------------------------------------------------------------------
(* Properties *)

\* The values the variables take.
TypeOK ==
  /\ placed \in 0..Cardinality(Postings) /\ listed \subseteq 1..placed
  /\ changes \in 1..MaxChanges + 1
  /\ version \in [Postings -> 1..changes] /\ rows \in [Postings -> 0..changes]
  /\ pc \in {"idle", "fbo", "upsertFbo", "fbs", "upsertFbs", "log"}
  /\ to \in 0..placed /\ offset \in 0..Cardinality(Fbo) /\ lastID \in {0} \cup Fbs
  /\ DOMAIN items \subseteq 1..to /\ \A p \in DOMAIN items : items[p] \in 1..changes
  /\ errMsg \in {"", "fbo", "fbs"} /\ {more, live, shifted} \subseteq BOOLEAN
  /\ DOMAIN begun \subseteq listed

Stored(S) == \A p \in S \cap DOMAIN begun : rows[p] >= begun[p]

\* What the log says is so: without an error every posting of the window is
\* stored at least as new as at the start, unless its page was acknowledged and
\* did not commit, or an FBO posting left its list and moved the others across a
\* page boundary; and an error of FBO alone, or such a move, takes nothing from
\* the FBS postings.
LogIsTrue ==
  pc = "log" =>
    /\ errMsg # "fbs" => Stored(Fbs)
    /\ errMsg = "" /\ ~shifted => Stored(Fbo)

\* Every run ends: both walks always move on.
RunEnds == Running ~> ~Running
=============================================================================
