---------------------------- MODULE WbOrdersSync ----------------------------
(***************************************************************************)
(* The Wildberries orders synchronization (service/wb_orders.go): ask for  *)
(* the orders changed since dateFrom, keep those created inside the date   *)
(* window, upsert them, and ask again from the last change seen, plus a    *)
(* millisecond, formatted to the second, until a page is short.            *)
(*                                                                         *)
(* Data.  An order is the time of its last change, in ticks of a           *)
(* millisecond, Sec of them a second; 0 is no order or no row.  Of its     *)
(* creation date only one thing matters: whether it lies before today (the *)
(* window runs from 30 days ago to the end of yesterday, and the orders    *)
(* here are all younger than 30 days).                                     *)
(***************************************************************************)
EXTENDS Integers, FiniteSets

CONSTANTS
  Orders,
  Sec,          \* ticks in a second
  Limits,       \* what API_LIMIT may be: a page shorter than it is the last
  PageMax,      \* the most orders the API puts on a page
  Burst,        \* the most orders that last changed in the same millisecond
  MaxTime,      \* bound: the clock
  FaultKinds,   \* "api", "db", "commit", "crash", "cancel"
  MaxFaults     \* bound: faults

ASSUME OrdersAssumption == IsFiniteSet(Orders)
ASSUME NumberAssumption ==
  /\ {Sec, PageMax, Burst, MaxTime} \subseteq Nat \ {0}
  /\ Limits \subseteq Int /\ MaxFaults \in Nat

VARIABLES
  now,
  \* Wildberries
  changed,   \* [Orders -> Nat]: lastChangeDate
  aged,      \* the orders created before today
  \* the configuration
  limit,     \* API_LIMIT
  \* the database
  rows,      \* [Orders -> Nat]: last_change_date in wb_orders
  logged,    \* the latest run's row in sync_logs: "none" or its status
  \* the process
  pc, window, dateFrom,
  page,      \* [Orders -> Nat]: the orders of the page as it showed them
  status, live, faults,
  \* history, read by the properties only
  owed       \* [Orders -> Nat]: what the run must have stored if it is a success,
             \* the orders of its window as they were when it started, 0: nothing

wb == <<changed, aged, limit>>
db == <<rows, logged>>
locals == <<window, dateFrom, page, status>>
vars == <<now, wb, db, pc, locals, live, faults, owed>>

Running == pc # "idle"
None == [o \in Orders |-> 0]

Init ==
  /\ now = 1
  /\ changed = None /\ aged = {} /\ limit \in Limits
  /\ rows = None /\ logged = "none"
  /\ pc = "idle" /\ window = {} /\ dateFrom = 0 /\ page = None
  /\ status = "success" /\ live = TRUE /\ faults = 0
  /\ owed = None

-----------------------------------------------------------------------------
(* The world. *)

Tick ==
  /\ now < MaxTime
  /\ now' = now + 1
  /\ UNCHANGED <<wb, db, pc, locals, live, faults, owed>>

\* Today becomes yesterday.
Midnight ==
  /\ aged' = {o \in Orders : changed[o] # 0}
  /\ aged' # aged
  /\ UNCHANGED <<now, changed, limit, db, pc, locals, live, faults, owed>>

\* The run is not to answer for the orders of S any more.
Excuse(S) == owed' = [o \in Orders |-> IF o \in S THEN 0 ELSE owed[o]]

\* Orders that share the last millisecond of a second.
EndOfSecond(t) == (t + 1) % Sec = 0
Tied == {o \in Orders : /\ changed[o] # 0 /\ EndOfSecond(changed[o])
                        /\ \E p \in Orders \ {o} : changed[p] = changed[o]}

\* An order is placed or changes (external).
ChangeOrder(o) ==
  /\ changed[o] # now
  /\ Cardinality({p \in Orders : changed[p] = now}) < Burst
  /\ changed' = [changed EXCEPT ![o] = now]
  /\ Excuse(Tied')
  /\ UNCHANGED <<now, aged, limit, db, pc, locals, live, faults>>

Strikes(kind) == kind \in FaultKinds /\ faults < MaxFaults /\ faults' = faults + 1

Breaks(kind) ==
  \/ ~live /\ UNCHANGED faults
  \/ live /\ Strikes(kind)

GiveUp == status' = "error" /\ pc' = "log"

\* The process is gone and its locals with it.
EndRun ==
  /\ pc' = "idle" /\ window' = {} /\ dateFrom' = 0 /\ page' = None
  /\ status' = "success" /\ live' = TRUE

Crash ==
  /\ Running /\ Strikes("crash")
  /\ EndRun /\ owed' = None
  /\ UNCHANGED <<now, wb, db>>

Cancel ==
  /\ Running /\ live /\ Strikes("cancel")
  /\ live' = FALSE
  /\ UNCHANGED <<now, wb, db, pc, locals, owed>>

-----------------------------------------------------------------------------
(* One run of SyncOrders. *)

\* calculateDateRange fixes the window for the whole run.
Start ==
  /\ ~Running
  /\ pc' = "fetch" /\ live' = TRUE /\ status' = "success"
  /\ window' = aged /\ dateFrom' = 0 /\ page' = None
  /\ logged' = "none"
  /\ owed' = [o \in Orders |-> IF o \in aged \ Tied THEN changed[o] ELSE 0]
  /\ UNCHANGED <<now, wb, rows, faults>>

Due == {o \in Orders : changed[o] # 0 /\ changed[o] >= dateFrom}

\* The pages the API may answer with (external): the earliest changes first,
\* in any order among equals.
Pages ==
  {S \in SUBSET Due :
     /\ \A o \in S, p \in Due \ S : changed[o] <= changed[p]
     /\ Cardinality(S) <= PageMax
     /\ S # Due => Cardinality(S) = PageMax}

OnPage(f) == {o \in Orders : f[o] # 0}

\* filterOrdersByDate
Kept(f) == OnPage(f) \cap window

\* A slip: to the nearest second.
RFC3339_Rounds(t) == ((t + Sec \div 2) \div Sec) * Sec

\* Time.Format(time.RFC3339): what is below the second is cut off.
RFC3339(t) == (t \div Sec) * Sec

\* A slip: the next page is asked for from the last change itself.
AfterPage_NoMillisecond(f) ==
  LET S == OnPage(f) IN
  IF Cardinality(S) < limit
    THEN pc' = "log" /\ UNCHANGED dateFrom
    ELSE /\ \E o \in S : (\A p \in S : f[p] <= f[o]) /\ dateFrom' = RFC3339(f[o])
         /\ pc' = "wait"

\* After a page: the last one is short; else go on from its last change.  With
\* no positive limit an empty page is not short, and orders[-1] panics.
AfterPage(f) ==
  LET S == OnPage(f) IN
  \/ /\ Cardinality(S) < limit
     /\ pc' = "log" /\ UNCHANGED dateFrom
  \/ /\ Cardinality(S) >= limit /\ S # {}
     /\ \E o \in S : /\ \A p \in S : f[p] <= f[o]
                     /\ dateFrom' = RFC3339(f[o] + 1)
     /\ pc' = "wait"
  \/ /\ Cardinality(S) >= limit /\ S = {}
     /\ pc' = "log" /\ UNCHANGED dateFrom

\* FetchOrders, parseOrders and filterOrdersByDate.
FetchOrders ==
  /\ pc = "fetch"
  /\ \/ /\ live
        /\ \E S \in Pages : page' = [o \in Orders |-> IF o \in S THEN changed[o] ELSE 0]
        /\ IF Kept(page') # {}
             THEN pc' = "upsert" /\ UNCHANGED dateFrom
             ELSE AfterPage(page')
        /\ UNCHANGED <<status, faults>>
     \/ Breaks("api") /\ GiveUp /\ UNCHANGED <<page, dateFrom>>
  /\ UNCHANGED <<now, wb, db, window, live, owed>>

\* A slip: an order that has a row keeps it (ON CONFLICT DO NOTHING).
StorePage_InsertOnly ==
  rows' = [o \in Orders |->
             IF o \in Kept(page) /\ rows[o] = 0 THEN page[o] ELSE rows[o]]

StorePage ==
  rows' = [o \in Orders |-> IF o \in Kept(page) THEN page[o] ELSE rows[o]]

\* UpsertBatch, and the rest of the loop body.  Only the deferred br.Close
\* learns that a batch did not commit, and its error is dropped.
UpsertBatch ==
  /\ pc = "upsert"
  /\ \/ /\ live
        /\ \/ StorePage /\ UNCHANGED <<faults, owed>>
           \/ Strikes("commit") /\ Excuse(Kept(page)) /\ UNCHANGED rows
        /\ AfterPage(page)
        /\ UNCHANGED status
     \/ /\ Breaks("db")
        /\ StorePage \/ UNCHANGED rows
        /\ GiveUp
        /\ UNCHANGED <<dateFrom, owed>>
  /\ UNCHANGED <<now, wb, logged, window, page, live>>

\* The pause between two pages; when ctx ends it, the run returns with its
\* status still "success".
Wait ==
  /\ pc = "wait"
  /\ pc' = "fetch" \/ (~live /\ pc' = "log")
  /\ UNCHANGED <<now, wb, db, locals, live, faults, owed>>

\* The deferred insert into sync_logs, which a panic runs too.
InsertLog ==
  /\ pc = "log"
  /\ \/ live /\ logged' = status /\ UNCHANGED <<faults, owed>>
     \/ Breaks("db") /\ owed' = None /\ UNCHANGED logged
  /\ EndRun
  /\ UNCHANGED <<now, wb, rows>>

Step == FetchOrders \/ UpsertBatch \/ Wait \/ InsertLog

Next ==
  \/ Tick \/ Midnight \/ Crash \/ Cancel \/ Start \/ Step
  \/ \E o \in Orders : ChangeOrder(o)

Spec == Init /\ [][Next]_vars
FairSpec == Spec /\ WF_vars(Step)

-----------------------------------------------------------------------------
(* Properties *)

\* The values the variables take: no change, row or page is of the future, and
\* dateFrom is at most a millisecond ahead.
TypeOK ==
  /\ now \in 1..MaxTime /\ changed \in [Orders -> 0..now] /\ aged \subseteq Orders
  /\ rows \in [Orders -> 0..now] /\ logged \in {"none", "success", "error"}
  /\ pc \in {"idle", "fetch", "upsert", "wait", "log"}
  /\ window \subseteq Orders /\ dateFrom \in 0..now + 1
  /\ page \in [Orders -> 0..now]
  /\ limit \in Limits /\ status \in {"success", "error"}
  /\ live \in BOOLEAN /\ owed \in [Orders -> 0..now]

\* A row that says "success" stands for a complete run: every order of the
\* window is stored at least as new as it was when the run started.  Orders
\* that share the last second of a page are asked for again, one that changes
\* behind the walk turns up ahead of it, and a cancelled walk leaves no row
\* although its status is still "success".  Two kinds of order may be missing,
\* and no others: those of a batch that was lost at commit, and those that
\* shared the last millisecond of a second, where the added millisecond is not
\* cut off again and the walk steps over what did not fit on the page.
SuccessStoresAll ==
  logged = "success" => \A o \in Orders : rows[o] >= owed[o]

\* service/wb_orders.go:42: with a limit, SyncOrders performs the full flow, so
\* it ends.
RunEnds == limit > 0 /\ Running ~> ~Running

\* A page's worth of orders lie in one second and not in its last millisecond.
Crowded ==
  \E o \in Orders :
    Cardinality({p \in Orders : /\ changed[p] # 0 /\ ~EndOfSecond(changed[p])
                                /\ changed[p] \div Sec = changed[o] \div Sec}) >= limit

\* Whatever changes meanwhile, a walk with a limit moves on to its end unless a
\* second is crowded.
RunEndsUnlessCrowded == limit > 0 /\ Running ~> ~Running \/ Crowded
=============================================================================
