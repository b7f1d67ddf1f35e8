---------------------------- MODULE WbRemainsSync ----------------------------
(***************************************************************************)
(* The Wildberries remains synchronization (service/wb_remains.go): have a *)
(* report generated, poll its task until it is done, download it and       *)
(* upsert what it holds.                                                   *)
(*                                                                         *)
(* Data.  A remain is an item (article, size and warehouse, the key of     *)
(* wb_remains) with a quantity; 0 is also no row.  The report is the stock *)
(* at some moment after its task was created.  A request that is retried   *)
(* may create a second task, which nobody asks for again: only the task    *)
(* whose id came back is kept here.                                        *)
(***************************************************************************)
EXTENDS Integers

CONSTANTS
  Items,
  MaxQuantity,  \* an item's stock: 0..MaxQuantity
  MaxChanges,   \* bound: changes of the stock
  FaultKinds,   \* "api", "db", "commit", "crash", "cancel"
  MaxFaults     \* bound: faults

ASSUME NumberAssumption == {MaxQuantity, MaxChanges, MaxFaults} \subseteq Nat

VARIABLES
  \* Wildberries
  stock,    \* [Items -> 0..MaxQuantity]
  changes,
  task,     \* the status of the latest task: "none", "processing", "done", "error", "other"
  report,   \* [Items -> 0..MaxQuantity], once it is done
  \* wb_remains
  rows,     \* [Items -> 0..MaxQuantity]
  \* the process
  pc,
  body,     \* the downloaded report
  status, live, faults,
  \* history of the run, read by the properties only
  held,     \* the quantities an item has had since it started
  lost      \* the items of a batch that was acknowledged and did not commit

wb == <<stock, changes, task, report>>
history == <<held, lost>>
vars == <<wb, rows, pc, body, status, live, faults, history>>

Running == pc # "idle"
Nothing == [i \in Items |-> 0]

Init ==
  /\ stock \in [Items -> 0..MaxQuantity] /\ changes = 0 /\ task = "none" /\ report = Nothing
  /\ rows = Nothing
  /\ pc = "idle" /\ body = Nothing /\ status = "success" /\ live = TRUE /\ faults = 0
  /\ held = [i \in Items |-> {}] /\ lost = {}

-----------------------------------------------------------------------------
(* The world. *)

\* Goods come and go (external).
ChangeStock ==
  /\ changes < MaxChanges /\ changes' = changes + 1
  /\ \E i \in Items, q \in 0..MaxQuantity : q # stock[i] /\ stock' = [stock EXCEPT ![i] = q]
  /\ held' = [i \in Items |-> IF Running THEN held[i] \cup {stock'[i]} ELSE {}]
  /\ UNCHANGED <<task, report, rows, pc, body, status, live, faults, lost>>

\* The report is done, has failed, or has a status the code does not know, such
\* as that of a cancelled task (external).  It may never be any of these.
Generate ==
  /\ task \in {"processing", "other"}
  /\ \/ task' = "done" /\ report' = stock
     \/ task' = "error" /\ UNCHANGED report
     \/ task = "processing" /\ task' = "other" /\ UNCHANGED report
  /\ UNCHANGED <<stock, changes, rows, pc, body, status, live, faults, history>>

Strikes(kind) == kind \in FaultKinds /\ faults < MaxFaults /\ faults' = faults + 1

Breaks(kind) ==
  \/ ~live /\ UNCHANGED faults
  \/ live /\ Strikes(kind)

GiveUp == status' = "error" /\ pc' = "log"

\* What is left of a run that is over; its task stays where it is.
EndRun ==
  /\ pc' = "idle" /\ body' = Nothing /\ status' = "success" /\ live' = TRUE
  /\ held' = [i \in Items |-> {}] /\ lost' = {}

Crash ==
  /\ Running /\ Strikes("crash")
  /\ EndRun
  /\ UNCHANGED <<wb, rows>>

Cancel ==
  /\ Running /\ live /\ Strikes("cancel")
  /\ live' = FALSE
  /\ UNCHANGED <<wb, rows, pc, body, status, history>>

-----------------------------------------------------------------------------
(* One run of SyncRemains. *)

Start ==
  /\ ~Running
  /\ pc' = "create"
  /\ held' = [i \in Items |-> {stock[i]}]
  /\ UNCHANGED <<wb, rows, body, status, live, faults, lost>>

\* A slip: a task of an earlier run is taken up again.
NewTask_Reuses == IF task = "none" THEN task' = "processing" ELSE UNCHANGED task

NewTask == task' = "processing"

\* CreateRemainsReport.  A call that fails may have created a task.
CreateRemainsReport ==
  /\ pc = "create"
  /\ \/ live /\ NewTask /\ pc' = "poll" /\ UNCHANGED <<status, faults>>
     \/ Breaks("api") /\ (NewTask \/ UNCHANGED task) /\ GiveUp
  /\ UNCHANGED <<stock, changes, report, rows, body, live, history>>

\* A slip: a status that is not done is waited for, and so is a failed call.
CheckReportStatus_Patient ==
  /\ pc = "poll"
  /\ \/ live /\ pc' = (IF task = "done" THEN "download" ELSE "sleep") /\ UNCHANGED faults
     \/ Breaks("api") /\ pc' = "sleep"
  /\ UNCHANGED <<wb, rows, body, status, live, history>>

\* A slip: a report that failed is polled on.
CheckReportStatus_NoError ==
  /\ pc = "poll"
  /\ \/ /\ live /\ task = "done"
        /\ pc' = "download" /\ UNCHANGED <<status, faults>>
     \/ /\ live /\ task # "done"
        /\ pc' = "sleep" /\ UNCHANGED <<status, faults>>
     \/ Breaks("api") /\ GiveUp
  /\ UNCHANGED <<wb, rows, body, live, history>>

\* One round of waitForReport: the look at the context, CheckReportStatus, and
\* what follows from the status.
CheckReportStatus ==
  /\ pc = "poll"
  /\ \/ /\ live /\ task = "done"
        /\ pc' = "download" /\ UNCHANGED <<status, faults>>
     \/ /\ live /\ task = "error"
        /\ GiveUp /\ UNCHANGED faults
     \/ /\ live /\ task \notin {"done", "error"}
        /\ pc' = "sleep" /\ UNCHANGED <<status, faults>>
     \/ Breaks("api") /\ GiveUp
  /\ UNCHANGED <<wb, rows, body, live, history>>

\* time.Sleep(s.pollDelay), which a signal does not cut short.
Wake ==
  /\ pc = "sleep" /\ pc' = "poll"
  /\ UNCHANGED <<wb, rows, body, status, live, faults, history>>

\* DownloadRemainsReport and normalizeRemainsData, which leaves out what is 0;
\* without anything to store the run is over.
DownloadRemainsReport ==
  /\ pc = "download"
  /\ \/ /\ live
        /\ body' = report
        /\ pc' = IF report = Nothing THEN "log" ELSE "upsert"
        /\ UNCHANGED <<status, faults>>
     \/ Breaks("api") /\ GiveUp /\ UNCHANGED body
  /\ UNCHANGED <<wb, rows, live, history>>

\* A slip: the quantity is added to the one that is stored.
StoreReport_Adds == rows' = [i \in Items |-> rows[i] + body[i]]

StoreReport == rows' = [i \in Items |-> IF body[i] # 0 THEN body[i] ELSE rows[i]]

\* WbRemainRepo.UpsertBatch.  The batch commits in the deferred br.Close, whose
\* error is dropped.
UpsertBatch ==
  /\ pc = "upsert"
  /\ \/ /\ live /\ pc' = "log" /\ UNCHANGED status
        /\ \/ StoreReport /\ UNCHANGED <<faults, lost>>
           \/ Strikes("commit") /\ lost' = {i \in Items : body[i] # 0} /\ UNCHANGED rows
     \/ Breaks("db") /\ (StoreReport \/ UNCHANGED rows) /\ GiveUp /\ UNCHANGED lost
  /\ UNCHANGED <<wb, body, live, held>>

\* The deferred insert into sync_logs, whether or not it succeeds.
InsertLog ==
  /\ pc = "log"
  /\ EndRun
  /\ UNCHANGED <<wb, rows, faults>>

Step ==
  \/ CreateRemainsReport \/ CheckReportStatus \/ Wake
  \/ DownloadRemainsReport \/ UpsertBatch \/ InsertLog

Next == ChangeStock \/ Generate \/ Crash \/ Cancel \/ Start \/ Step

Spec == Init /\ [][Next]_vars
FairSpec == Spec /\ WF_vars(Step)

-----------------------------------------------------------------------------
(* Properties *)

\* The values the variables take.
TypeOK ==
  /\ {stock, report, rows, body} \subseteq [Items -> 0..MaxQuantity]
  /\ task \in {"none", "processing", "done", "error", "other"}
  /\ pc \in {"idle", "create", "poll", "sleep", "download", "upsert", "log"}
  /\ status \in {"success", "error"} /\ live \in BOOLEAN
  /\ held \in [Items -> SUBSET (0..MaxQuantity)] /\ lost \subseteq Items

\* A run that ends in success has brought every item that was in stock all along
\* to a quantity it had during the run: the report is the run's own and whole.
\* An item that was sold out at some moment may keep an older row, and so may
\* those of a batch that was acknowledged and did not commit.
SuccessIsFresh ==
  pc = "log" /\ status = "success" =>
    \A i \in Items \ lost : 0 \notin held[i] => rows[i] \in held[i]

\* Whatever a run writes is a quantity the item had during that run.
WritesWereHeld == [][\A i \in Items : rows'[i] # rows[i] => rows'[i] \in held[i]]_vars

\* A cancelled run ends, whatever becomes of its report.
CancelEnds == Running /\ ~live ~> ~Running

\* A run whose report is done or has failed ends.
ReportEnds == pc \in {"poll", "sleep"} /\ task \in {"done", "error"} ~> ~Running
=============================================================================
