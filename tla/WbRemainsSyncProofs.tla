-------------------------- MODULE WbRemainsSyncProofs --------------------------
(***************************************************************************)
(* Proofs about WbRemainsSync for every set of items, every stock, and any *)
(* number of changes and faults.                                           *)
(***************************************************************************)
EXTENDS WbRemainsSync, TLAPS

USE DEF wb, history

\* A run's own task is the one whose report it takes: a report that is done
\* while the run asks for it was made after the run created its task.
ReportIsOwn ==
  pc \in {"poll", "sleep", "download"} /\ task = "done" => \A i \in Items : report[i] \in held[i]

\* Only a finished report is downloaded.
DownloadsDone == pc = "download" => task = "done"

\* What is about to be stored was in stock during the run.
BodyWasHeld == pc = "upsert" => \A i \in Items : body[i] \in held[i]

\* The history holds at least the present stock.
HoldsStock == Running => \A i \in Items : stock[i] \in held[i]

FreshInv ==
  TypeOK /\ HoldsStock /\ ReportIsOwn /\ DownloadsDone /\ BodyWasHeld /\ SuccessIsFresh

LEMMA InitFreshInv == Init => FreshInv
<1> SUFFICES ASSUME Init PROVE FreshInv
  OBVIOUS
<1>1. TypeOK
  BY NumberAssumption DEF Init, TypeOK, Nothing
<1> QED
  BY <1>1 DEF Init, FreshInv, HoldsStock, Running, ReportIsOwn, DownloadsDone, BodyWasHeld,
              SuccessIsFresh

\* Goods that come or go during a run only add to what it may report.
LEMMA ChangeStockFreshInv == FreshInv /\ ChangeStock => FreshInv'
<1> SUFFICES ASSUME FreshInv, ChangeStock PROVE FreshInv'
  OBVIOUS
<1>1. UNCHANGED <<task, report, rows, pc, body, status, live, faults, lost>>
  BY DEF ChangeStock
<1>2. PICK k \in Items, q \in 0..MaxQuantity : stock' = [stock EXCEPT ![k] = q]
  BY DEF ChangeStock
<1>3. held' = [i \in Items |-> IF Running THEN held[i] \cup {stock'[i]} ELSE {}]
  BY DEF ChangeStock
<1>4. TypeOK'
  BY <1>1, <1>2, <1>3 DEF FreshInv, TypeOK
<1>5. Running => \A i \in Items : held[i] \subseteq held'[i] /\ stock'[i] \in held'[i]
  BY <1>3 DEF FreshInv, TypeOK
<1>6. HoldsStock' /\ ReportIsOwn' /\ DownloadsDone' /\ BodyWasHeld'
  BY <1>1, <1>5 DEF FreshInv, HoldsStock, ReportIsOwn, DownloadsDone, BodyWasHeld, Running
<1>7. SuccessIsFresh'
  BY <1>1, <1>5 DEF FreshInv, SuccessIsFresh, Running
<1> QED
  BY <1>4, <1>6, <1>7 DEF FreshInv

\* The report is the stock of the moment it is made.
LEMMA GenerateFreshInv == FreshInv /\ Generate => FreshInv'
<1> SUFFICES ASSUME FreshInv, Generate PROVE FreshInv'
  OBVIOUS
<1>1. UNCHANGED <<stock, rows, pc, body, status, live, history>>
  BY DEF Generate
<1>2. task \in {"processing", "other"} /\ task' \in {"done", "error", "other"}
  BY DEF Generate
<1>3. task' = "done" => report' = stock
  BY DEF Generate
<1>4. report' \in {stock, report}
  BY DEF Generate
<1>5. TypeOK'
  BY <1>1, <1>2, <1>4 DEF FreshInv, TypeOK
<1>6. pc # "download"
  BY <1>2 DEF FreshInv, DownloadsDone
<1>7. HoldsStock' /\ ReportIsOwn' /\ DownloadsDone' /\ BodyWasHeld' /\ SuccessIsFresh'
  BY <1>1, <1>3, <1>6
     DEF FreshInv, HoldsStock, ReportIsOwn, DownloadsDone, BodyWasHeld, SuccessIsFresh, Running
<1> QED
  BY <1>5, <1>7 DEF FreshInv

\* Steps that end a run, or only make it give up.
LEMMA EndFreshInv ==
  ASSUME FreshInv, UNCHANGED <<wb, rows>>, EndRun \/ UNCHANGED <<pc, body, status, history>>,
         live' \in BOOLEAN
  PROVE  FreshInv'
<1>1. CASE EndRun
  <2>1. TypeOK'
    BY <1>1, NumberAssumption DEF FreshInv, TypeOK, EndRun, Nothing
  <2> QED
    BY <1>1, <2>1 DEF FreshInv, EndRun, HoldsStock, ReportIsOwn, DownloadsDone, BodyWasHeld,
                      SuccessIsFresh, Running
<1>2. CASE UNCHANGED <<pc, body, status, history>>
  BY <1>2 DEF FreshInv, TypeOK, HoldsStock, ReportIsOwn, DownloadsDone, BodyWasHeld,
              SuccessIsFresh, Running
<1> QED
  BY <1>1, <1>2

LEMMA StartFreshInv == FreshInv /\ Start => FreshInv'
<1> SUFFICES ASSUME FreshInv, Start PROVE FreshInv'
  OBVIOUS
<1>1. TypeOK'
  BY DEF FreshInv, TypeOK, Start
<1> QED
  BY <1>1 DEF FreshInv, TypeOK, Start, HoldsStock, ReportIsOwn, DownloadsDone, BodyWasHeld,
              SuccessIsFresh, Running

\* A run starts with a task of its own: whatever report lay there is not taken.
LEMMA CreateFreshInv == FreshInv /\ CreateRemainsReport => FreshInv'
<1> SUFFICES ASSUME FreshInv, CreateRemainsReport PROVE FreshInv'
  OBVIOUS
<1>1. UNCHANGED <<stock, report, rows, body, live, history>> /\ pc = "create"
  BY DEF CreateRemainsReport
<1>2. \/ pc' = "poll" /\ task' = "processing" /\ status' = status
      \/ pc' = "log" /\ task' \in {task, "processing"} /\ status' = "error"
  BY DEF CreateRemainsReport, NewTask, GiveUp
<1>3. TypeOK'
  BY <1>1, <1>2 DEF FreshInv, TypeOK
<1> QED
  BY <1>1, <1>2, <1>3 DEF FreshInv, HoldsStock, ReportIsOwn, DownloadsDone, BodyWasHeld,
                          SuccessIsFresh, Running

LEMMA PollFreshInv == FreshInv /\ (CheckReportStatus \/ Wake) => FreshInv'
<1> SUFFICES ASSUME FreshInv, CheckReportStatus \/ Wake PROVE FreshInv'
  OBVIOUS
<1>1. UNCHANGED <<wb, rows, body, live, history>> /\ pc \in {"poll", "sleep"}
  BY DEF CheckReportStatus, Wake
<1>2. \/ pc' = "download" /\ task = "done" /\ status' = status
      \/ pc' \in {"poll", "sleep"} /\ status' = status
      \/ pc' = "log" /\ status' = "error"
  BY DEF CheckReportStatus, Wake, GiveUp
<1>3. TypeOK'
  BY <1>1, <1>2 DEF FreshInv, TypeOK
<1> QED
  BY <1>1, <1>2, <1>3 DEF FreshInv, HoldsStock, ReportIsOwn, DownloadsDone, BodyWasHeld,
                          SuccessIsFresh, Running

\* A report with nothing in it leaves nothing to store: every item was sold out
\* at that moment.
LEMMA DownloadFreshInv == FreshInv /\ DownloadRemainsReport => FreshInv'
<1> SUFFICES ASSUME FreshInv, DownloadRemainsReport PROVE FreshInv'
  OBVIOUS
<1>1. UNCHANGED <<wb, rows, live, history>> /\ pc = "download"
  BY DEF DownloadRemainsReport
<1>2. \/ pc' = "log" /\ report = Nothing /\ body' = report /\ status' = status
      \/ pc' = "upsert" /\ body' = report /\ status' = status
      \/ pc' = "log" /\ body' = body /\ status' = "error"
  BY DEF DownloadRemainsReport, GiveUp
<1>3. \A i \in Items : report[i] \in held[i]
  BY <1>1 DEF FreshInv, ReportIsOwn, DownloadsDone
<1>4. TypeOK'
  BY <1>1, <1>2 DEF FreshInv, TypeOK
<1>5. SuccessIsFresh'
  BY <1>1, <1>2, <1>3 DEF SuccessIsFresh, Nothing
<1> QED
  BY <1>1, <1>2, <1>3, <1>4, <1>5 DEF FreshInv, HoldsStock, ReportIsOwn, DownloadsDone,
                                      BodyWasHeld, Running

LEMMA UpsertFreshInv == FreshInv /\ UpsertBatch => FreshInv'
<1> SUFFICES ASSUME FreshInv, UpsertBatch PROVE FreshInv'
  OBVIOUS
<1>1. UNCHANGED <<wb, body, live, held>> /\ pc = "upsert" /\ pc' = "log"
  BY DEF UpsertBatch, GiveUp
<1>2. \/ StoreReport /\ status' = status /\ lost' = lost
      \/ UNCHANGED rows /\ status' = status /\ lost' = {i \in Items : body[i] # 0}
      \/ (StoreReport \/ UNCHANGED rows) /\ status' = "error" /\ lost' = lost
  BY DEF UpsertBatch, GiveUp
<1>3. TypeOK'
  BY <1>1, <1>2 DEF FreshInv, TypeOK, StoreReport
<1>4. \A i \in Items : body[i] \in held[i]
  BY <1>1 DEF FreshInv, BodyWasHeld
<1>5. SuccessIsFresh'
  <2>1. StoreReport => \A i \in Items : 0 \notin held[i] => rows'[i] \in held[i]
    BY <1>4 DEF StoreReport
  <2>2. status' = "success" => StoreReport \/ \A i \in Items \ lost' : 0 \in held[i]
    BY <1>2, <1>4
  <2> QED
    BY <1>1, <2>1, <2>2 DEF SuccessIsFresh
<1> QED
  BY <1>1, <1>3, <1>5 DEF FreshInv, HoldsStock, ReportIsOwn, DownloadsDone, BodyWasHeld, Running

LEMMA NextFreshInv == FreshInv /\ [Next]_vars => FreshInv'
<1> SUFFICES ASSUME FreshInv, [Next]_vars PROVE FreshInv'
  OBVIOUS
<1>1. ASSUME Crash \/ InsertLog PROVE FreshInv'
  BY <1>1, EndFreshInv DEF Crash, InsertLog, EndRun
<1>2. ASSUME Cancel \/ UNCHANGED vars PROVE FreshInv'
  BY <1>2, EndFreshInv DEF Cancel, vars, FreshInv, TypeOK
<1> QED
  BY <1>1, <1>2, ChangeStockFreshInv, GenerateFreshInv, StartFreshInv, CreateFreshInv,
     PollFreshInv, DownloadFreshInv, UpsertFreshInv DEF Next, Step

\* Every variable keeps its type.
THEOREM TypeCorrect == Spec => []TypeOK
<1>1. FreshInv => TypeOK
  BY DEF FreshInv
<1> QED
  BY <1>1, InitFreshInv, NextFreshInv, PTL DEF Spec

\* However many runs before it left a task or a report behind, a run that ends
\* in success has brought every item that was never sold out during the run to a
\* quantity it had then, unless a failed commit lost the batch.
THEOREM SuccessAlwaysFresh == Spec => []SuccessIsFresh
<1>1. FreshInv => SuccessIsFresh
  BY DEF FreshInv
<1> QED
  BY <1>1, InitFreshInv, NextFreshInv, PTL DEF Spec

\* A row only ever changes to a quantity the item had during the run that writes
\* it, also when the run fails afterwards.
THEOREM WritesAlwaysHeld == Spec => WritesWereHeld
<1>1. FreshInv /\ [Next]_vars => [\A i \in Items : rows'[i] # rows[i] => rows'[i] \in held[i]]_vars
  <2> SUFFICES ASSUME FreshInv, Next, NEW i \in Items, rows'[i] # rows[i]
               PROVE  rows'[i] \in held[i]
    OBVIOUS
  <2>1. UpsertBatch
    BY DEF Next, Step, ChangeStock, Generate, Crash, Cancel, Start, CreateRemainsReport,
           CheckReportStatus, Wake, DownloadRemainsReport, InsertLog
  <2>2. body[i] \in held[i] /\ StoreReport
    BY <2>1 DEF FreshInv, BodyWasHeld, UpsertBatch
  <2> QED
    BY <2>2 DEF StoreReport
<1> QED
  BY <1>1, InitFreshInv, NextFreshInv, PTL DEF Spec, WritesWereHeld
=============================================================================
