------------------------------ MODULE CardSync ------------------------------
(***************************************************************************)
(* The Wildberries product-card synchronization: CardsService.SyncCards    *)
(* (service/wb_cards.go) walks the Content API page by page through        *)
(* WbCardsClient.FetchAllCards, stores each page with UpsertBatch and only *)
(* then saves the page's cursor, from which the next run resumes.          *)
(*                                                                         *)
(* Data.  A version of a card is its position in the order in which the    *)
(* API lists cards, the pair (updatedAt, nmID), as one natural number; an  *)
(* edit gives the card a larger position.  0 is no card, no row, or the    *)
(* nil cursor.  Everything else in a card is left out.                     *)
(***************************************************************************)
EXTENDS Integers, FiniteSets

CONSTANTS
  Cards,        \* the seller's product cards (nmID)
  Jobs,         \* processes that may run `sync --entity=wb_cards`
  Timer,        \* the one among them that the systemd timer starts
  Overlap,      \* may a second process start while one runs?
  BatchSize,    \* BATCH_SIZE as configured
  PageMax,      \* the most cards the API puts on a page
  FaultKinds,   \* which faults may happen: "api", "db", "commit", "crash", "cancel"
  MaxFaults,    \* bound: how many of them
  MaxClock,     \* bound: how many edits the seller makes
  CursorScans,  \* does the driver scan a saved TIMESTAMPTZ into a Go string?
  SeedRows,     \* the row of sync_cursor_state the program may first find:
  NoRow,        \*   there is none, or
  NullRow       \*   the row the migration inserts, (1, NULL, NULL)

ASSUME CardsAssumption == IsFiniteSet(Cards)
ASSUME JobsAssumption == Timer \in Jobs /\ Overlap \in BOOLEAN
ASSUME PageAssumption == BatchSize \in Int /\ PageMax \in Nat \ {0}
ASSUME BoundsAssumption == MaxFaults \in Nat /\ MaxClock \in Nat
ASSUME RowAssumption ==
  NoRow \notin Nat /\ NullRow \notin Nat /\ NoRow # NullRow /\ SeedRows \subseteq {NoRow, NullRow}
ASSUME ScanAssumption == CursorScans \subseteq BOOLEAN

VARIABLES
  \* the seller's catalog
  catalog,   \* [Cards -> Nat]: position of a card's current version, 0: none
  clock,     \* the last position given out
  \* the database
  rows,      \* wb_cards: position of the stored version of a card, 0: no row
  stored,    \* sync_cursor_state: NoRow, NullRow or a position
  logged,    \* sync_logs: the row the job's latest run left, "none" if none
  \* the processes: where each is in SyncCards, and its local variables
  pc, cur, page, next, total, status,
  live,      \* ctx is not cancelled
  \* history, read by the properties only
  seen,      \* the clock when the run last asked for a page
  written,   \* the cards the run has changed in wb_cards
  faults     \* how many faults have happened

upstream == <<catalog, clock>>
db == <<rows, stored, logged>>
locals == <<cur, page, next, total, status, seen, written>>
vars == <<upstream, db, pc, locals, live, faults>>

Statuses == {"success", "error"}
Labels == {"idle", "cursor", "fetch", "upsert", "save", "log"}
Running(j) == pc[j] # "idle"
EmptyPage == [c \in Cards |-> 0]
OnPage(j) == {c \in Cards : page[j][c] # 0}

\* NewCardsService: a batch limit that is not positive is replaced by 100.
Limit == IF BatchSize > 0 THEN BatchSize ELSE 100

Init ==
  /\ catalog \in [Cards -> {0}] /\ clock = 0
  /\ rows = [c \in Cards |-> 0] /\ stored \in SeedRows
  /\ logged = [j \in Jobs |-> "none"]
  /\ pc = [j \in Jobs |-> "idle"]
  /\ cur = [j \in Jobs |-> 0] /\ next = [j \in Jobs |-> 0]
  /\ page = [j \in Jobs |-> EmptyPage]
  /\ total = [j \in Jobs |-> 0] /\ written = [j \in Jobs |-> 0]
  /\ status = [j \in Jobs |-> "success"]
  /\ live = [j \in Jobs |-> TRUE]
  /\ seen = [j \in Jobs |-> 0]
  /\ faults = 0

-----------------------------------------------------------------------------
(* The seller (external): cards are created, edited and removed at any time. *)

Publish(c) ==
  /\ clock < MaxClock
  /\ clock' = clock + 1
  /\ catalog' = [catalog EXCEPT ![c] = clock']
  /\ UNCHANGED <<db, pc, locals, live, faults>>

Withdraw(c) ==
  /\ catalog[c] # 0
  /\ catalog' = [catalog EXCEPT ![c] = 0]
  /\ UNCHANGED <<clock, db, pc, locals, live, faults>>

-----------------------------------------------------------------------------
(* Faults.  Every call below takes ctx, so after SIGINT or SIGTERM each one *)
(* that has not finished fails; a live one fails when a fault strikes.      *)

Strikes(kind) == kind \in FaultKinds /\ faults < MaxFaults /\ faults' = faults + 1

Breaks(j, kind) ==
  \/ ~live[j] /\ UNCHANGED faults
  \/ live[j] /\ Strikes(kind)

\* May a batch whose every statement was acknowledged not commit?
LoseCommit == "commit" \in FaultKinds

\* The call's error becomes the error of SyncCards: the walk is over.
GiveUp(j) ==
  /\ status' = [status EXCEPT ![j] = "error"]
  /\ pc' = [pc EXCEPT ![j] = "log"]

Goto(j, label) == pc' = [pc EXCEPT ![j] = label]

\* SIGKILL, panic or power loss: nothing deferred runs, the process is gone.
Crash(j) ==
  /\ Running(j) /\ Strikes("crash")
  /\ Goto(j, "idle")
  /\ UNCHANGED <<upstream, db, locals, live>>

\* signal.NotifyContext cancels ctx.
Cancel(j) ==
  /\ Running(j) /\ live[j] /\ Strikes("cancel")
  /\ live' = [live EXCEPT ![j] = FALSE]
  /\ UNCHANGED <<upstream, db, pc, locals>>

-----------------------------------------------------------------------------
(* One run of SyncCards, one action per call it makes. *)

\* main: fresh process, fresh context.  systemd never starts a unit that is
\* still active; a run from a shell is only kept apart by the operator.
Start(j) ==
  /\ Overlap \/ \A k \in Jobs : ~Running(k)
  /\ ~Running(j)
  /\ Goto(j, "cursor")
  /\ live' = [live EXCEPT ![j] = TRUE]
  /\ status' = [status EXCEPT ![j] = "success"]
  /\ logged' = [logged EXCEPT ![j] = "none"]
  /\ total' = [total EXCEPT ![j] = 0]
  /\ written' = [written EXCEPT ![j] = 0]
  /\ seen' = [seen EXCEPT ![j] = clock]
  /\ cur' = [cur EXCEPT ![j] = 0]
  /\ next' = [next EXCEPT ![j] = 0]
  /\ page' = [page EXCEPT ![j] = EmptyPage]
  /\ UNCHANGED <<upstream, rows, stored, faults>>

\* GetCursor: no row means no cursor.  The row's last_updated_at is scanned
\* into a Go string, and the scan of an existing row fails: of a NULL always,
\* of a saved position in the driver's default, binary format (FALSE in
\* CursorScans).  TRUE is a driver told to use the text format: what is shown
\* of the resumed walk must not rest on there being none.
GetCursor(j) ==
  /\ pc[j] = "cursor"
  /\ \/ /\ live[j] /\ stored # NullRow
        /\ stored = NoRow \/ TRUE \in CursorScans
        /\ cur' = [cur EXCEPT ![j] = IF stored = NoRow THEN 0 ELSE stored]
        /\ Goto(j, "fetch")
        /\ UNCHANGED <<status, faults>>
     \/ /\ live[j] /\ stored # NoRow
        /\ stored = NullRow \/ FALSE \in CursorScans
        /\ GiveUp(j)
        /\ UNCHANGED <<cur, faults>>
     \/ /\ Breaks(j, "db")
        /\ GiveUp(j)
        /\ UNCHANGED cur
  /\ UNCHANGED <<upstream, db, live, page, next, total, seen, written>>

Pending(p) == {c \in Cards : catalog[c] > p}

\* The pages the API may answer with after position p (external): the lowest
\* pending positions, as many as fit.
Pages(p) ==
  {S \in SUBSET Pending(p) :
     /\ \A c \in S, d \in Pending(p) : catalog[d] <= catalog[c] => d \in S
     /\ Cardinality(S) <= Limit /\ Cardinality(S) <= PageMax
     /\ S # Pending(p) => Cardinality(S) \in {Limit, PageMax}}

\* FetchAllCards, up to the callback: an empty page ends the walk.  The
\* answer's cursor is its last card, or is left out on a page with nothing
\* behind it.
FetchCardsBatch(j) ==
  /\ pc[j] = "fetch"
  /\ \/ /\ live[j]
        /\ \E S \in Pages(cur[j]) :
             /\ page' = [page EXCEPT ![j] =
                           [c \in Cards |-> IF c \in S THEN catalog[c] ELSE 0]]
             /\ \/ /\ S = {}
                   /\ next' = [next EXCEPT ![j] = 0]
                   /\ Goto(j, "log")
                \/ /\ S # {}
                   /\ \/ \E c \in S : /\ \A d \in S : catalog[d] <= catalog[c]
                                      /\ next' = [next EXCEPT ![j] = catalog[c]]
                      \/ S = Pending(cur[j]) /\ next' = [next EXCEPT ![j] = 0]
                   /\ Goto(j, "upsert")
        /\ seen' = [seen EXCEPT ![j] = clock]
        /\ UNCHANGED <<status, faults>>
     \/ /\ Breaks(j, "api")
        /\ GiveUp(j)
        /\ UNCHANGED <<page, next, seen>>
  /\ UNCHANGED <<upstream, db, live, cur, total, written>>

\* The batch is one implicit transaction of unconditional upserts.
StorePage(j) ==
  /\ rows' = [c \in Cards |-> IF c \in OnPage(j) THEN page[j][c] ELSE rows[c]]
  /\ written' = [written EXCEPT ![j] = @ + Cardinality(OnPage(j))]

\* A slip: the walk goes on only when a page is over-full.
LastPage_OffByOne(j) == next[j] = 0 \/ Cardinality(OnPage(j)) <= Limit

\* FetchAllCards, after the callback: go on unless the page was the last.
LastPage(j) == next[j] = 0 \/ Cardinality(OnPage(j)) < Limit

NextPage(j) ==
  IF LastPage(j)
    THEN Goto(j, "log") /\ UNCHANGED cur
    ELSE Goto(j, "fetch") /\ cur' = [cur EXCEPT ![j] = next[j]]

\* A slip: the callback logs the upsert's error and goes on to the cursor.
UpsertBatch_DropsError(j) ==
  /\ pc[j] = "upsert"
  /\ StorePage(j) \/ UNCHANGED <<rows, written>>
  /\ IF next[j] = 0 THEN NextPage(j) ELSE Goto(j, "save") /\ UNCHANGED cur
  /\ UNCHANGED <<upstream, stored, logged, live, page, next, total, status, seen, faults>>

\* A slip: the records of a batch are counted before it is executed.
UpsertBatch_CountsFirst(j) ==
  /\ pc[j] = "upsert"
  /\ total' = [total EXCEPT ![j] = @ + Cardinality(OnPage(j))]
  /\ \/ /\ live[j] /\ StorePage(j)
        /\ IF next[j] = 0 THEN NextPage(j) ELSE Goto(j, "save") /\ UNCHANGED cur
        /\ UNCHANGED <<status, faults>>
     \/ Breaks(j, "db") /\ UNCHANGED <<rows, written>> /\ GiveUp(j) /\ UNCHANGED cur
  /\ UNCHANGED <<upstream, stored, logged, live, page, next, seen>>

\* A slip: a batch that fails is tried again until it succeeds.
UpsertBatch_TriesAgain(j) ==
  /\ pc[j] = "upsert"
  /\ \/ /\ live[j] /\ StorePage(j)
        /\ total' = [total EXCEPT ![j] = @ + Cardinality(OnPage(j))]
        /\ IF next[j] = 0 THEN NextPage(j) ELSE Goto(j, "save") /\ UNCHANGED cur
        /\ UNCHANGED <<status, faults>>
     \/ Breaks(j, "db") /\ UNCHANGED <<rows, written, total, pc, cur, status>>
  /\ UNCHANGED <<upstream, stored, logged, live, page, next, seen>>

\* onBatch, first half.  An error may reach the client although the server
\* committed; and since br.Close's error is dropped, a batch may be counted
\* although it did not commit.
UpsertBatch(j) ==
  /\ pc[j] = "upsert"
  /\ \/ /\ live[j]
        /\ \/ StorePage(j) /\ UNCHANGED faults
           \/ Strikes("commit") /\ UNCHANGED <<rows, written>>
        /\ total' = [total EXCEPT ![j] = @ + Cardinality(OnPage(j))]
        /\ IF next[j] = 0 THEN NextPage(j) ELSE Goto(j, "save") /\ UNCHANGED cur
        /\ UNCHANGED status
     \/ /\ Breaks(j, "db")
        /\ StorePage(j) \/ UNCHANGED <<rows, written>>
        /\ GiveUp(j)
        /\ UNCHANGED <<cur, total>>
  /\ UNCHANGED <<upstream, stored, logged, live, page, next, seen>>

\* A slip: the cursor is saved even when the answer carried none.
SaveCursor_AnyCursor(j) ==
  /\ pc[j] \in {"save", "log"} /\ live[j]
  /\ stored' = next[j]
  /\ Goto(j, "log")
  /\ UNCHANGED <<upstream, rows, logged, live, cur, page, next, total, status, seen, written, faults>>

\* onBatch, second half: the page's cursor, once the page is stored.
SaveCursor(j) ==
  /\ pc[j] = "save"
  /\ \/ /\ live[j]
        /\ stored' = next[j]
        /\ NextPage(j)
        /\ UNCHANGED <<status, faults>>
     \/ /\ Breaks(j, "db")
        /\ stored' \in {stored, next[j]}
        /\ GiveUp(j)
        /\ UNCHANGED cur
  /\ UNCHANGED <<upstream, rows, logged, live, page, next, total, seen, written>>

\* The deferred insert into sync_logs, with the same ctx; then the process exits.
InsertLog(j) ==
  /\ pc[j] = "log"
  /\ \/ /\ live[j]
        /\ logged' = [logged EXCEPT ![j] = status[j]]
        /\ UNCHANGED faults
     \/ Breaks(j, "db") /\ UNCHANGED logged
  /\ Goto(j, "idle")
  /\ UNCHANGED <<upstream, rows, stored, live, locals>>

Step(j) ==
  GetCursor(j) \/ FetchCardsBatch(j) \/ UpsertBatch(j) \/ SaveCursor(j) \/ InsertLog(j)

Next ==
  \/ \E c \in Cards : Publish(c) \/ Withdraw(c)
  \/ \E j \in Jobs : Start(j) \/ Step(j) \/ Crash(j) \/ Cancel(j)

\* A process that runs goes on running, and the timer keeps firing.
Fairness == /\ \A j \in Jobs : WF_vars(Step(j))
            /\ WF_vars(Start(Timer))

Spec == Init /\ [][Next]_vars
FairSpec == Spec /\ Fairness
-----------------------------------------------------------------------------
(* Properties *)

\* The values the variables take; a saved cursor is never nil.
TypeOK ==
  /\ catalog \in [Cards -> Nat] /\ clock \in Nat
  /\ rows \in [Cards -> Nat]
  /\ stored \in {NoRow, NullRow} \cup (Nat \ {0})
  /\ logged \in [Jobs -> Statuses \cup {"none"}]
  /\ pc \in [Jobs -> Labels]
  /\ cur \in [Jobs -> Nat] /\ next \in [Jobs -> Nat]
  /\ page \in [Jobs -> [Cards -> Nat]]
  /\ total \in [Jobs -> Nat] /\ written \in [Jobs -> Nat]
  /\ status \in [Jobs -> Statuses] /\ live \in [Jobs -> BOOLEAN]
  /\ seen \in [Jobs -> Nat] /\ faults \in Nat

\* The position the saved cursor vouches for.
Mark == IF stored \in Nat THEN stored ELSE 0

\* Every version at or below position m is the one in wb_cards.
StoredUpTo(m) == \A c \in Cards : catalog[c] \in 1..m => rows[c] = catalog[c]

\* Whatever failed, crashed or was cancelled between the upsert of a page and
\* the save of its cursor, the next run, which starts after the saved cursor,
\* has nothing to go back for (onBatch, service/wb_cards.go:85-97).
CursorCovers == StoredUpTo(Mark)

\* A run that is about to log "success" has stored every version that existed
\* when it asked for its last page: no error path, short page or missing
\* cursor ends the walk early with success (client/wb_cards.go:134-152).
SuccessMeansCaughtUp ==
  \A j \in Jobs : pc[j] = "log" /\ status[j] = "success" => StoredUpTo(seen[j])

\* records_count never claims more cards than the run has put in wb_cards.
NeverOverReports == \A j \in Jobs : Running(j) => total[j] <= written[j]

\* The tables refine the mirror: no version of a card ever goes back, the
\* cursor never goes back, and it only moves over what is stored.
Mirror == INSTANCE CatalogMirror WITH mark <- Mark
ImplementsMirror == Mirror!Spec

\* The wb_cards table is the catalog as far as it goes (rows of withdrawn
\* cards are never deleted).
UpToDate == \A c \in Cards : catalog[c] # 0 => rows[c] = catalog[c]

\* A walk ends, whatever is edited, fails or is cancelled meanwhile: the cursor
\* it continues from always moves, and no failure is retried for ever
\* (client/wb_cards.go:134-152).
RunsEnd == \A j \in Jobs : Running(j) ~> ~Running(j)

\* When the seller stops editing and the faults stop, the timer's runs bring
\* the table up to date and keep it so (service/wb_cards.go:43: "full cards
\* synchronization flow (incremental if cursor exists)").
Converges == <>[]UpToDate

\* GetCursor is all that can keep the table behind: if runs go on getting past
\* it, then whatever failed, was killed or was edited, the table comes up to
\* date and stays so.
ConvergesPastCursor == []<>(\E j \in Jobs : pc[j] = "fetch") => Converges

\* README.md:19: every single sync task leaves its metadata.  A process that
\* gets as far as its deferred insert, with the database up, leaves a row.
EveryRunLogged == [][\A j \in Jobs : InsertLog(j) => logged'[j] # "none"]_vars
=============================================================================
