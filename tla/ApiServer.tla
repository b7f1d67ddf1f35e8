----------------------------- MODULE ApiServer -----------------------------
(***************************************************************************)
(* The API server (cmd/server, transport/http) beside the Ozon orders      *)
(* sync: requests are answered from ozon_orders with one query or several, *)
(* between which the sync writes, over a pool of connections, until a      *)
(* signal shuts the server down.                                           *)
(*                                                                         *)
(* Three kinds of requests stand for all: "list" is a page and its total   *)
(* (two queries), "stats" three queries, "single" one query, which is what *)
(* the other handlers make.  A client reads the list page by page from     *)
(* offset 0, as its own loop would (external).                             *)
(*                                                                         *)
(* A row's created_at is set when it is inserted and stays.  NULL is a     *)
(* time after all others, which is where a descending order puts it.       *)
(***************************************************************************)
EXTENDS OzonOrdersSync

CONSTANTS
  Clients,      \* each has at most one request open
  MaxConns,     \* DB_POOL_MAX
  PageLimit,    \* the limit the clients ask for
  Times         \* what the created_at of the postings may be: [Postings -> Nat], each

ASSUME ServerAssumption == {MaxConns, PageLimit} \subseteq Nat \ {0}
ASSUME TimesAssumption == \A f \in Times : \A p \in Postings : f[p] \in Nat

VARIABLES
  srv,      \* "up", "stopping", "stopped"
  query,    \* [Clients -> the query its handler makes next, or "none"]
  holds,    \* the clients whose handler has a connection
  req,      \* [Clients -> the request and what its handler has read; unseen is
            \* history: the rows of the first page's moment no page has shown]
  answered, \* the clients whose last request was answered with 200
  createdAt \* created_at in ozon_orders

handlers == <<query, holds, req, answered>>
serverVars == <<srv, handlers>>
vars == <<syncVars, serverVars, createdAt>>

NoRequest == [kind |-> "none", offset |-> 0, len |-> 0, total |-> 0, byScheme |-> 0,
              cut |-> FALSE, unseen |-> {}]

ServerInit ==
  /\ Init
  /\ srv = "up" /\ query = [c \in Clients |-> "none"] /\ holds = {}
  /\ req = [c \in Clients |-> NoRequest] /\ answered = {}
  /\ createdAt \in Times

Table == {p \in Postings : rows[p] # 0}

\* A slip: the last one written comes first.
Before_Updated(p, q) == rows[p] > rows[q]

\* ORDER BY created_at DESC.  Rows of the same time, or of none, come in any order.
Before(p, q) == createdAt[p] > createdAt[q]

\* What the first n rows may be.
Fronts(n) ==
  {F \in SUBSET Table :
     /\ \A p \in F, q \in Table \ F : ~Before(q, p)
     /\ Cardinality(F) <= n
     /\ F # Table => Cardinality(F) = n}

\* The pages LIMIT and OFFSET may take.
PagesAt(offset_) ==
  UNION {{B \ A : A \in Fronts(offset_) \cap SUBSET B} : B \in Fronts(offset_ + PageLimit)}

-----------------------------------------------------------------------------
(* Requests *)

LastOfList(c) ==
  req[c].len = 0 \/ req[c].offset + req[c].len >= req[c].total

\* What the client of the list asks for after an answer.
NextPage(c) == [req[c] EXCEPT !.offset = @ + req[c].len, !.len = 0, !.total = 0]

\* A handler is called: a page of the list, the first or the one after the last
\* answer, or one of the others.
Request(c) ==
  /\ srv = "up" /\ query[c] = "none"
  /\ \/ /\ query' = [query EXCEPT ![c] = "page"]
        /\ req' = [req EXCEPT ![c] =
             IF c \in answered /\ req[c].kind = "list" /\ ~LastOfList(c) THEN NextPage(c)
             ELSE [NoRequest EXCEPT !.kind = "list", !.unseen = Table]]
     \/ /\ query' = [query EXCEPT ![c] = "total"]
        /\ req' = [req EXCEPT ![c] = [NoRequest EXCEPT !.kind = "stats"]]
     \/ /\ query' = [query EXCEPT ![c] = "single"]
        /\ req' = [req EXCEPT ![c] = [NoRequest EXCEPT !.kind = "single"]]
  /\ answered' = answered \ {c}
  /\ UNCHANGED <<srv, holds>>

\* The pool gives a handler's query a connection.
Acquire(c) ==
  /\ srv # "stopped" /\ query[c] # "none" /\ c \notin holds /\ Cardinality(holds) < MaxConns
  /\ holds' = holds \cup {c}
  /\ UNCHANGED <<srv, query, req, answered>>

\* A slip: the connection of the query is never given back.
Reads_Leaks(c, r, next) ==
  /\ req' = [req EXCEPT ![c] = r] /\ query' = [query EXCEPT ![c] = next]
  /\ answered' = IF next = "none" THEN answered \cup {c} ELSE answered
  /\ UNCHANGED <<srv, holds>>

\* The handler reads r and makes its next query, which needs a connection anew;
\* after its last one it writes its answer.
Reads(c, r, next) ==
  /\ req' = [req EXCEPT ![c] = r] /\ query' = [query EXCEPT ![c] = next]
  /\ holds' = holds \ {c}
  /\ answered' = IF next = "none" THEN answered \cup {c} ELSE answered
  /\ UNCHANGED srv

\* A slip: the total is counted before the page is read.
GetList_CountsFirst(c) ==
  \/ query[c] = "page" /\ Reads(c, [req[c] EXCEPT !.total = Cardinality(Table)], "count")
  \/ /\ query[c] = "count"
     /\ \E page \in PagesAt(req[c].offset) :
          Reads(c, [req[c] EXCEPT !.len = Cardinality(page), !.unseen = @ \ page], "none")

\* OzonOrderRepo.GetList
GetList(c) ==
  \/ /\ query[c] = "page"
     /\ \E page \in PagesAt(req[c].offset) :
          Reads(c, [req[c] EXCEPT !.len = Cardinality(page), !.unseen = @ \ page], "count")
  \/ query[c] = "count" /\ Reads(c, [req[c] EXCEPT !.total = Cardinality(Table)], "none")

\* A slip: the schemes are counted before the total.
GetStats_SchemesFirst(c) ==
  \/ query[c] = "total" /\ Reads(c, [req[c] EXCEPT !.byScheme = Cardinality(Table)], "byScheme")
  \/ query[c] = "byScheme" /\ Reads(c, [req[c] EXCEPT !.total = Cardinality(Table)], "updated")
  \/ query[c] = "updated" /\ Reads(c, req[c], "none")

\* A slip: the rows of the second query stay open until the function returns.
GetStats_KeepsRows(c) ==
  \/ query[c] = "total" /\ Reads(c, [req[c] EXCEPT !.total = Cardinality(Table)], "byScheme")
  \/ /\ query[c] = "byScheme"
     /\ req' = [req EXCEPT ![c].byScheme = Cardinality(Table)]
     /\ query' = [query EXCEPT ![c] = "updated"]
     /\ UNCHANGED <<srv, holds, answered>>
  \/ query[c] = "updated" /\ Cardinality(holds) < MaxConns /\ Reads(c, req[c], "none")

\* OzonOrderRepo.GetStats.  The rows of the second query are read to their end,
\* which gives its connection back before the third; rows.Err() is not asked, so
\* a connection lost among them cuts the split short.
GetStats(c) ==
  \/ query[c] = "total" /\ Reads(c, [req[c] EXCEPT !.total = Cardinality(Table)], "byScheme")
  \/ query[c] = "byScheme" /\ Reads(c, [req[c] EXCEPT !.byScheme = Cardinality(Table)], "updated")
  \/ query[c] = "updated" /\ Reads(c, req[c], "none")

LoseRows(c) ==
  /\ srv # "stopped" /\ c \in holds /\ query[c] = "byScheme" /\ Strikes("rows")
  /\ \E S \in SUBSET {Fbo, Fbs} :
       Reads(c, [req[c] EXCEPT !.byScheme = Cardinality(Table \cap UNION S), !.cut = TRUE], "updated")
  /\ UNCHANGED <<ozon, rows, pc, walk, run, createdAt>>

Single(c) == query[c] = "single" /\ Reads(c, req[c], "none")

Handle(c) == srv # "stopped" /\ c \in holds /\ (GetList(c) \/ GetStats(c) \/ Single(c))

\* A query fails, or the client has left and its context is cancelled, with or
\* without a connection: writeError.
WriteError(c) ==
  /\ srv # "stopped" /\ query[c] # "none" /\ Strikes("query")
  /\ query' = [query EXCEPT ![c] = "none"] /\ holds' = holds \ {c}
  /\ req' = [req EXCEPT ![c] = NoRequest]
  /\ UNCHANGED <<srv, answered, ozon, rows, pc, walk, run, createdAt>>

-----------------------------------------------------------------------------
(* The life of the server *)

\* SIGTERM: Shutdown closes the listener.
Signal ==
  /\ srv = "up" /\ srv' = "stopping"
  /\ UNCHANGED handlers

\* Shutdown has seen every handler return; the pool is closed, the process ends.
Stop ==
  /\ srv = "stopping" /\ \A c \in Clients : query[c] = "none"
  /\ srv' = "stopped"
  /\ req' = [c \in Clients |-> NoRequest] /\ answered' = {}
  /\ UNCHANGED <<query, holds>>

Serve(c) == Acquire(c) \/ Handle(c)

ServerNext ==
  \/ \E c \in Clients : Request(c) \/ Serve(c)
  \/ Signal \/ Stop

Next ==
  \/ SyncNext /\ UNCHANGED <<serverVars, createdAt>>
  \/ ServerNext /\ UNCHANGED <<syncVars, createdAt>>
  \/ \E c \in Clients : LoseRows(c) \/ WriteError(c)

Spec == ServerInit /\ [][Next]_vars

\* Calls of the sync return.  Handlers run and their queries return; the pool serves
\* those that wait for a connection in their order, so none of them waits for ever.
FairSpec ==
  /\ Spec
  /\ WF_syncVars(SyncStep)
  /\ \A c \in Clients : SF_serverVars(Serve(c))

-----------------------------------------------------------------------------
(* Properties *)

\* The values the server's variables take; a connection is held only by the
\* handler of an open request, and never more are held than the pool has.
ServerTypeOK ==
  /\ srv \in {"up", "stopping", "stopped"}
  /\ query \in [Clients -> {"none", "page", "count", "total", "byScheme", "updated", "single"}]
  /\ holds \subseteq {c \in Clients : query[c] # "none"} /\ Cardinality(holds) <= MaxConns
  /\ answered \subseteq {c \in Clients : query[c] = "none"}
  /\ createdAt \in Times

\* A page and its total, read by two queries between which the sync writes, fit
\* each other: the total is never less than the rows up to the end of the page.
PageFitsTotal ==
  \A c \in answered : req[c].kind = "list" /\ req[c].len # 0 =>
    req[c].offset + req[c].len <= req[c].total

\* The total of the statistics is never more than its split by scheme, which is
\* read after it, adds up to, unless a lost connection has cut the split short.
StatsCover ==
  \A c \in answered : req[c].kind = "stats" /\ ~req[c].cut => req[c].total <= req[c].byScheme

\* No other row was created at the same time.
Alone(p) == \A q \in Table \ {p} : createdAt[q] # createdAt[p]

\* A client that pages through the list until its total, while the sync inserts
\* and updates rows, misses no order that was there when it began, but for those
\* that share their creation time with another: these may change places between
\* two pages.
ListSeesAll ==
  \A c \in answered : req[c].kind = "list" /\ LastOfList(c) =>
    \A p \in req[c].unseen : ~Alone(p)

\* Every accepted request is answered, with the pool at its limit and during a
\* shutdown too; so the shutdown, which waits for them, comes to its end.
RequestsEnd == \A c \in Clients : query[c] # "none" ~> query[c] = "none"
=============================================================================
