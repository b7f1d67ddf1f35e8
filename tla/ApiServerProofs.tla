--------------------------- MODULE ApiServerProofs ---------------------------
(***************************************************************************)
(* Proofs about ApiServer for any number of clients, every size of the     *)
(* pool and of the pages, and any number of postings, changes and faults:  *)
(* what the answers of several queries promise while the sync writes       *)
(* between them, and that the sync is as before beside the server.         *)
(***************************************************************************)
EXTENDS ApiServer, OzonOrdersSyncProofs

USE DEF ozon, walk, run

-----------------------------------------------------------------------------
(* The table and its pages. *)

\* How many rows were created after p.
ListPlace(p) == Cardinality({q \in Table : Before(q, p)})

LEMMA TableType ==
  /\ Table \in SUBSET Postings /\ IsFiniteSet(Table) /\ Cardinality(Table) \in Nat
  /\ \A S : IsFiniteSet(Table \cap S) /\ Cardinality(Table \cap S) \in Nat
<1>1. Table \in SUBSET Postings
  BY DEF Table
<1>2. IsFiniteSet(Table)
  BY <1>1, PostingAssumption, FS_Subset
<1>3. \A S : IsFiniteSet(Table \cap S)
  BY <1>2, FS_Subset
<1> QED
  BY <1>1, <1>2, <1>3, FS_CardinalityType

LEMMA PlaceType ==
  ASSUME createdAt \in Times
  PROVE  /\ \A p \in Postings : createdAt[p] \in Nat
         /\ \A p \in Table : ListPlace(p) \in Nat /\ ListPlace(p) < Cardinality(Table)
<1>1. \A p \in Postings : createdAt[p] \in Nat
  BY TimesAssumption
<1>2. ASSUME NEW p \in Table PROVE ListPlace(p) \in Nat /\ ListPlace(p) < Cardinality(Table)
  <2> DEFINE S == {q \in Table : Before(q, p)}
  <2>1. S \subseteq Table /\ p \notin S
    BY <1>1, TableType DEF Before
  <2>2. IsFiniteSet(S) /\ Cardinality(S) <= Cardinality(Table) /\ Cardinality(S) # Cardinality(Table)
    BY <2>1, TableType, FS_Subset
  <2>3. Cardinality(S) \in Nat /\ Cardinality(Table) \in Nat
    BY <2>2, TableType, FS_CardinalityType
  <2> QED
    BY <2>2, <2>3 DEF ListPlace
<1> QED
  BY <1>1, <1>2

\* What is among the first rows has fewer than their number before it; a row that
\* shares its time with none and is not among them has them all before it.
LEMMA FrontPlaces ==
  ASSUME createdAt \in Times, NEW n \in Nat, NEW F \in Fronts(n)
  PROVE  /\ F \in SUBSET Table /\ IsFiniteSet(F) /\ Cardinality(F) \in Nat
         /\ Cardinality(F) <= n /\ (F # Table => Cardinality(F) = n)
         /\ \A p \in F : ListPlace(p) < Cardinality(F)
         /\ \A p \in Table \ F : Alone(p) => Cardinality(F) <= ListPlace(p)
<1>1. /\ F \in SUBSET Table /\ Cardinality(F) <= n /\ (F # Table => Cardinality(F) = n)
      /\ \A p \in F, q \in Table \ F : ~Before(q, p)
  BY DEF Fronts
<1>2. IsFiniteSet(F) /\ Cardinality(F) \in Nat
  BY <1>1, TableType, FS_Subset, FS_CardinalityType
<1>3. \A p \in Table : createdAt[p] \in Nat
  BY PlaceType, TableType
<1>4. ASSUME NEW p \in F PROVE ListPlace(p) < Cardinality(F)
  <2> DEFINE S == {q \in Table : Before(q, p)}
  <2>1. S \subseteq F /\ p \notin S
    BY <1>1, <1>3 DEF Before
  <2>2. IsFiniteSet(S) /\ Cardinality(S) <= Cardinality(F) /\ Cardinality(S) # Cardinality(F)
    BY <1>2, <2>1, FS_Subset
  <2>3. Cardinality(S) \in Nat
    BY <2>2, FS_CardinalityType
  <2> QED
    BY <1>2, <2>2, <2>3 DEF ListPlace
<1>5. ASSUME NEW p \in Table \ F, Alone(p) PROVE Cardinality(F) <= ListPlace(p)
  <2> DEFINE S == {q \in Table : Before(q, p)}
  <2>1. F \subseteq S
    BY <1>1, <1>3, <1>5 DEF Before, Alone
  <2>2. IsFiniteSet(S)
    BY TableType, FS_Subset
  <2> QED
    BY <2>1, <2>2, FS_Subset DEF ListPlace
<1> QED
  BY <1>1, <1>2, <1>4, <1>5

\* A page that is not empty ends inside the table, and a row that shares its time
\* with none, lies behind the page's offset and is not on it lies behind its end.
LEMMA PageAtFits ==
  ASSUME createdAt \in Times, NEW k \in Nat, NEW page \in PagesAt(k)
  PROVE  /\ page \in SUBSET Table /\ Cardinality(page) \in Nat
         /\ Cardinality(page) # 0 => k + Cardinality(page) <= Cardinality(Table)
         /\ \A p \in Table : Alone(p) /\ ListPlace(p) >= k /\ p \notin page =>
              Cardinality(page) # 0 /\ ListPlace(p) >= k + Cardinality(page)
<1>1. PICK A \in Fronts(k), B \in Fronts(k + PageLimit) : A \subseteq B /\ page = B \ A
  BY DEF PagesAt
<1>2. k \in Nat /\ PageLimit \in Nat \ {0} /\ k + PageLimit \in Nat
  BY ServerAssumption
<1>3. /\ A \in SUBSET Table /\ IsFiniteSet(A) /\ Cardinality(A) \in Nat
      /\ Cardinality(A) <= k /\ (A # Table => Cardinality(A) = k)
      /\ \A p \in A : ListPlace(p) < Cardinality(A)
  BY <1>2, FrontPlaces
<1>4. /\ B \in SUBSET Table /\ IsFiniteSet(B) /\ Cardinality(B) \in Nat
      /\ Cardinality(B) <= k + PageLimit /\ (B # Table => Cardinality(B) = k + PageLimit)
      /\ \A p \in Table \ B : Alone(p) => Cardinality(B) <= ListPlace(p)
  BY <1>2, FrontPlaces
<1>5. page \in SUBSET Table /\ IsFiniteSet(page) /\ Cardinality(page) \in Nat
  BY <1>1, <1>4, FS_Subset, FS_CardinalityType
<1>6. Cardinality(page) = Cardinality(B) - Cardinality(A)
  <2>1. B \cap A = A
    BY <1>1
  <2>2. Cardinality(B \ A) = Cardinality(B) - Cardinality(B \cap A)
    BY <1>4, FS_Difference, Zenon
  <2> QED
    BY <1>1, <2>1, <2>2
<1>7. ASSUME Cardinality(page) # 0 PROVE k + Cardinality(page) <= Cardinality(Table)
  <2>1. A # B
    BY <1>4, <1>6, <1>7
  <2>2. A # Table
    BY <1>1, <1>4, <2>1
  <2>3. Cardinality(A) = k
    BY <1>3, <2>2
  <2>4. Cardinality(B) <= Cardinality(Table)
    BY <1>4, TableType, FS_Subset
  <2> QED
    BY <1>4, <1>6, <2>3, <2>4, TableType
<1>8. ASSUME NEW p \in Table, Alone(p), ListPlace(p) >= k, p \notin page
      PROVE  Cardinality(page) # 0 /\ ListPlace(p) >= k + Cardinality(page)
  <2>1. ListPlace(p) \in Nat
    BY PlaceType
  <2>2. p \notin A /\ p \notin B
    BY <1>1, <1>2, <1>3, <1>8, <2>1
  <2>3. Cardinality(A) = k /\ Cardinality(B) = k + PageLimit
    BY <1>3, <1>4, <2>2
  <2>4. Cardinality(B) <= ListPlace(p)
    BY <1>4, <1>8, <2>2
  <2> QED
    BY <1>2, <1>6, <2>1, <2>3, <2>4
<1> QED
  BY <1>5, <1>7, <1>8

\* The sync takes no row away, so no row comes nearer to the front.
LEMMA TableGrows ==
  ASSUME WalkTypeOK, [SyncNext]_syncVars
  PROVE  Table \subseteq Table'
<1>1. CASE UNCHANGED rows
  BY <1>1 DEF Table
<1>2. CASE StorePage
  <2>1. \A p \in DOMAIN items : items[p] # 0
    <3>1. changes \in Nat /\ \A p \in DOMAIN items : items[p] \in 1..changes
      BY WalkType DEF WalkTypeOK, TypeOK
    <3> QED
      BY <3>1
  <2> QED
    BY <1>2, <2>1 DEF StorePage, Table
<1> QED
  BY <1>1, <1>2 DEF SyncNext, syncVars, Place, ChangePosting, Remove, Crash, Cancel, Start, SyncStep,
     FetchFBOBatch, FetchFBSBatch, UpsertFBO, UpsertFBS, InsertOzonLog, Acknowledged

LEMMA PlacesGrow ==
  ASSUME Table \subseteq Table', Table' \in SUBSET Postings, UNCHANGED createdAt
  PROVE  /\ \A p : Alone(p)' => Alone(p)
         /\ Cardinality(Table)' \in Nat /\ Cardinality(Table) <= Cardinality(Table)'
         /\ \A p : ListPlace(p)' \in Nat /\ ListPlace(p) \in Nat /\ ListPlace(p) <= ListPlace(p)'
<1>1. IsFiniteSet(Table')
  BY PostingAssumption, FS_Subset
<1>2. \A p : /\ {q \in Table : Before(q, p)} \subseteq {q \in Table' : Before(q, p)}
             /\ {q \in Table' : Before(q, p)} \subseteq Table'
  OBVIOUS
<1>3. \A p : IsFiniteSet({q \in Table' : Before(q, p)})
  BY <1>1, <1>2, FS_Subset
<1>4. \A p : Alone(p)' => Alone(p)
  BY DEF Alone
<1> QED
  BY <1>1, <1>2, <1>3, <1>4, FS_Subset, FS_CardinalityType DEF ListPlace, Before

-----------------------------------------------------------------------------
(* What the server knows of each client. *)

Requests ==
  [kind : {"none", "list", "stats", "single"}, offset : Nat, len : Nat, total : Nat,
   byScheme : Nat, cut : BOOLEAN, unseen : SUBSET Postings]

Queries == {"none", "page", "count", "total", "byScheme", "updated", "single"}

\* A row of the list that lies behind the page the client has got.
Behind(c, p) == req[c].len # 0 /\ ListPlace(p) >= req[c].offset + req[c].len

\* What a client of the list has not seen, of the rows that share their time with
\* none, lies where it will read next; in an answer, that is behind a page the
\* total says is not the last.
ListInv(c) ==
  /\ req[c].unseen \subseteq Table
  /\ query[c] \in {"page", "count"} => req[c].kind = "list"
  /\ query[c] = "page" => \A p \in req[c].unseen : Alone(p) => ListPlace(p) >= req[c].offset
  /\ query[c] = "count" =>
       /\ \A p \in req[c].unseen : Alone(p) => Behind(c, p)
       /\ req[c].len # 0 => req[c].offset + req[c].len <= Cardinality(Table)
  /\ c \in answered /\ req[c].kind = "list" =>
       /\ \A p \in req[c].unseen : Alone(p) => Behind(c, p) /\ ~LastOfList(c)
       /\ req[c].len # 0 => req[c].offset + req[c].len <= req[c].total

\* A handler's queries are those of its request; the total of the statistics is
\* in the table before their split is read, and in the split afterwards.
StatsInv(c) ==
  /\ query[c] = "single" => req[c].kind = "single"
  /\ query[c] \in {"total", "byScheme", "updated"} => req[c].kind = "stats"
  /\ query[c] = "byScheme" => req[c].total <= Cardinality(Table)
  /\ query[c] = "updated" \/ (c \in answered /\ req[c].kind = "stats") =>
       req[c].cut \/ req[c].total <= req[c].byScheme

ServerType ==
  /\ ServerTypeOK /\ IsFiniteSet(holds)
  /\ req \in [Clients -> Requests]

ServerInv == ServerType /\ \A c \in Clients : ListInv(c) /\ StatsInv(c)

LEMMA ServerInvImplies == ServerInv => PageFitsTotal /\ StatsCover /\ ListSeesAll
<1> SUFFICES ASSUME ServerInv PROVE PageFitsTotal /\ StatsCover /\ ListSeesAll
  OBVIOUS
<1>1. \A c \in answered : c \in Clients /\ ListInv(c) /\ StatsInv(c)
  BY DEF ServerInv, ServerType, ServerTypeOK
<1>2. PageFitsTotal
  BY <1>1 DEF PageFitsTotal, ListInv
<1>3. StatsCover
  BY <1>1 DEF StatsCover, StatsInv
<1>4. ListSeesAll
  BY <1>1 DEF ListSeesAll, ListInv
<1> QED
  BY <1>2, <1>3, <1>4

LEMMA NoRequestType == NoRequest \in Requests
  BY DEF NoRequest, Requests

LEMMA InitServerInv == ServerInit => ServerInv
<1> SUFFICES ASSUME ServerInit PROVE ServerInv
  OBVIOUS
<1>1. /\ srv = "up" /\ query = [c \in Clients |-> "none"] /\ holds = {} /\ answered = {}
      /\ req = [c \in Clients |-> NoRequest] /\ createdAt \in Times
  BY Zenon DEF ServerInit
<1>2. IsFiniteSet(holds) /\ Cardinality(holds) = 0 /\ MaxConns \in Nat
  BY <1>1, FS_EmptySet, ServerAssumption
<1>3. ServerType
  BY <1>1, <1>2, NoRequestType DEF ServerType, ServerTypeOK
<1>4. ASSUME NEW c \in Clients PROVE ListInv(c) /\ StatsInv(c)
  BY <1>1 DEF NoRequest, ListInv, StatsInv
<1> QED
  BY <1>3, <1>4 DEF ServerInv

\* What is known of a client stays true while others are served and the table
\* grows.
LEMMA OthersKeep ==
  ASSUME ServerInv, NEW c \in Clients, Table \subseteq Table', UNCHANGED createdAt,
         req'[c] = req[c], query'[c] = query[c], c \in answered' => c \in answered
  PROVE  ListInv(c)' /\ StatsInv(c)'
<1>1. Table' \in SUBSET Postings
  BY DEF Table
<1>2. /\ Cardinality(Table)' \in Nat /\ Cardinality(Table) <= Cardinality(Table)'
      /\ \A p : ListPlace(p)' \in Nat /\ ListPlace(p) \in Nat /\ ListPlace(p) <= ListPlace(p)'
      /\ \A p : Alone(p)' => Alone(p)
  BY <1>1, PlacesGrow
<1>3. ListInv(c) /\ StatsInv(c)
  BY DEF ServerInv
<1>4. /\ req[c].offset \in Nat /\ req[c].total \in Nat /\ req[c].len \in Nat
      /\ Cardinality(Table) \in Nat
  BY TableType DEF ServerInv, ServerType, Requests
<1>5. LastOfList(c)' <=> LastOfList(c)
  BY DEF LastOfList
<1>6. \A p : Behind(c, p) => Behind(c, p)'
  BY <1>2, <1>4 DEF Behind
<1>7. ListInv(c)'
  <2>1. req'[c].unseen \subseteq Table'
    BY <1>3 DEF ListInv
  <2>2. ASSUME query[c] = "page", NEW p \in req[c].unseen, Alone(p)'
        PROVE  ListPlace(p)' >= req[c].offset
    <3>1. ListPlace(p) >= req[c].offset
      BY <1>2, <1>3, <2>2 DEF ListInv
    <3> QED
      BY <1>2, <1>4, <3>1
  <2>3. ASSUME query[c] = "count"
        PROVE  /\ \A p \in req[c].unseen : Alone(p)' => Behind(c, p)'
               /\ req[c].len # 0 => req[c].offset + req[c].len <= Cardinality(Table)'
    BY <1>2, <1>3, <1>4, <1>6, <2>3 DEF ListInv
  <2>4. ASSUME c \in answered, req[c].kind = "list"
        PROVE  /\ \A p \in req[c].unseen : Alone(p)' => Behind(c, p)' /\ ~LastOfList(c)'
               /\ req[c].len # 0 => req[c].offset + req[c].len <= req[c].total
    BY <1>2, <1>3, <1>5, <1>6, <2>4 DEF ListInv
  <2>5. query[c] \in {"page", "count"} => req[c].kind = "list"
    BY <1>3 DEF ListInv
  <2> QED
    BY <2>1, <2>2, <2>3, <2>4, <2>5 DEF ListInv
<1>8. StatsInv(c)'
  BY <1>2, <1>3, <1>4 DEF StatsInv
<1> QED
  BY <1>7, <1>8

-----------------------------------------------------------------------------
(* The steps of the server. *)

\* A step of one client that leaves the table and the other clients alone.
LEMMA OneClient ==
  ASSUME ServerInv, NEW c \in Clients, UNCHANGED <<rows, createdAt>>,
         NEW r \in Requests, NEW next \in Queries,
         req' = [req EXCEPT ![c] = r], query' = [query EXCEPT ![c] = next],
         holds' \in {holds, holds \ {c}}, next = "none" \/ query[c] = "none" => c \notin holds',
         answered' \in {answered, answered \ {c}, answered \cup {c}},
         next # "none" => c \notin answered',
         srv' = srv,
         ListInv(c)' /\ StatsInv(c)'
  PROVE  ServerInv'
<1>1. query \in [Clients -> Queries] /\ req \in [Clients -> Requests]
      /\ holds \subseteq {d \in Clients : query[d] # "none"} /\ Cardinality(holds) <= MaxConns
      /\ answered \subseteq {d \in Clients : query[d] = "none"} /\ IsFiniteSet(holds)
      /\ srv \in {"up", "stopping", "stopped"} /\ createdAt' \in Times
  BY DEF ServerInv, ServerType, ServerTypeOK, Queries
<1>2. req'[c] = r /\ query'[c] = next
      /\ \A d \in Clients \ {c} : req'[d] = req[d] /\ query'[d] = query[d]
      /\ query' \in [Clients -> Queries] /\ req' \in [Clients -> Requests]
  BY <1>1
<1>3. IsFiniteSet(holds') /\ Cardinality(holds') <= MaxConns
  <2>1. holds' \subseteq holds
    OBVIOUS
  <2>2. IsFiniteSet(holds') /\ Cardinality(holds') <= Cardinality(holds)
    BY <1>1, <2>1, FS_Subset
  <2> QED
    BY <1>1, <2>2, ServerAssumption, FS_CardinalityType
<1>4. holds' \subseteq {d \in Clients : query'[d] # "none"}
  BY <1>1, <1>2
<1>5. answered' \subseteq {d \in Clients : query'[d] = "none"}
  BY <1>1, <1>2
<1>6. ServerType'
  BY <1>1, <1>2, <1>3, <1>4, <1>5 DEF ServerType, ServerTypeOK, Queries
<1>7. ASSUME NEW d \in Clients PROVE ListInv(d)' /\ StatsInv(d)'
  <2>1. Table \subseteq Table'
    BY DEF Table
  <2>2. CASE d = c
    BY <2>2
  <2>3. CASE d # c
    BY <1>2, <2>1, <2>3, OthersKeep
  <2> QED
    BY <2>2, <2>3
<1> QED
  BY <1>6, <1>7 DEF ServerInv

\* A query of a handler that has its connection.
LEMMA ReadsKeeps ==
  ASSUME ServerInv, NEW c \in Clients, UNCHANGED <<rows, createdAt>>, query[c] # "none",
         NEW r \in Requests, NEW next \in Queries, Reads(c, r, next),
         req'[c] = r /\ query'[c] = next /\ (c \in answered' <=> next = "none")
           => ListInv(c)' /\ StatsInv(c)'
  PROVE  ServerInv'
<1>1. /\ req' = [req EXCEPT ![c] = r] /\ query' = [query EXCEPT ![c] = next]
      /\ holds' = holds \ {c} /\ srv' = srv
      /\ answered' = IF next = "none" THEN answered \cup {c} ELSE answered
  BY DEF Reads
<1>2. c \notin answered /\ req \in [Clients -> Requests] /\ query \in [Clients -> Queries]
  BY DEF ServerInv, ServerType, ServerTypeOK, Queries
<1>3. req'[c] = r /\ query'[c] = next /\ (c \in answered' <=> next = "none")
  BY <1>1, <1>2
<1> QED
  BY <1>1, <1>2, <1>3, OneClient

LEMMA RequestKeeps ==
  ASSUME ServerInv, NEW c \in Clients, Request(c), UNCHANGED <<rows, createdAt>>
  PROVE  ServerInv'
<1>1. /\ query[c] = "none" /\ answered' = answered \ {c} /\ UNCHANGED <<srv, holds>>
      /\ c \notin answered' /\ Table' = Table
  BY DEF Request, Table
<1>2. /\ req \in [Clients -> Requests] /\ req[c] \in Requests /\ query \in [Clients -> Queries]
      /\ c \notin holds /\ NoRequest \in Requests /\ ListInv(c)
  BY <1>1, NoRequestType DEF ServerInv, ServerType, ServerTypeOK, Queries
<1>3. ASSUME NEW r \in Requests, NEW next \in Queries \ {"none"},
             req' = [req EXCEPT ![c] = r], query' = [query EXCEPT ![c] = next],
             req'[c] = r /\ query'[c] = next => ListInv(c)' /\ StatsInv(c)'
      PROVE  ServerInv'
  <2>1. req'[c] = r /\ query'[c] = next
    BY <1>2, <1>3
  <2> QED
    BY <1>1, <1>2, <1>3, <2>1, OneClient
<1>4. CASE /\ query' = [query EXCEPT ![c] = "total"]
           /\ req' = [req EXCEPT ![c] = [NoRequest EXCEPT !.kind = "stats"]]
  <2> DEFINE r == [NoRequest EXCEPT !.kind = "stats"]
  <2>1. r \in Requests /\ r.unseen = {} /\ r.kind = "stats"
    BY DEF NoRequest, Requests
  <2> HIDE DEF r
  <2>2. req'[c] = r /\ query'[c] = "total" => ListInv(c)' /\ StatsInv(c)'
    BY <1>1, <2>1 DEF ListInv, StatsInv
  <2> QED
    BY <1>3, <1>4, <2>1, <2>2 DEF r, Queries
<1>5. CASE /\ query' = [query EXCEPT ![c] = "single"]
           /\ req' = [req EXCEPT ![c] = [NoRequest EXCEPT !.kind = "single"]]
  <2> DEFINE r == [NoRequest EXCEPT !.kind = "single"]
  <2>1. r \in Requests /\ r.unseen = {} /\ r.kind = "single"
    BY DEF NoRequest, Requests
  <2> HIDE DEF r
  <2>2. req'[c] = r /\ query'[c] = "single" => ListInv(c)' /\ StatsInv(c)'
    BY <1>1, <2>1 DEF ListInv, StatsInv
  <2> QED
    BY <1>3, <1>5, <2>1, <2>2 DEF r, Queries
<1>6. CASE /\ query' = [query EXCEPT ![c] = "page"]
           /\ req' = [req EXCEPT ![c] = [NoRequest EXCEPT !.kind = "list", !.unseen = Table]]
  <2> DEFINE r == [NoRequest EXCEPT !.kind = "list", !.unseen = Table]
  <2>1. r \in Requests /\ r.unseen = Table /\ r.kind = "list" /\ r.offset = 0
    BY TableType DEF NoRequest, Requests
  <2>2. \A p \in Table : ListPlace(p)' >= 0
    BY <1>1, TableType, PlacesGrow
  <2> HIDE DEF r
  <2>3. req'[c] = r /\ query'[c] = "page" => ListInv(c)' /\ StatsInv(c)'
    BY <1>1, <2>1, <2>2 DEF ListInv, StatsInv
  <2> QED
    BY <1>3, <1>6, <2>1, <2>3 DEF r, Queries
<1>7. CASE /\ query' = [query EXCEPT ![c] = "page"] /\ c \in answered /\ req[c].kind = "list"
           /\ ~LastOfList(c)
           /\ req' = [req EXCEPT ![c] = NextPage(c)]
  <2> DEFINE r == NextPage(c)
  <2> DEFINE end == req[c].offset + req[c].len
  <2>1. /\ r \in Requests /\ r.unseen = req[c].unseen /\ r.kind = "list"
        /\ r.offset = req[c].offset + req[c].len
    <3>1. end \in Nat
      BY <1>2 DEF Requests
    <3>2. r = [req[c] EXCEPT !.offset = end, !.len = 0, !.total = 0]
      BY DEF NextPage
    <3> HIDE DEF end, r
    <3>3. r \in Requests /\ r.unseen = req[c].unseen /\ r.kind = req[c].kind
      BY <1>2, <3>1, <3>2 DEF Requests
    <3>4. r.offset = end
      BY <1>2, <3>2 DEF Requests
    <3> QED
      BY <1>7, <3>3, <3>4 DEF end
  <2>2. req' = [req EXCEPT ![c] = r]
    BY <1>7
  <2> HIDE DEF r
  <2>3. \A p : ListPlace(p)' = ListPlace(p) /\ (Alone(p)' <=> Alone(p))
    BY <1>1 DEF ListPlace, Alone, Before
  <2>4. \A p \in req[c].unseen : Alone(p) => ListPlace(p) >= r.offset
    BY <1>2, <1>7, <2>1 DEF ListInv, Behind
  <2>5. req'[c] = r /\ query'[c] = "page" => ListInv(c)' /\ StatsInv(c)'
    BY <1>1, <1>2, <2>1, <2>3, <2>4 DEF ListInv, StatsInv
  <2> QED
    BY <1>3, <1>7, <2>1, <2>2, <2>5 DEF Queries
<1> QED
  BY <1>4, <1>5, <1>6, <1>7 DEF Request

LEMMA AcquireKeeps ==
  ASSUME ServerInv, NEW c \in Clients, Acquire(c), UNCHANGED <<rows, createdAt>>
  PROVE  ServerInv'
<1>1. /\ query[c] # "none" /\ c \notin holds /\ Cardinality(holds) < MaxConns
      /\ holds' = holds \cup {c} /\ UNCHANGED <<srv, query, req, answered>>
  BY DEF Acquire
<1>2. ServerType
  BY DEF ServerInv
<1>3. IsFiniteSet(holds') /\ Cardinality(holds') = Cardinality(holds) + 1
      /\ Cardinality(holds) \in Nat
  BY <1>1, <1>2, FS_AddElement, FS_CardinalityType DEF ServerType
<1>4. Cardinality(holds') <= MaxConns
  BY <1>1, <1>3, ServerAssumption
<1>5. ServerType'
  BY <1>1, <1>2, <1>3, <1>4 DEF ServerType, ServerTypeOK
<1>6. Table \subseteq Table'
  BY DEF Table
<1>7. \A d \in Clients : ListInv(d)' /\ StatsInv(d)'
  BY <1>1, <1>6, OthersKeep
<1> QED
  BY <1>5, <1>7 DEF ServerInv

LEMMA GetListKeeps ==
  ASSUME ServerInv, NEW c \in Clients, GetList(c), UNCHANGED <<rows, createdAt>>
  PROVE  ServerInv'
<1>1. /\ req[c] \in Requests /\ ListInv(c) /\ StatsInv(c) /\ createdAt \in Times
  BY DEF ServerInv, ServerType, ServerTypeOK
<1>2. /\ req[c].offset \in Nat /\ req[c].len \in Nat /\ req[c].unseen \in SUBSET Table
  BY <1>1 DEF Requests, ListInv
<1>3. Table' = Table /\ \A p : ListPlace(p)' = ListPlace(p) /\ (Alone(p)' <=> Alone(p))
  BY DEF Table, ListPlace, Alone, Before
<1>4. ASSUME query[c] = "page", NEW page \in PagesAt(req[c].offset),
             Reads(c, [req[c] EXCEPT !.len = Cardinality(page), !.unseen = @ \ page], "count")
      PROVE  ServerInv'
  <2> DEFINE len == Cardinality(page)
             r == [req[c] EXCEPT !.len = len, !.unseen = @ \ page]
  <2>1. /\ page \in SUBSET Table /\ len \in Nat
        /\ len # 0 => req[c].offset + len <= Cardinality(Table)
        /\ \A p \in Table : Alone(p) /\ ListPlace(p) >= req[c].offset /\ p \notin page =>
             len # 0 /\ ListPlace(p) >= req[c].offset + len
    BY <1>1, <1>2, PageAtFits
  <2>2. \A p \in req[c].unseen : Alone(p) => ListPlace(p) >= req[c].offset
    BY <1>1, <1>4 DEF ListInv
  <2>3. req[c].kind = "list"
    BY <1>1, <1>4 DEF ListInv
  <2> HIDE DEF len
  <2>4. /\ r \in Requests /\ r.kind = "list" /\ r.len = len
        /\ r.offset = req[c].offset /\ r.unseen = req[c].unseen \ page
    BY <1>1, <1>2, <2>1, <2>3 DEF Requests
  <2>5. Reads(c, r, "count") /\ "count" \in Queries
    BY <1>4 DEF len, Queries
  <2> HIDE DEF r
  <2>6. ASSUME req'[c] = r, query'[c] = "count", c \notin answered'
        PROVE  ListInv(c)' /\ StatsInv(c)'
    <3>1. \A p \in r.unseen : Alone(p) => r.len # 0 /\ ListPlace(p) >= r.offset + r.len
      BY <1>2, <2>1, <2>2, <2>4
    <3>2. r.unseen \subseteq Table /\ (r.len # 0 => r.offset + r.len <= Cardinality(Table))
      BY <1>2, <2>1, <2>4
    <3> QED
      BY <1>3, <2>4, <2>6, <3>1, <3>2 DEF ListInv, StatsInv, Behind
  <2> QED
    BY <1>4, <2>4, <2>5, <2>6, ReadsKeeps
<1>5. CASE query[c] = "count" /\ Reads(c, [req[c] EXCEPT !.total = Cardinality(Table)], "none")
  <2> DEFINE r == [req[c] EXCEPT !.total = Cardinality(Table)]
  <2>1. /\ req[c].kind = "list"
        /\ \A p \in req[c].unseen : Alone(p) => Behind(c, p)
        /\ req[c].len # 0 => req[c].offset + req[c].len <= Cardinality(Table)
    BY <1>1, <1>5 DEF ListInv
  <2>2. /\ r \in Requests /\ r.kind = "list" /\ r.len = req[c].len
        /\ r.offset = req[c].offset /\ r.unseen = req[c].unseen /\ r.total = Cardinality(Table)
    BY <1>1, <2>1, TableType DEF Requests
  <2> HIDE DEF r
  <2>3. ASSUME req'[c] = r, query'[c] = "none"
        PROVE  ListInv(c)' /\ StatsInv(c)'
    <3>1. ASSUME NEW p \in req[c].unseen, Behind(c, p)
          PROVE  Behind(c, p)' /\ ~LastOfList(c)'
      <4>1. ListPlace(p) \in Nat /\ ListPlace(p) < Cardinality(Table) /\ Cardinality(Table) \in Nat
        BY <1>1, <1>2, PlaceType, TableType
      <4>2. req[c].len # 0 /\ req[c].offset + req[c].len < Cardinality(Table)
        BY <1>2, <3>1, <4>1 DEF Behind
      <4>3. Behind(c, p)'
        BY <1>3, <2>2, <2>3, <3>1 DEF Behind
      <4>4. ~LastOfList(c)'
        BY <1>2, <2>2, <2>3, <4>1, <4>2 DEF LastOfList
      <4> QED
        BY <4>3, <4>4
    <3> QED
      BY <1>2, <1>3, <2>1, <2>2, <2>3, <3>1 DEF ListInv, StatsInv
  <2>4. Reads(c, r, "none") /\ "none" \in Queries
    BY <1>5 DEF r, Queries
  <2> QED
    BY <1>5, <2>2, <2>3, <2>4, ReadsKeeps
<1> QED
  BY <1>4, <1>5 DEF GetList

\* A query of the statistics.
LEMMA StatsReadKeeps ==
  ASSUME ServerInv, NEW c \in Clients, UNCHANGED <<rows, createdAt>>, query[c] \in {"total", "byScheme", "updated"},
         NEW r \in Requests, r.kind = "stats", r.unseen = req[c].unseen,
         NEW next \in {"byScheme", "updated", "none"}, Reads(c, r, next),
         next = "byScheme" => r.total <= Cardinality(Table),
         next # "byScheme" => r.cut \/ r.total <= r.byScheme
  PROVE  ServerInv'
<1>1. Table' = Table /\ req[c].unseen \subseteq Table
  BY DEF Table, ServerInv, ListInv
<1>2. ASSUME req'[c] = r, query'[c] = next PROVE ListInv(c)' /\ StatsInv(c)'
  <2>1. ListInv(c)'
    BY <1>1, <1>2 DEF ListInv
  <2>2. next = "byScheme" => req'[c].total <= Cardinality(Table')
    BY <1>1, <1>2, Zenon
  <2>3. next # "byScheme" => req'[c].cut \/ req'[c].total <= req'[c].byScheme
    BY <1>2, Zenon
  <2>4. req'[c].kind = "stats" /\ "updated" # "byScheme" /\ "none" # "byScheme" /\ next # "single"
    BY <1>2
  <2>5. next = "none" \/ c \notin answered'
    BY DEF Reads, ServerInv, ServerType, ServerTypeOK
  <2>6. StatsInv(c)'
    BY <1>2, <2>2, <2>3, <2>4, <2>5, Zenon DEF StatsInv
  <2> QED
    BY <2>1, <2>6
<1> QED
  BY <1>2, ReadsKeeps DEF Queries

LEMMA GetStatsKeeps ==
  ASSUME ServerInv, NEW c \in Clients, GetStats(c), UNCHANGED <<rows, createdAt>>
  PROVE  ServerInv'
<1>1. /\ req[c] \in Requests /\ StatsInv(c)
      /\ Cardinality(Table) \in Nat
  BY TableType DEF ServerInv, ServerType
<1>2. req[c].kind = "stats"
  BY <1>1 DEF StatsInv, GetStats
<1>3. CASE query[c] = "total" /\ Reads(c, [req[c] EXCEPT !.total = Cardinality(Table)], "byScheme")
  <2> DEFINE r == [req[c] EXCEPT !.total = Cardinality(Table)]
  <2>1. r \in Requests /\ r.kind = "stats" /\ r.unseen = req[c].unseen /\ r.total = Cardinality(Table)
    BY <1>1, <1>2 DEF Requests
  <2> HIDE DEF r
  <2>2. Reads(c, r, "byScheme")
    BY <1>3 DEF r
  <2> QED
    BY <1>1, <1>3, <2>1, <2>2, StatsReadKeeps
<1>4. CASE query[c] = "byScheme" /\ Reads(c, [req[c] EXCEPT !.byScheme = Cardinality(Table)], "updated")
  <2> DEFINE r == [req[c] EXCEPT !.byScheme = Cardinality(Table)]
  <2>1. /\ r \in Requests /\ r.kind = "stats" /\ r.unseen = req[c].unseen
        /\ r.byScheme = Cardinality(Table) /\ r.total = req[c].total
    BY <1>1, <1>2 DEF Requests
  <2> HIDE DEF r
  <2>2. Reads(c, r, "updated") /\ r.total <= r.byScheme
    BY <1>1, <1>4, <2>1 DEF r, StatsInv
  <2> QED
    BY <1>1, <1>4, <2>1, <2>2, StatsReadKeeps
<1>5. CASE query[c] = "updated" /\ Reads(c, req[c], "none")
  <2>1. req[c].cut \/ req[c].total <= req[c].byScheme
    BY <1>1, <1>5 DEF StatsInv
  <2> QED
    BY <1>1, <1>2, <1>5, <2>1, StatsReadKeeps
<1> QED
  BY <1>3, <1>4, <1>5 DEF GetStats

LEMMA LoseRowsKeeps ==
  ASSUME ServerInv, NEW c \in Clients, LoseRows(c)
  PROVE  ServerInv'
<1>1. query[c] = "byScheme" /\ UNCHANGED <<rows, createdAt>>
  BY DEF LoseRows
<1>2. PICK S \in SUBSET {Fbo, Fbs} :
        Reads(c, [req[c] EXCEPT !.byScheme = Cardinality(Table \cap UNION S), !.cut = TRUE], "updated")
  BY DEF LoseRows
<1>3. req[c] \in Requests /\ req[c].kind = "stats" /\ Cardinality(Table \cap UNION S) \in Nat
  BY <1>1, TableType DEF ServerInv, ServerType, StatsInv
<1> DEFINE r == [req[c] EXCEPT !.byScheme = Cardinality(Table \cap UNION S), !.cut = TRUE]
<1>4. r \in Requests /\ r.kind = "stats" /\ r.unseen = req[c].unseen /\ r.cut = TRUE
  BY <1>3 DEF Requests
<1> HIDE DEF r
<1>5. Reads(c, r, "updated")
  BY <1>2 DEF r
<1> QED
  BY <1>1, <1>4, <1>5, StatsReadKeeps

LEMMA SingleKeeps ==
  ASSUME ServerInv, NEW c \in Clients, Single(c), UNCHANGED <<rows, createdAt>>
  PROVE  ServerInv'
<1>1. /\ req[c] \in Requests /\ req[c].unseen \subseteq Table /\ Table' = Table
      /\ query[c] = "single" /\ Reads(c, req[c], "none") /\ req[c].kind = "single"
  BY DEF ServerInv, ServerType, ListInv, StatsInv, Table, Single
<1>2. ASSUME req'[c] = req[c], query'[c] = "none" PROVE ListInv(c)' /\ StatsInv(c)'
  BY <1>1, <1>2 DEF ListInv, StatsInv
<1> QED
  BY <1>1, <1>2, ReadsKeeps DEF Queries

LEMMA WriteErrorKeeps ==
  ASSUME ServerInv, NEW c \in Clients, WriteError(c)
  PROVE  ServerInv'
<1>1. /\ query[c] # "none" /\ holds' = holds \ {c}
      /\ query' = [query EXCEPT ![c] = "none"] /\ req' = [req EXCEPT ![c] = NoRequest]
      /\ UNCHANGED <<srv, answered, rows, createdAt>>
  BY DEF WriteError
<1>2. c \notin answered /\ req'[c] = NoRequest /\ query'[c] = "none"
  BY <1>1 DEF ServerInv, ServerType, ServerTypeOK
<1>3. ListInv(c)' /\ StatsInv(c)'
  BY <1>1, <1>2 DEF ListInv, StatsInv, NoRequest
<1> QED
  BY <1>1, <1>2, <1>3, OneClient, NoRequestType DEF Queries

LEMMA SignalStopKeep == ServerInv /\ (Signal \/ Stop) /\ UNCHANGED <<rows, createdAt>> => ServerInv'
<1> SUFFICES ASSUME ServerInv, Signal \/ Stop, UNCHANGED <<rows, createdAt>> PROVE ServerInv'
  OBVIOUS
<1>1. Table \subseteq Table' /\ ServerType
  BY DEF Table, ServerInv
<1>2. CASE Signal
  <2>1. ServerType'
    BY <1>1, <1>2 DEF Signal, handlers, ServerType, ServerTypeOK
  <2>2. \A c \in Clients : ListInv(c)' /\ StatsInv(c)'
    BY <1>1, <1>2, OthersKeep DEF Signal, handlers
  <2> QED
    BY <2>1, <2>2 DEF ServerInv
<1>3. CASE Stop
  <2>1. /\ \A c \in Clients : query[c] = "none"
        /\ srv' = "stopped" /\ answered' = {} /\ UNCHANGED <<query, holds>>
        /\ req' = [c \in Clients |-> NoRequest]
    BY <1>3 DEF Stop
  <2>2. ServerType'
    BY <1>1, <2>1, NoRequestType DEF ServerType, ServerTypeOK
  <2>3. \A c \in Clients : ListInv(c)' /\ StatsInv(c)'
    BY <2>1 DEF ListInv, StatsInv, NoRequest
  <2> QED
    BY <2>2, <2>3 DEF ServerInv
<1> QED
  BY <1>2, <1>3

LEMMA ServerNextKeeps == ServerInv /\ ServerNext /\ UNCHANGED <<rows, createdAt>> => ServerInv'
<1> SUFFICES ASSUME ServerInv, ServerNext, UNCHANGED <<rows, createdAt>> PROVE ServerInv'
  OBVIOUS
<1>1. ASSUME NEW c \in Clients, Serve(c) PROVE ServerInv'
  BY <1>1, AcquireKeeps, GetListKeeps, GetStatsKeeps, SingleKeeps DEF Serve, Handle
<1> QED
  BY <1>1, RequestKeeps, SignalStopKeep DEF ServerNext

-----------------------------------------------------------------------------
(* The sync and the server side by side. *)

\* Steps of the server leave the sync what it is, but for the count of faults.
LEMMA SyncBesideServer ==
  ASSUME LogInv, [Next]_vars
  PROVE  LogInv'
<1>1. CASE [SyncNext]_syncVars
  BY <1>1, NextLogInv
<1>2. CASE \E c \in Clients : LoseRows(c) \/ WriteError(c)
  <2>1. UNCHANGED <<ozon, rows, pc, walk, run>>
    BY <1>2 DEF LoseRows, WriteError
  <2>2. WalkTypeOK'
    BY <2>1 DEF LogInv, WalkTypeOK, TypeOK, PageFits
  <2> QED
    BY <2>1, <2>2, IdleLogInv
<1> QED
  BY <1>1, <1>2 DEF Next, vars

LEMMA NextServerInv ==
  ASSUME LogInv, ServerInv, [Next]_vars
  PROVE  ServerInv'
<1>1. CASE SyncNext /\ UNCHANGED <<serverVars, createdAt>>
  <2>1. Table \subseteq Table'
    BY <1>1, TableGrows DEF LogInv
  <2>2. ServerType'
    BY <1>1 DEF serverVars, handlers, ServerInv, ServerType, ServerTypeOK
  <2>3. \A c \in Clients : ListInv(c)' /\ StatsInv(c)'
    BY <1>1, <2>1, OthersKeep DEF serverVars, handlers
  <2> QED
    BY <2>2, <2>3 DEF ServerInv
<1>2. CASE ServerNext /\ UNCHANGED <<syncVars, createdAt>>
  BY <1>2, ServerNextKeeps DEF syncVars
<1>3. CASE \E c \in Clients : LoseRows(c) \/ WriteError(c)
  BY <1>3, LoseRowsKeeps, WriteErrorKeeps
<1>4. CASE UNCHANGED vars
  <2>1. Table \subseteq Table'
    BY <1>4 DEF vars, syncVars, Table
  <2>2. ServerType'
    BY <1>4 DEF vars, serverVars, handlers, ServerInv, ServerType, ServerTypeOK
  <2>3. \A c \in Clients : ListInv(c)' /\ StatsInv(c)'
    BY <1>4, <2>1, OthersKeep DEF vars, serverVars, handlers
  <2> QED
    BY <2>2, <2>3 DEF ServerInv
<1> QED
  BY <1>1, <1>2, <1>3, <1>4 DEF Next

LEMMA BothHold == Spec => [](LogInv /\ ServerInv)
<1>1. ServerInit => LogInv /\ ServerInv
  BY InitLogInv, InitServerInv DEF ServerInit
<1>2. LogInv /\ ServerInv /\ [Next]_vars => (LogInv /\ ServerInv)'
  BY SyncBesideServer, NextServerInv
<1> QED
  BY <1>1, <1>2, PTL DEF Spec

\* Beside the server too the walks keep their types and the log is true.
THEOREM SyncStaysCorrect == Spec => [](TypeOK /\ LogIsTrue)
<1>1. LogInv => TypeOK /\ LogIsTrue
  BY LogInvImpliesLogIsTrue DEF LogInv, WalkTypeOK
<1> QED
  BY <1>1, BothHold, PTL

\* The pool never gives out more connections than it has, and none is held by a
\* handler whose request is over, whichever of its queries fails.
THEOREM ServerTypeCorrect == Spec => []ServerTypeOK
<1>1. ServerInv => ServerTypeOK
  BY DEF ServerInv, ServerType
<1> QED
  BY <1>1, BothHold, PTL

\* A page and the total read after it fit, whatever the sync stores in between.
THEOREM PageAlwaysFits == Spec => []PageFitsTotal
  BY ServerInvImplies, BothHold, PTL

\* So do the total of the statistics and the split read after it.
THEOREM StatsAlwaysCover == Spec => []StatsCover
  BY ServerInvImplies, BothHold, PTL

\* Who pages through the orders by offset until the total is reached has seen all
\* that were there at the first page and share their creation time with no other,
\* however many come in meanwhile and in whichever order the others are listed.
THEOREM ListAlwaysSeesAll == Spec => []ListSeesAll
  BY ServerInvImplies, BothHold, PTL
=============================================================================
