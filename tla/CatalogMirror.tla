--------------------------- MODULE CatalogMirror ---------------------------
(***************************************************************************)
(* What the Wildberries card synchronization promises, whatever the page   *)
(* size, the retries and the crashes: table wb_cards is a mirror of the    *)
(* seller's catalog that never goes back to an older version of a card,    *)
(* and the row of sync_cursor_state is a mark below which the mirror is    *)
(* exact.  CardSync implements this specification.                         *)
(***************************************************************************)
EXTENDS Naturals

CONSTANT Cards          \* the seller's product cards (nmID)

VARIABLES
  catalog,  \* [Cards -> Nat]: position of a card's current version, 0: none
  clock,    \* the highest position given out so far
  rows,     \* [Cards -> Nat]: position of the stored version, 0: no row
  mark      \* the position up to which the mirror claims to be exact

mvars == <<catalog, clock, rows, mark>>

\* Every current version at or below position m is the stored one.
ExactUpTo(m) == \A c \in Cards : catalog[c] \in 1..m => rows[c] = catalog[c]

Init ==
  /\ catalog \in [Cards -> {0}]
  /\ clock = 0
  /\ rows = [c \in Cards |-> 0]
  /\ mark = 0

\* The seller creates or edits a card: it takes the next position.
Publish(c) ==
  /\ clock' = clock + 1
  /\ catalog' = [catalog EXCEPT ![c] = clock']
  /\ UNCHANGED <<rows, mark>>

\* The seller removes a card.
Withdraw(c) ==
  /\ catalog' = [catalog EXCEPT ![c] = 0]
  /\ UNCHANGED <<clock, rows, mark>>

\* Some rows move to a version the catalog has had, never to an older one,
\* and rows the mark vouches for stay exact.
Copy ==
  /\ \A c \in Cards : rows'[c] \in rows[c]..clock
  /\ \A c \in Cards : catalog[c] \in 1..mark => rows'[c] = catalog[c]
  /\ UNCHANGED <<catalog, clock, mark>>

\* The mark moves forward, over versions that are all stored.
Advance ==
  /\ mark' \in mark..clock
  /\ ExactUpTo(mark')
  /\ UNCHANGED <<catalog, clock, rows>>

Next ==
  \/ \E c \in Cards : Publish(c) \/ Withdraw(c)
  \/ Copy
  \/ Advance

Spec == Init /\ [][Next]_mvars
=============================================================================
