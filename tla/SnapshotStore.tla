---------------------------- MODULE SnapshotStore ----------------------------
(***************************************************************************)
(* What the MoySklad synchronization promises its readers, however many    *)
(* runs write side by side and wherever they are cut short: a snapshot is  *)
(* filled once, as a whole and only with warehouses that are known, never  *)
(* changes once a total names it, and the total of a product is always the *)
(* sum of what one snapshot holds of it.  MoyskladSync implements this     *)
(* specification.                                                          *)
(***************************************************************************)
EXTENDS Functions

CONSTANTS Products, Stores, MaxSnapshots

VARIABLES
  stores,     \* the warehouses known
  snapshots,  \* how many snapshots there are, the ids are 1..snapshots
  details,    \* id -> product -> warehouse -> amount, 0: no row
  totals      \* product -> [sum, snapshot], snapshot 0: no row

svars == <<stores, snapshots, details, totals>>

Empty == [p \in Products |-> [s \in Stores |-> 0]]

Init ==
  /\ stores = {}
  /\ snapshots = 0
  /\ details = [i \in 1..MaxSnapshots |-> Empty]
  /\ totals = [p \in Products |-> [sum |-> 0, snapshot |-> 0]]

\* Warehouses become known, and are never forgotten.
Learn ==
  /\ stores \subseteq stores' /\ stores' \subseteq Stores
  /\ UNCHANGED <<snapshots, details, totals>>

Open ==
  /\ snapshots' = snapshots + 1 /\ snapshots' \in 1..MaxSnapshots
  /\ UNCHANGED <<stores, details, totals>>

\* An empty snapshot that no total names gets its amounts, all in one step.
Fill(i) ==
  /\ details[i] = Empty
  /\ \A p \in Products : totals[p].snapshot # i
  /\ details' = [details EXCEPT ![i] = details'[i]]
  /\ details'[i] \in [Products -> [Stores -> Nat]]
  /\ \A p \in Products, s \in Stores : details'[i][p][s] # 0 => s \in stores
  /\ UNCHANGED <<stores, snapshots, totals>>

\* Some products get the sum of what a snapshot holds of them.
Publish(i) ==
  /\ totals' \in [Products -> [sum : Nat, snapshot : 0..snapshots]]
  /\ \A p \in Products :
       \/ totals'[p] = totals[p]
       \/ totals'[p] = [sum |-> SumFunctionOnSet(details[i][p], Stores), snapshot |-> i]
  /\ UNCHANGED <<stores, snapshots, details>>

Next ==
  \/ Learn
  \/ Open
  \/ \E i \in 1..snapshots : Fill(i) \/ Publish(i)

Spec == Init /\ [][Next]_svars
=============================================================================
