--------------------------- MODULE PagingIdentity ---------------------------
(***************************************************************************)
(* What build_identity promises (spec 4.8, P4): starting from zeroed      *)
(* tables it fills in the identity map one entry at a time, giving each   *)
(* entry its identity value once and writing nothing else, and it returns *)
(* only when the tables are exactly the identity map: PML4[0] points at   *)
(* the PDPT, PDPT[a] at PD a, and PD a entry b maps the large page        *)
(* (a * N + b) * 2 MiB, all present and writable.  At every moment the    *)
(* tables map only identity pages.                                         *)
(***************************************************************************)
EXTENDS Naturals

CONSTANTS
  N,          \* entries per table
  PdptFrame,  \* frame number of the PDPT
  PdFrames    \* PdFrames[a]: frame number of PD a

Idx == 0..(N - 1)

LargePageFrames == 512   \* 2 MiB in 4 KiB frames

Zero == [present |-> FALSE, writable |-> FALSE, large |-> FALSE, pfn |-> 0]
Link(f) == [present |-> TRUE, writable |-> TRUE, large |-> FALSE, pfn |-> f]
Leaf(f) == [present |-> TRUE, writable |-> TRUE, large |-> TRUE, pfn |-> f]

ZeroTables ==
  [pml4 |-> [k \in Idx |-> Zero], pdpt |-> [k \in Idx |-> Zero],
   pd |-> [a \in Idx |-> [b \in Idx |-> Zero]]]

IdentityTables ==
  [pml4 |-> [k \in Idx |-> IF k = 0 THEN Link(PdptFrame) ELSE Zero],
   pdpt |-> [a \in Idx |-> Link(PdFrames[a])],
   pd |-> [a \in Idx |-> [b \in Idx |-> Leaf((a * N + b) * LargePageFrames)]]]

VARIABLES
  tables,  \* the three tables
  built    \* the call has returned

vars == <<tables, built>>

Init == tables = ZeroTables /\ built = FALSE

(* PML4[0] gets its link to the PDPT.                                      *)
LinkPml4 ==
  /\ ~built
  /\ tables.pml4[0] = Zero
  /\ tables' = [tables EXCEPT !.pml4[0] = Link(PdptFrame)]
  /\ UNCHANGED built

(* One PDPT entry gets its link to its PD.                                 *)
LinkPdpt ==
  /\ ~built
  /\ \E a \in Idx :
       /\ tables.pdpt[a] = Zero
       /\ tables' = [tables EXCEPT !.pdpt[a] = Link(PdFrames[a])]
  /\ UNCHANGED built

(* One PD entry gets its identity large page.                              *)
MapPde ==
  /\ ~built
  /\ \E a, b \in Idx :
       /\ tables.pd[a][b] = Zero
       /\ tables' = [tables EXCEPT !.pd[a][b] = Leaf((a * N + b) * LargePageFrames)]
  /\ UNCHANGED built

(* The call returns once the identity map is complete.                     *)
Finish ==
  /\ ~built
  /\ tables = IdentityTables
  /\ built' = TRUE
  /\ UNCHANGED tables

Next == LinkPml4 \/ LinkPdpt \/ MapPde \/ Finish

Spec == Init /\ [][Next]_vars
=============================================================================
