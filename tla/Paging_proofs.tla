---------------------------- MODULE Paging_proofs ----------------------------
(***************************************************************************)
(* Proofs that build_identity, as modelled in Paging, builds the identity *)
(* tables of spec 4.8 through the entries it indexes, and implements the  *)
(* entry-by-entry abstract build of PagingIdentity, for every size N.   *)
(***************************************************************************)
EXTENDS Paging, TLAPS

USE PagingAssumption

(* The entries the loops have written so far: PDPT entries below i, and  *)
(* the one at i once its inner loop has begun; PD entries of earlier      *)
(* tables, and those of table i below j.                                   *)
PdpteWritten(a) == pc # "Pml4" /\ (a < i \/ (a = i /\ pc = "Pde"))
PdeWritten(a, b) == pc # "Pml4" /\ (a < i \/ (a = i /\ pc = "Pde" /\ b < j))

(* The loop invariant of build_identity: every table is the identity on   *)
(* the written entries and zero elsewhere, and pa is the address of the   *)
(* next large page, (i * N + j) * 2 MiB.                                   *)
IInv ==
  /\ TypeOK
  /\ pc = "Pml4" => i = 0
  /\ pc = "Pde" => i < N
  /\ pc = "Done" => i = N
  /\ \A k \in Idx : pml4[k] = IF k = 0 /\ pc # "Pml4" THEN Present(Pfn(PdptAddr))
                                                     ELSE ZeroEntry
  /\ \A a \in Idx : pdpt[a] = IF PdpteWritten(a) THEN Present(Pfn(PdAddr(a)))
                                                ELSE ZeroEntry
  /\ \A a, b \in Idx : pd[a][b] = IF PdeWritten(a, b) THEN IdentityPde(a, b)
                                                     ELSE ZeroEntry
  /\ pa = (i * N + (IF pc = "Pde" THEN j ELSE 0)) * LARGE_PAGE_SIZE

(* set_pfn(pa >> 12) of the pa of large page x is frame x * 512.          *)
LEMMA PfnOfLargePage ==
  ASSUME NEW x \in Nat
  PROVE  Pfn(x * LARGE_PAGE_SIZE) = x * 512
BY DEF Pfn, LARGE_PAGE_SIZE, BASE_PAGE_SIZE

LEMMA IInvInit == Init => IInv
<1> SUFFICES ASSUME Init PROVE IInv
  OBVIOUS
<1>1. ZeroEntry \in Entries
  BY DEF ZeroEntry, Entries
<1>2. TypeOK
  BY <1>1 DEF Init, TypeOK, Idx
<1>3. QED
  BY <1>2 DEF Init, IInv, PdpteWritten, PdeWritten, LARGE_PAGE_SIZE

(* The invariant's conjuncts, named for citing.                           *)
LEMMA IInvParts ==
  ASSUME IInv
  PROVE  /\ TypeOK
         /\ pc = "Pml4" => i = 0
         /\ pc = "Pde" => i < N
         /\ pc = "Done" => i = N
         /\ \A k \in Idx : pml4[k] = IF k = 0 /\ pc # "Pml4" THEN Present(Pfn(PdptAddr))
                                                            ELSE ZeroEntry
         /\ \A a \in Idx : pdpt[a] = IF PdpteWritten(a) THEN Present(Pfn(PdAddr(a)))
                                                       ELSE ZeroEntry
         /\ \A a, b \in Idx : pd[a][b] = IF PdeWritten(a, b) THEN IdentityPde(a, b)
                                                            ELSE ZeroEntry
         /\ pa = (i * N + (IF pc = "Pde" THEN j ELSE 0)) * LARGE_PAGE_SIZE
BY DEF IInv

LEMMA EntryTypes ==
  /\ ZeroEntry \in Entries
  /\ \A f \in Nat : Present(f) \in Entries /\ LargePresent(f) \in Entries
BY DEF ZeroEntry, Entries, Present, LargePresent

(* Every frame the loops store is a natural number.                       *)
LEMMA FramesNat ==
  /\ \A x \in Nat : Pfn(x) \in Nat
  /\ Pfn(PdptAddr) \in Nat
  /\ \A a \in Idx : Pfn(PdAddr(a)) \in Nat
BY DEF Pfn, PdptAddr, PdAddr, TableBytes, BASE_PAGE_SIZE, Idx

LEMMA IInvStep == IInv /\ [Next]_vars => IInv'
<1> SUFFICES ASSUME IInv, [Next]_vars PROVE IInv'
  OBVIOUS
<1>0. /\ TypeOK
      /\ pc = "Pml4" => i = 0
      /\ pc = "Pde" => i < N
      /\ pc = "Done" => i = N
      /\ \A k \in Idx : pml4[k] = IF k = 0 /\ pc # "Pml4" THEN Present(Pfn(PdptAddr))
                                                         ELSE ZeroEntry
      /\ \A a \in Idx : pdpt[a] = IF PdpteWritten(a) THEN Present(Pfn(PdAddr(a)))
                                                    ELSE ZeroEntry
      /\ \A a, b \in Idx : pd[a][b] = IF PdeWritten(a, b) THEN IdentityPde(a, b)
                                                         ELSE ZeroEntry
      /\ pa = (i * N + (IF pc = "Pde" THEN j ELSE 0)) * LARGE_PAGE_SIZE
  BY IInvParts
<1>t. /\ pml4 \in [Idx -> Entries] /\ pdpt \in [Idx -> Entries]
      /\ pd \in [Idx -> [Idx -> Entries]]
      /\ i \in 0..N /\ j \in 0..N /\ pa \in Nat
      /\ pc \in {"Pml4", "Pdpte", "Pde", "Done"}
  BY <1>0 DEF TypeOK
<1>1. CASE SetPml4
  <2>1. i = 0 /\ pc = "Pml4" /\ pc' = "Pdpte" /\ pa' = 0 /\ i' = i /\ j' = j
        /\ pml4' = [pml4 EXCEPT ![0] = Present(Pfn(PaFromVa(PdptAddr)))]
        /\ pdpt' = pdpt /\ pd' = pd
    BY <1>0, <1>1 DEF SetPml4
  <2>2. \A k \in Idx : pml4'[k] = IF k = 0 /\ pc' # "Pml4" THEN Present(Pfn(PdptAddr))
                                                           ELSE ZeroEntry
    BY <1>0, <1>t, <2>1 DEF Idx, PaFromVa
  <2>3. \A a \in Idx : pdpt'[a] = IF PdpteWritten(a)' THEN Present(Pfn(PdAddr(a)))
                                                      ELSE ZeroEntry
    BY <1>0, <2>1 DEF PdpteWritten, Idx
  <2>4. \A a, b \in Idx : pd'[a][b] = IF PdeWritten(a, b)' THEN IdentityPde(a, b)
                                                           ELSE ZeroEntry
    BY <1>0, <2>1 DEF PdeWritten, Idx
  <2>5. TypeOK'
    <3>1. Present(Pfn(PdptAddr)) \in Entries
      BY EntryTypes, FramesNat
    <3>2. QED
      BY <1>t, <2>1, <3>1 DEF TypeOK, Idx, PaFromVa
  <2>6. QED
    BY <2>1, <2>2, <2>3, <2>4, <2>5 DEF IInv, LARGE_PAGE_SIZE
<1>2. CASE SetPdpte /\ i < N
  <2>1. pc = "Pdpte" /\ pc' = "Pde" /\ i' = i /\ j' = 0 /\ pa' = pa
        /\ pml4' = pml4 /\ pd' = pd
        /\ pdpt' = [pdpt EXCEPT ![i] = Present(Pfn(PaFromVa(PdAddr(i))))]
    BY <1>2 DEF SetPdpte
  <2>2. \A a \in Idx : pdpt'[a] = IF PdpteWritten(a)' THEN Present(Pfn(PdAddr(a)))
                                                      ELSE ZeroEntry
    BY <1>0, <1>t, <1>2, <2>1 DEF PdpteWritten, Idx, PaFromVa
  <2>3. \A a, b \in Idx : pd'[a][b] = IF PdeWritten(a, b)' THEN IdentityPde(a, b)
                                                           ELSE ZeroEntry
    BY <1>0, <2>1 DEF PdeWritten, Idx
  <2>4. TypeOK'
    <3>1. Present(Pfn(PdAddr(i))) \in Entries
      <4>1. i \in Idx
        BY <1>t, <1>2 DEF Idx
      <4>2. Pfn(PdAddr(i)) \in Nat
        BY <4>1, FramesNat
      <4>3. QED
        BY <4>2, EntryTypes
    <3>2. QED
      BY <1>t, <1>2, <2>1, <3>1 DEF TypeOK, Idx, PaFromVa
  <2>5. QED
    BY <1>0, <1>2, <2>1, <2>2, <2>3, <2>4 DEF IInv, LARGE_PAGE_SIZE
<1>3. CASE SetPdpte /\ i = N
  <2>1. pc = "Pdpte" /\ pc' = "Done" /\ UNCHANGED <<pml4, pdpt, pd, i, j, pa>>
    BY <1>3 DEF SetPdpte
  <2>2. \A a \in Idx : PdpteWritten(a)' = PdpteWritten(a)
    BY <1>3, <2>1 DEF PdpteWritten, Idx
  <2>3. \A a, b \in Idx : PdeWritten(a, b)' = PdeWritten(a, b)
    BY <1>3, <2>1 DEF PdeWritten, Idx
  <2>4. QED
    BY <1>0, <1>3, <2>1, <2>2, <2>3 DEF IInv, TypeOK
<1>4. CASE SetPde /\ j < N
  <2>1. pc = "Pde" /\ pc' = "Pde" /\ i' = i /\ j' = j + 1
        /\ pa' = pa + LARGE_PAGE_SIZE /\ pml4' = pml4 /\ pdpt' = pdpt
        /\ pd' = [pd EXCEPT ![i][j] = LargePresent(Pfn(pa))]
    BY <1>4 DEF SetPde
  <2>2. i \in Idx /\ j \in Idx
    BY <1>0, <1>t, <1>4, <2>1 DEF Idx
  <2>3. LargePresent(Pfn(pa)) = IdentityPde(i, j)
    BY <1>0, <2>1 DEF IdentityPde
  <2>4. \A a, b \in Idx : pd'[a][b] = IF PdeWritten(a, b)' THEN IdentityPde(a, b)
                                                           ELSE ZeroEntry
    <3> SUFFICES ASSUME NEW a \in Idx, NEW b \in Idx
                 PROVE  pd'[a][b] = IF PdeWritten(a, b)' THEN IdentityPde(a, b)
                                                        ELSE ZeroEntry
      OBVIOUS
    <3>1. CASE a = i /\ b = j
      BY <1>t, <2>1, <2>2, <2>3, <3>1 DEF PdeWritten
    <3>2. CASE ~(a = i /\ b = j)
      <4>1. pd'[a][b] = pd[a][b]
        BY <1>t, <2>1, <2>2, <3>2
      <4>2. PdeWritten(a, b)' = PdeWritten(a, b)
        BY <1>t, <2>1, <2>2, <3>2 DEF PdeWritten, Idx
      <4>3. QED
        BY <1>0, <4>1, <4>2
    <3>3. QED
      BY <3>1, <3>2
  <2>5. \A a \in Idx : pdpt'[a] = IF PdpteWritten(a)' THEN Present(Pfn(PdAddr(a)))
                                                      ELSE ZeroEntry
    BY <1>0, <2>1 DEF PdpteWritten
  <2>6. pa' = (i' * N + (IF pc' = "Pde" THEN j' ELSE 0)) * LARGE_PAGE_SIZE
    BY <1>0, <1>t, <2>1 DEF LARGE_PAGE_SIZE
  <2>7. TypeOK'
    <3>1. LargePresent(Pfn(pa)) \in Entries
      BY <1>t, EntryTypes, FramesNat
    <3>2. pd' \in [Idx -> [Idx -> Entries]]
      BY <1>t, <2>1, <2>2, <3>1
    <3>3. QED
      BY <1>t, <2>1, <2>2, <3>2 DEF TypeOK, Idx, LARGE_PAGE_SIZE
  <2>8. QED
    BY <1>0, <2>1, <2>4, <2>5, <2>6, <2>7 DEF IInv
<1>5. CASE SetPde /\ j = N
  <2>1. pc = "Pde" /\ pc' = "Pdpte" /\ i' = i + 1 /\ j' = j
        /\ UNCHANGED <<pml4, pdpt, pd, pa>>
    BY <1>5 DEF SetPde
  <2>2. \A a \in Idx : PdpteWritten(a)' = PdpteWritten(a)
    BY <1>t, <1>5, <2>1 DEF PdpteWritten, Idx
  <2>3. \A a, b \in Idx : PdeWritten(a, b)' = PdeWritten(a, b)
    BY <1>t, <1>5, <2>1 DEF PdeWritten, Idx
  <2>4. pa' = (i' * N + (IF pc' = "Pde" THEN j' ELSE 0)) * LARGE_PAGE_SIZE
    <3>1. (i * N + N) * LARGE_PAGE_SIZE = ((i + 1) * N + 0) * LARGE_PAGE_SIZE
      BY <1>t DEF LARGE_PAGE_SIZE
    <3>2. QED
      BY <1>0, <1>5, <2>1, <3>1
  <2>5. TypeOK'
    <3>1. i < N
      BY <1>0, <2>1
    <3>2. i + 1 \in 0..N
      BY <1>t, <3>1
    <3>3. QED
      BY <1>t, <2>1, <3>2 DEF TypeOK
  <2>6. QED
    BY <1>0, <2>1, <2>2, <2>3, <2>4, <2>5 DEF IInv
<1>6. CASE UNCHANGED vars
  BY <1>6 DEF vars, IInv, TypeOK, PdpteWritten, PdeWritten
<1>7. QED
  <2>1. SetPdpte => (SetPdpte /\ i < N) \/ (SetPdpte /\ i = N)
    BY <1>t DEF SetPdpte
  <2>2. SetPde => (SetPde /\ j < N) \/ (SetPde /\ j = N)
    BY <1>t DEF SetPde
  <2>3. QED
    BY <1>1, <1>2, <1>3, <1>4, <1>5, <1>6, <2>1, <2>2 DEF Next

(* The loop invariant holds in every state of build_identity.             *)
THEOREM LoopInvariant == Spec => []IInv
BY IInvInit, IInvStep, PTL DEF Spec
(* Spec P4 through the code's entry indices, for every table size: every *)
(* PD entry build_identity has written maps its own large page, and once  *)
(* it returns PML4[0], every PDPT entry and every PD entry are the        *)
(* identity map.                                                           *)
THEOREM CodeViewCorrect == Spec => []CodeViewIdentity
<1>1. IInv => CodeViewIdentity
  <2> SUFFICES ASSUME IInv PROVE CodeViewIdentity
    OBVIOUS
  <2>1. \A a, b \in Idx : pd[a][b].present => pd[a][b] = IdentityPde(a, b)
    BY IInvParts DEF ZeroEntry
  <2>2. pc = "Done" => \A a, b \in Idx : PdeWritten(a, b) /\ PdpteWritten(a)
    BY IInvParts DEF PdeWritten, PdpteWritten, Idx, TypeOK
  <2>3. pc = "Done" => pml4[0] = Present(Pfn(PdptAddr))
    <3>1. 0 \in Idx
      BY DEF Idx
    <3>2. QED
      BY <3>1, IInvParts
  <2>4. QED
    BY <2>1, <2>2, <2>3, IInvParts DEF CodeViewIdentity
<1>2. QED
  BY <1>1, LoopInvariant, PTL

-----------------------------------------------------------------------------
(* The refinement: every write of the loops is one write of the abstract  *)
(* build, and the loop exit after the last PDPT entry is its return.       *)

LEMMA ZeroTablesMatch ==
  [pml4 |-> [k \in Idx |-> ZeroEntry], pdpt |-> [k \in Idx |-> ZeroEntry],
   pd |-> [a \in Idx |-> [k \in Idx |-> ZeroEntry]]] = Identity!ZeroTables
BY DEF Identity!ZeroTables, Identity!Zero, Identity!Idx, ZeroEntry, Idx

(* The large page the code maps at PD a entry b is the abstract leaf.     *)
LEMMA PdeLeaf ==
  ASSUME NEW a \in Idx, NEW b \in Idx
  PROVE  IdentityPde(a, b) = Identity!Leaf((a * N + b) * Identity!LargePageFrames)
<1>1. a * N + b \in Nat
  BY DEF Idx
<1>2. Pfn((a * N + b) * LARGE_PAGE_SIZE) = (a * N + b) * 512
  BY <1>1, PfnOfLargePage
<1>3. Identity!Leaf((a * N + b) * Identity!LargePageFrames)
        = LargePresent((a * N + b) * 512)
  BY DEF Identity!Leaf, Identity!LargePageFrames, LargePresent
<1>4. QED
  BY <1>2, <1>3 DEF IdentityPde

LEMMA DoneTablesMatch ==
  ASSUME IInv, i = N, pc \in {"Pdpte", "Done"}
  PROVE  Tables = Identity!IdentityTables
<1>1. /\ pml4 \in [Idx -> Entries] /\ pdpt \in [Idx -> Entries]
      /\ pd \in [Idx -> [Idx -> Entries]] /\ i = N
  BY IInvParts DEF TypeOK
<1>2. \A a \in Idx : PdpteWritten(a) /\ \A b \in Idx : PdeWritten(a, b)
  BY <1>1 DEF PdpteWritten, PdeWritten, Idx
<1>3. pml4 = [k \in Idx |-> IF k = 0 THEN Identity!Link(Pfn(PdptAddr)) ELSE Identity!Zero]
  BY <1>1, IInvParts DEF Identity!Link, Identity!Zero, Present, ZeroEntry
<1>4. pdpt = [a \in Idx |-> Identity!Link([c \in Idx |-> Pfn(PdAddr(c))][a])]
  BY <1>1, <1>2, IInvParts DEF Identity!Link, Present
<1>5. pd = [a \in Idx |-> [b \in Idx |-> Identity!Leaf((a * N + b) * Identity!LargePageFrames)]]
  BY <1>1, <1>2, PdeLeaf, IInvParts
<1>6. QED
  BY <1>3, <1>4, <1>5 DEF Tables, Identity!IdentityTables, Identity!Idx, Idx

(* The step relation of the refinement, one case per loop step.           *)
LEMMA RefineStep ==
  IInv /\ IInv' /\ [Next]_vars => [Identity!Next]_Identity!vars
<1> SUFFICES ASSUME IInv, IInv', [Next]_vars PROVE [Identity!Next]_Identity!vars
  OBVIOUS
<1>0. /\ pml4 \in [Idx -> Entries] /\ pdpt \in [Idx -> Entries]
      /\ pd \in [Idx -> [Idx -> Entries]] /\ i \in 0..N /\ j \in 0..N
      /\ 0 \in Idx
  BY IInvParts DEF TypeOK, Idx
<1>1. CASE SetPml4
  <2>1. pc = "Pml4" /\ pc' = "Pdpte" /\ i = 0 /\ UNCHANGED <<pdpt, pd>>
    BY <1>1, IInvParts DEF SetPml4
  <2>2. pml4[0] = Identity!Zero
    BY <1>0, <2>1, IInvParts DEF ZeroEntry, Identity!Zero
  <2>3. pml4'[0] = Identity!Link(Pfn(PdptAddr))
    <3>1. pml4'[0] = Present(Pfn(PdptAddr))
      BY <1>0, <2>1 DEF IInv
    <3>2. QED
      BY <3>1 DEF Present, Identity!Link
  <2>4. pml4' = [pml4 EXCEPT ![0] = Identity!Link(Pfn(PdptAddr))]
    BY <1>0, <1>1, <2>3 DEF SetPml4
  <2>5. Identity!LinkPml4
    BY <2>1, <2>2, <2>4 DEF Identity!LinkPml4, Tables
  <2>6. QED
    BY <2>5 DEF Identity!Next
<1>2. CASE SetPdpte /\ i < N
  <2>1. pc = "Pdpte" /\ pc' = "Pde" /\ i' = i /\ UNCHANGED <<pml4, pd>>
    BY <1>2 DEF SetPdpte
  <2>2. i \in Idx
    BY <1>0, <1>2 DEF Idx
  <2>3. pdpt[i] = Identity!Zero
    <3>1. ~PdpteWritten(i)
      BY <2>1, <2>2 DEF PdpteWritten, Idx
    <3>2. pdpt[i] = ZeroEntry
      BY <2>2, <3>1, IInvParts
    <3>3. QED
      BY <3>2 DEF ZeroEntry, Identity!Zero
  <2>4. pdpt'[i] = Identity!Link([c \in Idx |-> Pfn(PdAddr(c))][i])
    <3>1. PdpteWritten(i)'
      BY <2>1 DEF PdpteWritten
    <3>2. pdpt'[i] = Present(Pfn(PdAddr(i)))
      BY <2>1, <2>2, <3>1 DEF IInv
    <3>3. QED
      BY <2>2, <3>2 DEF Present, Identity!Link
  <2>5. pdpt' = [pdpt EXCEPT ![i] = Identity!Link([c \in Idx |-> Pfn(PdAddr(c))][i])]
    BY <1>0, <1>2, <2>2, <2>4 DEF SetPdpte
  <2>6. /\ Tables.pdpt[i] = Identity!Zero
        /\ Tables' = [Tables EXCEPT !.pdpt[i] = Identity!Link([c \in Idx |-> Pfn(PdAddr(c))][i])]
    BY <2>1, <2>3, <2>5 DEF Tables
  <2>7. \E a \in Identity!Idx :
          /\ Tables.pdpt[a] = Identity!Zero
          /\ Tables' = [Tables EXCEPT !.pdpt[a] = Identity!Link([c \in Idx |-> Pfn(PdAddr(c))][a])]
    BY <2>2, <2>6, Zenon DEF Identity!Idx, Idx
  <2>9. Identity!LinkPdpt
    BY <2>1, <2>7, Zenon DEF Identity!LinkPdpt
  <2>10. QED
    BY <2>9 DEF Identity!Next
<1>3. CASE SetPdpte /\ i = N
  <2>1. pc = "Pdpte" /\ pc' = "Done" /\ UNCHANGED <<pml4, pdpt, pd>>
    BY <1>3 DEF SetPdpte
  <2>2. Tables = Identity!IdentityTables
    BY <1>3, <2>1, DoneTablesMatch
  <2>3. Identity!Finish
    BY <2>1, <2>2 DEF Identity!Finish, Tables
  <2>4. QED
    BY <2>3 DEF Identity!Next
<1>4. CASE SetPde /\ j < N
  <2>1. pc = "Pde" /\ pc' = "Pde" /\ i' = i /\ j' = j + 1 /\ UNCHANGED <<pml4, pdpt>>
    BY <1>4 DEF SetPde
  <2>2. i \in Idx /\ j \in Idx
    BY <1>0, <1>4, <2>1, IInvParts DEF Idx
  <2>3. pd[i][j] = Identity!Zero
    <3>1. ~PdeWritten(i, j)
      BY <2>1, <2>2 DEF PdeWritten, Idx
    <3>2. pd[i][j] = ZeroEntry
      BY <2>2, <3>1, IInvParts
    <3>3. QED
      BY <3>2 DEF ZeroEntry, Identity!Zero
  <2>4. pd'[i][j] = Identity!Leaf((i * N + j) * Identity!LargePageFrames)
    <3>1. pc' # "Pml4" /\ i = i' /\ pc' = "Pde" /\ j < j'
      BY <2>1, <2>2 DEF Idx
    <3>2. pd'[i][j] = IdentityPde(i, j)
      BY <2>2, <3>1 DEF IInv, PdeWritten
    <3>3. QED
      BY <2>2, <3>2, PdeLeaf
  <2>5. pd' = [pd EXCEPT ![i][j] = Identity!Leaf((i * N + j) * Identity!LargePageFrames)]
    BY <1>0, <1>4, <2>2, <2>4 DEF SetPde
  <2>6. /\ Tables.pd[i][j] = Identity!Zero
        /\ Tables' = [Tables EXCEPT !.pd[i][j] = Identity!Leaf((i * N + j) * Identity!LargePageFrames)]
    BY <2>1, <2>3, <2>5 DEF Tables
  <2>7. \E a, b \in Identity!Idx :
          /\ Tables.pd[a][b] = Identity!Zero
          /\ Tables' = [Tables EXCEPT !.pd[a][b] = Identity!Leaf((a * N + b) * Identity!LargePageFrames)]
    BY <2>2, <2>6, Zenon DEF Identity!Idx, Idx
  <2>9. Identity!MapPde
    BY <2>1, <2>7, Zenon DEF Identity!MapPde
  <2>10. QED
    BY <2>9 DEF Identity!Next
<1>5. CASE SetPde /\ j = N
  <2>1. pc = "Pde" /\ pc' = "Pdpte" /\ UNCHANGED <<pml4, pdpt, pd>>
    BY <1>5 DEF SetPde
  <2>2. QED
    BY <2>1 DEF Identity!vars, Tables
<1>6. CASE UNCHANGED vars
  BY <1>6 DEF vars, Identity!vars, Tables
<1>7. QED
  <2>1. SetPdpte => (i < N \/ i = N)
    BY <1>0 DEF SetPdpte
  <2>2. SetPde => (j < N \/ j = N)
    BY <1>0 DEF SetPde
  <2>3. QED
    BY <1>1, <1>2, <1>3, <1>4, <1>5, <1>6, <2>1, <2>2 DEF Next

(* build_identity implements spec 4.8 for every table size: each write   *)
(* of its loops gives one still-zero entry its identity value, and it     *)
(* returns only when the tables are exactly the identity tables.           *)
THEOREM Implementation == Spec => IdentitySpec
<1>1. Init => Identity!Init
  <2> SUFFICES ASSUME Init PROVE Tables = Identity!ZeroTables /\ pc # "Done"
    BY DEF Identity!Init
  <2>1. QED
    BY ZeroTablesMatch DEF Init, Tables
<1>2. QED
  BY <1>1, RefineStep, LoopInvariant, IInvInit, PTL DEF Spec, IdentitySpec, Identity!Spec
=============================================================================
