------------------------------- MODULE Paging -------------------------------
(***************************************************************************)
(* PageTables::build_identity (intel/paging.rs): the PML4, PDPT and PD     *)
(* loops that build an identity map of large pages, with the tables'      *)
(* memory layout as the Rust attributes make it and as the processor      *)
(* walks it.  N entries per table stands for the code's 512.               *)
(***************************************************************************)
EXTENDS Naturals

CONSTANTS
  N,            \* entries per table (512 in the code)
  EntryStride,  \* bytes between entries[k] and entries[k+1] in the code
  Base          \* address of the PageTables structure (4 KiB aligned)

(* x86::current::paging constants, and SDM 4.5: an entry is 8 bytes.     *)
BASE_PAGE_SIZE == 4096      \* 1 << BASE_PAGE_SHIFT (12)
LARGE_PAGE_SIZE == 2097152
HwEntrySize == 8

ASSUME PagingAssumption ==
  /\ N \in Nat \ {0}
  /\ EntryStride \in Nat /\ EntryStride >= HwEntrySize
  /\ EntryStride % HwEntrySize = 0
  /\ Base \in Nat /\ Base % BASE_PAGE_SIZE = 0

Idx == 0..(N - 1)

(* bitfield Entry: present (bit 0), writable (1), large (7), pfn (51:12). *)
ZeroEntry == [present |-> FALSE, writable |-> FALSE, large |-> FALSE, pfn |-> 0]
Entries == [present : BOOLEAN, writable : BOOLEAN, large : BOOLEAN, pfn : Nat]

(* The layout of #[repr(C)] PageTables { pml4, pdpt, pd: [Pd; 512], pt }: *)
(* each table is N entries of EntryStride bytes.                           *)
TableBytes == N * EntryStride
Pml4Addr == Base
PdptAddr == Base + TableBytes
PdAddr(i) == Base + (2 + i) * TableBytes

(* PhysicalAddress::pa_from_va: the structure is identity-mapped.         *)
PaFromVa(va) == va

(* addr >> BASE_PAGE_SHIFT stored by set_pfn into bits 51:12.  The field *)
(* keeps 40 bits; every address here is far below 2^52, so the           *)
(* truncation never applies and is left out.                               *)
Pfn(pa) == pa \div BASE_PAGE_SIZE

Present(pfn) == [present |-> TRUE, writable |-> TRUE, large |-> FALSE, pfn |-> pfn]
LargePresent(pfn) == [present |-> TRUE, writable |-> TRUE, large |-> TRUE, pfn |-> pfn]

-----------------------------------------------------------------------------
VARIABLES
  pml4, pdpt, pd,  \* the tables, by the code's entry index
  i, j,            \* the PDPT and PD loop indices
  pa,              \* the physical address of the next large page
  pc               \* "Pml4", "Pdpte", "Pde" or "Done"

vars == <<pml4, pdpt, pd, i, j, pa, pc>>

(* The structure as allocated: every entry zero.                           *)
Init ==
  /\ pml4 = [k \in Idx |-> ZeroEntry]
  /\ pdpt = [k \in Idx |-> ZeroEntry]
  /\ pd = [a \in Idx |-> [k \in Idx |-> ZeroEntry]]
  /\ i = 0 /\ j = 0 /\ pa = 0
  /\ pc = "Pml4"

(* Mutant: PML4[0] pointed at the first PD instead of the PDPT.          *)
SetPml4PointsAtPd ==
  /\ pc = "Pml4"
  /\ pml4' = [pml4 EXCEPT ![0] = Present(Pfn(PaFromVa(PdAddr(0))))]
  /\ pa' = 0
  /\ pc' = "Pdpte"
  /\ UNCHANGED <<pdpt, pd, i, j>>

(* PML4[0]: present, writable, frame of the PDPT; then let mut pa = 0.   *)
SetPml4 ==
  /\ pc = "Pml4"
  /\ pml4' = [pml4 EXCEPT ![0] = Present(Pfn(PaFromVa(PdptAddr)))]
  /\ pa' = 0
  /\ pc' = "Pdpte"
  /\ UNCHANGED <<pdpt, pd, i, j>>

(* The body of the outer loop before the inner one: PDPT[i] points at    *)
(* pd[i]; the loop ends after the last PDPT entry.                         *)
SetPdpte ==
  /\ pc = "Pdpte"
  /\ \/ /\ i < N
        /\ pdpt' = [pdpt EXCEPT ![i] = Present(Pfn(PaFromVa(PdAddr(i))))]
        /\ j' = 0
        /\ pc' = "Pde"
        /\ UNCHANGED i
     \/ /\ i = N
        /\ pc' = "Done"
        /\ UNCHANGED <<pdpt, i, j>>
  /\ UNCHANGED <<pml4, pd, pa>>

(* Mutant: the large-page size added once per PD instead of per entry.   *)
SetPdePaPerTable ==
  /\ pc = "Pde"
  /\ \/ /\ j < N
        /\ pd' = [pd EXCEPT ![i][j] = LargePresent(Pfn(pa))]
        /\ pa' = IF j = N - 1 THEN pa + LARGE_PAGE_SIZE ELSE pa
        /\ j' = j + 1
        /\ UNCHANGED <<i, pc>>
     \/ /\ j = N
        /\ i' = i + 1
        /\ pc' = "Pdpte"
        /\ UNCHANGED <<pd, pa, j>>
  /\ UNCHANGED <<pml4, pdpt>>

(* The inner loop: PD[i][j] maps the large page at pa; pa advances by    *)
(* LARGE_PAGE_SIZE; after the last entry the outer loop moves on.         *)
SetPde ==
  /\ pc = "Pde"
  /\ \/ /\ j < N
        /\ pd' = [pd EXCEPT ![i][j] = LargePresent(Pfn(pa))]
        /\ pa' = pa + LARGE_PAGE_SIZE
        /\ j' = j + 1
        /\ UNCHANGED <<i, pc>>
     \/ /\ j = N
        /\ i' = i + 1
        /\ pc' = "Pdpte"
        /\ UNCHANGED <<pd, pa, j>>
  /\ UNCHANGED <<pml4, pdpt>>

Next == SetPml4 \/ SetPdpte \/ SetPde

Spec == Init /\ [][Next]_vars

-----------------------------------------------------------------------------
(* The processor's view: it reads the 8-byte entry at table + 8 * k.      *)
(* Bytes between two of the code's entries are padding (zero).            *)

(* The entry the processor reads at address addr inside a table whose    *)
(* code entries are t and which starts at tableAddr.                       *)
HwRead(t, tableAddr, addr) ==
  LET off == addr - tableAddr
  IN  IF off % EntryStride = 0 /\ off \div EntryStride \in Idx
      THEN t[off \div EntryStride]
      ELSE ZeroEntry

(* The table that lives at a physical frame, as the code's entries.       *)
TableAt(frame) ==
  IF frame = Pfn(PdptAddr) THEN [kind |-> "Pdpt", idx |-> 0]
  ELSE IF \E a \in Idx : frame = Pfn(PdAddr(a))
       THEN [kind |-> "Pd", idx |-> CHOOSE a \in Idx : frame = Pfn(PdAddr(a))]
       ELSE [kind |-> "None", idx |-> 0]

(* SDM 4.5: the PDE the walk reaches for PML4 index 0, PDPT index a and  *)
(* PD index b, or ZeroEntry when a level is not present.                   *)
HwPde(a, b) ==
  LET e4 == HwRead(pml4, Pml4Addr, Pml4Addr)
      e3 == HwRead(pdpt, PdptAddr, PdptAddr + HwEntrySize * a)
      pdt == TableAt(e3.pfn)
  IN  IF e4.present /\ e4.pfn = Pfn(PdptAddr) /\ e3.present /\ pdt.kind = "Pd"
      THEN HwRead(pd[pdt.idx], PdAddr(pdt.idx), PdAddr(pdt.idx) + HwEntrySize * b)
      ELSE ZeroEntry

-----------------------------------------------------------------------------
(* Properties.                                                             *)

TypeOK ==
  /\ pml4 \in [Idx -> Entries] /\ pdpt \in [Idx -> Entries]
  /\ pd \in [Idx -> [Idx -> Entries]]
  /\ i \in 0..N /\ j \in 0..N
  /\ pa \in Nat
  /\ pc \in {"Pml4", "Pdpte", "Pde", "Done"}

(* The large page that PD entry (a, b) must map for the identity (P4).    *)
IdentityPde(a, b) == LargePresent(Pfn((a * N + b) * LARGE_PAGE_SIZE))

(* Spec P4 for the entries as the code indexes them: while the loops run *)
(* every PD entry written so far maps its own address as a large page,    *)
(* and when build_identity returns every entry does and every PDPT entry  *)
(* points at its PD.                                                       *)
CodeViewIdentity ==
  /\ \A a, b \in Idx : pd[a][b].present => pd[a][b] = IdentityPde(a, b)
  /\ pc = "Done" =>
       /\ pml4[0] = Present(Pfn(PdptAddr))
       /\ \A a \in Idx : pdpt[a] = Present(Pfn(PdAddr(a)))
       /\ \A a, b \in Idx : pd[a][b] = IdentityPde(a, b)

(* Spec P4 as the processor sees it: once build_identity returns, the    *)
(* page walk through PML4[0], PDPT[a] and PD[b] reaches the identity      *)
(* large page for every a and b.                                           *)
HardwareWalkIdentity ==
  pc = "Done" => \A a, b \in Idx : HwPde(a, b) = IdentityPde(a, b)

(* The three tables as PagingIdentity names them.                        *)
Tables == [pml4 |-> pml4, pdpt |-> pdpt, pd |-> pd]

Identity == INSTANCE PagingIdentity
  WITH PdptFrame <- Pfn(PdptAddr),
       PdFrames <- [a \in Idx |-> Pfn(PdAddr(a))],
       tables <- Tables,
       built <- pc = "Done"

(* build_identity implements spec 4.8: each write of its loops gives one  *)
(* still-zero entry its identity value, PML4[0] the PDPT's frame, PDPT[a] *)
(* PD a's frame, PD a entry b the large page (a * N + b) * 2 MiB, and it   *)
(* returns only once every entry is written.                               *)
IdentitySpec == Identity!Spec
=============================================================================
