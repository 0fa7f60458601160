--------------------------- MODULE GdtUnpack_proofs ---------------------------
(***************************************************************************)
(* Proofs about unpack_gdt_entry and the guest segment writes of          *)
(* init_guest_register_state, for every table length, descriptor set and *)
(* set of segment registers satisfying GdtAssumption.                      *)
(***************************************************************************)
EXTENDS GdtUnpack, TLAPS

USE GdtAssumption

(* A selector of the table indexes a slot of it, the same one for the    *)
(* code's division and the SDM's bits 15:3.                                *)
LEMMA IndexOfSelector ==
  ASSUME NEW x \in Selectors
  PROVE  Index(x) \in Idx /\ SdmIndex(x) = Index(x)
<1>1. PICK i \in Idx, rpl \in 0..3 : x = i * 8 + rpl
  BY DEF Selectors
<1>2. i \in Nat
  BY DEF Idx
<1>3. (i * 8 + rpl) \div 8 = i
  BY <1>2
<1>4. QED
  BY <1>1, <1>3 DEF Index, SdmIndex, GDT_ENTRY_SIZE

(* The access rights unpack_gdt_entry builds from one descriptor: no     *)
(* reserved bit set, the SDM's value for a present segment, the unusable *)
(* bit for a non-present one.                                              *)
LEMMA AccessRightsOfEntry ==
  ASSUME NEW e \in GdtEntries
  PROVE  /\ UnpackAccessRights(e) \in ArValues
         /\ PBit(e) => UnpackAccessRights(e) = SdmAccessRights(e)
         /\ ~PBit(e) => (UnpackAccessRights(e) \div 65536) % 2 = 1
<1> DEFINE a == e.access
           h == e.granularity \div 16
           ar == a + h * 4096
<1>1. a \in Nat /\ a < 256 /\ h \in Nat /\ h < 16
  <2>1. a \in Nat /\ a < 256 /\ e.granularity \in Nat /\ e.granularity < 256
    BY DEF GdtEntries, U8
  <2>2. QED
    BY <2>1
<1>2. e.access + (e.granularity \div 16) * 16 * 256 = ar
  BY <1>1
<1>3. MaskF0FF(ar) = ar
  <2>1. ar % 256 = a
    BY <1>1
  <2>2. (ar \div 4096) % 16 = h
    BY <1>1
  <2>3. QED
    BY <2>1, <2>2 DEF MaskF0FF
<1>0. ar \in Nat /\ ar < 65536
  BY <1>1
<1>4. ar \in ArValues
  <2>1. (ar \div 256) % 16 = 0
    BY <1>1
  <2>2. QED
    BY <1>0, <2>1 DEF ArValues
<1>5. OrUnusable(ar) = ar + 65536 /\ ar + 65536 \in ArValues
  <2>1. (ar \div 65536) % 2 = 0
    BY <1>0
  <2>2. ((ar + 65536) \div 256) % 16 = 0
    BY <1>1
  <2>3. QED
    BY <1>0, <2>1, <2>2 DEF OrUnusable, VMX_INFO_SEGMENT_UNUSABLE, ArValues
<1>6. IsPresent(e.access) <=> PBit(e)
  BY DEF IsPresent, PBit, GDT_ENTRY_ACCESS_PRESENT
<1>7. ((ar + 65536) \div 65536) % 2 = 1
  BY <1>0
<1>8. QED
  BY <1>2, <1>3, <1>4, <1>5, <1>6, <1>7 DEF UnpackAccessRights, SdmAccessRights

(* What unpack_gdt_entry returns for a selector of the table.              *)
LEMMA UnpackOfSelector ==
  ASSUME NEW g \in [Idx -> GdtEntries], NEW x \in Selectors
  PROVE  LET u == UnpackGdtEntry(g, x) IN
         /\ u.base \in [1..4 -> U16]
         /\ u.limit \in [1..2 -> U16]
         /\ u.access_rights \in ArValues
         /\ IF SdmUsable(g, x)
            THEN u.access_rights = SdmAccessRights(g[SdmIndex(x)])
            ELSE (u.access_rights \div 65536) % 2 = 1
<1>1. Index(x) \in Idx /\ SdmIndex(x) = Index(x)
  BY IndexOfSelector
<1>2. CASE Index(x) = 0
  <2>1. OrUnusable(0) = 65536 /\ 65536 \in ArValues
    BY DEF OrUnusable, VMX_INFO_SEGMENT_UNUSABLE, ArValues
  <2>2. ~SdmUsable(g, x)
    BY <1>1, <1>2 DEF SdmUsable
  <2>3. <<0, 0, 0, 0>> \in [1..4 -> U16] /\ <<0, 0>> \in [1..2 -> U16]
    BY DEF U16
  <2>4. QED
    BY <1>2, <2>1, <2>2, <2>3 DEF UnpackGdtEntry, UnpackedDefault
<1>3. CASE Index(x) # 0
  <2> DEFINE e == g[Index(x)]
  <2>1. e \in GdtEntries
    BY <1>1
  <2>2. UnpackGdtEntry(g, x) =
          [selector |-> x, base |-> UnpackBase(e), limit |-> UnpackLimit(e),
           access_rights |-> UnpackAccessRights(e)]
    BY <1>3 DEF UnpackGdtEntry
  <2>3. UnpackBase(e) \in [1..4 -> U16] /\ UnpackLimit(e) \in [1..2 -> U16]
    BY <2>1 DEF UnpackBase, UnpackLimit, GdtEntries, U8, U16
  <2>4. SdmUsable(g, x) <=> PBit(e)
    BY <1>1, <1>3 DEF SdmUsable
  <2>5. QED
    BY <1>1, <2>1, <2>2, <2>3, <2>4, AccessRightsOfEntry
<1>4. QED
  BY <1>2, <1>3

LEMMA ZeroSelector == 0 \in Selectors
<1>1. 0 \in Idx /\ 0 = 0 * 8 + 0
  BY DEF Idx
<1>2. QED
  BY <1>1 DEF Selectors

LEMMA NullEntryType == NullEntry \in GdtEntries
BY DEF NullEntry, GdtEntries, U8, U16

(* The record init_guest_register_state writes for segment register s.   *)
VmcsFields ==
  [selector : Selectors, base : [1..4 -> U16], limit : [1..2 -> U16],
   access_rights : ArValues]

LEMMA TypeInit == Init => TypeOK
<1> SUFFICES ASSUME Init PROVE TypeOK
  OBVIOUS
<1>1. gdt \in [Idx -> GdtEntries]
  BY NullEntryType DEF Init
<1>2. UnpackedDefault \in VmcsFields
  <2>1. 0 \in ArValues /\ <<0, 0, 0, 0>> \in [1..4 -> U16] /\ <<0, 0>> \in [1..2 -> U16]
    BY DEF ArValues, U16
  <2>2. QED
    BY <2>1, ZeroSelector DEF UnpackedDefault, VmcsFields
<1>3. QED
  BY <1>1, <1>2 DEF Init, TypeOK, VmcsFields

(* The fields WriteGuestSegments gives segment register s.                 *)
LEMMA WrittenFields ==
  ASSUME TypeOK, NEW s \in Segs
  PROVE  [selector |-> sel[s],
          base |-> IF s \in {"FS", "GS"} THEN MsrBase
                   ELSE UnpackGdtEntry(gdt, sel[s]).base,
          limit |-> UnpackGdtEntry(gdt, sel[s]).limit,
          access_rights |-> UnpackGdtEntry(gdt, sel[s]).access_rights]
         \in VmcsFields
<1>1. gdt \in [Idx -> GdtEntries] /\ sel[s] \in Selectors
  BY DEF TypeOK
<1>2. QED
  BY <1>1, UnpackOfSelector DEF VmcsFields

LEMMA TypeStep == TypeOK /\ [Next]_vars => TypeOK'
<1> SUFFICES ASSUME TypeOK, [Next]_vars PROVE TypeOK'
  OBVIOUS
<1>1. CASE WriteGuestSegments
  <2>1. vmcs' \in [Segs -> VmcsFields]
    BY <1>1, WrittenFields DEF WriteGuestSegments
  <2>2. QED
    BY <1>1, <2>1 DEF WriteGuestSegments, TypeOK, VmcsFields
<1>2. CASE UNCHANGED vars
  BY <1>2 DEF vars, TypeOK
<1>3. QED
  BY <1>1, <1>2 DEF Next

(* The VMCS guest segment fields init_guest_register_state writes keep   *)
(* their widths, and no access-rights value sets a reserved bit.          *)
THEOREM TypeCorrect == Spec => []TypeOK
BY TypeInit, TypeStep, PTL DEF Spec

-----------------------------------------------------------------------------
(* The inductive strengthening: the selectors stay loadable ones, and    *)
(* once written each segment's access rights, and its base unless it is  *)
(* FS or GS, are what unpack_gdt_entry returns for its selector.          *)
IInv ==
  /\ TypeOK
  /\ \A s \in Segs : Loadable(gdt, s, sel[s])
  /\ written =>
       \A s \in Segs :
         /\ vmcs[s].access_rights = UnpackGdtEntry(gdt, sel[s]).access_rights
         /\ s \notin {"FS", "GS"} => vmcs[s].base = UnpackGdtEntry(gdt, sel[s]).base

LEMMA IInvInit == Init => IInv
BY TypeInit DEF Init, IInv

LEMMA IInvStep == IInv /\ [Next]_vars => IInv'
<1> SUFFICES ASSUME IInv, [Next]_vars PROVE IInv'
  OBVIOUS
<1>1. TypeOK'
  BY TypeStep DEF IInv
<1>2. CASE WriteGuestSegments
  BY <1>1, <1>2 DEF WriteGuestSegments, IInv
<1>3. CASE UNCHANGED vars
  BY <1>1, <1>3 DEF vars, IInv
<1>4. QED
  BY <1>2, <1>3 DEF Next

(* Spec P2 and P3 for every table: each segment register's guest access   *)
(* rights are the unusable bit for a null selector or a non-present      *)
(* segment, and the SDM's access rights of its descriptor otherwise.      *)
THEOREM AccessRightsCorrect == Spec => []AccessRightsMatchSdm
<1>1. Spec => []IInv
  BY IInvInit, IInvStep, PTL DEF Spec
<1>2. IInv => AccessRightsMatchSdm
  <2> SUFFICES ASSUME IInv, written, NEW s \in Segs
               PROVE  IF SdmUsable(gdt, sel[s])
                      THEN vmcs[s].access_rights = SdmAccessRights(gdt[SdmIndex(sel[s])])
                      ELSE (vmcs[s].access_rights \div 65536) % 2 = 1
    BY DEF AccessRightsMatchSdm
  <2>1. gdt \in [Idx -> GdtEntries] /\ sel[s] \in Selectors
    BY DEF IInv, TypeOK
  <2>2. QED
    BY <2>1, UnpackOfSelector DEF IInv
<1>3. QED
  BY <1>1, <1>2, PTL
=============================================================================
