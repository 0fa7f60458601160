------------------------------ MODULE GdtUnpack ------------------------------
(***************************************************************************)
(* The guest segment state that init_guest_register_state writes into the *)
(* VMCS (vmx.rs 226-261), and unpack_gdt_entry (vmx.rs 556-585), which   *)
(* decodes one 8-byte GDT entry, selected by a selector, into the base,   *)
(* limit and access rights of a VMCS guest segment.                       *)
(*                                                                         *)
(* 64-bit values are written as sequences of 16-bit limbs, least         *)
(* significant first, so that a 64-bit base or a byte-granular 32-bit     *)
(* limit is exact in TLC's 32-bit integers.                                *)
(***************************************************************************)
EXTENDS Naturals

CONSTANTS
  GdtLen,   \* entries of the slice get_current_gdt returns
  Slots,    \* the GDT entries the table may hold
  Segs,     \* the segment registers written
  MsrBase   \* IA32_FS_BASE / IA32_GS_BASE, as four 16-bit limbs

U8 == {n \in Nat : n < 256}
U16 == {n \in Nat : n < 65536}

(* struct GdtEntry, #[repr(packed)]: the six fields of an 8-byte entry.   *)
GdtEntries ==
  [limit_low : U16, base_low : U16, base_middle : U8, access : U8,
   granularity : U8, base_high : U8]

SegNames == {"CS", "SS", "DS", "ES", "FS", "GS", "LDTR", "TR"}

Idx == 0..(GdtLen - 1)

ASSUME GdtAssumption ==
  /\ GdtLen \in Nat \ {0}
  /\ Slots \subseteq GdtEntries
  /\ Segs \subseteq SegNames
  /\ MsrBase \in [1..4 -> U16]

GDT_ENTRY_SIZE == 8                 \* core::mem::size_of::<GdtEntry>()
GDT_ENTRY_ACCESS_PRESENT == 128     \* 1 << 7
VMX_INFO_SEGMENT_UNUSABLE == 65536  \* 1 << 16

(* x | VMX_INFO_SEGMENT_UNUSABLE *)
OrUnusable(x) ==
  IF (x \div VMX_INFO_SEGMENT_UNUSABLE) % 2 = 1 THEN x
  ELSE x + VMX_INFO_SEGMENT_UNUSABLE

(* x & 0xf0ff: bits 7:0 and 15:12 *)
MaskF0FF(x) == (x % 256) + ((x \div 4096) % 16) * 4096

(* access & GDT_ENTRY_ACCESS_PRESENT != 0 *)
IsPresent(access) == (access \div GDT_ENTRY_ACCESS_PRESENT) % 2 = 1

(* UnpackedGdtEntry::default() *)
UnpackedDefault ==
  [selector |-> 0, base |-> <<0, 0, 0, 0>>, limit |-> <<0, 0>>,
   access_rights |-> 0]

Index(selector) == selector \div GDT_ENTRY_SIZE

(* limit_low | (granularity & 0x0f) << 16, not scaled by the G flag.      *)
UnpackLimit(e) == <<e.limit_low, e.granularity % 16>>

(* base_high << 24 | base_middle << 16 | base_low: the upper 32 bits of a *)
(* 16-byte system descriptor are not read.                                 *)
UnpackBase(e) == <<e.base_low, e.base_middle + e.base_high * 256, 0, 0>>

(* Mutants: the masks & 0xf0 and & 0xf0ff dropped; the present check     *)
(* dropped.                                                                *)
UnpackAccessRightsUnmasked(e) == e.access + e.granularity * 256
UnpackAccessRightsNoPresentCheck(e) ==
  MaskF0FF(e.access + (e.granularity \div 16) * 16 * 256)

(* access | (granularity & 0xf0) << 8, then & 0xf0ff, then the unusable   *)
(* bit when the present bit is clear.  The two operands of the | have     *)
(* disjoint bits, so the | is a sum.                                       *)
UnpackAccessRights(e) ==
  LET ar == MaskF0FF(e.access + (e.granularity \div 16) * 16 * 256)
  IN  IF IsPresent(e.access) THEN ar ELSE OrUnusable(ar)

(* unpack_gdt_entry(gdt, selector) *)
UnpackGdtEntry(gdt, selector) ==
  IF Index(selector) = 0
  THEN [UnpackedDefault EXCEPT !.access_rights = OrUnusable(@)]
  ELSE [selector |-> selector,
        base |-> UnpackBase(gdt[Index(selector)]),
        limit |-> UnpackLimit(gdt[Index(selector)]),
        access_rights |-> UnpackAccessRights(gdt[Index(selector)])]

-----------------------------------------------------------------------------
(* What the processor can be in when init_guest_register_state runs (SDM *)
(* 3.4.5, 5.4, 7.2.2): CS holds a code segment, the data segment          *)
(* registers a null selector or a code or data segment, LDTR a null       *)
(* selector or an LDT and TR a busy TSS; an LDT or TSS descriptor takes   *)
(* two slots of the table.                                                 *)
Type(e) == e.access % 16
IsSystem(e) == (e.access \div 16) % 2 = 0
IsCode(e) == ~IsSystem(e) /\ (Type(e) \div 8) % 2 = 1

NullEntry ==
  [limit_low |-> 0, base_low |-> 0, base_middle |-> 0, access |-> 0,
   granularity |-> 0, base_high |-> 0]

Selectors == {i * 8 + rpl : i \in Idx, rpl \in 0..3}

Loadable(g, s, x) ==
  LET i == x \div 8 IN
  CASE s = "CS" -> i # 0 /\ IsCode(g[i])
    [] s = "TR" -> i # 0 /\ i + 1 < GdtLen /\ IsSystem(g[i]) /\ Type(g[i]) = 11
    [] s = "LDTR" -> i = 0 \/ (i + 1 < GdtLen /\ IsSystem(g[i]) /\ Type(g[i]) = 2)
    [] OTHER -> i = 0 \/ ~IsSystem(g[i])

VARIABLES
  gdt,      \* the table the GDTR points at
  sel,      \* sel[s]: the selector in segment register s
  vmcs,     \* vmcs[s]: the guest selector, base, limit and access rights
  written   \* the segment fields have been written

vars == <<gdt, sel, vmcs, written>>

Init ==
  /\ gdt \in {g \in [Idx -> Slots \cup {NullEntry}] : g[0] = NullEntry}
  /\ sel \in {x \in [Segs -> Selectors] : \A s \in Segs : Loadable(gdt, s, x[s])}
  /\ vmcs = [s \in Segs |-> UnpackedDefault]
  /\ written = FALSE

(* The selector, base, limit and access-rights writes of                  *)
(* init_guest_register_state: FS and GS take their base from the MSRs,   *)
(* everything else from unpack_gdt_entry.                                  *)
WriteGuestSegments ==
  /\ ~written
  /\ vmcs' = [s \in Segs |->
               [selector |-> sel[s],
                base |-> IF s \in {"FS", "GS"} THEN MsrBase
                         ELSE UnpackGdtEntry(gdt, sel[s]).base,
                limit |-> UnpackGdtEntry(gdt, sel[s]).limit,
                access_rights |-> UnpackGdtEntry(gdt, sel[s]).access_rights]]
  /\ written' = TRUE
  /\ UNCHANGED <<gdt, sel>>

Next == WriteGuestSegments

Spec == Init /\ [][Next]_vars
-----------------------------------------------------------------------------
(* The SDM's reading of a descriptor (3.4.5, 7.2.3, 24.4.1 Table 24-2): *)
(* the index is bits 15:3 of the selector; a null selector or a           *)
(* non-present segment is unusable; the access rights are the access     *)
(* byte in bits 7:0 and the flags nibble in bits 15:12; in IA-32e mode an *)
(* LDT or TSS descriptor holds base bits 63:32 in the next slot; the     *)
(* VMCS limit is in bytes, the 20-bit limit scaled by 4 KiB when G is    *)
(* set.                                                                    *)
SdmIndex(x) == x \div 8
PBit(e) == (e.access \div 128) % 2 = 1
GBit(e) == (e.granularity \div 128) % 2 = 1
SdmUsable(g, x) == SdmIndex(x) # 0 /\ PBit(g[SdmIndex(x)])
SdmAccessRights(e) == e.access + (e.granularity \div 16) * 4096
SdmBase(g, i) ==
  <<g[i].base_low, g[i].base_middle + g[i].base_high * 256,
    IF IsSystem(g[i]) THEN g[i + 1].limit_low ELSE 0,
    IF IsSystem(g[i]) THEN g[i + 1].base_low ELSE 0>>
SdmLimit(e) ==
  LET raw == e.limit_low + (e.granularity % 16) * 65536 IN
  IF GBit(e) THEN <<(raw % 16) * 4096 + 4095, raw \div 16>>
  ELSE <<e.limit_low, e.granularity % 16>>

(* VMX access rights with the reserved bits 11:8 and 31:17 clear.         *)
ArValues == {a \in Nat : a < 131072 /\ (a \div 256) % 16 = 0}

(* The table, the selectors and the VMCS segment fields keep their types, *)
(* and the access rights unpack_gdt_entry writes never set a reserved bit *)
(* (a VM-entry check, SDM 26.3.1.2).                                       *)
TypeOK ==
  /\ gdt \in [Idx -> GdtEntries]
  /\ sel \in [Segs -> Selectors]
  /\ written \in BOOLEAN
  /\ vmcs \in [Segs -> [selector : Selectors, base : [1..4 -> U16],
                        limit : [1..2 -> U16], access_rights : ArValues]]

(* Spec P2 and P3: for every segment register, the access rights          *)
(* unpack_gdt_entry gives are the unusable bit alone for a null selector, *)
(* the unusable bit for a non-present segment, and for a usable one       *)
(* exactly the access byte and the flags nibble of its descriptor.        *)
AccessRightsMatchSdm ==
  written =>
    \A s \in Segs :
      IF SdmUsable(gdt, sel[s])
      THEN vmcs[s].access_rights = SdmAccessRights(gdt[SdmIndex(sel[s])])
      ELSE (vmcs[s].access_rights \div 65536) % 2 = 1

(* Spec 4.5 and 3 ("in the exact packing VMX expects"): the guest limit  *)
(* of every usable segment is the byte limit its descriptor defines, and *)
(* the guest base of every usable segment but FS and GS (taken from the  *)
(* MSRs) is the descriptor's base, 64 bits wide for the 16-byte LDT and   *)
(* TSS descriptors.                                                        *)
SegmentFieldsMatchSdm ==
  written =>
    \A s \in Segs :
      SdmUsable(gdt, sel[s]) =>
        /\ vmcs[s].limit = SdmLimit(gdt[SdmIndex(sel[s])])
        /\ s \notin {"FS", "GS"} => vmcs[s].base = SdmBase(gdt, SdmIndex(sel[s]))
=============================================================================
