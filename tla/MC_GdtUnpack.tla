----------------------------- MODULE MC_GdtUnpack -----------------------------
(***************************************************************************)
(* A four-slot GDT filled from descriptors of the kinds a 64-bit Windows *)
(* GDT holds, and four of the eight segment registers: each register's   *)
(* fields depend only on its own selector, so the other four add no case.*)
(***************************************************************************)
EXTENDS GdtUnpack

Entry(ll, bl, bm, acc, gr, bh) ==
  [limit_low |-> ll, base_low |-> bl, base_middle |-> bm, access |-> acc,
   granularity |-> gr, base_high |-> bh]

KCode64 == Entry(0, 0, 0, 155, 32, 0)              \* 0x9B, L=1
FlatData == Entry(65535, 0, 0, 147, 207, 0)        \* 0x93, G=1 D=1, limit 0xFFFFF
Teb32 == Entry(15360, 20480, 52, 243, 64, 18)      \* 0xF3, base 0x12345000, limit 0x3C00
AbsentData == Entry(65535, 0, 0, 19, 207, 0)       \* 0x13: present bit clear
Tss64 == Entry(103, 20480, 52, 139, 0, 18)         \* busy TSS, base 0x12345000
TssUpper == Entry(63491, 65535, 0, 0, 0, 0)        \* base bits 63:32 = 0xFFFFF803

MCSlots == {KCode64, FlatData, Teb32, AbsentData, Tss64, TssUpper}

MCSegs == {"CS", "SS", "FS", "TR"}

MCMsrBase == <<0, 4096, 63491, 65535>>
=============================================================================
