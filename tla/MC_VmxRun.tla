------------------------------ MODULE MC_VmxRun ------------------------------
(***************************************************************************)
(* Small instances of VmxRun for TLC.  Bit positions are the real ones:    *)
(* CR0.PE 0, NE 5, WP 16, NW 29, CD 30, PG 31; CR4.PAE 5, PGE 7, VMXE 13,  *)
(* OSXSAVE 18, CET 23.  Control bits: the requested ones (3, 9, 12, 20, 31)*)
(* and default-1 bits (1, 2, 4) that only the non-TRUE MSRs force to 1.    *)
(***************************************************************************)
EXTENDS VmxRun

MCCrBits == {0, 5, 7, 13, 16, 18, 23, 29, 30, 31}
MCCr0Fixed0 == {0, 5, 31}
MCCr4Fixed0 == {13}
MCInitCr0s == {{0, 5, 16, 31}}
MCInitCr4s == {{5, 7, 18}, {5, 7, 18, 23}}

(* Every IA32_FEATURE_CONTROL the BIOS can leave: lock, inside-SMX and    *)
(* outside-SMX bits in every combination.                                  *)
MCFeatureControls == SUBSET {0, 1, 2}

MCCtlBits == {1, 2, 3, 4, 9, 12, 20, 31}

(* A CPU whose TRUE MSRs clear default-1 bits and that lacks XSAVES.      *)
MCCaps ==
  [m \in CapMsrs |->
     CASE m = "PINBASED"       -> [allowed0 |-> {1, 2, 4}, allowed1 |-> {1, 2, 3, 4}]
       [] m = "TRUE_PINBASED"  -> [allowed0 |-> {},        allowed1 |-> {1, 2, 3, 4}]
       [] m = "PROCBASED"      -> [allowed0 |-> {1, 4},    allowed1 |-> {1, 4, 31}]
       [] m = "TRUE_PROCBASED" -> [allowed0 |-> {4},       allowed1 |-> {1, 4, 31}]
       [] m = "PROCBASED2"     -> [allowed0 |-> {},        allowed1 |-> {3, 12}]
       [] m = "EXIT"           -> [allowed0 |-> {2},       allowed1 |-> {2, 9}]
       [] m = "TRUE_EXIT"      -> [allowed0 |-> {},        allowed1 |-> {2, 9}]
       [] m = "ENTRY"          -> [allowed0 |-> {2},       allowed1 |-> {2, 9}]
       [] m = "TRUE_ENTRY"     -> [allowed0 |-> {},        allowed1 |-> {2, 9}]]

(* GDTs of 11, 16 and 31 entries: 31 is the largest whose TSS index      *)
(* survives the 0xF8 mask.                                                 *)
MCGdtLimits == {87, 127, 247}

(* The same and a GDT of 32 entries (limit 255) and the maximal limit.   *)
MCGdtLimitsEdge == {87, 255, 65535}

MCHostCsSelectors == {16}

(* CR4 bits an x86 crate without a flag for CET (bit 23) knows.          *)
MCKnownCr4NoCet == MCCrBits \ {23}
=============================================================================
