------------------------------ MODULE MC_VmExit ------------------------------
(***************************************************************************)
(* Small instances of VmExit for TLC.                                      *)
(***************************************************************************)
EXTENDS VmExit

(* SDM Appendix C: basic exit reasons 0..69 (VmxBasicExitReason).         *)
MCBasicReasons == 0..69

(* CPUID, RDMSR, WRMSR; XSETBV (55), which SDM 26.1.2 makes exit          *)
(* unconditionally; and 0x80000021, a VM-entry failure on guest state      *)
(* with bit 31 set.                                                         *)
MCReasons ==
  {[basic |-> b, entryFailure |-> FALSE] : b \in {CPUID, RDMSR, WRMSR, 55}}
    \cup {[basic |-> 33, entryFailure |-> TRUE]}

(* SDM Table 31-1: the VM-instruction error numbers (VmInstructionError). *)
MCKnownInstrErrors ==
  {1, 2, 3, 4, 5, 6, 7, 8, 9, 10, 11, 12, 13, 15, 16, 18, 19, 20, 22, 23,
   24, 25, 26, 28}

(* The field as left by VMCLEAR of a zeroed region, or by a failed VMX     *)
(* instruction before the launch (12: VMWRITE to a read-only field).       *)
MCInstrErrors == {0, 12}
=============================================================================
