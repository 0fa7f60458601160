------------------------------- MODULE VmExit -------------------------------
(***************************************************************************)
(* The VM-exit path of one logical processor: the guest runs until an     *)
(* exit, vmexit_handler (intel/vmexit/mod.rs) classifies and handles it,  *)
(* and the exit trampoline either resumes the guest (VMRESUME) or tears   *)
(* VMX down (VMXOFF).  The trampoline and the exit-reason and             *)
(* instruction-error enums are not under src/; they follow spec 4.6.      *)
(***************************************************************************)
EXTENDS Naturals, FiniteSets

CONSTANTS
  Reasons,          \* EXIT_REASON words the CPU may report: basic reason
                    \* (bits 15:0) and VM-entry failure (bit 31)
  BasicReasons,     \* values VmxBasicExitReason::from_u32 recognises
  InstrErrors,      \* possible contents of VM_INSTRUCTION_ERROR
  KnownInstrErrors, \* values VmInstructionError::from_u32 recognises
  InstrLens,        \* possible VMEXIT_INSTRUCTION_LEN values
  RipMod,           \* guest RIP wraps modulo RipMod (u64 in the code)
  MaxExits          \* bound on the number of VM exits explored

(* SDM Appendix C basic exit reasons the dispatcher names.                *)
CPUID == 10
RDMSR == 31
WRMSR == 32

ASSUME ExitAssumption ==
  /\ Reasons \subseteq [basic : Nat, entryFailure : BOOLEAN] /\ Reasons # {}
  /\ BasicReasons \subseteq Nat /\ {CPUID, RDMSR, WRMSR} \subseteq BasicReasons
  /\ InstrErrors \subseteq Nat /\ InstrErrors # {}
  /\ KnownInstrErrors \subseteq Nat
  /\ InstrLens \subseteq Nat \ {0} /\ InstrLens # {}
  /\ RipMod \in Nat \ {0}
  /\ \A l \in InstrLens : l < RipMod
  /\ MaxExits \in Nat

-----------------------------------------------------------------------------
(* Operators translated from the code.                                     *)

(* The match of handle_vmexit: the reasons with a handler.                *)
HandledReasons == {CPUID, RDMSR, WRMSR}

(* advance_guest_rip: rip += VMEXIT_INSTRUCTION_LEN; vmwrite(RIP).        *)
AdvanceGuestRip(rip, len) == (rip + len) % RipMod

(* handle_vmexit: the outcome for an exit reason and the value read from  *)
(* VM_INSTRUCTION_ERROR: an Err, Ok after a handler ran, or the panic of  *)
(* the match's catch-all arm.                                              *)
(* VmxBasicExitReason::from_u32 is applied to the whole 32-bit word, so a *)
(* word with bit 31 set is no variant.                                     *)
FromU32(reason) == ~reason.entryFailure /\ reason.basic \in BasicReasons

HandleVmexit(reason, instrError) ==
  CASE ~FromU32(reason)                                      -> "UnknownVMExitReason"
    [] FromU32(reason) /\ instrError \notin KnownInstrErrors -> "UnknownVMInstructionError"
    [] FromU32(reason) /\ instrError \in KnownInstrErrors
         /\ reason.basic \in HandledReasons                  -> "Ok"
    [] FromU32(reason) /\ instrError \in KnownInstrErrors
         /\ reason.basic \notin HandledReasons               -> "Panic"

(* Mutant: vmexit_handler resuming the guest whatever handle_vmexit says. *)
ExitTypeOfIgnoringErr(outcome) == "Continue"

(* Mutant: an error mapped to VmExitType::IncrementRIP, which the        *)
(* trampoline has no branch for.                                           *)
ExitTypeOfIncrementRip(outcome) ==
  IF outcome = "Ok" THEN "Continue" ELSE "IncrementRIP"

(* Mutant: vmexit_handler returning ExitHypervisor whatever the outcome.  *)
ExitTypeOfAlwaysExit(outcome) == "ExitHypervisor"

(* vmexit_handler: Continue for Ok, ExitHypervisor for any Err.           *)
ExitTypeOf(outcome) == IF outcome = "Ok" THEN "Continue" ELSE "ExitHypervisor"

-----------------------------------------------------------------------------
VARIABLES
  mode,        \* "Guest", "Handler", "Trampoline", "Host" or "Panicked"
  guestRip,    \* VMCS guest RIP
  exitRip,     \* guest RIP at the last VM exit (history)
  exitReason,  \* VMCS EXIT_REASON of the last exit
  exitLen,     \* VMCS VMEXIT_INSTRUCTION_LEN of the last exit
  instrError,  \* VMCS VM_INSTRUCTION_ERROR (written only on VMfailValid)
  result,      \* the u8 vmexit_handler returned to the trampoline
  emulated,    \* the reason whose handler ran at the last exit, or 0
  vmxOn,       \* the CPU is in VMX operation
  exits        \* number of VM exits so far

vars == <<mode, guestRip, exitRip, exitReason, exitLen, instrError, result,
          emulated, vmxOn, exits>>

(* EXIT_REASON before the first exit (basic reason 0 is an exception).   *)
NoExit == [basic |-> 0, entryFailure |-> FALSE]

Modes == {"Guest", "Handler", "Trampoline", "Host", "Panicked"}
Rips == 0..(RipMod - 1)

(* The guest runs after the first VMLAUNCH; VM_INSTRUCTION_ERROR holds    *)
(* whatever the VMCS held when it was launched.                            *)
Init ==
  /\ mode = "Guest"
  /\ guestRip \in Rips
  /\ exitRip = guestRip
  /\ exitReason = NoExit
  /\ exitLen \in InstrLens
  /\ instrError \in InstrErrors
  /\ result = "None"
  /\ emulated = 0
  /\ vmxOn = TRUE
  /\ exits = 0

(* The processor: the guest runs to some instruction and exits with some  *)
(* reason and instruction length.  Not code of the repository.            *)
GuestExit ==
  /\ mode = "Guest"
  /\ exits < MaxExits
  /\ \E rip \in Rips, r \in Reasons, l \in InstrLens :
       /\ guestRip' = rip
       /\ exitRip' = rip
       /\ exitReason' = r
       /\ exitLen' = l
  /\ exits' = exits + 1
  /\ emulated' = 0
  /\ mode' = "Handler"
  /\ UNCHANGED <<instrError, result, vmxOn>>

(* vmexit_handler with handle_vmexit, the CPUID/RDMSR/WRMSR handlers and  *)
(* advance_guest_rip.  The trampoline always passes its stack frame, so   *)
(* the null-pointer branch is not taken.  The panic halts the CPU.        *)
VmexitHandler ==
  /\ mode = "Handler"
  /\ LET outcome == HandleVmexit(exitReason, instrError)
     IN  \/ /\ outcome = "Panic"
            /\ mode' = "Panicked"
            /\ UNCHANGED <<guestRip, emulated, result>>
         \/ /\ outcome = "Ok"
            /\ emulated' = exitReason.basic
            /\ guestRip' = AdvanceGuestRip(guestRip, exitLen)
            /\ result' = ExitTypeOf(outcome)
            /\ mode' = "Trampoline"
         \/ /\ outcome \in {"UnknownVMExitReason", "UnknownVMInstructionError"}
            /\ result' = ExitTypeOf(outcome)
            /\ mode' = "Trampoline"
            /\ UNCHANGED <<guestRip, emulated>>
  /\ UNCHANGED <<exitRip, exitReason, exitLen, instrError, vmxOn, exits>>

(* The exit trampoline (spec 4.6): Continue restores the GPRs and runs    *)
(* VMRESUME; ExitHypervisor runs VMXOFF and returns to the host.          *)
TrampolineResume ==
  /\ mode = "Trampoline"
  /\ result = "Continue"
  /\ mode' = "Guest"
  /\ UNCHANGED <<guestRip, exitRip, exitReason, exitLen, instrError, result,
                 emulated, vmxOn, exits>>

TrampolineExit ==
  /\ mode = "Trampoline"
  /\ result = "ExitHypervisor"
  /\ mode' = "Host"
  /\ vmxOn' = FALSE
  /\ UNCHANGED <<guestRip, exitRip, exitReason, exitLen, instrError, result,
                 emulated, exits>>

Next == GuestExit \/ VmexitHandler \/ TrampolineResume \/ TrampolineExit

Spec == Init /\ [][Next]_vars

(* vmexit_handler and the trampoline are straight-line code run with      *)
(* interrupts off on the exiting processor: once entered they keep taking *)
(* steps.  The guest gets no fairness: it may run forever without exiting.*)
FairSpec ==
  /\ Spec
  /\ WF_vars(VmexitHandler)
  /\ WF_vars(TrampolineResume \/ TrampolineExit)

-----------------------------------------------------------------------------
(* Properties.                                                             *)

TypeOK ==
  /\ mode \in Modes
  /\ guestRip \in Rips /\ exitRip \in Rips
  /\ exitReason \in Reasons \cup {NoExit}
  /\ exitLen \in InstrLens
  /\ instrError \in InstrErrors
  /\ result \in {"None", "Continue", "ExitHypervisor"}
  /\ emulated \in HandledReasons \cup {0}
  /\ vmxOn \in BOOLEAN
  /\ exits \in 0..MaxExits

(* Spec P7 and 4.6 step 4, across dispatcher and trampoline: whenever the *)
(* guest runs again after a VM exit, its exiting instruction was emulated *)
(* and RIP points just past it, never at it (re-execution) nor further.   *)
ResumeAfterEmulatedInstruction ==
  (mode = "Guest" /\ exits > 0) =>
    /\ emulated \in HandledReasons
    /\ guestRip = AdvanceGuestRip(exitRip, exitLen)

(* Spec 4.6 steps 2-3 and 7 (propagation): the dispatcher never panics,  *)
(* and an exit whose basic reason has a handler (CPUID, RDMSR, WRMSR) is   *)
(* emulated and resumed, never ending the hypervisor; only an unhandled    *)
(* reason or an error returns ExitHypervisor.                              *)
DispatchFollowsSpec ==
  /\ mode # "Panicked"
  /\ mode = "Host" => exitReason.basic \notin HandledReasons

(* Spec 4.6 steps 5-6, across dispatcher and trampoline: a step that     *)
(* leaves VMX operation (the trampoline's VMXOFF) is taken only for an    *)
(* exit for which handle_vmexit returned an Err, and no handler ran for   *)
(* that exit: the u8 vmexit_handler hands the trampoline never turns an   *)
(* emulated CPUID, RDMSR or WRMSR into the end of the hypervisor.          *)
VmxoffOnlyOnError ==
  [][vmxOn /\ ~vmxOn' =>
       /\ HandleVmexit(exitReason, instrError)
            \in {"UnknownVMExitReason", "UnknownVMInstructionError"}
       /\ emulated = 0]_vars

(* Spec 4.6 steps 4-7: every VM exit is answered.  Whatever the exit      *)
(* reason and VM_INSTRUCTION_ERROR, the processor leaves vmexit_handler   *)
(* and the trampoline either back in the guest or out of VMX operation    *)
(* (or halted by the dispatcher's panic); the u8 vmexit_handler returns   *)
(* is one the trampoline acts on, so it never spins in the host.          *)
ExitAnswered ==
  mode = "Handler" ~> (mode = "Guest" \/ ~vmxOn \/ mode = "Panicked")
=============================================================================
