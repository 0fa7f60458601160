---------------------------- MODULE VmExit_proofs ----------------------------
(***************************************************************************)
(* Proofs about the VM-exit path of VmExit, for every value of the        *)
(* constants that satisfies ExitAssumption.                                *)
(***************************************************************************)
EXTENDS VmExit, TLAPS

USE ExitAssumption

(* handle_vmexit returns one of four outcomes, and Ok only for a reason   *)
(* the match has a handler for.                                            *)
LEMMA HandleVmexitOutcome ==
  ASSUME NEW r, NEW e
  PROVE  /\ HandleVmexit(r, e) \in {"UnknownVMExitReason", "UnknownVMInstructionError", "Ok", "Panic"}
         /\ HandleVmexit(r, e) = "Ok" => r.basic \in HandledReasons
BY DEF HandleVmexit, FromU32

(* vmexit_handler resumes exactly after Ok.                                *)
LEMMA ExitTypeOfValues ==
  ASSUME NEW o
  PROVE  /\ ExitTypeOf(o) \in {"Continue", "ExitHypervisor"}
         /\ ExitTypeOf(o) = "Continue" <=> o = "Ok"
BY DEF ExitTypeOf

(* advance_guest_rip keeps the guest RIP in range.                         *)
LEMMA AdvanceInRips ==
  ASSUME NEW rip \in Rips, NEW len \in InstrLens
  PROVE  AdvanceGuestRip(rip, len) \in Rips
BY DEF AdvanceGuestRip, Rips

LEMMA TypeInit == Init => TypeOK
BY DEF Init, TypeOK, Modes, Rips

LEMMA TypeStep == TypeOK /\ [Next]_vars => TypeOK'
<1> SUFFICES ASSUME TypeOK, [Next]_vars PROVE TypeOK'
  OBVIOUS
<1>1. CASE GuestExit
  BY <1>1 DEF GuestExit, TypeOK, Modes
<1>2. CASE VmexitHandler
  <2> DEFINE o == HandleVmexit(exitReason, instrError)
  <2>1. o \in {"UnknownVMExitReason", "UnknownVMInstructionError", "Ok", "Panic"}
        /\ (o = "Ok" => exitReason.basic \in HandledReasons)
    BY HandleVmexitOutcome
  <2>2. ExitTypeOf(o) \in {"Continue", "ExitHypervisor"}
    BY ExitTypeOfValues
  <2>3. AdvanceGuestRip(guestRip, exitLen) \in Rips
    BY AdvanceInRips DEF TypeOK
  <2>4. QED
    BY <1>2, <2>1, <2>2, <2>3 DEF VmexitHandler, TypeOK, Modes
<1>3. CASE TrampolineResume
  BY <1>3 DEF TrampolineResume, TypeOK, Modes
<1>4. CASE TrampolineExit
  BY <1>4 DEF TrampolineExit, TypeOK, Modes
<1>5. CASE UNCHANGED vars
  BY <1>5 DEF vars, TypeOK
<1>6. QED
  BY <1>1, <1>2, <1>3, <1>4, <1>5 DEF Next

(* The VM-exit variables of run()'s guest stay within their types.        *)
THEOREM TypeCorrect == Spec => []TypeOK
BY TypeInit, TypeStep, PTL DEF Spec

-----------------------------------------------------------------------------
(* The inductive strengthening of ResumeAfterEmulatedInstruction: inside *)
(* the dispatcher the VMCS RIP is still the exiting one and nothing was   *)
(* emulated yet; when the trampoline is told Continue, the exiting        *)
(* instruction was emulated and RIP already points past it.               *)
IInv ==
  /\ TypeOK
  /\ mode = "Handler" => guestRip = exitRip
  /\ (mode = "Trampoline" /\ result = "Continue") =>
        /\ emulated \in HandledReasons
        /\ guestRip = AdvanceGuestRip(exitRip, exitLen)
  /\ ResumeAfterEmulatedInstruction

LEMMA IInvInit == Init => IInv
BY TypeInit DEF Init, IInv, ResumeAfterEmulatedInstruction

LEMMA IInvStep == IInv /\ [Next]_vars => IInv'
<1> SUFFICES ASSUME IInv, [Next]_vars PROVE IInv'
  OBVIOUS
<1>1. TypeOK'
  BY TypeStep DEF IInv
<1>2. CASE GuestExit
  BY <1>1, <1>2 DEF GuestExit, IInv, ResumeAfterEmulatedInstruction
<1>3. CASE VmexitHandler
  <2> DEFINE o == HandleVmexit(exitReason, instrError)
  <2>1. o = "Ok" => exitReason.basic \in HandledReasons
    BY HandleVmexitOutcome
  <2>2. ExitTypeOf(o) = "Continue" <=> o = "Ok"
    BY ExitTypeOfValues
  <2>3. guestRip = exitRip
    BY <1>3 DEF VmexitHandler, IInv
  <2>4. QED
    BY <1>1, <1>3, <2>1, <2>2, <2>3
    DEF VmexitHandler, IInv, ResumeAfterEmulatedInstruction
<1>4. CASE TrampolineResume
  BY <1>1, <1>4 DEF TrampolineResume, IInv, ResumeAfterEmulatedInstruction
<1>5. CASE TrampolineExit
  BY <1>1, <1>5 DEF TrampolineExit, IInv, ResumeAfterEmulatedInstruction
<1>6. CASE UNCHANGED vars
  BY <1>1, <1>6 DEF vars, IInv, ResumeAfterEmulatedInstruction
<1>7. QED
  BY <1>2, <1>3, <1>4, <1>5, <1>6 DEF Next

(* Spec P7 for every instance: whenever vmexit_handler lets the guest     *)
(* resume after an exit, the exiting instruction was emulated and the     *)
(* VMCS RIP was advanced past it exactly once.                             *)
THEOREM ResumeCorrect == Spec => []ResumeAfterEmulatedInstruction
<1>1. Spec => []IInv
  BY IInvInit, IInvStep, PTL DEF Spec
<1>2. IInv => ResumeAfterEmulatedInstruction
  BY DEF IInv
<1>3. QED
  BY <1>1, <1>2, PTL
-----------------------------------------------------------------------------
(* The invariant behind VmxoffOnlyOnError: inside the dispatcher nothing  *)
(* was emulated for this exit yet; in the trampoline the u8 result is the *)
(* ExitTypeOf of handle_vmexit's outcome for the exit still in the VMCS,  *)
(* that outcome was not the panic, and an Err left nothing emulated.      *)
ErrOutcomes == {"UnknownVMExitReason", "UnknownVMInstructionError"}

IInvOff ==
  /\ TypeOK
  /\ mode = "Handler" => emulated = 0
  /\ mode = "Trampoline" =>
       LET o == HandleVmexit(exitReason, instrError)
       IN  /\ o # "Panic"
           /\ result = ExitTypeOf(o)
           /\ o # "Ok" => emulated = 0

LEMMA OffInit == Init => IInvOff
BY TypeInit DEF Init, IInvOff

LEMMA OffStep == IInvOff /\ [Next]_vars => IInvOff'
<1> SUFFICES ASSUME IInvOff, [Next]_vars PROVE IInvOff'
  OBVIOUS
<1>1. TypeOK'
  BY TypeStep DEF IInvOff
<1>2. CASE GuestExit
  BY <1>1, <1>2 DEF GuestExit, IInvOff
<1>3. CASE VmexitHandler
  BY <1>1, <1>3 DEF VmexitHandler, IInvOff
<1>4. CASE TrampolineResume
  BY <1>1, <1>4 DEF TrampolineResume, IInvOff
<1>5. CASE TrampolineExit
  BY <1>1, <1>5 DEF TrampolineExit, IInvOff
<1>6. CASE UNCHANGED vars
  BY <1>1, <1>6 DEF vars, IInvOff
<1>7. QED
  BY <1>2, <1>3, <1>4, <1>5, <1>6 DEF Next

(* Spec 4.6 steps 5-6 for every instance: the trampoline runs VMXOFF only *)
(* for an exit handle_vmexit answered with an Err, with no handler run.   *)
THEOREM VmxoffCorrect == Spec => VmxoffOnlyOnError
<1>1. IInvOff /\ [Next]_vars =>
        [vmxOn /\ ~vmxOn' =>
           /\ HandleVmexit(exitReason, instrError) \in ErrOutcomes
           /\ emulated = 0]_vars
  <2> SUFFICES ASSUME IInvOff, [Next]_vars, vmxOn, ~vmxOn'
               PROVE  /\ HandleVmexit(exitReason, instrError) \in ErrOutcomes
                      /\ emulated = 0
    OBVIOUS
  <2>1. TrampolineExit
    BY DEF Next, vars, GuestExit, VmexitHandler, TrampolineResume
  <2> DEFINE o == HandleVmexit(exitReason, instrError)
  <2>2. o \in {"UnknownVMExitReason", "UnknownVMInstructionError", "Ok", "Panic"}
    BY HandleVmexitOutcome
  <2>3. ExitTypeOf(o) = "ExitHypervisor" /\ o # "Panic"
    BY <2>1 DEF TrampolineExit, IInvOff
  <2>4. o # "Ok"
    BY <2>3, ExitTypeOfValues
  <2>5. QED
    BY <2>1, <2>2, <2>3, <2>4 DEF TrampolineExit, IInvOff, ErrOutcomes
<1>2. QED
  BY <1>1, OffInit, OffStep, PTL DEF Spec, VmxoffOnlyOnError, ErrOutcomes
=============================================================================
