---------------------------- MODULE ExceptionExit ----------------------------
(***************************************************************************)
(* Exception VM exits on one logical processor: handle_exception and      *)
(* handle_breakpoint_exception (intel/vmexit/exception.rs) over a series  *)
(* of exits.  The hook manager (ept::hooks), event injection (events) and *)
(* the exit stub are not under src/; they follow spec 4.6: the stub saves *)
(* the GPRs into GuestRegisters, while RIP is authoritative in the VMCS.  *)
(* Only run() copies the VMCS RIP into GuestRegisters.rip (vmx.rs:112);   *)
(* what the stub leaves there at a later exit is not in the repository,   *)
(* so the model lets it be any address.                                    *)
(***************************************************************************)
EXTENDS Naturals, FiniteSets

CONSTANTS
  Addrs,         \* guest RIP values at which an exception may exit
  Hooks,         \* find_hook_by_address: Addrs -> a hook or NoHook
  Vectors,       \* vectors VMEXIT_INTERRUPTION_INFO may carry
  KnownVectors,  \* vectors ExceptionInterrupt::from_u32 recognises
  MaxExits       \* bound on the number of exits explored

(* SDM 6.15 vectors handled by name.                                       *)
BP == 3
GP == 13
PF == 14

(* EventInjection (spec 4.6.2): interruption types of VMENTRY_INTR_INFO.  *)
HardwareException == 3
SoftwareException == 6

NoHook == [kind |-> "None", handler |-> 0]
HookValues == {NoHook} \cup [kind : {"Function", "Page"}, handler : Nat]

ASSUME HookAssumption ==
  /\ Addrs \subseteq Nat /\ Addrs # {}
  /\ Hooks \in [Addrs -> HookValues]
  /\ \A a \in Addrs : Hooks[a].kind = "Function" => Hooks[a].handler \in Addrs
  /\ Vectors \subseteq 0..31 /\ Vectors # {}
  /\ KnownVectors \subseteq 0..31 /\ {BP, GP, PF} \subseteq KnownVectors
  /\ MaxExits \in Nat

NoEvent == [valid |-> FALSE, vector |-> 0, type |-> 0]
Event(v, t) == [valid |-> TRUE, vector |-> v, type |-> t]

-----------------------------------------------------------------------------
(* Operators translated from the code.                                     *)

(* find_hook_by_address(..).map(..): the handler of a Function hook, or   *)
(* nothing for a miss or a hook of another kind.                          *)
IsFunctionHook(h) == h.kind = "Function"

(* Mutant: the #PF arm re-injecting #GP (swapped EventInjection calls).   *)
InjectionForSwapped(v) == Event(IF v = PF THEN GP ELSE v, HardwareException)

(* handle_exception: vmentry_inject_pf / vmentry_inject_gp with the      *)
(* captured error code, as hardware exceptions.                            *)
InjectionFor(v) == Event(v, HardwareException)

-----------------------------------------------------------------------------
VARIABLES
  mode,       \* "Guest", "Handler" or "Panicked"
  guestRip,   \* VMCS guest RIP
  exitRip,    \* guest RIP at the last exit (history)
  shadowRip,  \* GuestRegisters.rip
  infoOk,     \* VmExitInterruptionInformation::from_u32 succeeded
  vector,     \* the vector of the last exit
  injected,   \* VMENTRY_INTR_INFO written for the next VM entry
  exitQual,   \* VMCS EXIT_QUALIFICATION of the last exit
  cr2,        \* CR2 (not part of the VMCS: guest and host share it)
  exits

vars == <<mode, guestRip, exitRip, shadowRip, infoOk, vector, injected, exitQual,
          cr2, exits>>

(* The guest runs after the first exit, with GuestRegisters.rip equal to  *)
(* the VMCS guest RIP as run() copied it (vmx.rs:111).                     *)
Init ==
  /\ mode = "Guest"
  /\ guestRip \in Addrs
  /\ exitRip = guestRip
  /\ shadowRip = guestRip
  /\ infoOk = TRUE
  /\ vector = BP
  /\ injected = NoEvent
  /\ exitQual = 0
  /\ cr2 \in Addrs
  /\ exits = 0

(* The processor: the guest runs to some address and takes an exception   *)
(* that the exception bitmap routes to a VM exit.  VM entry consumed the  *)
(* injected event.  GuestRegisters.rip holds whatever the stub left.  SDM *)
(* 27.1 and 27.2.1: a #PF that exits leaves CR2 alone and puts the         *)
(* faulting linear address in the exit qualification instead.             *)
GuestException ==
  /\ mode = "Guest"
  /\ exits < MaxExits
  /\ \E rip \in Addrs, v \in Vectors, ok \in BOOLEAN, la \in Addrs, sr \in Addrs :
       /\ guestRip' = rip
       /\ shadowRip' = sr
       /\ exitRip' = rip
       /\ vector' = v
       /\ infoOk' = ok
       /\ exitQual' = IF v = PF THEN la ELSE 0
  /\ injected' = NoEvent
  /\ exits' = exits + 1
  /\ mode' = "Handler"
  /\ UNCHANGED cr2

(* handle_breakpoint_exception: look the hook up by GuestRegisters.rip;   *)
(* a Function hook moves both RIPs to its handler, anything else          *)
(* re-injects #BP as a software exception.                                 *)
HandleBreakpointException ==
  LET hook == Hooks[shadowRip]
  IN  \/ /\ IsFunctionHook(hook)
         /\ shadowRip' = hook.handler
         /\ guestRip' = hook.handler
         /\ UNCHANGED injected
      \/ /\ ~IsFunctionHook(hook)
         /\ injected' = Event(BP, SoftwareException)
         /\ UNCHANGED <<shadowRip, guestRip>>

(* handle_exception, ending in ExitType::Continue: the stub resumes the   *)
(* guest without advancing RIP.  Every panic halts the CPU.  The #PF arm  *)
(* reads EXIT_QUALIFICATION only to log it and writes no CR2.             *)
HandleException ==
  /\ mode = "Handler"
  /\ \/ /\ ~infoOk \/ vector \notin KnownVectors
        /\ mode' = "Panicked"
        /\ UNCHANGED <<guestRip, shadowRip, injected>>
     \/ /\ infoOk /\ vector \in KnownVectors \ {BP, GP, PF}
        /\ mode' = "Panicked"
        /\ UNCHANGED <<guestRip, shadowRip, injected>>
     \/ /\ infoOk /\ vector \in {GP, PF}
        /\ injected' = InjectionFor(vector)
        /\ mode' = "Guest"
        /\ UNCHANGED <<guestRip, shadowRip>>
     \/ /\ infoOk /\ vector = BP
        /\ HandleBreakpointException
        /\ mode' = "Guest"
  /\ UNCHANGED <<exitRip, infoOk, vector, exitQual, cr2, exits>>

Next == GuestException \/ HandleException

Spec == Init /\ [][Next]_vars

-----------------------------------------------------------------------------
(* Properties.                                                             *)

TypeOK ==
  /\ mode \in {"Guest", "Handler", "Panicked"}
  /\ guestRip \in Addrs /\ exitRip \in Addrs /\ shadowRip \in Addrs
  /\ infoOk \in BOOLEAN
  /\ vector \in Vectors \cup {BP}
  /\ injected \in {NoEvent} \cup [valid : {TRUE}, vector : {BP, GP, PF},
                                  type : {HardwareException, SoftwareException}]
  /\ exitQual \in Addrs \cup {0}
  /\ cr2 \in Addrs
  /\ exits \in 0..MaxExits

(* Spec 4.6 step 4 and 4.6.1: an exception exit resumes the guest either  *)
(* at the faulting instruction with that same exception re-injected (#BP  *)
(* as a software exception, #PF/#GP as hardware ones), or at the handler  *)
(* of a Function hook with nothing injected; RIP is never advanced.       *)
ResumeAtFaultOrHook ==
  mode = "Guest" /\ exits > 0 =>
    \/ /\ injected = Event(vector, IF vector = BP THEN SoftwareException
                                                  ELSE HardwareException)
       /\ guestRip = exitRip
    \/ /\ injected = NoEvent
       /\ vector = BP
       /\ \E a \in Addrs : IsFunctionHook(Hooks[a]) /\ guestRip = Hooks[a].handler

(* Spec 4.6.1 ("re-inject the #PF ... so the guest OS sees its ordinary   *)
(* page fault") and SDM 6.15: a guest resumed with a #PF injected finds   *)
(* in CR2 the linear address that faulted at this exit.                    *)
PageFaultCr2Current ==
  (mode = "Guest" /\ exits > 0 /\ vector = PF /\ injected.valid) =>
    cr2 = exitQual
=============================================================================
