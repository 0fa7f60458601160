------------------------------- MODULE VmxRun -------------------------------
(***************************************************************************)
(* The per-CPU VMX lifecycle of src/hypervisor/src/intel/vmx.rs: Vmx::run  *)
(* and the helpers it calls, from CR4.VMXE to the first VM-exit.           *)
(*                                                                         *)
(* One action per helper that run() calls, in the order run() calls them.  *)
(* The processor is part of the model: IA32_FEATURE_CONTROL, CR0, CR4, VMX *)
(* operation and the VMCS (current?  launch state?) are variables, and the *)
(* VMX instructions fail, fault or succeed as the Intel SDM says.  A       *)
(* register or a control word is the set of its bit positions, so OR is    *)
(* \cup and AND is \cap.                                                   *)
(***************************************************************************)
EXTENDS Naturals, FiniteSets

CONSTANTS
  CrBits,          \* bit positions of CR0/CR4 the model distinguishes
  KnownCr0,        \* bits of CR0 the x86 crate's Cr0 flags know
  KnownCr4,        \* bits of CR4 the x86 crate's Cr4 flags know
  Cr0Fixed0,       \* IA32_VMX_CR0_FIXED0: CR0 bits that must be 1
  Cr0Fixed1,       \* IA32_VMX_CR0_FIXED1: CR0 bits that may be 1
  Cr4Fixed0,       \* IA32_VMX_CR4_FIXED0
  Cr4Fixed1,       \* IA32_VMX_CR4_FIXED1
  InitCr0s,        \* CR0 values the host OS may run with
  InitCr4s,        \* CR4 values the host OS may run with
  FeatureControls, \* IA32_FEATURE_CONTROL values the BIOS may leave
  CtlBits,         \* bit positions of a 32-bit VMX control word
  Caps,            \* capability MSRs: name -> [allowed0, allowed1]
  GdtLimits,       \* GDTR.limit values of the host GDT
  HostCsSelectors, \* CS selector the host runs with
  PaMayFail        \* whether MmGetPhysicalAddress may return 0

(* Bit positions the code names. *)
CR4_VMXE          == 13      \* controlregs::Cr4::CR4_ENABLE_VMX
VMX_LOCK_BIT      == 0       \* vmx.rs:435
VMXON_OUTSIDE_SMX == 2       \* vmx.rs:436

Classes == {"PinBased", "ProcessorBased", "ProcessorBased2", "VmExit", "VmEntry"}
CapMsrs == {"PINBASED", "TRUE_PINBASED", "PROCBASED", "TRUE_PROCBASED",
            "PROCBASED2", "EXIT", "TRUE_EXIT", "ENTRY", "TRUE_ENTRY"}

(* The unsigned integer widths of the code: u16 selectors and limits, and  *)
(* the byte that SELECTOR_MASK leaves.                                      *)
U16 == {n \in Nat : n < 65536}
Byte == {n \in Nat : n < 256}

ASSUME CrAssumption ==
  /\ KnownCr0 \subseteq CrBits /\ KnownCr4 \subseteq CrBits
  /\ Cr0Fixed0 \subseteq Cr0Fixed1 /\ Cr4Fixed0 \subseteq Cr4Fixed1
  /\ InitCr0s \subseteq SUBSET CrBits /\ InitCr4s \subseteq SUBSET CrBits
  /\ CR4_VMXE \in CrBits
  /\ InitCr0s # {} /\ InitCr4s # {}

(* SDM A.3: a bit allowed to be 0 is allowed to be 1; words are 32 bits.  *)
ASSUME CapsAssumption ==
  /\ CtlBits \subseteq 0..31
  /\ Caps \in [CapMsrs -> [allowed0 : SUBSET CtlBits, allowed1 : SUBSET CtlBits]]
  /\ \A m \in CapMsrs : Caps[m].allowed0 \subseteq Caps[m].allowed1

(* SDM A.7, A.8: the fixed-0 MSRs force CR0.PE, NE, PG and CR4.VMXE, all  *)
(* of which the x86 crate's Cr0 and Cr4 flags name.                         *)
ASSUME FixedAssumption ==
  /\ Cr0Fixed0 \subseteq KnownCr0 /\ Cr4Fixed0 \subseteq KnownCr4
  /\ CR4_VMXE \in Cr4Fixed0

ASSUME InputAssumption ==
  /\ FeatureControls \subseteq SUBSET {0, 1, 2} /\ FeatureControls # {}
  /\ GdtLimits \subseteq U16 /\ GdtLimits # {}
  /\ HostCsSelectors \subseteq U16 /\ HostCsSelectors # {}
  /\ PaMayFail \in BOOLEAN

-----------------------------------------------------------------------------
(* Operators translated from the code.                                     *)

(* x86 crate: Cr0/Cr4::from_bits_truncate drops bits the crate does not    *)
(* define; cr0()/cr4() read through it and cr0_write/cr4_write write the   *)
(* truncated value back.                                                   *)
Truncate(cr, known) == cr \cap known

(* set_cr0_bits / set_cr4_bits: cr |= fixed0; cr &= fixed1, both operands *)
(* taken through from_bits_truncate.                                       *)
FixupCr(cr, fixed0, fixed1, known) ==
  (Truncate(cr, known) \cup Truncate(fixed0, known)) \cap Truncate(fixed1, known)

(* adjust_vmx_controls: the match on (control, true_cap_msr_supported),  *)
(* one table per value of the flag; PROCBASED2 has no TRUE variant.        *)
BaseCapMsr ==
  [PinBased |-> "PINBASED", ProcessorBased |-> "PROCBASED",
   ProcessorBased2 |-> "PROCBASED2", VmExit |-> "EXIT", VmEntry |-> "ENTRY"]
TrueCapMsr ==
  [PinBased |-> "TRUE_PINBASED", ProcessorBased |-> "TRUE_PROCBASED",
   ProcessorBased2 |-> "PROCBASED2", VmExit |-> "TRUE_EXIT",
   VmEntry |-> "TRUE_ENTRY"]

(* Mutant: the non-TRUE capability MSR whatever IA32_VMX_BASIC[55] says.  *)
CapMsrNoTrue(control, trueCtls) == BaseCapMsr[control]

(* adjust_vmx_controls: the capability MSR the code reads.                 *)
CapMsr(control, trueCtls) ==
  IF trueCtls THEN TrueCapMsr[control] ELSE BaseCapMsr[control]

(* Mutants: adjust_vmx_controls without "&= allowed1", and without        *)
(* "|= allowed0".                                                          *)
AdjustVmxControlsNoAllowed1(control, requested, trueCtls) ==
  requested \cup Caps[CapMsr(control, trueCtls)].allowed0
AdjustVmxControlsNoAllowed0(control, requested, trueCtls) ==
  requested \cap Caps[CapMsr(control, trueCtls)].allowed1

(* adjust_vmx_controls: (requested | allowed0) & allowed1.                 *)
AdjustVmxControls(control, requested, trueCtls) ==
  LET cap == Caps[CapMsr(control, trueCtls)]
  IN  (requested \cup cap.allowed0) \cap cap.allowed1

(* init_vmcs_control_values: the requested values, as bit positions.      *)
(* SECONDARY_CONTROLS = bit 31; ENABLE_RDTSCP = 3, ENABLE_INVPCID = 12,   *)
(* ENABLE_XSAVES_XRSTORS = 20; IA32E_MODE_GUEST and HOST_ADDRESS_SPACE_   *)
(* SIZE = bit 9.                                                           *)
Requested(control) ==
  CASE control = "PinBased"        -> {}
    [] control = "ProcessorBased"  -> {31}
    [] control = "ProcessorBased2" -> {3, 12, 20}
    [] control = "VmEntry"         -> {9}
    [] control = "VmExit"          -> {9}

(* HostGdt::initialize_from_current: number of entries cloned from the     *)
(* current GDT, (limit + 1) / 8 in u16 arithmetic.  limit = 0xFFFF makes   *)
(* limit + 1 overflow; RawGdtBytes is that sum as the release build wraps  *)
(* it (the debug build panics instead, see InitHostRegisterState).          *)
RawGdtBytes(limit) == (limit + 1) % 65536
ClonedEntries(limit) == RawGdtBytes(limit) \div 8

(* initialize_from_current: tr_index = gdt.len() - 1 once the TSS         *)
(* descriptor has been pushed after the cloned entries.                    *)
HostTrIndex(limit) == (ClonedEntries(limit) + 1) - 1

(* SegmentSelector::new(index, Ring0): index << 3 in a u16.               *)
SegmentSelector(index) == (index * 8) % 65536

(* init_host_register_state: bits() & SELECTOR_MASK (0xF8).               *)
HostSelectorField(sel) == (sel % 256) - (sel % 8)

-----------------------------------------------------------------------------
(* The processor, after the Intel SDM.  These definitions model hardware,  *)
(* not code of the repository.                                             *)

(* SDM 24.8: the CR0/CR4 values VMXON and VM entry accept.                 *)
CrFixedOk(cr, fixed0, fixed1) == fixed0 \subseteq cr /\ cr \subseteq fixed1

(* SDM 26.2.1.1 / A.3: VM entry checks a control word against the TRUE     *)
(* capability MSR when IA32_VMX_BASIC[55] is 1.                            *)
EntryCapMsr(control, trueCtls) ==
  CASE control = "ProcessorBased2"            -> "PROCBASED2"
    [] control = "PinBased"       /\ trueCtls  -> "TRUE_PINBASED"
    [] control = "PinBased"       /\ ~trueCtls -> "PINBASED"
    [] control = "ProcessorBased" /\ trueCtls  -> "TRUE_PROCBASED"
    [] control = "ProcessorBased" /\ ~trueCtls -> "PROCBASED"
    [] control = "VmExit"         /\ trueCtls  -> "TRUE_EXIT"
    [] control = "VmExit"         /\ ~trueCtls -> "EXIT"
    [] control = "VmEntry"        /\ trueCtls  -> "TRUE_ENTRY"
    [] control = "VmEntry"        /\ ~trueCtls -> "ENTRY"

ControlOk(control, value, trueCtls) ==
  LET cap == Caps[EntryCapMsr(control, trueCtls)]
  IN  cap.allowed0 \subseteq value /\ value \subseteq cap.allowed1

-----------------------------------------------------------------------------
VARIABLES
  pc,             \* the helper of run() to execute next, or "Done"
  status,         \* "Running", the Result run() returned, or "Panic"
  cr0, cr4,       \* the control registers
  hostCr4,        \* CR4 as the host had it before run() (history)
  featureControl, \* IA32_FEATURE_CONTROL bits
  trueCtls,       \* IA32_VMX_BASIC[55] (read-only MSR)
  gdtLimit,       \* GDTR.limit of the host's GDT (read-only here)
  hostCs,         \* the host's CS selector (read-only here)
  vmxOn,          \* the CPU is in VMX operation
  vmcs,           \* [current, launch] of the VMCS region
  written,        \* VMCS field groups written: "Guest", "Host", "Controls"
  ctls,           \* the five VM-execution/exit/entry control fields
  hostSel,        \* host CS and TR selector fields
  launched        \* Vmx::launched

vars == <<pc, status, cr0, cr4, hostCr4, featureControl, trueCtls, gdtLimit,
          hostCs, vmxOn, vmcs, written, ctls, hostSel, launched>>

Pcs == {"EnableVmx", "SetLockBit", "AdjustCr", "InitVmxon", "InitVmcs",
        "InitGuest", "InitHost", "InitControls", "Launch", "Guest", "Done"}
Statuses == {"Running", "Ok", "VmxBiosLock", "VirtualToPhysicalAddressFailed",
             "Panic"}
Groups == {"Guest", "Host", "Controls"}

(* What MmGetPhysicalAddress returns for a region: 0 or its address.      *)
PaResults == IF PaMayFail THEN {0, 1} ELSE {1}

(* Vmx::new: regions zeroed, launched = false, host GDT empty; the host   *)
(* OS runs outside VMX operation.                                          *)
Init ==
  /\ pc = "EnableVmx"
  /\ status = "Running"
  /\ cr0 \in InitCr0s
  /\ cr4 \in {c \in InitCr4s : CR4_VMXE \notin c}
  /\ hostCr4 = cr4
  /\ featureControl \in FeatureControls
  /\ trueCtls \in BOOLEAN
  /\ gdtLimit \in GdtLimits
  /\ hostCs \in HostCsSelectors
  /\ vmxOn = FALSE
  /\ vmcs = [current |-> FALSE, launch |-> "Undefined"]
  /\ written = {}
  /\ ctls = [c \in Classes |-> {}]
  /\ hostSel = [cs |-> 0, tr |-> 0]
  /\ launched = FALSE

(* run() returns the error s (the ? operator) or panics.                  *)
Fail(s) == /\ status' = s
           /\ pc' = "Done"

(* SDM: VMCLEAR makes the VMCS not current and its launch state clear;    *)
(* VMPTRLD makes it current.                                               *)
Vmclear(v) == [v EXCEPT !.current = FALSE, !.launch = "Clear"]
Vmptrld(v) == [v EXCEPT !.current = TRUE]

(* SDM 26.2/26.3: the VM-entry checks this model distinguishes: every     *)
(* field group written, controls within their capability MSRs (the        *)
(* secondary word only when activated), IA-32e guest and 64-bit host       *)
(* requested, host CS and TR selectors non-zero, CR0/CR4 within the fixed  *)
(* bits.                                                                   *)
EntryChecksOk ==
  /\ written = Groups
  /\ \A c \in Classes :
        (c = "ProcessorBased2" => 31 \in ctls["ProcessorBased"])
          => ControlOk(c, ctls[c], trueCtls)
  /\ 9 \in ctls["VmEntry"] /\ 9 \in ctls["VmExit"]
  /\ hostSel.cs # 0 /\ hostSel.tr # 0
  /\ CrFixedOk(cr0, Cr0Fixed0, Cr0Fixed1) /\ CrFixedOk(cr4, Cr4Fixed0, Cr4Fixed1)

-----------------------------------------------------------------------------
(* The actions: one per helper of run(), in run()'s order.  VMXON, VMCLEAR,*)
(* VMPTRLD and VMWRITE are unwrap()ed by the code; the actions take their  *)
(* success outcome and VmxPreconditions checks that the SDM's conditions  *)
(* for that outcome hold whenever control reaches them.                    *)

(* enable_vmx_operation, first part: cr4.set(CR4_ENABLE_VMX); cr4_write.  *)
EnableVmxOperation ==
  /\ pc = "EnableVmx"
  /\ cr4' = Truncate(cr4, KnownCr4) \cup {CR4_VMXE}
  /\ pc' = "SetLockBit"
  /\ UNCHANGED <<status, cr0, hostCr4, featureControl, trueCtls, gdtLimit, hostCs,
                 vmxOn, vmcs, written, ctls, hostSel, launched>>

(* Mutant: set_lock_bit writing the lock bit without VMXON_OUTSIDE_SMX.   *)
SetLockBitNoOutsideSmx ==
  /\ pc = "SetLockBit"
  /\ \/ /\ VMX_LOCK_BIT \notin featureControl
        /\ featureControl' = featureControl \cup {VMX_LOCK_BIT}
        /\ pc' = "AdjustCr"
        /\ UNCHANGED status
     \/ /\ VMX_LOCK_BIT \in featureControl
        /\ VMXON_OUTSIDE_SMX \notin featureControl
        /\ Fail("VmxBiosLock")
        /\ UNCHANGED featureControl
     \/ /\ {VMX_LOCK_BIT, VMXON_OUTSIDE_SMX} \subseteq featureControl
        /\ pc' = "AdjustCr"
        /\ UNCHANGED <<status, featureControl>>
  /\ UNCHANGED <<cr0, cr4, hostCr4, trueCtls, gdtLimit, hostCs, vmxOn,
                 vmcs, written, ctls, hostSel, launched>>

(* set_lock_bit: lock IA32_FEATURE_CONTROL with VMXON outside SMX, or     *)
(* fail with VmxBiosLock when the BIOS locked it without that bit.         *)
SetLockBit ==
  /\ pc = "SetLockBit"
  /\ \/ /\ VMX_LOCK_BIT \notin featureControl
        /\ featureControl' = featureControl \cup {VMXON_OUTSIDE_SMX, VMX_LOCK_BIT}
        /\ pc' = "AdjustCr"
        /\ UNCHANGED status
     \/ /\ VMX_LOCK_BIT \in featureControl
        /\ VMXON_OUTSIDE_SMX \notin featureControl
        /\ Fail("VmxBiosLock")
        /\ UNCHANGED featureControl
     \/ /\ {VMX_LOCK_BIT, VMXON_OUTSIDE_SMX} \subseteq featureControl
        /\ pc' = "AdjustCr"
        /\ UNCHANGED <<status, featureControl>>
  /\ UNCHANGED <<cr0, cr4, hostCr4, trueCtls, gdtLimit, hostCs, vmxOn,
                 vmcs, written, ctls, hostSel, launched>>

(* adjust_control_registers: set_cr0_bits then set_cr4_bits.               *)
AdjustControlRegisters ==
  /\ pc = "AdjustCr"
  /\ cr0' = FixupCr(cr0, Cr0Fixed0, Cr0Fixed1, KnownCr0)
  /\ cr4' = FixupCr(cr4, Cr4Fixed0, Cr4Fixed1, KnownCr4)
  /\ pc' = "InitVmxon"
  /\ UNCHANGED <<status, hostCr4, featureControl, trueCtls, gdtLimit, hostCs,
                 vmxOn, vmcs, written, ctls, hostSel, launched>>

(* init_vmxon_region: translate the region's address (0 is an error),    *)
(* write the revision id, VMXON.                                           *)
InitVmxonRegion ==
  /\ pc = "InitVmxon"
  /\ \E pa \in PaResults :
       \/ /\ pa = 0
          /\ Fail("VirtualToPhysicalAddressFailed")
          /\ UNCHANGED vmxOn
       \/ /\ pa # 0
          /\ vmxOn' = TRUE
          /\ pc' = "InitVmcs"
          /\ UNCHANGED status
  /\ UNCHANGED <<cr0, cr4, hostCr4, featureControl, trueCtls, gdtLimit, hostCs,
                 vmcs, written, ctls, hostSel, launched>>

(* Mutant: VMPTRLD before VMCLEAR.                                         *)
ClearAndLoadSwapped(v) == Vmclear(Vmptrld(v))

(* init_vmcs_region, lines 177-183: VMCLEAR then VMPTRLD.                 *)
ClearAndLoad(v) == Vmptrld(Vmclear(v))

(* init_vmcs_region: translate the region's address (0 is an error),     *)
(* write the revision id, VMCLEAR and VMPTRLD it.                         *)
InitVmcsRegion ==
  /\ pc = "InitVmcs"
  /\ \E pa \in PaResults :
       \/ /\ pa = 0
          /\ Fail("VirtualToPhysicalAddressFailed")
          /\ UNCHANGED vmcs
       \/ /\ pa # 0
          /\ vmcs' = ClearAndLoad(vmcs)
          /\ pc' = "InitGuest"
          /\ UNCHANGED status
  /\ UNCHANGED <<cr0, cr4, hostCr4, featureControl, trueCtls, gdtLimit, hostCs,
                 vmxOn, written, ctls, hostSel, launched>>

(* init_guest_register_state: the guest-state area, from the captured     *)
(* context, the current GDT and the current MSRs.                         *)
InitGuestRegisterState ==
  /\ pc = "InitGuest"
  /\ written' = written \cup {"Guest"}
  /\ pc' = "InitHost"
  /\ UNCHANGED <<status, cr0, cr4, hostCr4, featureControl, trueCtls, gdtLimit,
                 hostCs, vmxOn, vmcs, ctls, hostSel, launched>>

(* init_host_register_state with HostGdt::initialize_from_current: clone  *)
(* the GDT, append a TSS descriptor, TR = index of the last entry, then    *)
(* write the host selectors masked with 0xF8.  The debug build panics on   *)
(* limit + 1 overflowing a u16 (the release build wraps it to 0).  The     *)
(* clone has at most 8192 entries, so u16::try_from(len * 8 - 1) holds.    *)
InitHostRegisterState ==
  /\ pc = "InitHost"
  /\ \/ /\ gdtLimit = 65535
        /\ Fail("Panic")
        /\ UNCHANGED <<written, hostSel>>
     \/ /\ hostSel' = [cs |-> HostSelectorField(hostCs),
                        tr |-> HostSelectorField(SegmentSelector(HostTrIndex(gdtLimit)))]
        /\ written' = written \cup {"Host"}
        /\ pc' = "InitControls"
        /\ UNCHANGED status
  /\ UNCHANGED <<cr0, cr4, hostCr4, featureControl, trueCtls, gdtLimit, hostCs,
                 vmxOn, vmcs, ctls, launched>>

(* init_vmcs_control_values: each control field is adjust_vmx_controls of *)
(* the requested value.                                                    *)
InitVmcsControlValues ==
  /\ pc = "InitControls"
  /\ ctls' = [c \in Classes |-> AdjustVmxControls(c, Requested(c), trueCtls)]
  /\ written' = written \cup {"Controls"}
  /\ pc' = "Launch"
  /\ UNCHANGED <<status, cr0, cr4, hostCr4, featureControl, trueCtls, gdtLimit,
                 hostCs, vmxOn, vmcs, hostSel, launched>>

(* run(), lines 105-106: launch_vm executes VMLAUNCH (launched = false) or *)
(* VMRESUME; a VMfail returns with ZF or CF set and vm_succeed(..).expect  *)
(* panics.  On success the guest runs.                                     *)
LaunchOk ==
  /\ vmcs.current
  /\ vmcs.launch = IF launched THEN "Launched" ELSE "Clear"
  /\ EntryChecksOk

LaunchVm ==
  /\ pc = "Launch"
  /\ \/ /\ ~LaunchOk
        /\ Fail("Panic")
        /\ UNCHANGED vmcs
     \/ /\ LaunchOk
        /\ vmcs' = [vmcs EXCEPT !.launch = "Launched"]
        /\ pc' = "Guest"
        /\ UNCHANGED status
  /\ UNCHANGED <<cr0, cr4, hostCr4, featureControl, trueCtls, gdtLimit, hostCs,
                 vmxOn, written, ctls, hostSel, launched>>

(* run(), lines 107-126: the first VM-exit returns from launch_vm; run()   *)
(* sets launched, copies RIP/RSP/RFLAGS from the VMCS, reads the exit      *)
(* reason and returns Ok(()).                                              *)
VmExitReturn ==
  /\ pc = "Guest"
  /\ launched' = TRUE
  /\ status' = "Ok"
  /\ pc' = "Done"
  /\ UNCHANGED <<cr0, cr4, hostCr4, featureControl, trueCtls, gdtLimit, hostCs,
                 vmxOn, vmcs, written, ctls, hostSel>>

Next ==
  \/ EnableVmxOperation
  \/ SetLockBit
  \/ AdjustControlRegisters
  \/ InitVmxonRegion
  \/ InitVmcsRegion
  \/ InitGuestRegisterState
  \/ InitHostRegisterState
  \/ InitVmcsControlValues
  \/ LaunchVm
  \/ VmExitReturn

Spec == Init /\ [][Next]_vars

-----------------------------------------------------------------------------
(* Properties.                                                             *)

TypeOK ==
  /\ pc \in Pcs
  /\ status \in Statuses
  /\ cr0 \in SUBSET CrBits /\ cr4 \in SUBSET CrBits /\ hostCr4 \in SUBSET CrBits
  /\ featureControl \in SUBSET {0, 1, 2}
  /\ trueCtls \in BOOLEAN
  /\ gdtLimit \in U16
  /\ hostCs \in U16
  /\ vmxOn \in BOOLEAN
  /\ vmcs \in [current : BOOLEAN, launch : {"Undefined", "Clear", "Launched"}]
  /\ written \in SUBSET Groups
  /\ ctls \in [Classes -> SUBSET CtlBits]
  /\ hostSel \in [cs : Byte, tr : Byte]
  /\ launched \in BOOLEAN

(* Every VMX instruction run() unwrap()s meets the SDM's conditions for   *)
(* success when control reaches it: VMXON with CR4.VMXE set, CR0 and CR4  *)
(* within the fixed bits, IA32_FEATURE_CONTROL locked with VMXON outside  *)
(* SMX and the CPU outside VMX operation; VMCLEAR/VMPTRLD in VMX          *)
(* operation; the VMWRITEs of the three init_* helpers with the VMCS      *)
(* current.  A violation is a #UD, #GP or panic at DPC level.              *)
VmxPreconditions ==
  /\ pc = "InitVmxon" =>
       /\ CR4_VMXE \in cr4
       /\ CrFixedOk(cr0, Cr0Fixed0, Cr0Fixed1)
       /\ CrFixedOk(cr4, Cr4Fixed0, Cr4Fixed1)
       /\ {VMX_LOCK_BIT, VMXON_OUTSIDE_SMX} \subseteq featureControl
       /\ ~vmxOn
  /\ pc = "InitVmcs" => vmxOn
  /\ pc \in {"InitGuest", "InitHost", "InitControls"} => vmxOn /\ vmcs.current

(* run() never panics: the VMLAUNCH it reaches passes the VM-entry checks *)
(* (so vm_succeed(..).expect does not fire) and no arithmetic overflows.   *)
RunNeverPanics == status # "Panic"

(* Spec 4.5 / P1: once written, every control field has every bit the     *)
(* capability MSR VM entry checks against requires, no bit it forbids,    *)
(* every requested bit it allows, and no bit that was neither requested   *)
(* nor required (adjust_vmx_controls must pick the TRUE MSRs when         *)
(* IA32_VMX_BASIC[55] is set).                                             *)
ControlsRespectCapabilities ==
  "Controls" \in written =>
    \A c \in Classes :
      LET cap == Caps[EntryCapMsr(c, trueCtls)]
      IN  /\ cap.allowed0 \subseteq ctls[c]
          /\ ctls[c] \subseteq cap.allowed1
          /\ Requested(c) \cap cap.allowed1 \subseteq ctls[c]
          /\ ctls[c] \subseteq Requested(c) \cup cap.allowed0

(* Spec 3, HostGdt: the host CS and TR selectors written to the VMCS are  *)
(* non-zero after masking with 0xF8 (VM entry rejects a zero one).        *)
TrSelectorNonZero ==
  "Host" \in written => hostSel.cs # 0 /\ hostSel.tr # 0

(* Spec 7 and 4.7 step 7: whenever run() returns, with Ok after the VM   *)
(* exit or with a setup error, the CPU has left VMX operation and CR4.VMXE *)
(* is back to what the host had.                                           *)
RunReturnRestoresHost ==
  status \in {"Ok", "VmxBiosLock", "VirtualToPhysicalAddressFailed"} =>
    ~vmxOn /\ (CR4_VMXE \in cr4 <=> CR4_VMXE \in hostCr4)

=============================================================================
