---------------------------- MODULE VmxRun_proofs ----------------------------
(***************************************************************************)
(* Proofs about VmxRun for every value of its constants that satisfies    *)
(* the module's assumptions.                                               *)
(***************************************************************************)
EXTENDS VmxRun, TLAPS

(* The 0xF8 mask of init_host_register_state yields a byte.               *)
LEMMA HostSelectorFieldRange ==
  ASSUME NEW n \in Nat
  PROVE  HostSelectorField(n) \in Byte
BY DEF HostSelectorField, Byte

(* adjust_vmx_controls reads one of the nine capability MSRs.             *)
LEMMA CapMsrType ==
  ASSUME NEW c \in Classes, NEW b \in BOOLEAN
  PROVE  CapMsr(c, b) \in CapMsrs
BY DEF CapMsr, TrueCapMsr, BaseCapMsr, Classes, CapMsrs

(* Its result is a control word.                                           *)
LEMMA AdjustType ==
  ASSUME NEW c \in Classes, NEW b \in BOOLEAN, NEW r
  PROVE  AdjustVmxControls(c, r, b) \subseteq CtlBits
<1>1. Caps[CapMsr(c, b)].allowed1 \subseteq CtlBits
  BY CapMsrType, CapsAssumption
<1>2. QED
  BY <1>1 DEF AdjustVmxControls

(* The initial states of run() are well typed.                             *)
LEMMA TypeInit == Init => TypeOK
<1> SUFFICES ASSUME Init PROVE TypeOK
  OBVIOUS
<1> USE DEF Init
<1>1. pc \in Pcs /\ status \in Statuses
  BY DEF Pcs, Statuses
<1>2. cr0 \in SUBSET CrBits /\ cr4 \in SUBSET CrBits /\ hostCr4 \in SUBSET CrBits
  BY CrAssumption
<1>3. featureControl \in SUBSET {0, 1, 2}
  BY InputAssumption
<1>4. gdtLimit \in U16 /\ hostCs \in U16
  BY InputAssumption
<1>5. hostSel \in [cs : Byte, tr : Byte]
  BY DEF Byte
<1>6. QED
  BY <1>1, <1>2, <1>3, <1>4, <1>5 DEF TypeOK, Groups, Classes

(* Every step of run() keeps the variables in their types.                *)
LEMMA TypeStep == TypeOK /\ [Next]_vars => TypeOK'
<1> SUFFICES ASSUME TypeOK, [Next]_vars PROVE TypeOK'
  OBVIOUS
<1>1. CASE EnableVmxOperation
  BY <1>1, CrAssumption DEF EnableVmxOperation, TypeOK, Truncate, Pcs
<1>2. CASE SetLockBit
  BY <1>2 DEF SetLockBit, TypeOK, Fail, Pcs, Statuses, VMX_LOCK_BIT, VMXON_OUTSIDE_SMX
<1>3. CASE AdjustControlRegisters
  BY <1>3, CrAssumption DEF AdjustControlRegisters, TypeOK, FixupCr, Truncate, Pcs
<1>4. CASE InitVmxonRegion
  BY <1>4 DEF InitVmxonRegion, TypeOK, Fail, Pcs, Statuses
<1>5. CASE InitVmcsRegion
  BY <1>5 DEF InitVmcsRegion, TypeOK, Fail, Pcs, Statuses, ClearAndLoad, Vmclear, Vmptrld
<1>6. CASE InitGuestRegisterState
  BY <1>6 DEF InitGuestRegisterState, TypeOK, Pcs, Groups
<1>7. CASE InitHostRegisterState
  <2>1. /\ SegmentSelector(HostTrIndex(gdtLimit)) \in Nat
        /\ hostCs \in Nat
    BY DEF TypeOK, U16, SegmentSelector, HostTrIndex, ClonedEntries, RawGdtBytes
  <2>2. /\ HostSelectorField(hostCs) \in Byte
        /\ HostSelectorField(SegmentSelector(HostTrIndex(gdtLimit))) \in Byte
    BY <2>1, HostSelectorFieldRange
  <2>3. hostSel' \in [cs : Byte, tr : Byte] /\ written' \in SUBSET Groups
    <3>1. CASE UNCHANGED <<written, hostSel>>
      BY <3>1 DEF TypeOK
    <3>2. CASE /\ hostSel' = [cs |-> HostSelectorField(hostCs),
                               tr |-> HostSelectorField(SegmentSelector(HostTrIndex(gdtLimit)))]
               /\ written' = written \cup {"Host"}
      <4>1. hostSel' \in [cs : Byte, tr : Byte]
        BY <3>2, <2>2
      <4>2. written' \in SUBSET Groups
        BY <3>2 DEF TypeOK, Groups
      <4>3. QED
        BY <4>1, <4>2
    <3>3. \/ UNCHANGED <<written, hostSel>>
          \/ /\ hostSel' = [cs |-> HostSelectorField(hostCs),
                            tr |-> HostSelectorField(SegmentSelector(HostTrIndex(gdtLimit)))]
             /\ written' = written \cup {"Host"}
      BY <1>7 DEF InitHostRegisterState
    <3>4. QED
      BY <3>1, <3>2, <3>3
  <2>4. pc' \in Pcs /\ status' \in Statuses
    BY <1>7 DEF InitHostRegisterState, TypeOK, Fail, Pcs, Statuses
  <2>5. QED
    BY <1>7, <2>3, <2>4 DEF InitHostRegisterState, TypeOK
<1>8. CASE InitVmcsControlValues
  <2>1. ctls' \in [Classes -> SUBSET CtlBits]
    BY <1>8, AdjustType DEF InitVmcsControlValues, TypeOK
  <2>2. QED
    BY <1>8, <2>1 DEF InitVmcsControlValues, TypeOK, Pcs, Groups
<1>9. CASE LaunchVm
  BY <1>9 DEF LaunchVm, TypeOK, Fail, Pcs, Statuses
<1>10. CASE VmExitReturn
  BY <1>10 DEF VmExitReturn, TypeOK, Pcs, Statuses
<1>11. CASE UNCHANGED vars
  BY <1>11 DEF vars, TypeOK
<1>12. QED
  BY <1>1, <1>2, <1>3, <1>4, <1>5, <1>6, <1>7, <1>8, <1>9, <1>10, <1>11 DEF Next

(* Every variable of run() stays in its type, for all constants.          *)
THEOREM TypeCorrect == Spec => []TypeOK
BY TypeInit, TypeStep, PTL DEF Spec

-----------------------------------------------------------------------------
(* adjust_vmx_controls reads the MSR the VM-entry checks use: the TRUE     *)
(* MSR exactly when IA32_VMX_BASIC[55] is set, PROCBASED2 always.          *)
LEMMA CapMsrMatchesEntry ==
  ASSUME NEW c \in Classes, NEW b \in BOOLEAN
  PROVE  CapMsr(c, b) = EntryCapMsr(c, b)
BY DEF CapMsr, TrueCapMsr, BaseCapMsr, EntryCapMsr, Classes

(* (requested | allowed0) & allowed1 keeps every allowed-1 bit asked for,  *)
(* adds only the allowed-0 bits, and stays within the capability MSR.      *)
LEMMA AdjustRespectsCapabilities ==
  ASSUME NEW c \in Classes, NEW b \in BOOLEAN
  PROVE  LET cap == Caps[EntryCapMsr(c, b)]
             v   == AdjustVmxControls(c, Requested(c), b)
         IN  /\ cap.allowed0 \subseteq v
             /\ v \subseteq cap.allowed1
             /\ Requested(c) \cap cap.allowed1 \subseteq v
             /\ v \subseteq Requested(c) \cup cap.allowed0
<1>1. CapMsr(c, b) \in CapMsrs
  BY CapMsrType
<1>2. Caps[CapMsr(c, b)].allowed0 \subseteq Caps[CapMsr(c, b)].allowed1
  BY <1>1, CapsAssumption
<1>3. QED
  BY <1>2, CapMsrMatchesEntry DEF AdjustVmxControls

(* The inductive invariant: the types, and the control fields within their *)
(* capability MSRs once init_vmcs_control_values has run.                 *)
IInvControls == TypeOK /\ ControlsRespectCapabilities

(* Every VMCS control field run() writes lies within its capability MSR    *)
(* and carries each requested bit the CPU allows, so VM entry never fails  *)
(* on the controls (spec 4.5), for every capability MSR contents.          *)
THEOREM ControlsCorrect == Spec => []ControlsRespectCapabilities
<1>1. Init => IInvControls
  BY TypeInit DEF IInvControls, ControlsRespectCapabilities, Init
<1>2. IInvControls /\ [Next]_vars => IInvControls'
  <2> SUFFICES ASSUME IInvControls, [Next]_vars
               PROVE  IInvControls'
    OBVIOUS
  <2>1. TypeOK'
    BY TypeStep DEF IInvControls
  <2>2. CASE InitVmcsControlValues
    <3> SUFFICES ASSUME NEW c \in Classes
                 PROVE  LET cap == Caps[EntryCapMsr(c, trueCtls')]
                        IN  /\ cap.allowed0 \subseteq ctls'[c]
                            /\ ctls'[c] \subseteq cap.allowed1
                            /\ Requested(c) \cap cap.allowed1 \subseteq ctls'[c]
                            /\ ctls'[c] \subseteq Requested(c) \cup cap.allowed0
      BY <2>1 DEF IInvControls, ControlsRespectCapabilities
    <3>1. trueCtls \in BOOLEAN /\ trueCtls' = trueCtls
      BY <2>2 DEF IInvControls, TypeOK, InitVmcsControlValues
    <3>2. ctls'[c] = AdjustVmxControls(c, Requested(c), trueCtls)
      BY <2>2 DEF InitVmcsControlValues
    <3>3. QED
      BY <3>1, <3>2, AdjustRespectsCapabilities
  <2>3. CASE ~InitVmcsControlValues
    <3>1. /\ ctls' = ctls /\ trueCtls' = trueCtls
          /\ ("Controls" \in written') = ("Controls" \in written)
      BY <2>3 DEF Next, vars, EnableVmxOperation, SetLockBit, AdjustControlRegisters,
         InitVmxonRegion, InitVmcsRegion, InitGuestRegisterState,
         InitHostRegisterState, LaunchVm, VmExitReturn, Fail
    <3>2. QED
      BY <2>1, <3>1 DEF IInvControls, ControlsRespectCapabilities
  <2>4. QED
    BY <2>2, <2>3
<1>3. IInvControls => ControlsRespectCapabilities
  BY DEF IInvControls
<1>4. QED
  BY <1>1, <1>2, <1>3, PTL DEF Spec
-----------------------------------------------------------------------------
(* The inductive invariant behind VmxPreconditions: where run() stands     *)
(* says what its earlier helpers have done.  Before VMXON the CPU is       *)
(* outside VMX operation; after set_lock_bit the MSR is locked with VMXON  *)
(* outside SMX; after adjust_control_registers CR0 and CR4 are within     *)
(* their fixed bits; from VMXON on the CPU is in VMX operation, and from   *)
(* init_vmcs_region on the VMCS is current and clear.                      *)
IInvPre ==
  /\ TypeOK
  /\ pc \in {"EnableVmx", "SetLockBit", "AdjustCr", "InitVmxon"} => ~vmxOn
  /\ pc \in {"AdjustCr", "InitVmxon"} =>
       {VMX_LOCK_BIT, VMXON_OUTSIDE_SMX} \subseteq featureControl
  /\ pc \in {"InitVmxon", "InitVmcs", "InitGuest", "InitHost", "InitControls",
            "Launch", "Guest"} =>
       CrFixedOk(cr0, Cr0Fixed0, Cr0Fixed1) /\ CrFixedOk(cr4, Cr4Fixed0, Cr4Fixed1)
  /\ pc \in {"InitVmcs", "InitGuest", "InitHost", "InitControls", "Launch", "Guest"}
       => vmxOn
  /\ pc \in {"InitGuest", "InitHost", "InitControls", "Launch"} =>
       vmcs.current /\ vmcs.launch = "Clear"
(* set_cr0_bits / set_cr4_bits leave a register within its fixed bits     *)
(* whenever the crate knows every fixed-0 bit (FixedAssumption) and the   *)
(* fixed-0 bits are among the fixed-1 bits (CrAssumption).                  *)
LEMMA FixupCrFixedOk ==
  ASSUME NEW cr, NEW f0, NEW f1, NEW K, f0 \subseteq K, f0 \subseteq f1
  PROVE  CrFixedOk(FixupCr(cr, f0, f1, K), f0, f1)
BY DEF CrFixedOk, FixupCr, Truncate

LEMMA PreInit == Init => IInvPre
BY TypeInit DEF Init, IInvPre

LEMMA PreStep == IInvPre /\ [Next]_vars => IInvPre'
<1> SUFFICES ASSUME IInvPre, [Next]_vars PROVE IInvPre'
  OBVIOUS
<1>1. TypeOK'
  BY TypeStep DEF IInvPre
<1>2. CASE EnableVmxOperation
  BY <1>1, <1>2 DEF IInvPre, EnableVmxOperation
<1>3. CASE SetLockBit
  BY <1>1, <1>3 DEF IInvPre, SetLockBit, Fail
<1>4. CASE AdjustControlRegisters
  <2>1. CrFixedOk(cr0', Cr0Fixed0, Cr0Fixed1) /\ CrFixedOk(cr4', Cr4Fixed0, Cr4Fixed1)
    BY <1>4, FixupCrFixedOk, FixedAssumption, CrAssumption DEF AdjustControlRegisters
  <2>2. QED
    BY <1>1, <1>4, <2>1 DEF IInvPre, AdjustControlRegisters
<1>5. CASE InitVmxonRegion
  BY <1>1, <1>5 DEF IInvPre, InitVmxonRegion, Fail
<1>6. CASE InitVmcsRegion
  <2>1. CASE pc' = "Done"
    BY <1>1, <1>6, <2>1 DEF IInvPre, InitVmcsRegion
  <2>2. CASE pc' # "Done"
    <3>1. pc' = "InitGuest" /\ vmcs' = ClearAndLoad(vmcs)
      BY <1>6, <2>2 DEF InitVmcsRegion, Fail
    <3>2. vmcs'.current /\ vmcs'.launch = "Clear"
      BY <3>1 DEF IInvPre, TypeOK, ClearAndLoad, Vmptrld, Vmclear
    <3>3. pc = "InitVmcs" /\ UNCHANGED <<cr0, cr4, vmxOn>>
      BY <1>6 DEF InitVmcsRegion
    <3>4. vmxOn /\ CrFixedOk(cr0, Cr0Fixed0, Cr0Fixed1)
                /\ CrFixedOk(cr4, Cr4Fixed0, Cr4Fixed1)
      BY <3>3 DEF IInvPre
    <3>5. QED
      BY <1>1, <3>1, <3>2, <3>3, <3>4 DEF IInvPre
  <2>3. QED
    BY <2>1, <2>2
<1>7. CASE InitGuestRegisterState
  BY <1>1, <1>7 DEF IInvPre, InitGuestRegisterState
<1>8. CASE InitHostRegisterState
  BY <1>1, <1>8 DEF IInvPre, InitHostRegisterState, Fail
<1>9. CASE InitVmcsControlValues
  BY <1>1, <1>9 DEF IInvPre, InitVmcsControlValues
<1>10. CASE LaunchVm
  BY <1>1, <1>10 DEF IInvPre, LaunchVm, Fail
<1>11. CASE VmExitReturn
  BY <1>1, <1>11 DEF IInvPre, VmExitReturn
<1>12. CASE UNCHANGED vars
  BY <1>1, <1>12 DEF IInvPre, vars
<1>13. QED
  BY <1>2, <1>3, <1>4, <1>5, <1>6, <1>7, <1>8, <1>9, <1>10, <1>11, <1>12 DEF Next

(* Every VMX instruction run() unwrap()s, VMXON, VMCLEAR, VMPTRLD and the  *)
(* VMWRITEs, meets the SDM's conditions for success when control reaches  *)
(* it, for every CPU whose fixed-0 bits the x86 crate names.               *)
THEOREM PreconditionsCorrect == Spec => []VmxPreconditions
<1>1. IInvPre => VmxPreconditions
  BY FixedAssumption DEF IInvPre, VmxPreconditions, CrFixedOk
<1>2. QED
  BY PreInit, PreStep, <1>1, PTL DEF Spec
-----------------------------------------------------------------------------
(* The platform facts under which run() cannot panic.  Each is what a      *)
(* 64-bit Windows host gives, and each, dropped, lets TLC find the panic:  *)
(* a GDT limit of 0xFFFF overflows limit + 1 (vmx_run_edge), a TSS index   *)
(* that is a multiple of 32 is masked to a zero TR selector (vmx_run_tr),  *)
(* a host CS with index 0 is a zero CS selector, and a CPU without         *)
(* IA-32e guests or 64-bit hosts (SDM A.4, A.5) clears bit 9.              *)
GdtLimitsOk == \A l \in GdtLimits : l # 65535 /\ ((l + 1) \div 8) % 32 # 0
HostCsOk == \A s \in HostCsSelectors : (s % 256) \div 8 # 0
LongModeOk == \A m \in {"EXIT", "TRUE_EXIT", "ENTRY", "TRUE_ENTRY"} :
                9 \in Caps[m].allowed1

(* The masked selector of an index is 8 times its low five bits.          *)
LEMMA SelectorFieldNonZero ==
  ASSUME NEW s \in Nat, (s % 256) \div 8 # 0
  PROVE  HostSelectorField(s) # 0
BY DEF HostSelectorField

LEMMA IndexSelectorNonZero ==
  ASSUME NEW i \in Nat, i < 8192, i % 32 # 0
  PROVE  HostSelectorField(SegmentSelector(i)) # 0
<1>1. i * 8 \in Nat /\ i * 8 < 65536
  OBVIOUS
<1>2. SegmentSelector(i) = i * 8
  BY <1>1 DEF SegmentSelector
<1>3. PICK q \in Nat, r \in Nat : r < 32 /\ i = 32 * q + r /\ r = i % 32
  OBVIOUS
<1>4. (i * 8) % 256 = 8 * r
  BY <1>3
<1>5. ((i * 8) % 256) \div 8 # 0
  BY <1>3, <1>4
<1>6. QED
  BY <1>1, <1>2, <1>5, SelectorFieldNonZero

LEMMA TrSelectorFieldNonZero ==
  ASSUME NEW l \in U16, l # 65535, ((l + 1) \div 8) % 32 # 0
  PROVE  HostSelectorField(SegmentSelector(HostTrIndex(l))) # 0
<1>1. l \in Nat /\ l < 65535
  BY DEF U16
<1>2. PICK i \in Nat : i < 8192 /\ i = (l + 1) \div 8
  BY <1>1
<1>3. RawGdtBytes(l) = l + 1
  BY <1>1 DEF RawGdtBytes
<1>4. HostTrIndex(l) = i
  BY <1>2, <1>3 DEF HostTrIndex, ClonedEntries
<1>5. QED
  BY <1>2, <1>4, IndexSelectorNonZero

(* Where run() stands says which VMCS field groups it has written.        *)
WrittenByPc ==
  /\ pc \in {"EnableVmx", "SetLockBit", "AdjustCr", "InitVmxon", "InitVmcs",
            "InitGuest"} => written = {}
  /\ pc = "InitHost" => written = {"Guest"}
  /\ pc = "InitControls" => written = {"Guest", "Host"}
  /\ pc = "Launch" => written = Groups

(* The invariant, relative to IInvPre and ControlsRespectCapabilities:   *)
(* no panic yet, the read-only inputs, the groups written, the host       *)
(* selectors non-zero once written, and launched false until run()        *)
(* returns.                                                                *)
IInvRun ==
  /\ TypeOK
  /\ status # "Panic"
  /\ gdtLimit \in GdtLimits /\ hostCs \in HostCsSelectors
  /\ WrittenByPc
  /\ pc \in {"InitControls", "Launch"} => hostSel.cs # 0 /\ hostSel.tr # 0
  /\ pc # "Done" => ~launched
(* At the VMLAUNCH, every condition LaunchOk names holds: the VMCS is     *)
(* current and clear with launched false, and the entry checks pass.      *)
LEMMA LaunchOkAtLaunch ==
  ASSUME LongModeOk, IInvRun, IInvPre, ControlsRespectCapabilities,
         pc = "Launch"
  PROVE  LaunchOk
<1>1. vmcs.current /\ vmcs.launch = "Clear" /\ ~launched
  BY DEF IInvPre, IInvRun
<1>2. written = Groups /\ "Controls" \in written
  BY DEF IInvRun, WrittenByPc, Groups
<1>3. trueCtls \in BOOLEAN
  BY DEF IInvRun, TypeOK
<1>4. \A c \in Classes : ControlOk(c, ctls[c], trueCtls)
  BY <1>2 DEF ControlsRespectCapabilities, ControlOk
<1>5. ASSUME NEW c \in {"VmEntry", "VmExit"} PROVE 9 \in ctls[c]
  <2>1. 9 \in Caps[EntryCapMsr(c, trueCtls)].allowed1
    BY <1>3 DEF LongModeOk, EntryCapMsr
  <2>2. 9 \in Requested(c)
    BY DEF Requested
  <2>3. QED
    BY <1>2, <2>1, <2>2 DEF ControlsRespectCapabilities, Classes
<1>6. hostSel.cs # 0 /\ hostSel.tr # 0
  BY DEF IInvRun
<1>7. CrFixedOk(cr0, Cr0Fixed0, Cr0Fixed1) /\ CrFixedOk(cr4, Cr4Fixed0, Cr4Fixed1)
  BY DEF IInvPre
<1>8. QED
  BY <1>1, <1>2, <1>4, <1>5, <1>6, <1>7 DEF LaunchOk, EntryChecksOk

(* The host selectors init_host_register_state writes are non-zero.       *)
LEMMA HostSelectorsNonZero ==
  ASSUME GdtLimitsOk, HostCsOk, NEW l \in GdtLimits, NEW s \in HostCsSelectors
  PROVE  /\ HostSelectorField(s) # 0
         /\ HostSelectorField(SegmentSelector(HostTrIndex(l))) # 0
<1>1. l \in U16 /\ s \in Nat
  BY InputAssumption DEF U16
<1>2. HostSelectorField(s) # 0
  BY <1>1, SelectorFieldNonZero DEF HostCsOk
<1>3. QED
  BY <1>1, <1>2, TrSelectorFieldNonZero DEF GdtLimitsOk

LEMMA RunInit == Init => IInvRun
BY TypeInit DEF Init, IInvRun, WrittenByPc

LEMMA RunStep ==
  ASSUME GdtLimitsOk, HostCsOk, LongModeOk,
         IInvRun, IInvPre, ControlsRespectCapabilities, [Next]_vars
  PROVE  IInvRun'
<1>1. TypeOK'
  BY TypeStep DEF IInvRun
<1>2. UNCHANGED <<gdtLimit, hostCs>>
  BY DEF Next, vars, EnableVmxOperation, SetLockBit, AdjustControlRegisters,
     InitVmxonRegion, InitVmcsRegion, InitGuestRegisterState,
     InitHostRegisterState, InitVmcsControlValues, LaunchVm, VmExitReturn
<1>3. CASE EnableVmxOperation \/ AdjustControlRegisters \/ InitGuestRegisterState
                             \/ InitVmcsControlValues \/ VmExitReturn
  BY <1>1, <1>2, <1>3 DEF IInvRun, WrittenByPc, Groups, EnableVmxOperation,
     AdjustControlRegisters, InitGuestRegisterState, InitVmcsControlValues,
     VmExitReturn
<1>4. CASE SetLockBit \/ InitVmxonRegion \/ InitVmcsRegion
  BY <1>1, <1>2, <1>4 DEF IInvRun, WrittenByPc, SetLockBit, InitVmxonRegion,
     InitVmcsRegion, Fail
<1>5. CASE InitHostRegisterState
  <2>1. gdtLimit # 65535
    BY DEF IInvRun, GdtLimitsOk
  <2>2. /\ hostSel' = [cs |-> HostSelectorField(hostCs),
                       tr |-> HostSelectorField(SegmentSelector(HostTrIndex(gdtLimit)))]
        /\ written' = written \cup {"Host"} /\ pc' = "InitControls"
        /\ status' = status /\ launched' = launched /\ pc = "InitHost"
    BY <1>5, <2>1 DEF InitHostRegisterState
  <2>3. hostSel'.cs # 0 /\ hostSel'.tr # 0
    BY <2>2, HostSelectorsNonZero DEF IInvRun
  <2>4. written' = {"Guest", "Host"}
    BY <1>5, <2>2 DEF IInvRun, WrittenByPc, InitHostRegisterState
  <2>5. QED
    BY <1>1, <1>2, <2>2, <2>3, <2>4 DEF IInvRun, WrittenByPc
<1>6. CASE LaunchVm
  <2>1. LaunchOk
    BY <1>6, LaunchOkAtLaunch DEF LaunchVm
  <2>2. /\ pc = "Launch" /\ pc' = "Guest" /\ status' = status
        /\ UNCHANGED <<written, hostSel, launched>>
    BY <1>6, <2>1 DEF LaunchVm
  <2>3. QED
    BY <1>1, <1>2, <2>2 DEF IInvRun, WrittenByPc
<1>7. CASE UNCHANGED vars
  BY <1>1, <1>7 DEF IInvRun, WrittenByPc, vars
<1>8. QED
  BY <1>3, <1>4, <1>5, <1>6, <1>7 DEF Next

(* run() never panics, neither on the u16 arithmetic of the host GDT nor  *)
(* on vm_succeed(..).expect after VMLAUNCH, for every CPU and host whose  *)
(* GDT, CS selector and VMX capabilities are those of a 64-bit host as    *)
(* GdtLimitsOk, HostCsOk and LongModeOk state, and whose fixed-0 bits the *)
(* x86 crate names.                                                        *)
THEOREM RunNoPanicCorrect ==
  ASSUME GdtLimitsOk, HostCsOk, LongModeOk
  PROVE  Spec => []RunNeverPanics
<1>1. Spec => []IInvPre
  BY PreInit, PreStep, PTL DEF Spec
<1>2. Spec => []ControlsRespectCapabilities
  BY ControlsCorrect
<1>3. IInvRun /\ IInvPre /\ ControlsRespectCapabilities /\ [Next]_vars => IInvRun'
  BY RunStep
<1>4. IInvRun => RunNeverPanics
  BY DEF IInvRun, RunNeverPanics
<1>5. QED
  BY <1>1, <1>2, <1>3, <1>4, RunInit, PTL DEF Spec
=============================================================================
