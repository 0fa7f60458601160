# Formal model of the shittyvisor-rs VT-x core

This directory holds TLA+ models of the Intel VT-x hypervisor under
`src/hypervisor/src`. There are TLC configurations that model-check them on
small instances, and TLAPS proofs of their main safety properties for every
value of the constants.

## The system

The hypervisor runs one `Vmx` per logical processor. Its parts are these.

| Part | Source | What it does |
|---|---|---|
| VMX lifecycle | `intel/vmx.rs` | `Vmx::run`: sets CR4.VMXE and locks IA32_FEATURE_CONTROL (`enable_vmx_operation`, `set_lock_bit`). It fixes CR0/CR4 against the FIXED MSRs, then runs VMXON, VMCLEAR and VMPTRLD. It writes the guest, host and control areas of the VMCS. The host area uses a clone of the GDT with a TSS appended (`HostGdt::initialize_from_current`), and the controls come from `adjust_vmx_controls`. It then launches the guest through the `launch_vm` trampoline and returns at the first VM exit. |
| VM-exit dispatcher | `intel/vmexit/mod.rs` | `vmexit_handler` and `handle_vmexit`: read the exit reason and VM_INSTRUCTION_ERROR, route CPUID/RDMSR/WRMSR, and advance guest RIP. |
| Exception handler | `intel/vmexit/exception.rs` | Re-injects #PF and #GP. For #BP it looks up a hook at the guest RIP and either redirects RIP to the handler or re-injects #BP. Not compiled: `mod.rs` does not declare it. |
| Guest segment state | `intel/vmx.rs` | `init_guest_register_state` writes each segment register's selector, base, limit and access rights. `unpack_gdt_entry` decodes them from the GDT entry the selector indexes, in the table `get_current_gdt` returns. |
| Identity paging | `intel/paging.rs` | `build_identity`: a 512 GiB identity map of 2 MiB pages. |
| Vcpu, NT bindings, module declarations | `vcpu.rs`, `nt/mod.rs`, `x86_64/intel/mod.rs` | A constructor, FFI declarations and kernel wrappers. |

How the parts interact:
- `run` is the only caller of the setup functions, and it runs to completion on one CPU at DPC level. Nothing interleaves with it on that CPU.
- CPUs share only the hook manager that the exception handler reads.
- The VM-exit dispatcher is entered from the assembly trampoline (outside `src/`) after each VM exit. In this snapshot `run` never reaches it: `run` returns after the first exit.

## Modules

### `VmxRun` models `Vmx::run` on one CPU

**State.**
- `pc` is the point reached in `run`. `status` is the result: `Running`, `Ok`, an `Err` variant, or `Panic`.
- `cr0`, `cr4` and `featureControl` are the registers the code reads and writes.
- `hostCr4` is the CR4 the host had before `run`, kept as history.
- `trueCtls` is IA32_VMX_BASIC[55]. `gdtLimit` and `hostCs` are the host's GDT limit and CS selector.
- `vmxOn` and `vmcs` track VMX operation and the VMCS state, which is current or not, with launch state Undefined, Clear or Launched.
- `written` is the set of VMCS areas written, and `ctls` holds the control words.
- `hostSel` holds the host CS/TR selector fields, and `launched` is the code's flag.

**Data abstraction.**
- Registers and control words are sets of bit positions, so `|` is `\cup`, `&` is `\cap`, and `from_bits_truncate` is `\cap` with the bits the x86 crate knows.
- The capability MSRs are the constant `Caps`, mapping each of the nine MSR names to its allowed-0 and allowed-1 sets.
- Selectors and GDT limits are u16 numbers with their wrap-around (`% 65536`). The 0xF8 mask is `(s % 256) - (s % 8)`.

**One action per step of `run`.**

| Action | Code | Notes |
|---|---|---|
| `EnableVmxOperation` | `cr4_write` | |
| `SetLockBit` | `set_lock_bit` | Three branches: unlocked, BIOS-locked, ready. |
| `AdjustControlRegisters` | `set_cr0_bits`, `set_cr4_bits` | |
| `InitVmxonRegion` | `init_vmxon_region` | The physical address may be 0 (an error) or VMXON runs. |
| `InitVmcsRegion` | `init_vmcs_region` | The address may be 0; otherwise VMCLEAR then VMPTRLD. |
| `InitGuestRegisterState` | `init_guest_register_state` | The guest area's VMWRITEs, abstracted to "the area is written". |
| `InitHostRegisterState` | `init_host_register_state`, `initialize_from_current` | With a limit of 0xFFFF, a debug build panics and a release build wraps. |
| `InitVmcsControlValues` | `init_vmcs_control_values` | |
| `LaunchVm` | `launch_vm`, `vm_succeed(..).expect` | VM entry succeeds or `run` panics. |
| `VmExitReturn` | lines after the first VM exit | Returns `Ok`. |

`Fail(s)` models the `?` and the panics: `run` stops with status `s`.

**Hardware as an oracle.**
- The VMX instructions that the code `unwrap()`s are modelled by their success outcome.
- The invariant `VmxPreconditions` states the SDM's conditions for that success wherever control reaches them. A failure is therefore reported as a violated invariant, not as a branch of the model.
- VM entry is the operator `EntryChecksOk`, written from SDM 26.2 and 27.2.3 for the fields the code writes: every area written, controls within the TRUE or plain capability MSR, IA-32e guest with host-address-space size, non-zero host CS and TR, and CR0/CR4 within their fixed bits.

`MC_VmxRun` gives the constants small values:
- real CR bit positions;
- every IA32_FEATURE_CONTROL combination of the lock, inside-SMX and outside-SMX bits;
- a CPU whose TRUE MSRs clear default-1 bits and that lacks XSAVES;
- GDTs of 11, 16 and 31 entries, and at the edges 32 entries and the maximal limit;
- both values of the TRUE-controls flag;
- physical-address translation that may fail.

### `VmExit` models the VM-exit path on one CPU

**State.**
- `mode` is where the CPU is: the guest, the handler, the trampoline, the host after VMXOFF, or halted by a panic.
- `guestRip`, `exitReason`, `exitLen` and `instrError` are the VMCS fields the dispatcher reads. `exitRip` records the RIP at the last exit.
- `result` is the `u8` returned to the trampoline, and `emulated` the reason whose handler ran.

**Data abstraction.**
- EXIT_REASON is the record `[basic, entryFailure]`: bits 15:0 and bit 31. `from_u32` is applied to the whole word, so a word with bit 31 set has no variant.
- RIP wraps modulo `RipMod`, standing for the u64.
- `handle_cpuid` and `handle_msr_access` are in `cpuid.rs` and `msr.rs`, which are not in the repository. They are reduced to "the handler ran".

**Actions.**

| Action | Code | Notes |
|---|---|---|
| `GuestExit` | the processor | The guest exits at some RIP with some reason and length. |
| `VmexitHandler` | `vmexit_handler`, `handle_vmexit`, `advance_guest_rip` | Its disjuncts are the panic of the catch-all arm, Ok (emulate, advance RIP, Continue), and the two early `Err` returns (ExitHypervisor). |
| `TrampolineResume` | spec 4.6 | Continue leads to VMRESUME. |
| `TrampolineExit` | spec 4.6 | ExitHypervisor leads to VMXOFF. |

**Fairness.** `FairSpec` adds weak fairness of `VmexitHandler` and of the two trampoline branches. Both are straight-line code that runs with interrupts off on the exiting CPU, so once entered they keep taking steps. The guest gets no fairness, because it may run forever without exiting.

The trampoline is modelled from the spec because it is not under `src/`. The null-pointer branch is not modelled, since the trampoline always passes its frame.

### `ExceptionExit` models `handle_exception` and the breakpoint hook

**State.**
- `guestRip` is the VMCS RIP, and `shadowRip` is `GuestRegisters.rip`.
- `vector` and `infoOk` give the interruption information.
- `injected` is the event written for the next VM entry.
- `exitQual` is EXIT_QUALIFICATION, and `cr2` is CR2. CR2 is not in the VMCS, so guest and host share the register.

Only `run` copies the VMCS RIP into `GuestRegisters.rip` (vmx.rs:112), for the first entry. What the exit stub, which is not in the repository, leaves there at a later exit is unknown, so `GuestException` lets `shadowRip` be any address, and `ResumeAtFaultOrHook` is checked for every value. A #PF that exits leaves CR2 alone and puts the faulting address in the exit qualification (SDM 27.1, 27.2.1), so `GuestException` sets `exitQual` and leaves `cr2` unchanged.

**Actions.**
- `HandleException` has a disjunct for each arm: the two panics, #GP/#PF re-injected as hardware exceptions, and #BP. The #PF arm reads the exit qualification only to log it and writes no CR2.
- `HandleBreakpointException` looks the hook up at `shadowRip`. A Function hook moves both RIPs to its handler; anything else re-injects #BP as a software exception.

The hook table is the constant `Hooks`, because the hook manager is not under `src/`. `mod.rs` has no `mod exception`, so this file is not compiled. The module models it as the spec routes exception exits to it.

### `Paging` models `build_identity`, and `PagingIdentity` is what it promises

**State.**
- `pml4`, `pdpt` and `pd` are the tables by the code's entry index, each entry a record of the four bitfields.
- `i` and `j` are the loop indices, `pa` the next physical address, and `pc` the loop position.

**Actions.** `SetPml4`, `SetPdpte` and `SetPde` are the three loop bodies with their exits.

**Layout.** `Table` is `#[repr(C)]` and the `Entry` bitfield carries `#[repr(C, align(4096))]` (paging.rs:136). So `entries[k]` lies at byte `EntryStride * k` of its table, where `EntryStride` is 4096. `HwPde` is the processor's walk (SDM 4.5): it reads the 8-byte entry at `table + 8 * k`, and padding reads as zero.

**Refinement.** `PagingIdentity` is the abstract build. It starts from zeroed tables, and each of its steps gives one still-zero entry its identity value: `LinkPml4` points PML4[0] at the PDPT, `LinkPdpt` points PDPT[a] at PD a, and `MapPde` maps PD a entry b to the large page (a·N + b)·2 MiB. `Finish` returns only once the tables are exactly the identity tables. `Paging` maps onto it with the tables themselves (`Tables`) and `built <- pc = "Done"`. So every write of the loops must be an abstract write of the right value to an entry not yet written, and a loop that wrote a wrong frame fails at that write, not only at the end.

`MC_Paging` uses N = 10 entries per table instead of 512. The loops do not depend on N except through their bounds, and the proofs cover every N.

### `GdtUnpack` models the guest segment writes and `unpack_gdt_entry`

**State.**
- `gdt` is the table, slot by slot. Each slot is a record of the six `GdtEntry` fields.
- `sel[s]` is the selector in segment register `s`.
- `vmcs[s]` holds the four guest fields of `s`, and `written` says whether they have been written.
- 64-bit bases and 32-bit limits are written as 16-bit limbs, least significant first, so TLC's 32-bit integers hold them exactly.

**Action.** `WriteGuestSegments` is the whole segment block of `init_guest_register_state` (vmx.rs 221-261). FS and GS take their base from the MSRs; everything else comes from `UnpackGdtEntry`.

**Operators.** `UnpackGdtEntry` is `unpack_gdt_entry` line by line:
- the index is `selector / 8`, and index 0 returns the default with only the unusable bit set;
- `UnpackLimit` is `limit_low | (granularity & 0x0f) << 16`;
- `UnpackBase` is the three-piece base;
- `UnpackAccessRights` is the access byte OR'd with the flags nibble, masked with 0xf0ff, with the unusable bit set when P is clear.

**Inputs.** `Init` takes every table with a null slot 0 and every selector of any RPL that the processor can hold:
- CS a code segment;
- the data registers a null selector or a code or data segment;
- LDTR null or an LDT;
- TR a busy TSS whose upper slot is in the table.

**Reference.** The `Sdm*` operators are the SDM's reading of a descriptor:
- the access rights of Table 24-2;
- the 16-byte system descriptors of IA-32e mode (7.2.3);
- the byte-granular limit of 24.4.1.

`MC_GdtUnpack` uses a four-slot table filled from six descriptors modelled on a 64-bit Windows GDT: the 64-bit kernel code segment, a flat G=1 data segment, the 32-bit TEB segment, a non-present data segment, a busy TSS, and the TSS's upper half holding 0xFFFFF803. It checks CS, SS, FS and TR. Each register's fields depend only on its own selector, so DS, ES, GS and LDTR repeat cases already covered, and the proofs cover every set of registers.

## Runs

| Run | cfg | Expect | Shows |
|---|---|---|---|
| vmx_run | `VmxRun.cfg` | pass | `RunNeverPanics`, `VmxPreconditions` and `ControlsRespectCapabilities` hold on ordinary GDT sizes, for all feature-control values and both values of the TRUE flag. |
| vmx_run_edge | `VmxRunEdge.cfg` | pass | The same preconditions and bounds hold when the GDT limit is at the u16 edges and CR4 has a bit the x86 crate drops. Here the launch may fail, which fires the panic branches. |
| vmx_run_tr | `VmxRunTr.cfg` | violation | `TrSelectorNonZero`: two GDT sizes give host TR selector 0. A 32-entry GDT (limit 255) gives TSS index 32, which the 0xF8 mask drops to 0. Limit 65535 wraps `limit + 1` to 0 in a release build, so the clone is empty and the TSS index is 0. TLC reports whichever path it reaches first. |
| vmx_run_return | `VmxRunReturn.cfg` | violation | `RunReturnRestoresHost`: `run` never unwinds. A BIOS lock returns `VMXBIOSLock` with CR4.VMXE already set, a VMCS address failure returns after VMXON, and `Ok` returns in VMX operation. |
| vmexit | `VmExit.cfg` | pass | Checks `ResumeAfterEmulatedInstruction`, the action property `VmxoffOnlyOnError` (VMXOFF only for an exit answered with an Err, with no handler run) and, under `FairSpec`, `ExitAnswered`. Over up to three exits with CPUID, RDMSR, WRMSR, XSETBV and entry-failure reasons, the guest only ever resumes just past an instruction the dispatcher emulated. Every exit ends with the CPU back in the guest, out of VMX operation, or halted by the panic: the `u8` the handler returns is always one the trampoline branches on. Instruction error 12 is known; 0 is not. |
| vmexit_dispatch | `VmExitDispatch.cfg` | violation | `DispatchFollowsSpec`: TLC's counterexample is an XSETBV exit (basic reason 55) with VM_INSTRUCTION_ERROR 12. It reaches the catch-all panic of `handle_vmexit`, where spec §7 returns ExitHypervisor. |
| exception_exit | `ExceptionExit.cfg` | pass | `ResumeAtFaultOrHook`: over up to three #BP, #GP, #PF and #UD exits, with and without valid interruption info, the guest resumes at the fault with the exception re-injected or at a Function hook's handler. |
| exception_cr2 | `ExceptionExitCr2.cfg` | violation | `PageFaultCr2Current`: a #PF exit with exit qualification 1 while CR2 holds 0 is re-injected as vector 14, type 3, and the guest resumes with CR2 still 0. Its page-fault handler reads an address other than the one that faulted. |
| paging | `Paging.cfg` | pass | `CodeViewIdentity` and `IdentitySpec`: through the code's indices, the loops build exactly the identity tables, and each of their writes is a write of `PagingIdentity`. |
| paging_hardware | `PagingHardware.cfg` | violation | `HardwareWalkIdentity`: the processor's walk sees only entry 0 of each table. |
| gdt_unpack | `GdtUnpack.cfg` | pass | `TypeOK` and `AccessRightsMatchSdm`, over 49,152 tables and selector choices: the access rights are the SDM's, null and non-present segments are unusable, and no reserved bit is set. |
| gdt_unpack_fields | `GdtUnpackFields.cfg` | violation | `SegmentFieldsMatchSdm`: a flat G=1 segment gets limit 0xFFFFF instead of 0xFFFFFFFF, and the TR base loses bits 63:32 of the TSS address. TLC's counterexample is the TSS: TR = 16 selects a descriptor whose next slot holds base bits 63:32, and the TR base is written as 0x12345000. With the base conjunct left out, the same constants give the limit case: FS with a G=1 descriptor gets limit 0xFFFFF. |

**Bounds.** The bounds are enough because `run` is a straight-line sequence with no loop. Every branch of every action depends only on:
- the lock and outside-SMX bits, where all 8 combinations are given;
- the TRUE flag, where both values are given;
- whether the GDT entry count exceeds 31 or the limit is 0xFFFF, where both sides are given;
- whether translation fails, which is allowed.

No bound is cut short. `CHECK_DEADLOCK FALSE` is sound because `run` returns once, and the final state `pc = "Done"` has no successor.

The VM-exit runs allow three exits (`MaxExits`) over RIPs modulo 8, with lengths 2 and 3. That is enough for an exit after a resumed one, for the RIP wrap, and for every outcome of `handle_vmexit`. A run stops when `MaxExits` is reached, in the host, or at a panic, so those runs also set `CHECK_DEADLOCK FALSE`.

The exception runs use four addresses, one Function hook, one Page hook and the vectors #BP, #UD, #GP and #PF. The #PF exits reach every pairing of a faulting address with the CR2 left from before.

`GdtUnpack` runs one step from each initial state, and `CHECK_DEADLOCK FALSE` holds because the segment block runs once. The descriptors reach every branch of `unpack_gdt_entry`: a null index, present and non-present entries, G set and clear, a flags nibble that is non-zero, and a system descriptor with a non-zero upper half.

`build_identity` is deterministic: one behaviour of N² + 2N + 3 states, which ends at `Done`.

**Fairness.**
- For `run`, no fairness is assumed and no liveness is checked. `run` blocks in `launch_vm` until the guest causes a VM exit, and nothing in the code guarantees that one happens.
- For the exit path, `FairSpec` in `VmExit` makes the handler and the trampoline weakly fair, and leaves the guest without fairness. `ExitAnswered` is a leads-to from "in the handler", so it needs no exit to ever happen.
- With a variant that maps an `Err` to `VmExitType::IncrementRIP`, the trampoline has no branch for the value and the property fails.

## Findings

- **TR selector 0 (code bug).** For a GDT with 32 entries, or a limit of 0xFFFF in a release build, `initialize_from_current` and `init_host_register_state` write host TR selector 0. VM entry rejects it (SDM 27.2.3, quoted at vmx.rs:710), and `run` panics at vmx.rs:105.
- **Setup failures are not unwound (differs from the spec).** They leave CR4.VMXE set, or leave the CPU in VMX operation. Spec §7 says setup errors unwind before VMXON commits, and post-VMXON errors attempt VMXOFF.
- **No VMXOFF on return (differs from the spec).** `run` returns without VMXOFF, where spec §4.7 step 7 has the teardown.
- **Unrouted exits panic (code bug).** `handle_vmexit` panics on every reason but CPUID, RDMSR and WRMSR (mod.rs:89). That includes XSETBV, INVD and GETSEC, which its own comment lists as unconditional exits, and exception exits. Spec §7 says an unhandled reason returns ExitHypervisor.
- **Instruction-error check (differs from the spec; from reading the code, no run's counterexample shows it).** `handle_vmexit` rejects an exit whose VM_INSTRUCTION_ERROR has no enum variant (mod.rs:73). That field is 0 after a successful launch, so even a CPUID exit ends the hypervisor. The vmexit runs include the value 0, so `VmExit` has this path, and `ResumeAfterEmulatedInstruction` holds on it.
- **Stale CR2 on #PF re-injection (code bug).** The #PF arm injects the fault with its error code but never writes CR2 (exception.rs:32). An exiting #PF does not update CR2, and its address is in EXIT_QUALIFICATION, which the code decodes as an EPT-violation qualification for logging. VM entry does not load CR2. So the guest's page-fault handler reads the address of some earlier fault. Spec 4.6.1 says the guest should see its ordinary page fault.
- **Unscaled segment limits (differs from the spec).** `unpack_gdt_entry` writes the raw 20-bit limit (vmx.rs:568). The VMCS limit is in bytes (SDM 24.4.1), so a G=1 flat segment gets 1 MiB instead of 4 GiB. In 64-bit mode the limit is ignored, but compatibility-mode code sees it. A G=1 descriptor whose low 12 limit bits are not all ones would also fail the VM-entry check of SDM 26.3.1.2.
- **Truncated TR base (gap in the spec).** The TR and LDTR bases come from the 8-byte descriptor only (vmx.rs:569). A 64-bit TSS at 0xFFFFF803'12345000 gets base 0x12345000. VM entry accepts it because it is canonical, and the guest faults at its next stack switch through the TSS. Spec P2 prescribes this three-piece reassembly, while spec 4.5 names TR and LDTR as system descriptors, which are 16 bytes in IA-32e mode.
- **4 KiB entries (code bug).** `#[repr(C, align(4096))]` on `Entry` (paging.rs:136) pads every page-table entry to 4 KiB. The processor reads entries at an 8-byte stride, so it sees only the first 2 MiB mapped. A test through the Rust struct would see a correct map.

## Proofs

### `VmxRun_proofs`

- **`TypeCorrect`** (`Spec => []TypeOK`). It follows from the lemmas `TypeInit` and `TypeStep`, with one step per action.
  - The u16 fields are `{n \in Nat : n < 65536}`, which the provers handle, rather than `0..65535`.
  - `HostSelectorFieldRange` shows the 0xF8 mask yields a byte.
  - `AdjustType` shows `adjust_vmx_controls` yields a control word; it rests on `CapMsrType`.
- **`ControlsCorrect`** (`Spec => []ControlsRespectCapabilities`), for every `Caps` with allowed0 within allowed1. Its inductive invariant is `TypeOK /\ ControlsRespectCapabilities`.
  - The invariant is inductive because only `InitVmcsControlValues` writes `ctls` or adds `"Controls"` to `written`, and no action writes `trueCtls`.
  - The step for `InitVmcsControlValues` rests on two lemmas. `CapMsrMatchesEntry`: the code's MSR choice is the one VM entry checks. `AdjustRespectsCapabilities`: the set algebra of `(r | a0) & a1`.

- **`PreconditionsCorrect`** (`Spec => []VmxPreconditions`). It rests on the assumption `FixedAssumption` in `VmxRun`: the x86 crate names every CR0/CR4 fixed-0 bit, and CR4.VMXE is one of them. SDM A.7 and A.8 make the fixed-0 bits CR0.PE, NE, PG and CR4.VMXE, and TLC evaluates the assumption on every VmxRun run.
  - `VmxPreconditions` is not inductive: it speaks only of the pcs where VMX instructions run. The strengthening `IInvPre` says what each earlier helper has left behind, by pc. Before VMXON the CPU is outside VMX operation. From `AdjustCr` on, the feature-control MSR is locked with VMXON outside SMX. From `InitVmxon` on, CR0 and CR4 are within their fixed bits. From `InitVmcs` on, the CPU is in VMX operation. From `InitGuest` to `Launch`, the VMCS is current and clear.
  - `FixupCrFixedOk` is the set algebra of `set_cr*_bits`: `((cr & K) | (F0 & K)) & (F1 & K)` contains F0 and lies within F1 when F0 lies within K and F1.
  - TLC checked `IInvPre` as an invariant on the vmx_run and vmx_run_edge constants before it was proved.
- **`RunNoPanicCorrect`** (`Spec => []RunNeverPanics`), under three hypotheses about the platform:
  - `GdtLimitsOk`: the GDT limit is not 0xFFFF, and the TSS index the code appends, `(limit + 1) / 8`, is not a multiple of 32;
  - `HostCsOk`: the host CS selector has a non-zero index in its low byte;
  - `LongModeOk`: the entry and exit capability MSRs allow bit 9 (IA-32e guest, 64-bit host).

  A 64-bit Windows host meets all three. They are exactly the panic conditions: dropped one at a time on the vmx_run instance, each lets TLC reach `status = "Panic"`. The first is the finding at vmx.rs:339.
  - The invariant `IInvRun` holds relative to `IInvPre` and `ControlsRespectCapabilities`, which are already proved. It adds: no panic yet, the field groups written by pc (`WrittenByPc`), non-zero host selectors once written, and `launched` false until `run` returns.
  - `LaunchOkAtLaunch` shows every VM-entry check of the model passes at the VMLAUNCH.
  - `SelectorFieldNonZero`, `IndexSelectorNonZero` and `TrSelectorFieldNonZero` do the u16 arithmetic: the masked selector of index i is `8 * (i % 32)`.
  - The temporal step combines `[]IInvPre`, `[]ControlsRespectCapabilities` and the relative induction with PTL.

### `VmExit_proofs`

**`ResumeCorrect`** (`Spec => []ResumeAfterEmulatedInstruction`) holds for all reason, error and length sets. The property alone is not inductive, so the proof strengthens it to `IInv`:
- in the handler, the VMCS RIP is still the exiting one;
- when the trampoline holds Continue, the instruction was emulated and RIP already advanced.

The lemmas are `HandleVmexitOutcome` (Ok only for a handled reason) and `ExitTypeOfValues`.

**`VmxoffCorrect`** (`Spec => VmxoffOnlyOnError`) is an action property: every step that leaves VMX operation happens for an exit that `handle_vmexit` answered with an Err, and no handler ran for that exit. Its invariant `IInvOff` says that in the trampoline the `u8` result is `ExitTypeOf` of the outcome for the exit still in the VMCS, that this outcome was not the panic, and that after an Err `emulated` is 0. In the handler `emulated` is 0. The only step that clears `vmxOn` is `TrampolineExit`, and `ExitTypeOfValues` rules out Ok there.

### `ExceptionExit_proofs`

**`ResumeCorrect`** (`Spec => []ResumeAtFaultOrHook`) holds for every hook table whose Function handlers lie in `Addrs`. Its strengthening adds that, in the handler, RIP is the faulting one and nothing is injected. `HandleExceptionCases` splits `handle_exception` into its three endings.

### `Paging_proofs`

These proofs hold for every N.
- **Loop invariant.** `IInv` says every table is the identity on the written entries (`PdpteWritten`, `PdeWritten`) and zero elsewhere, and `pa = (i*N + j) * 2 MiB`. `LoopInvariant` proves it, and `PfnOfLargePage` supplies the frame arithmetic.
- **`CodeViewCorrect`** proves `CodeViewIdentity`.
- **`Implementation`** proves `Spec => IdentitySpec`, the refinement.
  - The initial tables map to `ZeroTables`, with `built` false.
  - `RefineStep` has one case per loop step, and uses `IInv` in both states. `SetPml4` is `LinkPml4`, because PML4[0] is still zero at `pc = "Pml4"`. `SetPdpte` with i < N is `LinkPdpt` at a = i, and `SetPde` with j < N is `MapPde` at (i, j): `IInv` says that entry was zero before and holds its identity value after. `PdeLeaf` turns the code's frame `Pfn((a·N + b)·2 MiB)` into the abstract `(a·N + b)·512`.
  - The exit of the outer loop is `Finish`: `DoneTablesMatch` shows the tables are then `IdentityTables`. The exit of the inner loop changes no table and is a stutter.

### `GdtUnpack_proofs`

These proofs hold for every table length, descriptor set and set of registers.
- **`TypeCorrect`.** The lemma `AccessRightsOfEntry` does the bit arithmetic: with `a` the access byte and `h` the flags nibble, the value before the mask is `a + h * 4096`. So the 0xf0ff mask keeps it, bits 11:8 are zero, and the unusable bit adds 65536.
- **`AccessRightsCorrect`** (spec P2/P3). It rests on `UnpackOfSelector`, which says what `unpack_gdt_entry` returns for a selector of the table, and on `IndexOfSelector`, which says the code's division and the SDM's bits 15:3 agree.
  - The strengthening `IInv` adds that the selectors stay loadable and the written fields are what `unpack_gdt_entry` returns.

### What stays with TLC

**Only model-checked, not proved.** Every safety property of a passing run now has a theorem. `RunNeverPanics` is proved only under the platform hypotheses above. TLC shows it fails without them (vmx_run_edge does not check it, and vmx_run_tr records the TR case).

**Out of the provers' reach.** Liveness, ENABLED and recursive definitions stay with TLC. `ExitAnswered` is checked by TLC only. No recursive definitions are used.

## Not modelled yet, and the plan

1. **Composition.** A module that runs `VmxRun` into the `VmExit` loop, once `run` reaches the dispatcher.
2. **Not modelled**, because they are pure I/O, declarations, or code outside `src/`:
   - the CPUID probes `has_intel_cpu` and `has_vmx_support`, which `run` never calls;
   - the `Vcpu` constructor, which nothing in the crate calls;
   - the NT bindings: extern declarations, and `KeRaiseIrqlToDpcLevel` and `create_unicode_string`, which nothing in the crate calls. `create_unicode_string` would truncate a length of 32768 or more characters to u16.
   - `exit_hypervisor`, which does not compile;
   - the CPUID/MSR handlers, which are not in the repository.
3. **Not checked.**
   - `Cr4::from_bits_truncate` (vmx.rs:483) drops CR4 bits the x86 crate does not name, and `set_cr4_bits` writes the result back. Whether a host bit is lost depends on the crate version, which the repository does not pin. No property compares the host CR4 before and after `run`.
   - `handle_breakpoint_exception` looks the hook up by `GuestRegisters.rip` (exception.rs:69). Whether that value is stale depends on the exit stub, which is not in the repository, so the model leaves it free and checks no property about which hook is chosen.
