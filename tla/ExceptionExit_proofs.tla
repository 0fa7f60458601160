------------------------- MODULE ExceptionExit_proofs -------------------------
(***************************************************************************)
(* Proofs about the exception path of ExceptionExit, for every hook table *)
(* and vector set satisfying HookAssumption.                               *)
(***************************************************************************)
EXTENDS ExceptionExit, TLAPS

USE HookAssumption

LEMMA TypeInit == Init => TypeOK
BY DEF Init, TypeOK, NoEvent

(* Every event handle_exception and handle_breakpoint_exception inject    *)
(* is of the injected type.                                                *)
LEMMA EventTypes ==
  /\ InjectionFor(GP) \in [valid : {TRUE}, vector : {BP, GP, PF},
                           type : {HardwareException, SoftwareException}]
  /\ InjectionFor(PF) \in [valid : {TRUE}, vector : {BP, GP, PF},
                           type : {HardwareException, SoftwareException}]
  /\ Event(BP, SoftwareException) \in [valid : {TRUE}, vector : {BP, GP, PF},
                                       type : {HardwareException, SoftwareException}]
BY DEF InjectionFor, Event

(* The three ways handle_exception ends: a panic, a #GP/#PF re-injected, *)
(* or the breakpoint handler.                                              *)
LEMMA HandleExceptionCases ==
  HandleException =>
    /\ mode = "Handler"
    /\ UNCHANGED <<exitRip, infoOk, vector, exitQual, cr2, exits>>
    /\ \/ mode' = "Panicked" /\ UNCHANGED <<guestRip, shadowRip, injected>>
       \/ /\ mode' = "Guest" /\ vector \in {GP, PF}
          /\ injected' = InjectionFor(vector)
          /\ UNCHANGED <<guestRip, shadowRip>>
       \/ mode' = "Guest" /\ vector = BP /\ HandleBreakpointException
BY DEF HandleException

LEMMA TypeStep == TypeOK /\ [Next]_vars => TypeOK'
<1> SUFFICES ASSUME TypeOK, [Next]_vars PROVE TypeOK'
  OBVIOUS
<1>1. CASE GuestException
  BY <1>1 DEF GuestException, TypeOK, NoEvent
<1>2. CASE HandleException
  <2>0. UNCHANGED <<exitRip, infoOk, vector, exitQual, cr2, exits>>
    BY <1>2, HandleExceptionCases
  <2>1. Hooks[shadowRip].kind = "Function" => Hooks[shadowRip].handler \in Addrs
    BY DEF TypeOK
  <2>2. CASE mode' = "Panicked" /\ UNCHANGED <<guestRip, shadowRip, injected>>
    BY <2>0, <2>2 DEF TypeOK
  <2>3. CASE /\ mode' = "Guest" /\ vector \in {GP, PF}
             /\ injected' = InjectionFor(vector)
             /\ UNCHANGED <<guestRip, shadowRip>>
    BY <2>0, <2>3, EventTypes DEF TypeOK
  <2>4. CASE mode' = "Guest" /\ vector = BP /\ HandleBreakpointException
    BY <2>0, <2>1, <2>4, EventTypes DEF HandleBreakpointException, IsFunctionHook, TypeOK
  <2>5. QED
    BY <1>2, HandleExceptionCases, <2>2, <2>3, <2>4
<1>3. CASE UNCHANGED vars
  BY <1>3 DEF vars, TypeOK
<1>4. QED
  BY <1>1, <1>2, <1>3 DEF Next

(* The state handle_exception works on stays within its types.           *)
THEOREM TypeCorrect == Spec => []TypeOK
BY TypeInit, TypeStep, PTL DEF Spec

-----------------------------------------------------------------------------
(* The inductive strengthening of ResumeAtFaultOrHook: while the handler *)
(* runs, the VMCS RIP is the faulting one and nothing is injected yet.    *)
IInv ==
  /\ TypeOK
  /\ mode = "Handler" => guestRip = exitRip /\ injected = NoEvent
  /\ ResumeAtFaultOrHook

LEMMA IInvInit == Init => IInv
BY TypeInit DEF Init, IInv, ResumeAtFaultOrHook

LEMMA IInvStep == IInv /\ [Next]_vars => IInv'
<1> SUFFICES ASSUME IInv, [Next]_vars PROVE IInv'
  OBVIOUS
<1>1. TypeOK'
  BY TypeStep DEF IInv
<1>2. CASE GuestException
  BY <1>1, <1>2 DEF GuestException, IInv, ResumeAtFaultOrHook
<1>3. CASE HandleException
  <2>1. mode = "Handler" /\ guestRip = exitRip /\ injected = NoEvent
        /\ UNCHANGED <<exitRip, vector, exits>>
    BY <1>3, HandleExceptionCases DEF IInv
  <2>2. CASE mode' = "Panicked" /\ UNCHANGED <<guestRip, shadowRip, injected>>
    BY <1>1, <2>2 DEF IInv, ResumeAtFaultOrHook
  <2>3. CASE /\ mode' = "Guest" /\ vector \in {GP, PF}
             /\ injected' = InjectionFor(vector)
             /\ UNCHANGED <<guestRip, shadowRip>>
    <3>1. injected' = Event(vector, HardwareException) /\ vector # BP
      BY <2>3 DEF InjectionFor, BP, GP, PF
    <3>2. QED
      BY <1>1, <2>1, <2>3, <3>1 DEF IInv, ResumeAtFaultOrHook
  <2>4. CASE mode' = "Guest" /\ vector = BP /\ HandleBreakpointException
    <3>1. CASE IsFunctionHook(Hooks[shadowRip])
      <4>1. guestRip' = Hooks[shadowRip].handler /\ injected' = NoEvent
        BY <2>1, <2>4, <3>1 DEF HandleBreakpointException
      <4>2. shadowRip \in Addrs
        BY DEF IInv, TypeOK
      <4>3. QED
        BY <1>1, <2>1, <2>4, <3>1, <4>1, <4>2 DEF IInv, ResumeAtFaultOrHook
    <3>2. CASE ~IsFunctionHook(Hooks[shadowRip])
      <4>1. guestRip' = guestRip /\ injected' = Event(BP, SoftwareException)
        BY <2>4, <3>2 DEF HandleBreakpointException
      <4>2. QED
        BY <1>1, <2>1, <2>4, <4>1 DEF IInv, ResumeAtFaultOrHook
    <3>3. QED
      BY <3>1, <3>2
  <2>5. QED
    BY <1>3, HandleExceptionCases, <2>2, <2>3, <2>4
<1>4. CASE UNCHANGED vars
  BY <1>1, <1>4 DEF vars, IInv, ResumeAtFaultOrHook
<1>5. QED
  BY <1>2, <1>3, <1>4 DEF Next

(* Spec 4.6 step 4 and 4.6.1 for every hook table: after an exception    *)
(* exit the guest resumes at the faulting instruction with the exception  *)
(* re-injected, or at a Function hook's handler with nothing injected.    *)
THEOREM ResumeCorrect == Spec => []ResumeAtFaultOrHook
<1>1. Spec => []IInv
  BY IInvInit, IInvStep, PTL DEF Spec
<1>2. IInv => ResumeAtFaultOrHook
  BY DEF IInv
<1>3. QED
  BY <1>1, <1>2, PTL
=============================================================================
