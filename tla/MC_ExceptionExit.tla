--------------------------- MODULE MC_ExceptionExit ---------------------------
(***************************************************************************)
(* Small instances of ExceptionExit for TLC: a Function hook at 1 whose   *)
(* handler is at 2, a Page hook at 3, and no hook at 0 and 2.             *)
(***************************************************************************)
EXTENDS ExceptionExit

MCAddrs == {0, 1, 2, 3}

MCHooks ==
  [a \in MCAddrs |->
     CASE a = 1 -> [kind |-> "Function", handler |-> 2]
       [] a = 3 -> [kind |-> "Page", handler |-> 0]
       [] OTHER -> NoHook]

(* #BP, #GP, #PF, and #UD (6), which ExceptionInterrupt names but the     *)
(* handler has no arm for.                                                 *)
MCVectors == {BP, 6, GP, PF}

(* SDM 6.15: the architecturally defined exception vectors.               *)
MCKnownVectors == {0, 1, 2, 3, 4, 5, 6, 7, 8, 10, 11, 12, 13, 14, 16, 17, 18, 19, 20}
=============================================================================
