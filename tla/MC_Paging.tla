------------------------------ MODULE MC_Paging ------------------------------
(* Paging with ten entries per table.  Entry carries #[repr(C, align(4096))] *)
(* (paging.rs:136), so size_of::<Entry>() is 4096 and entries[k] sits at      *)
(* byte 4096 * k of its table.                                               *)
EXTENDS Paging

MCN == 10
MCEntryStride == 4096
MCBase == 16777216   \* a 4 KiB aligned allocation at 16 MiB
=============================================================================
