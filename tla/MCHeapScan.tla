----------------------------- MODULE MCHeapScan -----------------------------
(* Every table of four entries with all eight combinations of flags, and   *)
(* every count from 0 to one more than the table holds.                    *)
EXTENDS HeapScan
=============================================================================
