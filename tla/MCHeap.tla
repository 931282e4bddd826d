------------------------------- MODULE MCHeap -------------------------------
(* Four blocks of four bytes in a 5-bit address space; every request size  *)
(* and every address is tried, and the table starts with arbitrary bits.   *)
EXTENDS Heap
=============================================================================
