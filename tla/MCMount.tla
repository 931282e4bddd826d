------------------------------ MODULE MCMount -------------------------------
(* Seven heap blocks, any of which may be in use already: a mount takes    *)
(* six, so it runs out of memory at each of its allocations.               *)
EXTENDS Mount
=============================================================================
