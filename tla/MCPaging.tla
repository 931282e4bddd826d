------------------------------ MODULE MCPaging ------------------------------
(* Tables of three entries: nine pages, of which the last six are heap     *)
(* blocks in any state of use, so that paging_new_4gb runs out at each of  *)
(* its five allocations.                                                   *)
EXTENDS Paging
=============================================================================
