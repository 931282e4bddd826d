----------------------------- MODULE BlockHeap -----------------------------
(***************************************************************************)
(* The kernel heap as its users see it: kzalloc and kfree of objects that  *)
(* fit into one heap block each, as every object of the file layer but the *)
(* root directory does.  u[b] says what block b holds.                     *)
(***************************************************************************)
EXTENDS Integers

CONSTANT HeapBlocks     \* number of heap blocks

ASSUME BlockHeapAssumption == HeapBlocks \in Nat

NULL == 0
Heap == 1 .. HeapBlocks

\* kzalloc of one block returns b: the first free one (module HeapScan), or
\* NULL when there is none.
kzalloc(u, b) ==
  \/ b = NULL /\ \A x \in Heap : u[x] # "free"
  \/ b \in Heap /\ u[b] = "free" /\ \A x \in 1 .. b-1 : u[x] # "free"

\* The block that it returns.
Taken(u) == CHOOSE b \in Heap \cup {NULL} : kzalloc(u, b)

HoldsNull(u, b, what) ==                    \* mutant: NULL is written to
  [x \in Heap \cup {b} |-> IF x = b THEN what ELSE u[x]]

Hold(u, b, what) == IF b = NULL THEN u ELSE [u EXCEPT ![b] = what]

FreesNull(u, bs) ==                         \* mutant: NULL is not let pass
  [x \in Heap \cup bs |-> IF x \in bs THEN "free" ELSE u[x]]

\* kfree of the blocks bs; kfree(NULL) does nothing.
Freed(u, bs) == [x \in Heap |-> IF x \in bs THEN "free" ELSE u[x]]
=============================================================================
