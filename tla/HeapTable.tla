----------------------------- MODULE HeapTable -----------------------------
(***************************************************************************)
(* The block table of the kernel heap (memory/heap/heap.h, heap.c) as a    *)
(* value: a function from block numbers to table entries, and what the     *)
(* loops of heap.c compute from it and do to it.  No state: modules Heap   *)
(* and HeapScan extend this one.                                           *)
(*                                                                         *)
(* A table entry is one byte.  heap.c only ever tests and writes three of  *)
(* its bits, so an entry is the set of the bits that are on; the masks     *)
(* 0x0F, HAS_NEXT and IS_FIRST become membership tests.                    *)
(***************************************************************************)
EXTENDS Integers

CONSTANT Total          \* h_table->total, the number of blocks of the heap

ASSUME TotalAssumption == Total \in Nat \ {0}

Blocks == 0 .. Total-1

TAKEN    == "TAKEN"
HAS_NEXT == "HAS_NEXT"
IS_FIRST == "IS_FIRST"
Flags    == {TAKEN, HAS_NEXT, IS_FIRST}
FREE     == {}

Tables == [Blocks -> SUBSET Flags]

(***************************************************************************)
(* heap_get_start_block answers the first block of the leftmost run of n   *)
(* entries that are not taken (module HeapScan has the loop itself).  The  *)
(* loop counts up from 1 before it compares with n, so no block fits when  *)
(* n = 0.                                                                  *)
(***************************************************************************)
Fits(e, s, n) ==
  /\ n >= 1
  /\ s + n <= Total
  /\ \A i \in s .. s+n-1 : TAKEN \notin e[i]

heap_get_start_block(e, s, n) ==
  /\ Fits(e, s, n)
  /\ \A t \in 0 .. s-1 : ~Fits(e, t, n)

(***************************************************************************)
(* heap_mark_blocks_taken: the n entries from s are overwritten, all but   *)
(* the last point at their successor, the first is marked as such.         *)
(***************************************************************************)
MarkMissesFirst(e, s, n) ==         \* mutant: the last line is dropped
  [i \in Blocks |->
     IF i \in s .. s+n-1
     THEN {TAKEN} \cup (IF i + 1 < s + n THEN {HAS_NEXT} ELSE {})
     ELSE e[i]]

MarkLinksLast(e, s, n) ==           \* mutant: "i + 1 <" becomes "i + 1 <="
  [i \in Blocks |->
     IF i \in s .. s+n-1
     THEN {TAKEN, HAS_NEXT} \cup (IF i = s THEN {IS_FIRST} ELSE {})
     ELSE e[i]]

heap_mark_blocks_taken(e, s, n) ==
  [i \in Blocks |->
     IF i \in s .. s+n-1
     THEN {TAKEN} \cup (IF i + 1 < s + n THEN {HAS_NEXT} ELSE {})
                  \cup (IF i = s THEN {IS_FIRST} ELSE {})
     ELSE e[i]]

(***************************************************************************)
(* The entries that the loop of heap_free visits when it starts at b: it   *)
(* moves on exactly as long as the entry it is at has HAS_NEXT and stops   *)
(* at the end of the table.                                                *)
(***************************************************************************)
Chain(e, b) ==
  {i \in b .. Total-1 : \A k \in b .. i-1 : HAS_NEXT \in e[k]}

FreeChain(e, b) == [i \in Blocks |-> IF i \in Chain(e, b) THEN FREE ELSE e[i]]

-----------------------------------------------------------------------------
(* What heap_free trusts when it walks a chain.  A block that claims a     *)
(* successor has one, which is taken and is not the first of another       *)
(* allocation; a taken block that is not a first one is the successor of   *)
(* the block before it; a free entry has no flag.                          *)
LinksForward(e) ==
  \A i \in Blocks : HAS_NEXT \in e[i] =>
    /\ i+1 \in Blocks
    /\ TAKEN \in e[i+1]
    /\ IS_FIRST \notin e[i+1]

LinksBack(e) ==
  \A i \in Blocks : TAKEN \in e[i] /\ IS_FIRST \notin e[i] =>
    /\ i-1 \in Blocks
    /\ HAS_NEXT \in e[i-1]

FlagsOnlyIfTaken(e) ==
  \A i \in Blocks : e[i] # FREE => TAKEN \in e[i]

WellFormed(e) == LinksForward(e) /\ LinksBack(e) /\ FlagsOnlyIfTaken(e)
=============================================================================
