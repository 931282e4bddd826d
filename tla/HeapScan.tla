------------------------------ MODULE HeapScan ------------------------------
(***************************************************************************)
(* The windowing loop of heap_get_start_block (memory/heap/heap.c), one    *)
(* step per iteration.  Module Heap uses the loop's answer as the operator *)
(* heap_get_start_block of HeapTable; here the loop is shown to compute    *)
(* it, for every table and every block count, 0 included (the count that   *)
(* an overflowing size is rounded to).                                     *)
(***************************************************************************)
EXTENDS HeapTable

CONSTANT MaxBlocks      \* largest block count asked for

ASSUME MaxBlocksAssumption == MaxBlocks \in Nat

ENOMEM == -1            \* stands for -ENOMEM: no block has this number

VARIABLES
  scanned,        \* table->entries, which the search does not write
  wanted,         \* total_blocks, the argument
  index, bs, bc,  \* loop index, start of the current window, its length
  pc,             \* "loop", "checks" (after the loop) or "done"
  result          \* the value returned

svars == <<scanned, wanted, index, bs, bc, pc, result>>

ScanInit ==
  /\ scanned \in Tables
  /\ wanted \in 0 .. MaxBlocks
  /\ index = 0 /\ bs = -1 /\ bc = 0
  /\ pc = "loop"
  /\ result = ENOMEM

-----------------------------------------------------------------------------
KeepsWindow ==                  \* mutant: "bs = -1" is missing
  /\ pc = "loop" /\ index < Total
  /\ TAKEN \in scanned[index]
  /\ bc' = 0
  /\ index' = index + 1
  /\ UNCHANGED <<scanned, wanted, bs, pc, result>>

RetriesTaken ==                 \* mutant: "continue" skips the increment
  /\ pc = "loop" /\ index < Total
  /\ TAKEN \in scanned[index]
  /\ bc' = 0
  /\ bs' = -1
  /\ UNCHANGED <<scanned, wanted, index, pc, result>>

TakenEntry ==
  /\ pc = "loop" /\ index < Total
  /\ TAKEN \in scanned[index]
  /\ bc' = 0
  /\ bs' = -1
  /\ index' = index + 1
  /\ UNCHANGED <<scanned, wanted, pc, result>>

FreeEntry ==
  /\ pc = "loop" /\ index < Total
  /\ TAKEN \notin scanned[index]
  /\ bs' = IF bs = -1 THEN index ELSE bs
  /\ bc' = bc + 1
  /\ \/ bc' = wanted  /\ pc' = "checks" /\ index' = index     \* break
     \/ bc' # wanted  /\ pc' = "loop"   /\ index' = index + 1
  /\ UNCHANGED <<scanned, wanted, result>>

EndOfTable ==
  /\ pc = "loop" /\ index = Total
  /\ pc' = "checks"
  /\ UNCHANGED <<scanned, wanted, index, bs, bc, result>>

\* The two checks after the loop, and the three returns.
Return ==
  /\ pc = "checks"
  /\ result' = IF bs = -1 \/ bc # wanted THEN ENOMEM ELSE bs
  /\ pc' = "done"
  /\ UNCHANGED <<scanned, wanted, index, bs, bc>>

ScanNext == TakenEntry \/ FreeEntry \/ EndOfTable \/ Return

\* The loop runs on the only CPU and nothing it waits for can be withheld.
ScanSpec == ScanInit /\ [][ScanNext]_svars /\ WF_svars(ScanNext)

-----------------------------------------------------------------------------
(* Every variable has its type.                                            *)
ScanTypeOK ==
  /\ scanned \in Tables
  /\ wanted \in Nat
  /\ index \in 0 .. Total
  /\ bs \in -1 .. Total-1
  /\ bc \in 0 .. Total
  /\ pc \in {"loop", "checks", "done"}
  /\ result \in -1 .. Total-1

(* The first m entries are behind the loop: a window, if there is one,     *)
(* consists of free entries and ends there, and n blocks fit nowhere in    *)
(* front of it.                                                            *)
Window(m) ==
  /\ bc = IF bs = -1 THEN 0 ELSE m - bs
  /\ bs # -1 => bs < m /\ \A k \in bs .. m-1 : TAKEN \notin scanned[k]
  /\ \A t \in 0 .. m-1 : (bs = -1 \/ t < bs) => ~Fits(scanned, t, wanted)

Short == wanted = 0 \/ bc < wanted

(* While the loop runs its window is too short; it is left with the whole  *)
(* table searched, or with a window of exactly n blocks.                   *)
LoopInv ==
  /\ pc = "loop" => Window(index) /\ Short
  /\ pc = "checks" => \/ index = Total /\ Window(index) /\ Short
                      \/ index < Total /\ Window(index+1) /\ bs # -1 /\ bc = wanted

(* The search answers the first block of the leftmost run that is long     *)
(* enough and wholly free, or fails exactly when there is none: what the   *)
(* operator heap_get_start_block and module Heap take for granted.         *)
AnswersFirstFit ==
  pc = "done" =>
    IF result = ENOMEM
    THEN \A s \in Blocks : ~Fits(scanned, s, wanted)
    ELSE heap_get_start_block(scanned, result, wanted)

(* The search ends, whatever the table and the count.                      *)
Terminates == <>(pc = "done")
=============================================================================
