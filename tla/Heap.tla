-------------------------------- MODULE Heap --------------------------------
(***************************************************************************)
(* The kernel heap: kheap_init, kmalloc and kfree (memory/heap/kheap.c)    *)
(* over heap_create, heap_malloc and heap_free (memory/heap/heap.c).       *)
(*                                                                         *)
(* Every call runs to its end before the next one starts: the kernel has   *)
(* no scheduler, and the interrupt handlers of idt.c do not allocate.  So  *)
(* each call is one action.  kzalloc is kmalloc followed by a memset of    *)
(* the block contents, which this module does not represent.               *)
(***************************************************************************)
EXTENDS HeapTable

CONSTANTS BlockSize,    \* SAMOS_HEAP_BLOCK_SIZE
          Saddr,        \* heap->saddr, SAMOS_HEAP_START_ADDR
          WordSize,     \* 2^32: size_t and addresses are taken modulo this
          Garbage       \* what an entry may hold before kheap_init runs

ASSUME HeapAssumption ==
  /\ BlockSize \in Nat \ {0}
  /\ Saddr \in Nat \ {0}
  /\ WordSize \in Nat
  /\ Saddr % BlockSize = 0
  /\ WordSize % BlockSize = 0
  /\ Saddr + Total * BlockSize <= WordSize
  /\ Garbage \subseteq SUBSET Flags /\ Garbage # {}

VARIABLES
  entries,      \* heap->h_table->entries
  ready,        \* kheap_init has returned
  call,         \* history: the last call and its argument
  ret           \* what it returned; NULL for a kfree

vars == <<entries, ready, call, ret>>

Words == 0 .. WordSize-1
NULL  == 0

-----------------------------------------------------------------------------
(* heap_align_value_to_upper, in size_t arithmetic: a size in the last     *)
(* block of the address space wraps to 0.                                  *)
heap_align_value_to_upper(val) ==
  IF val % BlockSize = 0
  THEN val
  ELSE (val - (val % BlockSize) + BlockSize) % WordSize

total_blocks(size) == heap_align_value_to_upper(size) \div BlockSize

ScalesByWord(block) ==                         \* mutant: saddr is a uint32_t*
  Saddr + 4 * block * BlockSize

heap_block_to_address(block) == Saddr + block * BlockSize

RefusesFirst(ptr) ==                           \* mutant: <= for < in the first test
  /\ ptr > Saddr
  /\ ptr % BlockSize = 0
  /\ (ptr - Saddr) \div BlockSize < Total
  /\ IS_FIRST \in entries[(ptr - Saddr) \div BlockSize]

(* The checks heap_free makes before it touches the table.                 *)
heap_free_accepts(ptr) ==
  /\ ptr # NULL
  /\ ptr >= Saddr
  /\ ptr % BlockSize = 0
  /\ (ptr - Saddr) \div BlockSize < Total
  /\ IS_FIRST \in entries[(ptr - Saddr) \div BlockSize]

-----------------------------------------------------------------------------
(* heap_create clears the table; the memory at SAMOS_HEAP_TABLE_ADDR holds *)
(* whatever the boot stage left there until then.                          *)
SkipsMemset ==                                 \* mutant: the table is not cleared
  /\ ~ready
  /\ ready' = TRUE
  /\ UNCHANGED <<entries, call, ret>>

kheap_init ==
  /\ ~ready
  /\ entries' = [i \in Blocks |-> FREE]
  /\ ready' = TRUE
  /\ UNCHANGED <<call, ret>>

kmalloc(size) ==
  /\ ready
  /\ \/ \E s \in Blocks :
          /\ size # 0
          /\ heap_get_start_block(entries, s, total_blocks(size))
          /\ entries' = heap_mark_blocks_taken(entries, s, total_blocks(size))
          /\ ret' = heap_block_to_address(s)
     \/ /\ size = 0 \/ \A s \in Blocks : ~Fits(entries, s, total_blocks(size))
        /\ ret' = NULL
        /\ UNCHANGED entries
  /\ call' = <<"kmalloc", size>>
  /\ UNCHANGED ready

kfree(ptr) ==
  /\ ready
  /\ entries' = IF heap_free_accepts(ptr)
                THEN FreeChain(entries, (ptr - Saddr) \div BlockSize)
                ELSE entries
  /\ call' = <<"kfree", ptr>>
  /\ ret' = NULL
  /\ UNCHANGED ready

Init ==
  /\ entries \in [Blocks -> Garbage]
  /\ ready = FALSE
  /\ call = <<"none">>
  /\ ret = NULL

Next ==
  \/ kheap_init
  \/ \E size \in Words : kmalloc(size)
  \/ \E ptr \in Words : kfree(ptr)

Spec == Init /\ [][Next]_vars

-----------------------------------------------------------------------------
(* Every variable has its type.                                            *)
TypeOK ==
  /\ entries \in Tables
  /\ ready \in BOOLEAN
  /\ call \in {<<"none">>} \cup {"kmalloc", "kfree"} \X Words
  /\ ret \in Words

(* The links of the table are consistent after any sequence of calls, as   *)
(* heap_free trusts them to be (LinksForward, LinksBack, FlagsOnlyIfTaken  *)
(* of HeapTable).                                                          *)
TableWellFormed == ready => WellFormed(entries)

(* The blocks of the allocation that starts at b, read off the table: the  *)
(* blocks a kfree of its address would release.                            *)
Owned(b) == IF ready /\ IS_FIRST \in entries[b] THEN Chain(entries, b) ELSE {}

(* No block belongs to two allocations, so no kfree releases a block of    *)
(* another caller.                                                         *)
RunsDisjoint ==
  \A a, b \in Blocks : a # b => Owned(a) \cap Owned(b) = {}

(* Every taken block belongs to an allocation: none is lost, unreachable   *)
(* by any kfree, after any sequence of calls.                              *)
NoOrphanBlocks ==
  ready => \A i \in Blocks : TAKEN \in entries[i] => \E b \in Blocks : i \in Owned(b)

-----------------------------------------------------------------------------
(* The table implements module Allocator: block b starts the allocation    *)
(* Owned(b).                                                               *)
ownedBar == [b \in Blocks |-> Owned(b)]

A == INSTANCE Allocator WITH Base <- Saddr, Addresses <- Words,
                             owned <- ownedBar, answer <- ret

(* Each kmalloc returns the address of a run that is long enough for the   *)
(* exact byte count and overlaps nothing, or fails when there is none;     *)
(* each kfree releases the whole allocation that starts at its argument    *)
(* and no other, or nothing when none starts there.                        *)
AllocatorSpec == A!Spec
=============================================================================
