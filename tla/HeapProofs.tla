----------------------------- MODULE HeapProofs -----------------------------
(***************************************************************************)
(* The kernel heap is correct for every number of blocks, block size and   *)
(* start address: the links of the block table stay consistent, every      *)
(* taken block belongs to exactly one allocation, and the table implements *)
(* module Allocator.                                                       *)
(*                                                                         *)
(* The first part is about tables alone: how heap_mark_blocks_taken and    *)
(* the loop of heap_free change the chains of a well-formed table.  The    *)
(* second part is one step of the argument per operation of module Heap.   *)
(* The last part is the search loop, module HeapScan.                      *)
(***************************************************************************)
EXTENDS Heap, HeapScan, TLAPS

(* Marking a free run keeps the links consistent: the entry in front of    *)
(* the run cannot claim it, the entry behind it cannot continue it.        *)
LEMMA MarkKeepsLinks ==
  ASSUME NEW e \in Tables, NEW s \in Blocks, NEW n \in Nat,
         WellFormed(e), Fits(e, s, n)
  PROVE  /\ heap_mark_blocks_taken(e, s, n) \in Tables
         /\ WellFormed(heap_mark_blocks_taken(e, s, n))
<1> DEFINE f == heap_mark_blocks_taken(e, s, n)
<1> USE TotalAssumption DEF Blocks, Tables, Flags, TAKEN, HAS_NEXT, IS_FIRST, FREE
<1>1. f \in Tables
  BY DEF heap_mark_blocks_taken
<1>2. LinksForward(f)
  BY DEF heap_mark_blocks_taken, WellFormed, LinksForward, Fits
<1>3. LinksBack(f)
  <2> SUFFICES ASSUME NEW i \in Blocks, TAKEN \in f[i], IS_FIRST \notin f[i]
               PROVE  i-1 \in Blocks /\ HAS_NEXT \in f[i-1]
    BY DEF LinksBack
  <2>1. CASE i \in s .. s+n-1
    BY <2>1 DEF heap_mark_blocks_taken, Fits
  <2>2. CASE i \notin s .. s+n-1
    <3>1. i-1 \in Blocks /\ HAS_NEXT \in e[i-1]
      BY <2>2 DEF heap_mark_blocks_taken, WellFormed, LinksBack
    <3>2. i-1 \notin s .. s+n-1
      BY <3>1 DEF WellFormed, FlagsOnlyIfTaken, Fits
    <3>3. QED
      BY <3>1, <3>2 DEF heap_mark_blocks_taken
  <2>3. QED
    BY <2>1, <2>2
<1>4. FlagsOnlyIfTaken(f)
  BY DEF heap_mark_blocks_taken, WellFormed, FlagsOnlyIfTaken
<1>5. QED
  BY <1>1, <1>2, <1>3, <1>4 DEF WellFormed

(* Freeing the chain of a first block keeps the links consistent: no entry *)
(* outside the chain points into it, and none inside points out of it.     *)
LEMMA FreeKeepsLinks ==
  ASSUME NEW e \in Tables, NEW b \in Blocks,
         WellFormed(e), IS_FIRST \in e[b]
  PROVE  FreeChain(e, b) \in Tables /\ WellFormed(FreeChain(e, b))
<1> DEFINE f == FreeChain(e, b)
<1> USE TotalAssumption DEF Blocks, Tables, Flags, TAKEN, HAS_NEXT, IS_FIRST, FREE
<1>1. f \in Tables
  BY DEF FreeChain
<1>2. LinksForward(f)
  <2> SUFFICES ASSUME NEW i \in Blocks, HAS_NEXT \in f[i]
               PROVE  /\ i+1 \in Blocks
                      /\ TAKEN \in f[i+1]
                      /\ IS_FIRST \notin f[i+1]
    BY DEF LinksForward
  <2>1. i \notin Chain(e, b) /\ f[i] = e[i]
    BY DEF FreeChain
  <2>2. i+1 \in Blocks /\ TAKEN \in e[i+1] /\ IS_FIRST \notin e[i+1]
    BY <2>1 DEF WellFormed, LinksForward
  <2>3. i+1 \notin Chain(e, b)
    BY <2>1, <2>2 DEF Chain
  <2>4. QED
    BY <2>2, <2>3 DEF FreeChain
<1>3. LinksBack(f)
  <2> SUFFICES ASSUME NEW i \in Blocks, TAKEN \in f[i], IS_FIRST \notin f[i]
               PROVE  i-1 \in Blocks /\ HAS_NEXT \in f[i-1]
    BY DEF LinksBack
  <2>1. i \notin Chain(e, b) /\ f[i] = e[i]
    BY DEF FreeChain
  <2>2. i-1 \in Blocks /\ HAS_NEXT \in e[i-1]
    BY <2>1 DEF WellFormed, LinksBack
  <2>3. i-1 \notin Chain(e, b)
    BY <2>1, <2>2 DEF Chain
  <2>4. QED
    BY <2>2, <2>3 DEF FreeChain
<1>4. FlagsOnlyIfTaken(f)
  BY DEF FreeChain, WellFormed, FlagsOnlyIfTaken
<1>5. QED
  BY <1>1, <1>2, <1>3, <1>4 DEF WellFormed

(* Every block of the chain of a first block is taken.                     *)
LEMMA ChainIsTaken ==
  ASSUME NEW e \in Tables, NEW b \in Blocks, NEW x \in Chain(e, b),
         WellFormed(e), IS_FIRST \in e[b]
  PROVE  x \in Blocks /\ x >= b /\ TAKEN \in e[x]
<1> USE TotalAssumption DEF Blocks, Chain
<1>1. CASE x = b
  BY <1>1 DEF WellFormed, FlagsOnlyIfTaken, FREE
<1>2. CASE x # b
  <2>1. x-1 \in Blocks /\ HAS_NEXT \in e[x-1]
    BY <1>2
  <2>2. QED
    BY <2>1 DEF WellFormed, LinksForward
<1>3. QED
  BY <1>1, <1>2

(* Two first blocks have disjoint chains: the entry in front of the second *)
(* one would have to claim it.                                             *)
LEMMA ChainsDisjoint ==
  ASSUME NEW e \in Tables, NEW a \in Blocks, NEW b \in Blocks, a # b,
         WellFormed(e), IS_FIRST \in e[a], IS_FIRST \in e[b]
  PROVE  Chain(e, a) \cap Chain(e, b) = {}
<1> USE TotalAssumption DEF Blocks, Chain, WellFormed, LinksForward
<1>1. ASSUME NEW c \in Blocks, NEW d \in Blocks, c < d,
             IS_FIRST \in e[d],
             NEW x \in Chain(e, c), x \in Chain(e, d)
      PROVE  FALSE
  <2>1. d-1 \in c .. x-1 /\ d-1 \in Blocks
    BY <1>1
  <2>2. HAS_NEXT \in e[d-1]
    BY <2>1
  <2>3. QED
    BY <1>1, <2>1, <2>2
<1>2. CASE a < b
  BY <1>1, <1>2
<1>3. CASE b < a
  BY <1>1, <1>3
<1>4. QED
  BY <1>2, <1>3

(* After a run is marked its first block owns exactly the run, and every   *)
(* allocation that was there before owns what it owned.                    *)
LEMMA ChainOfMarkedRun ==
  ASSUME NEW e \in Tables, NEW s \in Blocks, NEW n \in Nat, Fits(e, s, n)
  PROVE  Chain(heap_mark_blocks_taken(e, s, n), s) = s .. s+n-1
<1> DEFINE f == heap_mark_blocks_taken(e, s, n)
<1> USE TotalAssumption DEF Blocks, Fits
<1>1. \A k \in Blocks : k \in s .. s+n-2 => HAS_NEXT \in f[k]
  BY DEF heap_mark_blocks_taken, TAKEN, HAS_NEXT, IS_FIRST
<1>2. s+n-1 \in Blocks /\ HAS_NEXT \notin f[s+n-1]
  BY DEF heap_mark_blocks_taken, TAKEN, HAS_NEXT, IS_FIRST
<1>3. ASSUME NEW x \in s .. s+n-1 PROVE x \in Chain(f, s)
  BY <1>1 DEF Chain
<1>4. ASSUME NEW x \in Chain(f, s) PROVE x \in s .. s+n-1
  BY <1>2 DEF Chain
<1>5. QED
  BY <1>3, <1>4

LEMMA ChainBesideMarkedRun ==
  ASSUME NEW e \in Tables, NEW s \in Blocks, NEW n \in Nat,
         WellFormed(e), Fits(e, s, n),
         NEW b \in Blocks, b # s
  PROVE  LET f == heap_mark_blocks_taken(e, s, n) IN
         /\ IS_FIRST \in f[b] <=> IS_FIRST \in e[b]
         /\ IS_FIRST \in e[b] => Chain(f, b) = Chain(e, b)
<1> DEFINE f == heap_mark_blocks_taken(e, s, n)
<1> USE TotalAssumption DEF Blocks
<1>1. \A k \in Blocks : k \notin s .. s+n-1 => f[k] = e[k]
  BY DEF heap_mark_blocks_taken
<1>2. \A k \in s .. s+n-1 : k \in Blocks /\ e[k] = {}
  BY DEF WellFormed, FlagsOnlyIfTaken, Fits, FREE
<1>3. IS_FIRST \in f[b] <=> IS_FIRST \in e[b]
  <2>1. CASE b \in s .. s+n-1
    BY <1>2, <2>1 DEF heap_mark_blocks_taken, TAKEN, HAS_NEXT, IS_FIRST
  <2>2. CASE b \notin s .. s+n-1
    BY <1>1, <2>2
  <2>3. QED
    BY <2>1, <2>2
<1>4. ASSUME IS_FIRST \in e[b], NEW x \in Chain(e, b) PROVE x \in Chain(f, b)
  <2>1. ASSUME NEW k \in b .. x-1 PROVE k \in Blocks /\ HAS_NEXT \in f[k]
    BY <1>1, <1>2, <1>4 DEF Chain
  <2>2. QED
    BY <1>4, <2>1 DEF Chain
<1>5. ASSUME IS_FIRST \in e[b], NEW x \in Chain(f, b) PROVE x \in Chain(e, b)
  <2>1. b \notin s .. s+n-1
    BY <1>2, <1>5
  <2>2. CASE x < s \/ b > s
    BY <1>1, <1>5, <2>1, <2>2 DEF Chain
  <2>3. CASE b < s /\ x >= s
    <3>1. s-1 \in Blocks /\ s-1 \in b .. x-1 /\ f[s-1] = e[s-1]
      BY <1>1, <2>3 DEF Chain
    <3>2. HAS_NEXT \in e[s-1]
      BY <1>5, <3>1 DEF Chain
    <3>3. TAKEN \in e[s]
      BY <3>1, <3>2 DEF WellFormed, LinksForward
    <3>4. QED
      BY <3>3 DEF Fits
  <2>4. QED
    BY <2>1, <2>2, <2>3 DEF Chain
<1>6. QED
  BY <1>3, <1>4, <1>5

(* Freeing a chain leaves every other allocation with the blocks it had.   *)
LEMMA ChainBesideFreedChain ==
  ASSUME NEW e \in Tables, NEW a \in Blocks, NEW b \in Blocks, a # b,
         WellFormed(e), IS_FIRST \in e[a]
  PROVE  LET f == FreeChain(e, a) IN
         /\ IS_FIRST \in f[b] <=> IS_FIRST \in e[b]
         /\ IS_FIRST \in e[b] => Chain(f, b) = Chain(e, b)
<1> DEFINE f == FreeChain(e, a)
<1> USE TotalAssumption DEF Blocks
<1>1. \A k \in Blocks : k \notin Chain(e, a) => f[k] = e[k]
  BY DEF FreeChain
<1>2. \A k \in Chain(e, a) : k \in Blocks /\ f[k] = {}
  <2>1. \A k \in Chain(e, a) : k \in Blocks
    BY DEF Chain
  <2>2. QED
    BY <2>1 DEF FreeChain, FREE
<1>3. ASSUME IS_FIRST \in e[b] PROVE Chain(e, a) \cap Chain(e, b) = {}
  BY <1>3, ChainsDisjoint
<1>4. ASSUME IS_FIRST \in e[b]
      PROVE  b \in Chain(e, b)
  BY DEF Chain
<1>5. ASSUME IS_FIRST \in e[b], NEW x \in Chain(e, b) PROVE x \in Chain(f, b)
  <2>1. ASSUME NEW k \in b .. x-1 PROVE k \in Blocks /\ HAS_NEXT \in f[k]
    <3>1. k \in Chain(e, b) /\ HAS_NEXT \in e[k]
      BY <1>5 DEF Chain
    <3>2. QED
      BY <1>1, <1>3, <1>5, <3>1 DEF Chain
  <2>2. QED
    BY <1>5, <2>1 DEF Chain
<1>6. ASSUME IS_FIRST \in e[b], NEW x \in Chain(f, b) PROVE x \in Chain(e, b)
  <2>1. ASSUME NEW k \in b .. x-1 PROVE k \in Blocks /\ HAS_NEXT \in e[k]
    <3>1. k \in Blocks /\ HAS_NEXT \in f[k]
      BY <1>6 DEF Chain
    <3>2. QED
      BY <1>1, <1>2, <3>1
  <2>2. QED
    BY <1>6, <2>1 DEF Chain
<1>7. IS_FIRST \in f[b] <=> IS_FIRST \in e[b]
  BY <1>1, <1>2, <1>3, <1>4
<1>8. QED
  BY <1>5, <1>6, <1>7

-----------------------------------------------------------------------------
(* The inductive invariant: types, consistent links, no orphan block.      *)
IInv == TypeOK /\ TableWellFormed /\ NoOrphanBlocks

(* What a kmalloc that finds blocks does, and what every other call does   *)
(* to the table, once the arithmetic of addresses is out of the way.       *)
Marks(s, n) ==
  /\ Fits(entries, s, n)
  /\ entries' = heap_mark_blocks_taken(entries, s, n)
  /\ ready /\ ready'

Frees(b) ==
  /\ IS_FIRST \in entries[b]
  /\ entries' = FreeChain(entries, b)
  /\ ready /\ ready'

LEMMA MarksEffect ==
  ASSUME IInv, NEW s \in Blocks, NEW n \in Nat, Marks(s, n)
  PROVE  /\ entries' \in Tables /\ WellFormed(entries')
         /\ NoOrphanBlocks'
         /\ ownedBar' = [ownedBar EXCEPT ![s] = s .. s+n-1]
<1> DEFINE f == heap_mark_blocks_taken(entries, s, n)
<1> USE DEF IInv, TypeOK, TableWellFormed, Marks
<1>1. f \in Tables /\ WellFormed(f)
  BY MarkKeepsLinks
<1>2. Owned(s)' = s .. s+n-1
  <2>1. Chain(f, s) = s .. s+n-1
    BY ChainOfMarkedRun
  <2>2. IS_FIRST \in f[s]
    BY DEF heap_mark_blocks_taken, Fits, Blocks
  <2>3. QED
    BY <2>1, <2>2 DEF Owned
<1>3. ASSUME NEW b \in Blocks, b # s PROVE Owned(b)' = Owned(b)
  <2>1. /\ IS_FIRST \in f[b] <=> IS_FIRST \in entries[b]
        /\ IS_FIRST \in entries[b] => Chain(f, b) = Chain(entries, b)
    BY <1>3, ChainBesideMarkedRun
  <2>2. QED
    BY <2>1 DEF Owned
<1>4. NoOrphanBlocks'
  <2> SUFFICES ASSUME NEW i \in Blocks, TAKEN \in f[i]
               PROVE  \E b \in Blocks : i \in Owned(b)'
    BY DEF NoOrphanBlocks
  <2>1. CASE i \in s .. s+n-1
    BY <1>2, <2>1
  <2>2. CASE i \notin s .. s+n-1
    <3>1. TAKEN \in entries[i]
      BY <2>2 DEF heap_mark_blocks_taken
    <3>2. PICK b \in Blocks : i \in Owned(b)
      BY <3>1 DEF NoOrphanBlocks
    <3>3. TAKEN \notin entries[s]
      BY TotalAssumption DEF Fits, Blocks
    <3>4. Owned(s) = {}
      BY <3>3 DEF Owned, WellFormed, FlagsOnlyIfTaken, FREE
    <3>5. b # s
      BY <3>2, <3>4
    <3>6. QED
      BY <1>3, <3>2, <3>5
  <2>3. QED
    BY <2>1, <2>2
<1>5. ownedBar' = [ownedBar EXCEPT ![s] = s .. s+n-1]
  BY <1>2, <1>3 DEF ownedBar
<1>6. QED
  BY <1>1, <1>4, <1>5

LEMMA FreesEffect ==
  ASSUME IInv, NEW a \in Blocks, Frees(a)
  PROVE  /\ entries' \in Tables /\ WellFormed(entries')
         /\ NoOrphanBlocks'
         /\ ownedBar' = [ownedBar EXCEPT ![a] = {}]
<1> DEFINE f == FreeChain(entries, a)
<1> USE DEF IInv, TypeOK, TableWellFormed, Frees
<1>1. f \in Tables /\ WellFormed(f)
  BY FreeKeepsLinks
<1>2. Owned(a)' = {}
  <2>1. a \in Chain(entries, a)
    BY TotalAssumption DEF Chain, Blocks
  <2>2. f[a] = {}
    BY <2>1 DEF FreeChain, FREE
  <2>3. QED
    BY <2>2 DEF Owned
<1>3. ASSUME NEW b \in Blocks, b # a PROVE Owned(b)' = Owned(b)
  <2>1. /\ IS_FIRST \in f[b] <=> IS_FIRST \in entries[b]
        /\ IS_FIRST \in entries[b] => Chain(f, b) = Chain(entries, b)
    BY <1>3, ChainBesideFreedChain
  <2>2. QED
    BY <2>1 DEF Owned
<1>4. NoOrphanBlocks'
  <2> SUFFICES ASSUME NEW i \in Blocks, TAKEN \in f[i]
               PROVE  \E b \in Blocks : i \in Owned(b)'
    BY DEF NoOrphanBlocks
  <2>1. i \notin Chain(entries, a) /\ TAKEN \in entries[i]
    BY DEF FreeChain, FREE
  <2>2. PICK b \in Blocks : i \in Owned(b)
    BY <2>1 DEF NoOrphanBlocks
  <2>3. b # a
    BY <2>1, <2>2 DEF Owned
  <2>4. QED
    BY <1>3, <2>2, <2>3
<1>5. ownedBar' = [ownedBar EXCEPT ![a] = {}]
  BY <1>2, <1>3 DEF ownedBar
<1>6. QED
  BY <1>1, <1>4, <1>5

-----------------------------------------------------------------------------
(* Division by the block size, for every block size.                       *)
LEMMA DivMod ==
  ASSUME NEW a \in Nat, NEW B \in Nat \ {0}
  PROVE  /\ a \div B \in Nat /\ a % B \in 0 .. B-1
         /\ a = B * (a \div B) + (a % B)
OBVIOUS

LEMMA LessTimes ==
  ASSUME NEW a \in Int, NEW b \in Int, NEW B \in Nat \ {0}
  PROVE  a * B < b * B <=> a < b
<1>1. ASSUME a < b PROVE a * B < b * B
  <2>1. (b - a) * B >= B
    BY <1>1
  <2>2. QED
    BY <2>1
<1>2. ASSUME b <= a PROVE b * B <= a * B
  <2>1. (a - b) * B >= 0
    BY <1>2
  <2>2. QED
    BY <2>1
<1>3. QED
  BY <1>1, <1>2

LEMMA TimesDiv ==
  ASSUME NEW q \in Nat, NEW B \in Nat \ {0}
  PROVE  (q * B) \div B = q /\ (q * B) % B = 0
<1>1. q * B \in Nat
  OBVIOUS
<1> DEFINE d == (q * B) \div B
<1>2. d \in Nat /\ q * B = B * d + ((q * B) % B) /\ (q * B) % B \in 0 .. B-1
  BY <1>1, DivMod
<1>3. d * B <= q * B /\ q * B < (d + 1) * B
  BY <1>2
<1>4. d = q
  BY <1>2, <1>3, LessTimes
<1>5. QED
  BY <1>2, <1>4

\* Differences of multiples of B are multiples of B, and so are sums.
LEMMA MultiplesDiffer ==
  ASSUME NEW x \in Nat, NEW y \in Nat, NEW B \in Nat \ {0},
         x % B = 0, y % B = 0, x <= y
  PROVE  y - x = ((y - x) \div B) * B
<1> DEFINE p == x \div B
           q == y \div B
<1>1. p \in Nat /\ q \in Nat /\ x = B * p /\ y = B * q
  BY DivMod
<1>2. p <= q
  BY <1>1, LessTimes
<1>3. q - p \in Nat /\ y - x = (q - p) * B
  BY <1>1, <1>2
<1>4. (y - x) \div B = q - p
  BY <1>3, TimesDiv
<1>5. QED
  BY <1>3, <1>4

LEMMA MultiplesAdd ==
  ASSUME NEW x \in Nat, NEW k \in Nat, NEW B \in Nat \ {0}, x % B = 0
  PROVE  (x + k * B) % B = 0
<1> DEFINE p == x \div B
<1>1. p \in Nat /\ x = B * p
  BY DivMod
<1>2. p + k \in Nat /\ x + k * B = (p + k) * B
  BY <1>1
<1>3. QED
  BY <1>2, TimesDiv

(* total_blocks is the exact number of blocks that size bytes need, or 0   *)
(* when rounding up wraps around; it then needs more blocks than there are *)
(* in front of the end of the address space.                               *)
LEMMA BlockCount ==
  ASSUME NEW size \in Words, size # 0
  PROVE  /\ total_blocks(size) \in Nat
         /\ total_blocks(size) # 0 => A!Needs(total_blocks(size), size)
         /\ \A m \in 1 .. Total : A!Needs(m, size) => m = total_blocks(size)
<1> DEFINE q == size \div BlockSize
           r == size % BlockSize
           w == WordSize \div BlockSize
           up == heap_align_value_to_upper(size)
<1> USE TotalAssumption, HeapAssumption
<1>1. size \in Nat /\ q \in Nat /\ r \in 0 .. BlockSize-1 /\ size = BlockSize * q + r
  <2>1. size \in Nat
    BY DEF Words
  <2>2. QED
    BY <2>1, DivMod
<1>2. w \in Nat /\ WordSize = w * BlockSize
  BY DivMod
<1>3. CASE r = 0
  <2>1. size = q * BlockSize /\ up = size
    BY <1>1, <1>3 DEF heap_align_value_to_upper
  <2>2. total_blocks(size) = q
    BY <2>1, <1>1, TimesDiv DEF total_blocks
  <2>3. ASSUME NEW m \in Nat
        PROVE  A!Needs(m, size) <=> m = q
    <3>1. A!Needs(m, size) <=> (m-1) * BlockSize < q * BlockSize /\ ~(m * BlockSize < q * BlockSize)
      BY <2>1, <1>1 DEF A!Needs
    <3>2. A!Needs(m, size) <=> m-1 < q /\ ~(m < q)
      BY <3>1, <1>1, LessTimes
    <3>3. QED
      BY <3>2, <1>1
  <2>4. QED
    BY <2>2, <2>3, <1>1
<1>4. CASE r # 0
  <2>1. size = q * BlockSize + r /\ size - r + BlockSize = (q+1) * BlockSize
    BY <1>1
  <2>2. ASSUME NEW m \in Nat
        PROVE  A!Needs(m, size) <=> m = q+1
    <3>1. m-1 <= q => (m-1) * BlockSize < size
      <4>1. m-1 <= q => (m-1) * BlockSize <= q * BlockSize
        BY <1>1, LessTimes
      <4>2. QED
        BY <4>1, <2>1, <1>1, <1>4
    <3>2. m-1 > q => ~((m-1) * BlockSize < size)
      <4>1. m-1 > q => (q+1) * BlockSize <= (m-1) * BlockSize
        BY <1>1, LessTimes
      <4>2. QED
        BY <4>1, <2>1, <1>1
    <3>3. m <= q => ~(size <= m * BlockSize)
      <4>1. m <= q => m * BlockSize <= q * BlockSize
        BY <1>1, LessTimes
      <4>2. QED
        BY <4>1, <2>1, <1>1, <1>4
    <3>4. m > q => size <= m * BlockSize
      <4>1. m > q => (q+1) * BlockSize <= m * BlockSize
        BY <1>1, LessTimes
      <4>2. QED
        BY <4>1, <2>1, <1>1
    <3>5. QED
      BY <3>1, <3>2, <3>3, <3>4, <1>1 DEF A!Needs
  <2>3. q < w
    <3>1. q * BlockSize < w * BlockSize
      BY <1>1, <1>2, <2>1 DEF Words
    <3>2. QED
      BY <3>1, <1>1, <1>2, LessTimes
  <2>4. CASE q+1 = w
    <3>1. up = WordSize % WordSize
      BY <2>1, <2>4, <1>1, <1>2, <1>4 DEF heap_align_value_to_upper
    <3>2. up = 0
      <4>1. WordSize \in Nat \ {0}
        BY DEF Words
      <4>2. (1 * WordSize) % WordSize = 0
        BY <4>1, TimesDiv
      <4>3. QED
        BY <3>1, <4>1, <4>2
    <3>3. total_blocks(size) = 0
      <4>1. (0 * BlockSize) \div BlockSize = 0
        BY TimesDiv
      <4>2. QED
        BY <3>2, <4>1 DEF total_blocks
    <3>4. Total < w
      <4>1. Total * BlockSize < w * BlockSize
        BY <1>2
      <4>2. QED
        BY <4>1, <1>2, LessTimes
    <3>5. QED
      BY <2>2, <2>4, <3>3, <3>4
  <2>5. CASE q+1 < w
    <3>1. (q+1) * BlockSize < WordSize /\ (q+1) * BlockSize \in Nat
      BY <2>5, <1>1, <1>2, LessTimes
    <3>2. up = (q+1) * BlockSize
      BY <2>1, <3>1, <1>1, <1>4 DEF heap_align_value_to_upper
    <3>3. total_blocks(size) = q+1
      BY <3>2, <1>1, TimesDiv DEF total_blocks
    <3>4. QED
      BY <2>2, <3>3, <1>1
  <2>6. QED
    BY <2>3, <2>4, <2>5, <1>1, <1>2
<1>5. QED
  BY <1>3, <1>4

(* The address of a block is a word other than NULL that names the block.  *)
LEMMA BlockAddress ==
  ASSUME NEW s \in Blocks
  PROVE  /\ heap_block_to_address(s) \in Words \ {NULL}
         /\ (heap_block_to_address(s) - Saddr) \div BlockSize = s
<1> USE TotalAssumption, HeapAssumption DEF Blocks, Words, NULL, heap_block_to_address
<1>1. s * BlockSize < Total * BlockSize /\ s * BlockSize \in Nat
  BY LessTimes
<1>2. (s * BlockSize) \div BlockSize = s
  BY TimesDiv
<1>3. QED
  BY <1>1, <1>2

-----------------------------------------------------------------------------
(* kmalloc either marks a run of total_blocks(size) blocks, or finds none. *)
LEMMA MallocCases ==
  ASSUME IInv, NEW size \in Words, kmalloc(size)
  PROVE  \/ \E s \in Blocks : /\ Marks(s, total_blocks(size))
                              /\ size # 0
                              /\ ret' = heap_block_to_address(s)
         \/ /\ size = 0 \/ \A s \in Blocks : ~Fits(entries, s, total_blocks(size))
            /\ ret' = NULL
            /\ UNCHANGED <<entries, ready>>
BY DEF kmalloc, heap_get_start_block, Marks

(* An accepted address is that of the block whose run is freed.            *)
LEMMA AcceptedBlock ==
  ASSUME IInv, NEW ptr \in Words, kfree(ptr), heap_free_accepts(ptr),
         NEW s, s = (ptr - Saddr) \div BlockSize
  PROVE  s \in Blocks /\ Frees(s) /\ ptr = Saddr + s * BlockSize
<1> USE HeapAssumption, TotalAssumption
<1>1. /\ ptr \in Nat /\ Saddr \in Nat /\ Saddr <= ptr /\ ptr - Saddr \in Nat
      /\ ptr % BlockSize = 0 /\ Saddr % BlockSize = 0 /\ BlockSize \in Nat \ {0}
  BY DEF heap_free_accepts, Words
<1>2. s \in Nat
  BY <1>1, DivMod
<1>3. s \in Blocks
  BY <1>2 DEF heap_free_accepts, Blocks
<1>4. Frees(s)
  BY DEF kfree, heap_free_accepts, Frees
<1>5. ptr - Saddr = s * BlockSize
  BY <1>1, MultiplesDiffer
<1>6. ptr = Saddr + s * BlockSize
  <2>1. s * BlockSize \in Nat
    BY <1>1, <1>2
  <2>2. QED
    BY <1>1, <1>5, <2>1
<1>7. QED
  BY <1>3, <1>4, <1>6

(* kfree either frees the allocation that starts at the address, or does   *)
(* nothing.                                                                *)
LEMMA FreeCases ==
  ASSUME IInv, NEW ptr \in Words, kfree(ptr)
  PROVE  \/ \E b \in Blocks : Frees(b)
         \/ UNCHANGED <<entries, ready>>
<1>1. CASE heap_free_accepts(ptr)
  BY <1>1, AcceptedBlock
<1>2. CASE ~heap_free_accepts(ptr)
  BY <1>2 DEF kfree
<1>3. QED
  BY <1>1, <1>2

LEMMA HeapInit == Init => IInv
<1> USE HeapAssumption, TotalAssumption
<1>1. Init => TypeOK
  <2>1. Total * BlockSize \in Nat
    OBVIOUS
  <2>2. NULL \in Words
    BY <2>1 DEF NULL, Words
  <2>3. QED
    BY <2>2 DEF Init, TypeOK, Tables
<1>2. QED
  BY <1>1 DEF Init, IInv, TableWellFormed, NoOrphanBlocks

LEMMA HeapStep == IInv /\ [Next]_vars => IInv'
<1> SUFFICES ASSUME IInv, [Next]_vars PROVE IInv'
  OBVIOUS
<1> USE HeapAssumption, TotalAssumption
<1>1. CASE kheap_init
  BY <1>1 DEF kheap_init, IInv, TypeOK, Tables, TableWellFormed, WellFormed,
              LinksForward, LinksBack, FlagsOnlyIfTaken, NoOrphanBlocks, FREE
<1>2. ASSUME NEW size \in Words, kmalloc(size) PROVE IInv'
  <2>1. call' \in {"kmalloc", "kfree"} \X Words /\ ready' = ready
    BY <1>2 DEF kmalloc
  <2>2. ASSUME NEW s \in Blocks, Marks(s, total_blocks(size)), size # 0,
               ret' = heap_block_to_address(s)
        PROVE  IInv'
    <3>1. total_blocks(size) \in Nat
      BY <2>2, BlockCount
    <3>2. entries' \in Tables /\ WellFormed(entries') /\ NoOrphanBlocks'
      BY <2>2, <3>1, MarksEffect
    <3>3. ret' \in Words
      BY <2>2, BlockAddress
    <3>4. QED
      BY <2>1, <3>2, <3>3 DEF IInv, TypeOK, TableWellFormed
  <2>3. CASE ret' = NULL /\ UNCHANGED <<entries, ready>>
    BY <2>1, <2>3 DEF IInv, TypeOK, TableWellFormed, NoOrphanBlocks, Owned, NULL, Words
  <2>4. QED
    BY <1>2, <2>2, <2>3, MallocCases
<1>3. ASSUME NEW ptr \in Words, kfree(ptr) PROVE IInv'
  <2>1. call' \in {"kmalloc", "kfree"} \X Words /\ ret' = NULL /\ ready' = ready
    BY <1>3 DEF kfree
  <2>2. NULL \in Words
    BY <1>3 DEF NULL, Words
  <2>3. ASSUME NEW b \in Blocks, Frees(b) PROVE IInv'
    <3>1. entries' \in Tables /\ WellFormed(entries') /\ NoOrphanBlocks'
      BY <2>3, FreesEffect
    <3>2. QED
      BY <2>1, <2>2, <3>1 DEF IInv, TypeOK, TableWellFormed
  <2>4. CASE UNCHANGED <<entries, ready>>
    BY <2>1, <2>2, <2>4 DEF IInv, TypeOK, TableWellFormed, NoOrphanBlocks, Owned
  <2>5. QED
    BY <1>3, <2>3, <2>4, FreeCases
<1>4. CASE UNCHANGED vars
  BY <1>4 DEF vars, IInv, TypeOK, TableWellFormed, NoOrphanBlocks, Owned
<1>5. QED
  BY <1>1, <1>2, <1>3, <1>4 DEF Next

LEMMA HeapInvariant == Spec => []IInv
BY HeapInit, HeapStep, PTL DEF Spec

(* The variables have their types after any sequence of calls.             *)
THEOREM HeapTypeCorrect == Spec => []TypeOK
<1>1. IInv => TypeOK
  BY DEF IInv
<1>2. QED
  BY HeapInvariant, <1>1, PTL

(* The links that heap_free trusts are consistent after any sequence of    *)
(* kmalloc and kfree calls, whatever addresses kfree is given.             *)
THEOREM HeapTableWellFormed == Spec => []TableWellFormed
<1>1. IInv => TableWellFormed
  BY DEF IInv
<1>2. QED
  BY HeapInvariant, <1>1, PTL

(* No taken block is out of reach of every kfree.                          *)
THEOREM HeapNoOrphanBlocks == Spec => []NoOrphanBlocks
<1>1. IInv => NoOrphanBlocks
  BY DEF IInv
<1>2. QED
  BY HeapInvariant, <1>1, PTL

(* No block is handed to two callers at once.                              *)
THEOREM HeapRunsDisjoint == Spec => []RunsDisjoint
<1>1. IInv => RunsDisjoint
  <2> SUFFICES ASSUME IInv, NEW a \in Blocks, NEW b \in Blocks, a # b
               PROVE  Owned(a) \cap Owned(b) = {}
    BY DEF RunsDisjoint
  <2>1. CASE ready /\ IS_FIRST \in entries[a] /\ IS_FIRST \in entries[b]
    BY <2>1, ChainsDisjoint DEF IInv, TypeOK, TableWellFormed, Owned
  <2>2. CASE ~(ready /\ IS_FIRST \in entries[a] /\ IS_FIRST \in entries[b])
    BY <2>2 DEF Owned
  <2>3. QED
    BY <2>1, <2>2
<1>2. QED
  BY HeapInvariant, <1>1, PTL

-----------------------------------------------------------------------------
(* The step that lets a refused request be blamed on the table: where the  *)
(* table has no fit, some block of the run is owned.                       *)
LEMMA NoFitNoRoom ==
  ASSUME IInv, ready, NEW s \in Blocks, NEW n \in Nat \ {0}, ~Fits(entries, s, n)
  PROVE  ~A!Room(s, n)
<1> SUFFICES ASSUME s + n <= Total
             PROVE  \E i \in s .. s+n-1 : ~A!Free(i)
  BY DEF A!Room
<1>1. PICK i \in s .. s+n-1 : TAKEN \in entries[i]
  BY DEF Fits
<1>2. i \in Blocks
  BY TotalAssumption DEF Blocks
<1>3. PICK b \in Blocks : i \in Owned(b)
  BY <1>1, <1>2 DEF IInv, NoOrphanBlocks
<1>4. QED
  BY <1>3 DEF A!Free, A!Blocks, Blocks, ownedBar

LEMMA FitIsRoom ==
  ASSUME IInv, NEW s \in Blocks, NEW n \in Nat, Fits(entries, s, n)
  PROVE  A!Room(s, n)
<1> SUFFICES ASSUME NEW i \in s .. s+n-1, NEW b \in Blocks, i \in Owned(b)
             PROVE  FALSE
  BY DEF A!Room, A!Free, A!Blocks, Blocks, Fits, ownedBar
<1>1. TAKEN \in entries[i]
  BY ChainIsTaken DEF Owned, IInv, TypeOK, TableWellFormed
<1>2. QED
  BY <1>1 DEF Fits

LEMMA MallocRefines ==
  ASSUME IInv, NEW size \in Words, kmalloc(size)
  PROVE  A!Grant(size) \/ A!Refuse(size)
<1> USE HeapAssumption, TotalAssumption
<1>1. call' = <<"kmalloc", size>> /\ ready
  BY DEF kmalloc
<1>2. ASSUME NEW s \in Blocks, Marks(s, total_blocks(size)), size # 0,
             ret' = heap_block_to_address(s)
      PROVE  A!Grant(size)
  <2> DEFINE n == total_blocks(size)
  <2>1. n \in 1 .. Total /\ Fits(entries, s, n)
    BY <1>2, BlockCount DEF Marks, Fits, Blocks
  <2>2. A!Needs(n, size)
    BY <1>2, <2>1, BlockCount
  <2>3. A!Room(s, n)
    BY <2>1, FitIsRoom
  <2>4. ownedBar' = [ownedBar EXCEPT ![s] = s .. s+n-1]
    BY <1>2, <2>1, MarksEffect
  <2>5. ret' = A!Address(s)
    BY <1>2 DEF A!Address, heap_block_to_address
  <2>6. size > 0 /\ s \in A!Blocks
    BY <1>2 DEF Words, Blocks, A!Blocks
  <2>7. QED
    BY <1>1, <2>1, <2>2, <2>3, <2>4, <2>5, <2>6 DEF A!Grant
<1>3. ASSUME size = 0 \/ \A s \in Blocks : ~Fits(entries, s, total_blocks(size)),
             ret' = NULL, UNCHANGED <<entries, ready>>
      PROVE  A!Refuse(size)
  <2>1. UNCHANGED ownedBar /\ ret' = A!Refused
    BY <1>3 DEF ownedBar, Owned, NULL, A!Refused
  <2>2. ASSUME NEW s \in Blocks, NEW m \in 1 .. Total, A!Needs(m, size)
        PROVE  ~A!Room(s, m)
    <3>1. CASE size = 0
      <4>1. (m-1) * BlockSize >= 0
        OBVIOUS
      <4>2. QED
        BY <2>2, <3>1, <4>1 DEF A!Needs
    <3>2. CASE size # 0
      <4>1. m = total_blocks(size)
        BY <2>2, <3>2, BlockCount
      <4>2. QED
        BY <1>1, <1>3, <3>2, <4>1, NoFitNoRoom
    <3>3. QED
      BY <3>1, <3>2
  <2>3. QED
    BY <1>1, <2>1, <2>2 DEF A!Refuse, A!Blocks, Blocks
<1>4. QED
  BY <1>2, <1>3, MallocCases

(* The address of a block is accepted when it starts an allocation; any    *)
(* other word is the address of no block, or of one that owns nothing.     *)
LEMMA FreeRefines ==
  ASSUME IInv, NEW ptr \in Words, kfree(ptr)
  PROVE  A!Release(ptr)
<1> USE HeapAssumption, TotalAssumption
<1>1. call' = <<"kfree", ptr>> /\ ret' = A!Refused
  BY DEF kfree, NULL, A!Refused
<1>2. CASE heap_free_accepts(ptr)
  <2> DEFINE s == (ptr - Saddr) \div BlockSize
  <2>1. s \in Blocks /\ Frees(s)
    BY <1>2, AcceptedBlock
  <2>2. ptr = A!Address(s)
    BY <1>2, AcceptedBlock DEF A!Address
  <2>3. \A b \in Blocks : ptr = A!Address(b) => b = s
    BY BlockAddress DEF A!Address, heap_block_to_address
  <2>4. ownedBar' = [b \in Blocks |-> IF ptr = A!Address(b) THEN {} ELSE ownedBar[b]]
    <3> HIDE DEF s
    <3>1. ownedBar' = [ownedBar EXCEPT ![s] = {}]
      BY <2>1, FreesEffect
    <3>2. ownedBar' = [b \in Blocks |-> IF b = s THEN {} ELSE ownedBar[b]]
      BY <2>1, <3>1 DEF ownedBar
    <3>3. QED
      BY <2>2, <2>3, <3>2
  <2>5. QED
    BY <1>1, <2>4 DEF A!Release, A!Blocks, Blocks
<1>3. CASE ~heap_free_accepts(ptr)
  <2>1. UNCHANGED <<entries, ready>>
    BY <1>3 DEF kfree
  <2>2. ASSUME NEW b \in Blocks, ptr = A!Address(b) PROVE ownedBar[b] = {}
    <3>1. /\ ptr = heap_block_to_address(b) /\ ptr # NULL
          /\ (ptr - Saddr) \div BlockSize = b
      BY <2>2, BlockAddress DEF A!Address, heap_block_to_address
    <3>2. ptr >= Saddr /\ ptr % BlockSize = 0
      <4>1. b \in Nat /\ b * BlockSize \in Nat /\ ptr = Saddr + b * BlockSize
        BY <2>2 DEF A!Address, Blocks
      <4>2. (Saddr + b * BlockSize) % BlockSize = 0
        BY <4>1, MultiplesAdd
      <4>3. QED
        BY <4>1, <4>2
    <3>3. IS_FIRST \notin entries[b]
      BY <1>3, <3>1, <3>2 DEF heap_free_accepts, Blocks
    <3>4. QED
      BY <3>3 DEF ownedBar, Owned
  <2>3. ownedBar' = ownedBar
    BY <2>1 DEF ownedBar, Owned
  <2>4. ownedBar = [b \in Blocks |-> IF ptr = A!Address(b) THEN {} ELSE ownedBar[b]]
    BY <2>2 DEF ownedBar
  <2>5. QED
    BY <1>1, <2>3, <2>4 DEF A!Release, A!Blocks, Blocks
<1>4. QED
  BY <1>2, <1>3

(* The block table implements the allocator of module Allocator: exact     *)
(* block counts although size_t wraps, no overlap, no spurious failure,    *)
(* and a kfree that releases the whole allocation at its argument and      *)
(* leaves every other one alone.                                           *)
THEOREM HeapImplementsAllocator == Spec => AllocatorSpec
<1>1. Init => A!Init
  BY DEF Init, A!Init, ownedBar, Owned, NULL, A!Refused, A!Blocks, Blocks
<1>2. IInv /\ [Next]_vars => [A!Next]_A!avars
  <2> SUFFICES ASSUME IInv, [Next]_vars PROVE [A!Next]_A!avars
    OBVIOUS
  <2>1. CASE kheap_init
    BY <2>1 DEF kheap_init, A!avars, ownedBar, Owned, FREE
  <2>2. ASSUME NEW size \in Words, kmalloc(size) PROVE A!Next
    BY <2>2, MallocRefines DEF A!Next
  <2>3. ASSUME NEW ptr \in Words, kfree(ptr) PROVE A!Next
    BY <2>3, FreeRefines DEF A!Next
  <2>4. CASE UNCHANGED vars
    BY <2>4 DEF vars, A!avars, ownedBar, Owned
  <2>5. QED
    BY <2>1, <2>2, <2>3, <2>4 DEF Next
<1>3. QED
  BY HeapInvariant, <1>1, <1>2, PTL DEF Spec, AllocatorSpec, A!Spec
-----------------------------------------------------------------------------
(***************************************************************************)
(* The search loop of heap_get_start_block (module HeapScan) is correct    *)
(* for every table length, every table and every block count.  LoopInv is  *)
(* inductive with ScanTypeOK and says all that AnswersFirstFit needs when  *)
(* the loop is left.                                                       *)
(***************************************************************************)
ScanIInv == ScanTypeOK /\ LoopInv /\ AnswersFirstFit

LEMMA ScanInitially == ScanInit => ScanIInv
<1> SUFFICES ASSUME ScanInit PROVE ScanIInv
  OBVIOUS
<1> USE TotalAssumption, MaxBlocksAssumption DEF ScanInit
<1>1. ScanTypeOK
  BY DEF ScanTypeOK, ENOMEM
<1>2. LoopInv
  BY DEF LoopInv, Window, Short
<1>3. AnswersFirstFit
  BY DEF AnswersFirstFit
<1>4. QED
  BY <1>1, <1>2, <1>3 DEF ScanIInv

(* A step of the loop keeps the types.  The only step that needs LoopInv   *)
(* is Return, which hands out the start of the window.                     *)
LEMMA ScanTypeStep == ScanIInv /\ [ScanNext]_svars => ScanTypeOK'
<1> SUFFICES ASSUME ScanIInv, [ScanNext]_svars PROVE ScanTypeOK'
  OBVIOUS
<1> USE TotalAssumption DEF ScanIInv, ScanTypeOK
<1>1. CASE TakenEntry
  BY <1>1 DEF TakenEntry
<1>2. CASE FreeEntry
  <2>1. bc + 1 \in 0 .. Total
    BY <1>2 DEF FreeEntry, LoopInv, Window
  <2>2. QED
    BY <1>2, <2>1 DEF FreeEntry
<1>3. CASE EndOfTable
  BY <1>3 DEF EndOfTable
<1>4. CASE Return
  BY <1>4 DEF Return, ENOMEM
<1>5. CASE UNCHANGED svars
  BY <1>5 DEF svars
<1>6. QED
  BY <1>1, <1>2, <1>3, <1>4, <1>5 DEF ScanNext

(* The window after one more entry.  When the entry is taken, no run that  *)
(* reaches it fits, and a run that does not reach it is inside the old     *)
(* window, which is too short.                                             *)
LEMMA WindowAfterTaken ==
  ASSUME ScanIInv, TakenEntry PROVE Window(index)' /\ Short'
<1> USE TotalAssumption DEF ScanIInv, ScanTypeOK, TakenEntry
<1>1. Window(index) /\ Short
  BY DEF LoopInv
<1>2. ASSUME NEW t \in 0 .. index, Fits(scanned, t, wanted) PROVE FALSE
  <2>1. CASE t + wanted <= index
    <3>1. t \in 0 .. index-1
      BY <1>2, <2>1 DEF Fits
    <3>2. bs # -1 /\ t >= bs
      BY <1>1, <1>2, <3>1 DEF Window
    <3>3. QED
      BY <1>1, <1>2, <2>1, <3>2 DEF Window, Short, Fits
  <2>2. CASE t + wanted > index
    <3>1. index \in t .. t+wanted-1
      BY <2>2
    <3>2. QED
      BY <1>2, <3>1 DEF Fits
  <2>3. QED
    BY <2>1, <2>2
<1>3. QED
  BY <1>2 DEF Window, Short

(* A free entry extends the window or opens one at i.                      *)
LEMMA WindowAfterFree ==
  ASSUME ScanIInv, FreeEntry
  PROVE  /\ bs' # -1 /\ bs' <= index
         /\ bc' = index + 1 - bs'
         /\ \A k \in bs' .. index : TAKEN \notin scanned[k]
         /\ \A t \in 0 .. index : t < bs' => ~Fits(scanned, t, wanted)
<1> USE TotalAssumption DEF ScanIInv, ScanTypeOK, FreeEntry
<1>1. Window(index) /\ Short
  BY DEF LoopInv
<1>2. CASE bs = -1
  BY <1>1, <1>2 DEF Window
<1>3. CASE bs # -1
  BY <1>1, <1>3 DEF Window
<1>4. QED
  BY <1>2, <1>3

LEMMA ScanLoopStep == ScanIInv /\ [ScanNext]_svars => LoopInv'
<1> SUFFICES ASSUME ScanIInv, [ScanNext]_svars PROVE LoopInv'
  OBVIOUS
<1> USE TotalAssumption DEF ScanIInv, ScanTypeOK
<1>1. CASE TakenEntry
  <2>1. pc' = "loop" /\ index' = index + 1
    BY <1>1 DEF TakenEntry
  <2>2. Window(index)' /\ Short'
    BY <1>1, WindowAfterTaken
  <2>3. QED
    BY <2>1, <2>2 DEF LoopInv
<1>2. CASE FreeEntry
  <2>1. /\ bs' # -1 /\ bs' <= index
        /\ bc' = index + 1 - bs'
        /\ \A k \in bs' .. index : TAKEN \notin scanned[k]
        /\ \A t \in 0 .. index : t < bs' => ~Fits(scanned, t, wanted)
    BY <1>2, WindowAfterFree
  <2>2. scanned' = scanned /\ wanted' = wanted /\ bs' \in 0 .. Total-1 /\ bc' = bc + 1
    BY <1>2, <2>1 DEF FreeEntry
  <2>3. CASE bc' = wanted
    <3>1. pc' = "checks" /\ index' = index /\ index < Total
      BY <1>2, <2>3 DEF FreeEntry
    <3>2. Window(index + 1)'
      BY <2>1, <2>2, <3>1 DEF Window
    <3>3. QED
      BY <2>1, <2>2, <2>3, <3>1, <3>2 DEF LoopInv
  <2>4. CASE bc' # wanted
    <3>1. pc' = "loop" /\ index' = index + 1
      BY <1>2, <2>4 DEF FreeEntry
    <3>2. Window(index)'
      BY <2>1, <2>2, <3>1 DEF Window
    <3>3. Short'
      BY <1>2, <2>2, <2>4 DEF Short, LoopInv, FreeEntry
    <3>4. QED
      BY <3>1, <3>2, <3>3 DEF LoopInv
  <2>5. QED
    BY <2>3, <2>4
<1>3. CASE EndOfTable
  BY <1>3 DEF EndOfTable, LoopInv, Window, Short
<1>4. CASE Return
  BY <1>4 DEF Return, LoopInv
<1>5. CASE UNCHANGED svars
  BY <1>5 DEF svars, LoopInv, Window, Short
<1>6. QED
  BY <1>1, <1>2, <1>3, <1>4, <1>5 DEF ScanNext

(* When the search returns, the window it kept is the answer, or there is  *)
(* no window that is long enough.                                          *)
LEMMA ScanAnswerStep == ScanIInv /\ [ScanNext]_svars => AnswersFirstFit'
<1> SUFFICES ASSUME ScanIInv, [ScanNext]_svars PROVE AnswersFirstFit'
  OBVIOUS
<1> USE TotalAssumption DEF ScanIInv, ScanTypeOK
<1>1. CASE TakenEntry \/ FreeEntry \/ EndOfTable
  BY <1>1 DEF TakenEntry, FreeEntry, EndOfTable, AnswersFirstFit
<1>2. CASE Return
  <2>1. pc = "checks" /\ UNCHANGED <<scanned, wanted, index, bs, bc>>
    BY <1>2 DEF Return
  <2>2. CASE index = Total /\ Window(index) /\ Short
    <3>1. result' = ENOMEM
      BY <1>2, <2>2 DEF Return, Window, Short
    <3>2. ASSUME NEW s \in Blocks, Fits(scanned, s, wanted) PROVE FALSE
      <4>1. bs # -1 /\ s >= bs
        BY <2>2, <3>2 DEF Window, Blocks
      <4>2. s + wanted <= Total /\ wanted >= 1
        BY <3>2 DEF Fits
      <4>3. QED
        BY <2>2, <4>1, <4>2 DEF Window, Short, Blocks
    <3>3. QED
      BY <2>1, <3>1, <3>2 DEF AnswersFirstFit
  <2>3. CASE index < Total /\ Window(index+1) /\ bs # -1 /\ bc = wanted
    <3>1. result' = bs /\ bs \in Blocks /\ result' # ENOMEM
      BY <1>2, <2>3 DEF Return, Blocks, ENOMEM
    <3>2. wanted = index + 1 - bs /\ bs < index + 1
      BY <2>3 DEF Window
    <3>3. Fits(scanned, bs, wanted)
      BY <2>3, <3>2 DEF Fits, Window
    <3>4. \A t \in 0 .. bs-1 : ~Fits(scanned, t, wanted)
      BY <2>3, <3>2 DEF Window
    <3>5. QED
      BY <2>1, <3>1, <3>3, <3>4 DEF AnswersFirstFit, heap_get_start_block
  <2>4. QED
    BY <2>1, <2>2, <2>3 DEF LoopInv
<1>3. CASE UNCHANGED svars
  BY <1>3 DEF svars, AnswersFirstFit
<1>4. QED
  BY <1>1, <1>2, <1>3 DEF ScanNext

LEMMA ScanInvariant == ScanSpec => []ScanIInv
<1>1. ScanIInv /\ [ScanNext]_svars => ScanIInv'
  BY ScanTypeStep, ScanLoopStep, ScanAnswerStep DEF ScanIInv
<1>2. QED
  BY ScanInitially, <1>1, PTL DEF ScanSpec

(* heap_get_start_block answers the leftmost fit, or ENOMEM exactly when   *)
(* nothing fits, for every table size, table and block count.              *)
THEOREM ScanIsFirstFit == ScanSpec => []AnswersFirstFit
<1>1. ScanIInv => AnswersFirstFit
  BY DEF ScanIInv
<1>2. QED
  BY ScanInvariant, <1>1, PTL
=============================================================================
