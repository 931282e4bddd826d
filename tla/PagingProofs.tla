---------------------------- MODULE PagingProofs ----------------------------
(***************************************************************************)
(* Paging is correct for every size of tables, pages and heap and for      *)
(* every set of pages that is mapped: the tables of paging_new_4gb are the *)
(* identity unless two of its blocks are missing, the kernel is lost only  *)
(* when one is missing or a page of the tables was mapped, and directory,  *)
(* tables and TLB implement module AddressSpace.                           *)
(***************************************************************************)
EXTENDS Paging, WellFoundedInduction, TLAPS

Words  == [frame : Pages, present : BOOLEAN] \cup {Text}
Memory == [Pages -> [Index -> Words]]

\* The frame f is a heap block that holds what, in the heap u.
Holds(u, f, what) ==
  f \in HeapFrame .. HeapFrame + HeapBlocks - 1 /\ u[f - HeapFrame + 1] = what

NoneFree(u) == \A b \in Heap : u[b] # "free"

\* The table of entry i of the directory, in memory m.
TableIn(m, i) == m[directory][i].frame

OwnIn(m) == {chunk, directory} \cup {TableIn(m, i) : i \in Index}

\* The directory has n tables that are blocks of their own.
Linked(m, u, n) ==
  /\ Holds(u, directory, "directory")
  /\ \A i \in 0 .. n-1 : m[directory][i].present /\ Holds(u, TableIn(m, i), "table")
  /\ \A i, j \in 0 .. n-1 : TableIn(m, i) = TableIn(m, j) => i = j

\* They are as paging_new_4gb has filled them.
Linear(m, n) == \A i \in 0 .. n-1 : m[TableIn(m, i)] = Table(i)

\* The tables are active, and what the kernel needs to change them is where
\* its addresses say.
Running(m, u) ==
  /\ Linked(m, u, Entries)
  /\ Holds(u, chunk, "chunk") /\ m[chunk][0].frame = directory
  /\ cr3 = directory
  /\ \A p \in OwnIn(m) \cup {CodePage} : Walk(m, cr3, p) = p
  /\ \A p \in OwnIn(m) : tlb[p] \in {None, p}

\* What paging_set leaves of memory m and of the TLB.
Rewritten(m, p, f) == [m EXCEPT ![TableIn(m, p \div Entries)][p % Entries] = Word(f)]
Consulted(t) == [tlb EXCEPT ![chunk] = chunk, ![directory] = directory, ![t] = t]

(* While the directory is filled: no block was missing so far, or none is  *)
(* free any more and the last entry points to address 0.                   *)
Filling ==
  \/ short = 0 /\ Linked(mem, use, next) /\ Linear(mem, next)
  \/ /\ short \in 1 .. next + 1 /\ NoneFree(use)
     /\ next > 0 => mem[directory][next-1] = Word(0)

(* What paging_new_4gb returns: linear tables, or a directory whose last   *)
(* table lies at address 0 below the chunk.                                *)
Complete ==
  /\ mem[chunk][0].frame = directory
  /\ short <= 1 => Linked(mem, use, Entries) /\ Linear(mem, Entries)
  /\ short = 0 => Holds(use, chunk, "chunk")
  /\ short > 1 => mem[directory][Entries-1] = Word(0) /\ ~mem[0][0].present

PagingInv ==
  /\ pc = "boot" => next = 0 /\ short = 0
  /\ pc = "tables" => Filling
  /\ pc \in {"built", "switched"} => Complete
  /\ pc = "switched" => cr3 = directory
  /\ pc \in {"switched", "enabled"} => tlb = Forgotten
  /\ pc \in {"enabled", "mapped", "on"} /\ short = 0 /\ ~moved => Running(mem, use)
  /\ pc = "mapped" /\ short = 0 /\ ~moved =>
       tlb[VA_start] = None /\ Walk(mem, cr3, VA_start) \in Pages \ Own

IInv == TypeOK /\ PagingInv /\ LostOnlyWhenShort

-----------------------------------------------------------------------------
(* Arithmetic of pages and addresses.                                      *)
LEMMA SumDivMod ==
  ASSUME NEW B \in Nat \ {0}, NEW q \in Nat, NEW r \in 0 .. B-1
  PROVE  (q * B + r) \div B = q /\ (q * B + r) % B = r
<1> DEFINE a == q * B + r
           d == a \div B
           m == a % B
<1>1. a \in Nat
  OBVIOUS
<1>2. d \in Int /\ m \in 0 .. B-1 /\ a = B * d + m
  BY <1>1
<1> HIDE DEF d, m
<1>3. B * (q - d) = m - r
  BY <1>2
<1>4. q = d
  <2>1. CASE q > d
    <3>1. B * (q - d) >= B
      BY <2>1, <1>2
    <3>2. QED
      BY <3>1, <1>3, <1>2
  <2>2. CASE q < d
    <3>1. B * (q - d) <= -B
      BY <2>2, <1>2
    <3>2. QED
      BY <3>1, <1>3, <1>2
  <2>3. QED
    BY <2>1, <2>2, <1>2
<1>5. QED
  BY <1>2, <1>4 DEF d, m

(* The page of an address, and the page that paging_set changes for it.    *)
LEMMA PageOfAddress ==
  ASSUME NEW p \in Pages, NEW o \in {0, 1}
  PROVE  /\ \A q \in Pages : p * PageSize + o = q * PageSize <=> q = p /\ o = 0
         /\ AS!Changed(p * PageSize + o) = IF o = 0 THEN {p} ELSE {}
<1>1. PageSize \in Nat \ {0} /\ o \in 0 .. PageSize-1 /\ 0 \in 0 .. PageSize-1
  BY PagingAssumption
<1>2. ASSUME NEW q \in Pages PROVE p * PageSize + o = q * PageSize <=> q = p /\ o = 0
  <2>1. p \in Nat /\ q \in Nat
    BY DEF Pages
  <2>2. (p * PageSize + o) \div PageSize = p /\ (p * PageSize + o) % PageSize = o
    BY <1>1, <2>1, SumDivMod
  <2>3. (q * PageSize + 0) \div PageSize = q /\ (q * PageSize + 0) % PageSize = 0
    BY <1>1, <2>1, SumDivMod
  <2>4. q * PageSize + 0 = q * PageSize
    BY <1>1, <2>1
  <2>5. o = 0 => p * PageSize + o = p * PageSize
    BY <1>1, <2>1
  <2>6. QED
    BY <2>2, <2>3, <2>4, <2>5
<1>3. QED
  BY <1>2 DEF AS!Changed

LEMMA CallTypes ==
  ASSUME NEW p \in Pages, NEW f \in Pages
  PROVE  /\ \A o \in {0, 1} : <<"set", p * PageSize + o, f>> \in Calls
         /\ <<"access", p, f>> \in Calls
BY DEF Calls

LEMMA AtLeastTwo == Entries \in Nat /\ Entries >= 2 /\ HeapFrame \in Nat /\ HeapFrame >= 3
<1> USE PagingAssumption, BlockHeapAssumption DEF Pages
<1>1. HeapFrame \in Nat /\ HeapFrame >= 3
  OBVIOUS
<1>2. Entries # 1
  <2>1. HeapFrame + HeapBlocks - 1 >= 2
    BY <1>1
  <2>2. QED
    BY <2>1
<1>3. QED
  BY <1>1, <1>2

\* A page is an entry of the directory and one of a table.
LEMMA PageIndex ==
  ASSUME NEW p \in Pages
  PROVE  /\ p \div Entries \in Index /\ p % Entries \in Index
         /\ p = (p \div Entries) * Entries + (p % Entries)
<1> USE AtLeastTwo DEF Pages, Index
<1> DEFINE d == p \div Entries
           r == p % Entries
<1>1. d \in Nat /\ r \in 0 .. Entries-1 /\ p = Entries * d + r
  OBVIOUS
<1> HIDE DEF d, r
<1>2. d < Entries
  <2>1. CASE d >= Entries
    <3>1. Entries * d >= Entries * Entries
      <4>1. Entries * (d - Entries) >= 0
        BY <1>1, <2>1
      <4>2. QED
        BY <4>1, <1>1
    <3>2. QED
      BY <3>1, <1>1
  <2>2. QED
    BY <2>1, <1>1
<1>3. d \in Index /\ r \in Index /\ p = d * Entries + r
  BY <1>1, <1>2
<1>4. QED
  BY <1>3 DEF d, r

LEMMA IndexPage ==
  ASSUME NEW d \in Index, NEW r \in Index
  PROVE  /\ d * Entries + r \in Pages
         /\ (d * Entries + r) \div Entries = d /\ (d * Entries + r) % Entries = r
<1> USE AtLeastTwo DEF Pages, Index
<1>1. d * Entries + r \in Nat
  OBVIOUS
<1>2. d * Entries <= (Entries - 1) * Entries
  <2>1. (Entries - 1 - d) * Entries >= 0
    OBVIOUS
  <2>2. QED
    BY <2>1
<1>3. d * Entries + r \in Pages
  BY <1>1, <1>2
<1>4. QED
  BY <1>3, SumDivMod

\* The indexes that paging_get_index finds for an address in page p.
LEMMA IndexOfAddress ==
  ASSUME NEW p \in Pages, NEW o \in 0 .. PageSize-1
  PROVE  /\ paging_get_index(p * PageSize + o).directory = p \div Entries
         /\ paging_get_index(p * PageSize + o).table = p % Entries
         /\ (p * PageSize + o) % PageSize = o
<1> USE AtLeastTwo, PagingAssumption
<1> DEFINE d == p \div Entries
           r == p % Entries
           B == Entries * PageSize
           low == r * PageSize + o
<1>1. d \in 0 .. Entries-1 /\ r \in 0 .. Entries-1 /\ p = d * Entries + r
  BY PageIndex DEF Index
<1>2. o \in Nat /\ p \in Nat
  BY DEF Pages
<1> HIDE DEF d, r
<1>3. B \in Nat \ {0} /\ low \in 0 .. B-1
  <2>1. r * PageSize <= (Entries - 1) * PageSize
    <3>1. (Entries - 1 - r) * PageSize >= 0
      BY <1>1
    <3>2. QED
      BY <3>1, <1>1
  <2>2. low \in Nat
    BY <1>1, <1>2
  <2>3. QED
    BY <2>1, <2>2, <1>1, <1>2
<1>4. p * PageSize + o = d * B + low
  BY <1>1, <1>2
<1> HIDE DEF B
<1> HIDE DEF low
<1>5. (p * PageSize + o) \div B = d /\ (p * PageSize + o) % B = low
  <2>1. d \in Nat
    BY <1>1
  <2>2. QED
    BY <2>1, <1>3, <1>4, SumDivMod, ZenonT(60)
<1>6. low \div PageSize = r
  <2>1. r \in Nat /\ PageSize \in Nat \ {0} /\ o \in 0 .. PageSize-1
    BY <1>1
  <2>2. QED
    BY <2>1, SumDivMod DEF low
<1>7. (p * PageSize + o) % PageSize = o
  BY <1>2, SumDivMod
<1>8. QED
  BY <1>5, <1>6, <1>7 DEF paging_get_index, B, d, r, low
-----------------------------------------------------------------------------
(* The heap: kzalloc answers NULL exactly when no block is free.           *)
LEMMA Smallest ==
  ASSUME NEW S \in SUBSET Nat, S # {}
  PROVE  \E x \in S : \A y \in S : x <= y
<1> DEFINE Less == OpToRel(<, Nat)
<1>1. IsWellFoundedOn(Less, Nat)
  BY NatLessThanWellFounded
<1>2. \A x, y \in Nat : <<x, y>> \in Less <=> x < y
  BY DEF OpToRel
<1> HIDE DEF Less
<1>3. PICK x \in S : \A y \in S : ~ (<<y, x>> \in Less)
  BY <1>1, WFMin
<1>4. ASSUME NEW y \in S PROVE x <= y
  <2>1. x \in Nat /\ y \in Nat
    OBVIOUS
  <2>2. ~ (y < x)
    BY <1>2, <1>3, <2>1
  <2>3. QED
    BY <2>1, <2>2
<1>5. QED
  BY <1>4

LEMMA TakenIsFree ==
  ASSUME NEW u
  PROVE  \/ Taken(u) = NULL /\ NoneFree(u)
         \/ Taken(u) \in Heap /\ u[Taken(u)] = "free"
<1> USE BlockHeapAssumption DEF NULL, Heap
<1> DEFINE F == {b \in Heap : u[b] = "free"}
<1>1. \E b \in Heap \cup {NULL} : kzalloc(u, b)
  <2>1. CASE F = {}
    BY <2>1 DEF kzalloc
  <2>2. CASE F # {}
    <3>1. F \in SUBSET Nat
      OBVIOUS
    <3>2. PICK b \in F : \A y \in F : b <= y
      BY <2>2, <3>1, Smallest
    <3>3. kzalloc(u, b)
      BY <3>2 DEF kzalloc
    <3>4. QED
      BY <3>2, <3>3
  <2>3. QED
    BY <2>1, <2>2
<1>2. kzalloc(u, Taken(u)) /\ Taken(u) \in Heap \cup {NULL}
  BY <1>1 DEF Taken
<1>3. QED
  BY <1>2 DEF kzalloc, NoneFree

(* What a call of kzalloc_page or of kzalloc does: a frame that was free   *)
(* holds what it was taken for, or nothing changes and no block is free.   *)
LEMMA NewFrame ==
  ASSUME TypeOK, NEW what
  PROVE  /\ New \in Pages
         /\ \/ New = 0 /\ Taken(use) = NULL /\ NoneFree(use) /\ Hold(use, Taken(use), what) = use
            \/ /\ Taken(use) # NULL
               /\ Holds(use, New, "free")
               /\ Holds(Hold(use, Taken(use), what), New, what)
               /\ \A f, w : f # New /\ Holds(use, f, w) => Holds(Hold(use, Taken(use), what), f, w)
<1> USE BlockHeapAssumption, PagingAssumption DEF NULL, Heap, New, Frame, Hold
<1>1. CASE Taken(use) = NULL
  <2>1. NoneFree(use)
    BY <1>1, TakenIsFree
  <2>2. 0 \in Pages
    BY AtLeastTwo, IndexPage DEF Pages, Index
  <2>3. QED
    BY <1>1, <2>1, <2>2
<1>2. CASE Taken(use) # NULL
  <2>1. Taken(use) \in Heap /\ use[Taken(use)] = "free"
    BY <1>2, TakenIsFree
  <2>2. New \in HeapFrame .. HeapFrame + HeapBlocks - 1 /\ New - HeapFrame + 1 = Taken(use)
    BY <1>2, <2>1
  <2>3. New \in Pages
    BY <2>2 DEF Pages
  <2>4. \A f \in HeapFrame .. HeapFrame + HeapBlocks - 1 :
          f - HeapFrame + 1 \in Heap /\ (f - HeapFrame + 1 = Taken(use) => f = New)
    BY <2>1, <2>2
  <2>5. use \in [Heap -> {"free", "other", "directory", "table", "chunk", "data"}]
    BY DEF TypeOK
  <2>6. QED
    BY <1>2, <2>1, <2>2, <2>3, <2>4, <2>5 DEF Holds
<1>3. QED
  BY <1>1, <1>2

\* A frame that is held is a page, and not one of those below the heap.
LEMMA HeldFrame ==
  ASSUME NEW u, NEW f, NEW what, Holds(u, f, what)
  PROVE  f \in Pages /\ f # 0 /\ f # CodePage /\ f # VA_start /\ f # None
BY BlockHeapAssumption, PagingAssumption DEF Holds, Pages, None

-----------------------------------------------------------------------------
(* Memory, word by word.                                                   *)
LEMMA WordsInMemory ==
  /\ 0 \in Pages /\ 0 \in Index /\ Entries-1 \in Index
  /\ \A f \in Pages : Word(f) \in Words /\ Pointer(f) \in Words
  /\ Text \in Words
  /\ \A n \in Index : Table(n) \in [Index -> Words]
  /\ Zeroes \in [Index -> Words]
  /\ \A w \in Words : w.frame \in Pages \cup {None} /\ w.present \in BOOLEAN
  /\ \A w \in Words : w.present => w.frame \in Pages
<1>1. 0 \in Pages /\ 0 \in Index /\ Entries-1 \in Index
  BY AtLeastTwo, IndexPage DEF Index, Pages
<1>2. \A f \in Pages : Word(f) \in Words /\ Pointer(f) \in Words
  BY DEF Word, Pointer, Words
<1>3. Text \in Words
  BY DEF Words
<1>4. \A n \in Index : Table(n) \in [Index -> Words]
  <2>1. ASSUME NEW n \in Index, NEW i \in Index PROVE Word(n * Entries + i) \in Words
    BY <1>2, IndexPage
  <2>2. QED
    BY <2>1 DEF Table
<1>5. Zeroes \in [Index -> Words]
  BY <1>1, <1>2 DEF Zeroes
<1>6. \A w \in Words : w.frame \in Pages \cup {None} /\ w.present \in BOOLEAN
  <2>1. Text.frame = None /\ Text.present = FALSE
    BY DEF Text, Pointer
  <2>2. \A w \in [frame : Pages, present : BOOLEAN] : w.frame \in Pages /\ w.present \in BOOLEAN
    OBVIOUS
  <2>3. QED
    BY <2>1, <2>2 DEF Words
<1>7. \A w \in Words : w.present => w.frame \in Pages
  BY DEF Words, Text, Pointer
<1>8. QED
  BY <1>1, <1>2, <1>3, <1>4, <1>5, <1>6, <1>7, Zenon

LEMMA WriteWord ==
  ASSUME NEW m \in Memory, NEW f \in Pages, NEW i \in Index, NEW w \in Words
  PROVE  /\ [m EXCEPT ![f][i] = w] \in Memory
         /\ \A g \in Pages, j \in Index :
              [m EXCEPT ![f][i] = w][g][j] = IF g = f /\ j = i THEN w ELSE m[g][j]
         /\ \A g \in Pages : g # f => [m EXCEPT ![f][i] = w][g] = m[g]
BY DEF Memory

LEMMA WritePage ==
  ASSUME NEW m \in Memory, NEW f \in Pages, NEW t \in [Index -> Words]
  PROVE  /\ [m EXCEPT ![f] = t] \in Memory
         /\ \A g \in Pages : [m EXCEPT ![f] = t][g] = IF g = f THEN t ELSE m[g]
BY DEF Memory

LEMMA ClearedMemory ==
  ASSUME TypeOK
  PROVE  /\ mem \in Memory /\ Cleared \in Memory
         /\ \A g \in Pages : New = 0 \/ g # New => Cleared[g] = mem[g]
<1>1. mem \in Memory
  BY DEF TypeOK, Memory, Words
<1>2. New \in Pages /\ Zeroes \in [Index -> Words]
  BY NewFrame, WordsInMemory
<1>3. QED
  BY <1>1, <1>2, WritePage DEF Cleared

LEMMA WalkType ==
  ASSUME NEW m \in Memory, NEW root \in Pages, NEW p \in Pages
  PROVE  Walk(m, root, p) \in Pages \cup {None}
<1> DEFINE d == p \div Entries
           r == p % Entries
<1>1. d \in Index /\ r \in Index
  BY PageIndex
<1> HIDE DEF d, r
<1>2. \A f \in Pages, i \in Index : m[f][i] \in Words
  BY DEF Memory
<1>3. m[root][d] \in Words /\ (m[root][d].present => m[root][d].frame \in Pages)
  BY <1>1, <1>2, WordsInMemory
<1>4. m[root][d].present => m[m[root][d].frame][r].frame \in Pages \cup {None}
  BY <1>1, <1>2, <1>3, WordsInMemory
<1>5. QED
  BY <1>4 DEF Walk, d, r

LEMMA ReachedType ==
  ASSUME TypeOK, NEW m \in Memory, NEW p \in Pages
  PROVE  Reached(m, p) \in Pages \cup {None}
<1>1. Walk(m, cr3, p) \in Pages \cup {None}
  BY WalkType DEF TypeOK
<1>2. QED
  BY <1>1 DEF Reached, TypeOK

LEMMA DirectoryType ==
  ASSUME NEW m \in Memory, NEW c \in Pages \cup {None}
  PROVE  DirectoryOf(m, c) \in Pages \cup {None} /\ (DirectoryOf(m, c) # None => c \in Pages)
<1>1. CASE c = None
  BY <1>1 DEF DirectoryOf
<1>2. CASE c # None
  <2>1. c \in Pages /\ m[c][0] \in Words
    BY <1>2, WordsInMemory DEF Memory
  <2>2. m[c][0].frame \in Pages \cup {None}
    BY <2>1, WordsInMemory
  <2>3. QED
    BY <1>2, <2>1, <2>2 DEF DirectoryOf
<1>3. QED
  BY <1>1, <1>2

\* The outcomes of paging_set for an address in page p.
LEMMA SetTypes ==
  ASSUME TypeOK, NEW m \in Memory, NEW p \in Pages, NEW o \in {0, 1}, NEW f \in Pages,
         NEW done, paging_set(m, p * PageSize + o, f, done)
  PROVE  mem' \in Memory /\ tlb' \in [Pages -> Pages \cup {None}] /\ pc' \in {done, "lost"}
<1> DEFINE va  == p * PageSize + o
           at  == paging_get_index(va)
           c   == Reached(m, chunk)
           dir == DirectoryOf(m, c)
           d   == IF dir = None THEN None ELSE Reached(m, dir)
           tab == IF d = None THEN None ELSE m[d][at.directory].frame
           t   == IF tab = None THEN None ELSE Reached(m, tab)
           Maybe == Pages \cup {None}
<1>1. IF va % PageSize # 0 /\ dir # None
      THEN pc' = done /\ mem' = m /\ tlb' = [tlb EXCEPT ![chunk] = c]
      ELSE IF t = None
      THEN pc' = "lost" /\ mem' = m /\ tlb' = tlb
      ELSE /\ pc' = done
           /\ mem' = [m EXCEPT ![t][at.table] = Word(f)]
           /\ tlb' = [tlb EXCEPT ![chunk] = c, ![dir] = d, ![tab] = t]
  BY ZenonT(60) DEF paging_set
<1>2. at.directory \in Index /\ at.table \in Index
  BY IndexOfAddress, PageIndex, PagingAssumption
<1>3. chunk \in Pages /\ tlb \in [Pages -> Maybe]
  BY DEF TypeOK
<1>4. c \in Maybe
  BY <1>3, ReachedType
<1> HIDE DEF va, at, c
<1>5. dir \in Maybe
  BY <1>4, DirectoryType
<1> HIDE DEF dir
<1>6. d \in Maybe
  BY <1>5, ReachedType
<1> HIDE DEF d
<1>7. tab \in Maybe
  <2>1. ASSUME d \in Pages PROVE m[d][at.directory].frame \in Maybe
    <3>1. m[d][at.directory] \in Words
      BY <1>2, <2>1 DEF Memory
    <3>2. QED
      BY <3>1, WordsInMemory
  <2>2. QED
    BY <1>6, <2>1
<1> HIDE DEF tab
<1>8. t \in Maybe
  BY <1>7, ReachedType
<1> HIDE DEF t
<1>9. [tlb EXCEPT ![chunk] = c] \in [Pages -> Maybe]
  BY <1>3, <1>4
<1>10. [tlb EXCEPT ![chunk] = c, ![dir] = d, ![tab] = t] \in [Pages -> Maybe]
  BY <1>3, <1>4, <1>5, <1>6, <1>7, <1>8
<1>11. t # None => [m EXCEPT ![t][at.table] = Word(f)] \in Memory
  <2>1. Word(f) \in Words
    BY WordsInMemory
  <2>2. QED
    BY <1>2, <1>8, <2>1, WriteWord
<1>12. QED
  BY <1>1, <1>3, <1>9, <1>10, <1>11, SMTT(60)

-----------------------------------------------------------------------------
(* Types.                                                                  *)
LEMMA PagingInit == Init => IInv
<1> SUFFICES ASSUME Init PROVE IInv
  OBVIOUS
<1> USE DEF Init
<1>1. TypeOK
  <2>1. mem \in Memory
    BY WordsInMemory DEF Memory
  <2>2. 0 \in Pages
    BY WordsInMemory
  <2>3. tlb \in [Pages -> Pages \cup {None}]
    BY DEF Forgotten
  <2>4. use \in [Heap -> {"free", "other", "directory", "table", "chunk", "data"}]
    OBVIOUS
  <2>5. next \in 0 .. Entries /\ short \in 0 .. Entries + 2 /\ sets \in 0 .. MaxSets
    BY AtLeastTwo, PagingAssumption
  <2>6. mem \in [Pages -> [Index -> [frame : Pages, present : BOOLEAN] \cup {Text}]]
    BY <2>1 DEF Memory, Words
  <2>7. call \in Calls
    BY DEF Calls
  <2>8. QED
    BY <2>2, <2>3, <2>4, <2>5, <2>6, <2>7 DEF TypeOK
<1>2. PagingInv /\ LostOnlyWhenShort
  BY DEF PagingInv, LostOnlyWhenShort
<1>3. QED
  BY <1>1, <1>2 DEF IInv

Tags == {"free", "other", "directory", "table", "chunk", "data"}

LEMMA HoldType ==
  ASSUME TypeOK, NEW what \in Tags
  PROVE  Hold(use, Taken(use), what) \in [Heap -> Tags]
BY TakenIsFree DEF TypeOK, Tags, Hold

LEMMA BootTypeStep ==
  ASSUME IInv, NewDirectory \/ NewTable \/ NewChunk
  PROVE  TypeOK'
<1>1. TypeOK /\ PagingInv
  BY DEF IInv
<1>2. New \in Pages /\ Cleared \in Memory
  BY <1>1, NewFrame, ClearedMemory
<1>3. /\ cr3' = cr3 /\ tlb' = tlb /\ call' = call /\ moved' = moved /\ sets' = sets
      /\ pc' \in {"tables", "built"}
  BY <1>1 DEF NewDirectory, NewTable, NewChunk, past, TypeOK
<1>4. use' \in [Heap -> Tags]
  BY <1>1, HoldType DEF NewDirectory, NewTable, NewChunk, kzalloc_page, Tags
<1>5. short' \in 0 .. Entries + 2
  <2>1. short \in 0 .. Entries + 1
    BY <1>1, AtLeastTwo DEF NewDirectory, NewTable, NewChunk, PagingInv, Filling, TypeOK
  <2>2. short' \in {short, short + 1}
    BY DEF NewDirectory, NewTable, NewChunk, kzalloc_page
  <2>3. QED
    BY <2>1, <2>2, AtLeastTwo
<1>6. directory' \in Pages /\ chunk' \in Pages /\ next' \in 0 .. Entries
  BY <1>1, <1>2, AtLeastTwo DEF NewDirectory, NewTable, NewChunk, TypeOK
<1>7. mem' \in Memory
  <2>1. CASE NewDirectory
    BY <1>2, <2>1 DEF NewDirectory
  <2>2. CASE NewTable
    <3> DEFINE filled == [Cleared EXCEPT ![New] = Table(next)]
    <3>1. next \in Index /\ directory \in Pages
      BY <1>1, <2>2, AtLeastTwo DEF NewTable, TypeOK, Index
    <3>2. filled \in Memory
      BY <1>2, <3>1, WritePage, WordsInMemory
    <3>3. mem' = [filled EXCEPT ![directory][next] = Word(New)]
      BY <2>2 DEF NewTable
    <3> HIDE DEF filled
    <3>4. QED
      BY <1>2, <3>1, <3>2, <3>3, WriteWord, WordsInMemory
  <2>3. CASE NewChunk
    <3>1. directory \in Pages /\ mem' = [Cleared EXCEPT ![New][0] = Pointer(directory)]
      BY <1>1, <2>3 DEF NewChunk, TypeOK
    <3>2. QED
      BY <1>2, <3>1, WriteWord, WordsInMemory
  <2>4. QED
    BY <2>1, <2>2, <2>3
<1>8. QED
  BY <1>1, <1>3, <1>4, <1>5, <1>6, <1>7 DEF TypeOK, Memory, Words, Tags

LEMMA SwitchTypeStep ==
  ASSUME IInv, paging_switch \/ enable_paging
  PROVE  TypeOK'
<1> USE DEF IInv
<1>1. CASE paging_switch
  <2> DEFINE c   == IF pc = "built" THEN chunk ELSE Reached(mem, chunk)
             dir == DirectoryOf(mem, c)
  <2>1. c \in Pages \cup {None}
    BY ReachedType, ClearedMemory DEF TypeOK
  <2>2. /\ cr3' = (IF dir = None THEN cr3 ELSE dir)
        /\ pc' \in {"switched", "on", "lost"} /\ tlb' = Forgotten
        /\ UNCHANGED <<use, mem, built, past>>
    BY <1>1 DEF paging_switch
  <2> HIDE DEF c
  <2>3. dir \in Pages \cup {None}
    BY <2>1, DirectoryType, ClearedMemory
  <2> HIDE DEF dir
  <2>4. tlb' \in [Pages -> Pages \cup {None}]
    BY <2>2 DEF Forgotten
  <2>5. QED
    BY <2>2, <2>3, <2>4 DEF TypeOK, built, past
<1>2. CASE enable_paging
  BY <1>2 DEF enable_paging, TypeOK, built, past
<1>3. QED
  BY <1>1, <1>2

LEMMA SetTypeStep ==
  ASSUME IInv, MapVirtual \/ \E p, f \in Targets, o \in {0, 1} : Map(p * PageSize + o, f)
  PROVE  TypeOK'
<1> USE DEF IInv
<1>1. CASE MapVirtual
  <2>1. use' \in [Heap -> Tags] /\ UNCHANGED <<built, cr3, moved, sets>>
    BY <1>1, HoldType DEF MapVirtual, Tags
  <2>2. VA_start \in Pages /\ VA_start * PageSize + 0 = VA_start * PageSize
    BY PagingAssumption, BlockHeapAssumption DEF Pages
  <2>3. paging_set(Cleared, VA_start * PageSize + 0, New, "mapped")
    BY <1>1, <2>2 DEF MapVirtual
  <2>4. Cleared \in Memory /\ New \in Pages
    BY ClearedMemory, NewFrame
  <2>5. mem' \in Memory /\ tlb' \in [Pages -> Pages \cup {None}] /\ pc' \in {"mapped", "lost"}
    BY <2>2, <2>3, <2>4, SetTypes
  <2>6. call' \in Calls
    <3>1. call' = <<"set", VA_start * PageSize + 0, New>>
      BY <1>1, <2>2 DEF MapVirtual
    <3>2. QED
      BY <2>2, <2>4, <3>1, CallTypes
  <2>7. QED
    BY <2>1, <2>5, <2>6 DEF TypeOK, Memory, Words, Tags, built
<1>2. CASE \E p, f \in Targets, o \in {0, 1} : Map(p * PageSize + o, f)
  <2>1. PICK p \in Targets, f \in Targets, o \in {0, 1} : Map(p * PageSize + o, f)
    BY <1>2
  <2>2. /\ paging_set(mem, p * PageSize + o, f, "on")
        /\ UNCHANGED <<use, built, cr3>>
        /\ sets' \in 0 .. MaxSets
        /\ call' = <<"set", p * PageSize + o, f>>
    BY <2>1, PagingAssumption DEF Map, TypeOK
  <2>3. moved' \in BOOLEAN
    BY <2>1 DEF Map, TypeOK
  <2>4. mem' \in Memory /\ tlb' \in [Pages -> Pages \cup {None}] /\ pc' \in {"on", "lost"}
    BY <2>2, SetTypes, ClearedMemory, PagingAssumption
  <2>5. call' \in Calls
    BY <2>2, CallTypes, PagingAssumption
  <2>6. QED
    BY <2>2, <2>3, <2>4, <2>5 DEF TypeOK, Memory, Words, built
<1>3. QED
  BY <1>1, <1>2

LEMMA AccessTypeStep ==
  ASSUME IInv, \/ WriteText
               \/ \E p \in Targets : Access(p)
               \/ \E p \in Pages : Forget(p)
  PROVE  TypeOK'
<1> USE DEF IInv
<1>1. CASE WriteText
  <2> DEFINE to == Reached(mem, VA_start)
  <2>1. VA_start \in Pages
    BY PagingAssumption, BlockHeapAssumption DEF Pages
  <2>2. to \in Pages \cup {None}
    BY <2>1, ReachedType, ClearedMemory
  <2>3. CASE to = None
    BY <1>1, <2>3 DEF WriteText, TypeOK, built
  <2>4. CASE to # None
    <3>1. /\ pc' = "on" /\ mem' = [mem EXCEPT ![to][0] = Text]
          /\ tlb' = [tlb EXCEPT ![VA_start] = to] /\ call' = <<"access", VA_start, to>>
          /\ UNCHANGED <<use, built, cr3, moved, sets>>
      BY <1>1, <2>4 DEF WriteText
    <3> HIDE DEF to
    <3>2. mem' \in Memory
      BY <2>2, <2>4, <3>1, WriteWord, WordsInMemory, ClearedMemory
    <3>3. tlb' \in [Pages -> Pages \cup {None}]
      BY <2>1, <2>2, <2>4, <3>1 DEF TypeOK
    <3>4. call' \in Calls
      BY <2>1, <2>2, <2>4, <3>1, CallTypes
    <3>5. QED
      BY <3>1, <3>2, <3>3, <3>4 DEF TypeOK, Memory, Words, built
  <2>5. QED
    BY <2>3, <2>4
<1>2. ASSUME NEW p \in Targets, Access(p) PROVE TypeOK'
  <2>1. p \in Pages
    BY PagingAssumption
  <2>2. Reached(mem, p) \in Pages
    BY <1>2, <2>1, ReachedType, ClearedMemory DEF Access
  <2>3. tlb' \in [Pages -> Pages \cup {None}]
    BY <1>2, <2>1, <2>2 DEF Access, TypeOK
  <2>4. call' \in Calls
    BY <1>2, <2>1, <2>2, CallTypes DEF Access
  <2>5. QED
    BY <1>2, <2>3, <2>4 DEF Access, TypeOK, built
<1>3. ASSUME NEW p \in Pages, Forget(p) PROVE TypeOK'
  BY <1>3 DEF Forget, TypeOK, built, past
<1>4. QED
  BY <1>1, <1>2, <1>3

LEMMA PagingTypeStep == IInv /\ [Next]_vars => TypeOK'
<1> SUFFICES ASSUME IInv, [Next]_vars PROVE TypeOK'
  OBVIOUS
<1>1. CASE UNCHANGED vars
  BY <1>1 DEF vars, built, past, IInv, TypeOK
<1>2. QED
  BY <1>1, BootTypeStep, SwitchTypeStep, SetTypeStep, AccessTypeStep DEF Next

-----------------------------------------------------------------------------
(* How the tables change.  They are blocks of their own: a write to any    *)
(* other frame leaves what they map alone, and a write to one of them      *)
(* changes what they map at one page.                                      *)
LEMMA LinkedFrames ==
  ASSUME NEW m, NEW u, Linked(m, u, Entries)
  PROVE  /\ directory \in Pages /\ Holds(u, directory, "directory")
         /\ \A i \in Index : /\ TableIn(m, i) \in Pages /\ TableIn(m, i) # directory
                            /\ m[directory][i].present /\ Holds(u, TableIn(m, i), "table")
         /\ \A i, j \in Index : TableIn(m, i) = TableIn(m, j) => i = j
<1>1. Holds(u, directory, "directory")
  BY DEF Linked
<1>2. \A i \in Index : m[directory][i].present /\ Holds(u, TableIn(m, i), "table")
  BY DEF Linked, Index
<1>3. \A i \in Index : TableIn(m, i) # directory
  BY <1>1, <1>2 DEF Holds
<1>4. \A i, j \in Index : TableIn(m, i) = TableIn(m, j) => i = j
  BY DEF Linked, Index
<1>5. QED
  BY <1>1, <1>2, <1>3, <1>4, HeldFrame

LEMMA SameTables ==
  ASSUME NEW m, NEW n, NEW u, Linked(m, u, Entries),
         \A g \in OwnIn(m) : n[g] = m[g]
  PROVE  /\ OwnIn(n) = OwnIn(m) /\ Linked(n, u, Entries)
         /\ \A p \in Pages : Walk(n, directory, p) = Walk(m, directory, p)
<1>1. n[directory] = m[directory]
  BY DEF OwnIn
<1>2. \A i \in Index : TableIn(n, i) = TableIn(m, i) /\ n[TableIn(m, i)] = m[TableIn(m, i)]
  BY <1>1 DEF OwnIn, TableIn
<1>3. OwnIn(n) = OwnIn(m)
  BY <1>2 DEF OwnIn
<1>4. Linked(n, u, Entries)
  BY <1>1, <1>2 DEF Linked, Index
<1>5. ASSUME NEW p \in Pages PROVE Walk(n, directory, p) = Walk(m, directory, p)
  <2>1. p \div Entries \in Index
    BY PageIndex
  <2>2. QED
    BY <1>1, <1>2, <2>1 DEF Walk, TableIn
<1>6. QED
  BY <1>3, <1>4, <1>5

LEMMA SetWalk ==
  ASSUME NEW m \in Memory, NEW n, NEW u, NEW p \in Pages, NEW f \in Pages,
         Linked(m, u, Entries), Holds(u, chunk, "chunk"),
         n = Rewritten(m, p, f)
  PROVE  /\ OwnIn(n) = OwnIn(m) /\ Linked(n, u, Entries)
         /\ n[chunk][0] = m[chunk][0]
         /\ \A q \in Pages : Walk(n, directory, q) = IF q = p THEN f ELSE Walk(m, directory, q)
<1> DEFINE d == p \div Entries
           r == p % Entries
           t == TableIn(m, d)
<1>1. d \in Index /\ r \in Index /\ p = d * Entries + r
  BY PageIndex
<1>2. t \in Pages /\ t # directory /\ Holds(u, t, "table") /\ directory \in Pages
  BY <1>1, LinkedFrames
<1>3. t # chunk /\ chunk \in Pages
  BY <1>2, HeldFrame DEF Holds
<1>4. Word(f) \in Words /\ Word(f).frame = f /\ Word(f).present
  BY WordsInMemory DEF Word
<1> HIDE DEF d, r, t
<1>5. n = [m EXCEPT ![t][r] = Word(f)]
  BY DEF d, r, t, Rewritten
<1>6. /\ \A g \in Pages, j \in Index : n[g][j] = IF g = t /\ j = r THEN Word(f) ELSE m[g][j]
      /\ \A g \in Pages : g # t => n[g] = m[g]
  BY <1>1, <1>2, <1>5 DEF Memory
<1>7. n[directory] = m[directory] /\ n[chunk] = m[chunk]
  BY <1>2, <1>3, <1>6
<1>8. \A i \in Index : TableIn(n, i) = TableIn(m, i)
  BY <1>7 DEF TableIn
<1>9. OwnIn(n) = OwnIn(m) /\ Linked(n, u, Entries)
  <2>1. OwnIn(n) = OwnIn(m)
    BY <1>8 DEF OwnIn
  <2>2. \A i \in 0 .. Entries-1 :
          n[directory][i].present /\ Holds(u, TableIn(n, i), "table")
    BY <1>7, <1>8 DEF Linked, Index
  <2>3. \A i, j \in 0 .. Entries-1 : TableIn(n, i) = TableIn(n, j) => i = j
    BY <1>8 DEF Linked, Index
  <2>4. QED
    BY <2>1, <2>2, <2>3 DEF Linked
<1>10. ASSUME NEW q \in Pages
       PROVE  Walk(n, directory, q) = IF q = p THEN f ELSE Walk(m, directory, q)
  <2> DEFINE e == q \div Entries
             k == q % Entries
             s == TableIn(m, e)
  <2>1. e \in Index /\ k \in Index /\ q = e * Entries + k
    BY PageIndex
  <2>2. s \in Pages /\ m[directory][e].present
    BY <2>1, LinkedFrames
  <2> HIDE DEF e, k, s
  <2>3. n[directory][e].present /\ n[directory][e].frame = s
    BY <1>7, <2>2 DEF TableIn, s
  <2>4. Walk(n, directory, q) = IF n[s][k].present THEN n[s][k].frame ELSE None
    <3>1. Walk(n, directory, q) =
            IF n[directory][e].present /\ n[n[directory][e].frame][k].present
            THEN n[n[directory][e].frame][k].frame
            ELSE None
      BY DEF Walk, e, k
    <3>2. QED
      BY <2>3, <3>1
  <2>5. Walk(m, directory, q) = IF m[s][k].present THEN m[s][k].frame ELSE None
    BY <2>2 DEF Walk, TableIn, e, k, s
  <2>6. CASE q = p
    <3>1. s = t /\ k = r
      BY <2>6 DEF d, r, t, e, k, s
    <3>2. n[s][k] = Word(f)
      BY <1>1, <1>2, <1>6, <3>1
    <3>3. QED
      BY <1>4, <2>4, <2>6, <3>2
  <2>7. CASE q # p
    <3>1. ~(s = t /\ k = r)
      <4>1. s = t => e = d
        BY <1>1, <2>1, LinkedFrames DEF s, t
      <4>2. QED
        BY <1>1, <2>1, <2>7, <4>1
    <3>2. n[s][k] = m[s][k]
      BY <1>6, <2>1, <2>2, <3>1
    <3>3. QED
      BY <2>4, <2>5, <2>7, <3>2
  <2>8. QED
    BY <2>6, <2>7
<1>11. QED
  BY <1>7, <1>9, <1>10

\* While the kernel runs, paging_set finds the table of the page.
LEMMA SetEffect ==
  ASSUME NEW m \in Memory, NEW u, NEW p \in Pages, NEW o \in {0, 1}, NEW f \in Pages, NEW done,
         Running(m, u), paging_set(m, p * PageSize + o, f, done)
  PROVE  /\ pc' = done
         /\ \/ o = 1 /\ mem' = m /\ tlb' = [tlb EXCEPT ![chunk] = chunk]
            \/ o = 0 /\ mem' = Rewritten(m, p, f) /\ tlb' = Consulted(TableIn(m, p \div Entries))
<1> DEFINE va  == p * PageSize + o
           at  == paging_get_index(va)
           c   == Reached(m, chunk)
           dir == DirectoryOf(m, c)
           d   == IF dir = None THEN None ELSE Reached(m, dir)
           tab == IF d = None THEN None ELSE m[d][at.directory].frame
           t   == IF tab = None THEN None ELSE Reached(m, tab)
           x   == TableIn(m, p \div Entries)
<1>1. IF va % PageSize # 0 /\ dir # None
      THEN pc' = done /\ mem' = m /\ tlb' = [tlb EXCEPT ![chunk] = c]
      ELSE IF t = None
      THEN pc' = "lost" /\ mem' = m /\ tlb' = tlb
      ELSE /\ pc' = done
           /\ mem' = [m EXCEPT ![t][at.table] = Word(f)]
           /\ tlb' = [tlb EXCEPT ![chunk] = c, ![dir] = d, ![tab] = t]
  BY ZenonT(60) DEF paging_set
<1>2. at.directory = p \div Entries /\ at.table = p % Entries /\ va % PageSize = o
  BY IndexOfAddress, PagingAssumption
<1>3. p \div Entries \in Index
  BY PageIndex
<1>4. \A q \in OwnIn(m) : Reached(m, q) = q
  BY DEF Running, Reached
<1>5. /\ Holds(u, chunk, "chunk") /\ Holds(u, directory, "directory") /\ Holds(u, x, "table")
      /\ {chunk, directory, x} \subseteq OwnIn(m)
      /\ m[chunk][0].frame = directory
  BY <1>3 DEF Running, Linked, OwnIn, Index
<1>6. chunk # None /\ directory # None /\ x # None
  BY <1>5, HeldFrame
<1> HIDE DEF va, at
<1>7. c = chunk /\ dir = directory
  BY <1>4, <1>5, <1>6 DEF DirectoryOf
<1> HIDE DEF c, dir
<1>8. d = directory /\ tab = x
  BY <1>2, <1>4, <1>5, <1>6, <1>7 DEF TableIn
<1> HIDE DEF d, tab
<1>9. t = x
  BY <1>4, <1>5, <1>6, <1>8
<1> HIDE DEF t, x
<1>10. CASE o = 1
  BY <1>1, <1>2, <1>6, <1>7, <1>10
<1>11. CASE o = 0
  <2>1. /\ pc' = done
        /\ mem' = [m EXCEPT ![x][p % Entries] = Word(f)]
        /\ tlb' = [tlb EXCEPT ![chunk] = chunk, ![directory] = directory, ![x] = x]
    BY <1>1, <1>2, <1>6, <1>7, <1>8, <1>9, <1>11
  <2>2. QED
    BY <1>11, <2>1 DEF x, Rewritten, Consulted
<1>12. QED
  BY <1>10, <1>11, SMTT(60)

LEMMA RunningCleared ==
  ASSUME TypeOK, Running(mem, use)
  PROVE  /\ Running(Cleared, Hold(use, Taken(use), "data"))
         /\ OwnIn(Cleared) = OwnIn(mem) /\ New \notin OwnIn(mem)
         /\ \A p \in Pages : Walk(Cleared, cr3, p) = Walk(mem, cr3, p)
<1> DEFINE u == Hold(use, Taken(use), "data")
<1>1. Linked(mem, use, Entries) /\ Holds(use, chunk, "chunk") /\ cr3 = directory
  BY DEF Running
<1>2. \A g \in OwnIn(mem) : \E w \in {"directory", "table", "chunk"} : Holds(use, g, w)
  BY <1>1, LinkedFrames DEF OwnIn
<1>3. \A g \in OwnIn(mem) : g \in Pages /\ g # 0
  BY <1>2, HeldFrame
<1>4. New \notin OwnIn(mem)
  BY <1>2, <1>3, NewFrame DEF Holds
<1>5. \A g \in OwnIn(mem) : Cleared[g] = mem[g]
  BY <1>3, <1>4, ClearedMemory
<1>6. /\ OwnIn(Cleared) = OwnIn(mem) /\ Linked(Cleared, use, Entries)
      /\ \A p \in Pages : Walk(Cleared, directory, p) = Walk(mem, directory, p)
  BY <1>1, <1>5, SameTables
<1>7. \A g, w : Holds(use, g, w) /\ w # "free" => Holds(u, g, w)
  BY NewFrame DEF Holds
<1> HIDE DEF u
<1>8. Linked(Cleared, u, Entries) /\ Holds(u, chunk, "chunk")
  BY <1>1, <1>6, <1>7 DEF Linked
<1>9. Cleared[chunk][0].frame = directory
  BY <1>5 DEF Running, OwnIn
<1>10. CodePage \in Pages
  BY PagingAssumption, BlockHeapAssumption DEF Pages
<1>11. QED
  BY <1>1, <1>3, <1>4, <1>6, <1>8, <1>9, <1>10 DEF Running, u

-----------------------------------------------------------------------------
(* The steps of paging_new_4gb.                                            *)
LEMMA NewDirectoryStep == IInv /\ NewDirectory => PagingInv'
<1> SUFFICES ASSUME IInv, NewDirectory PROVE PagingInv'
  OBVIOUS
<1>1. /\ pc' = "tables" /\ next = 0 /\ next' = 0 /\ short = 0 /\ directory' = New
      /\ use' = Hold(use, Taken(use), "directory")
      /\ short' = IF Taken(use) = NULL THEN 1 ELSE 0
  BY DEF IInv, PagingInv, NewDirectory, kzalloc_page
<1>2. CASE Taken(use) = NULL
  <2>1. NoneFree(use')
    BY <1>1, <1>2, NewFrame DEF IInv
  <2>2. Filling'
    BY <1>1, <1>2, <2>1 DEF Filling, NoneFree
  <2>3. QED
    BY <1>1, <2>2 DEF PagingInv
<1>3. CASE Taken(use) # NULL
  <2>1. Holds(use', directory', "directory")
    BY <1>1, <1>3, NewFrame DEF IInv
  <2>2. Filling'
    BY <1>1, <1>3, <2>1 DEF Filling, Linked, Linear, Holds
  <2>3. QED
    BY <1>1, <2>2 DEF PagingInv
<1>4. QED
  BY <1>2, <1>3

\* A table that was allocated is filled and linked beside the others.
LEMMA NewTableLinks ==
  ASSUME TypeOK, NewTable, short = 0, Linked(mem, use, next), Linear(mem, next),
         Taken(use) # NULL
  PROVE  Linked(mem, use, next)' /\ Linear(mem, next)'
<1> DEFINE filled == [Cleared EXCEPT ![New] = Table(next)]
<1>1. /\ next \in Index /\ next' = next + 1 /\ directory' = directory
      /\ use' = Hold(use, Taken(use), "table")
      /\ mem' = [filled EXCEPT ![directory][next] = Word(New)]
  BY AtLeastTwo DEF TypeOK, NewTable, kzalloc_page, Index
<1>2. /\ New \in Pages /\ Holds(use, New, "free") /\ Holds(use', New, "table")
      /\ \A f, w : f # New /\ Holds(use, f, w) => Holds(use', f, w)
  BY <1>1, NewFrame, HeldFrame
<1>3. Holds(use, directory, "directory") /\ directory \in Pages /\ directory # New
  BY <1>2, HeldFrame DEF Linked, Holds
<1>4. ASSUME NEW i \in 0 .. next-1
      PROVE  /\ i \in Index /\ i # next /\ mem[directory][i].present
             /\ Holds(use, TableIn(mem, i), "table") /\ TableIn(mem, i) \in Pages
             /\ TableIn(mem, i) # New /\ TableIn(mem, i) # directory
  <2>1. i \in Index /\ i # next
    BY <1>1, AtLeastTwo DEF Index
  <2>2. mem[directory][i].present /\ Holds(use, TableIn(mem, i), "table")
    BY DEF Linked
  <2>3. QED
    BY <1>2, <1>3, <2>1, <2>2, HeldFrame DEF Holds
<1>5. Cleared \in Memory /\ Table(next) \in [Index -> Words] /\ Word(New) \in Words
  BY <1>1, <1>2, ClearedMemory, WordsInMemory
<1>6. /\ filled \in Memory
      /\ \A g \in Pages : filled[g] = IF g = New THEN Table(next) ELSE Cleared[g]
  BY <1>2, <1>5, WritePage
<1> HIDE DEF filled
<1>7. /\ \A g \in Pages, j \in Index :
           mem'[g][j] = IF g = directory /\ j = next THEN Word(New) ELSE filled[g][j]
      /\ \A g \in Pages : g # directory => mem'[g] = filled[g]
  BY <1>1, <1>3, <1>5, <1>6, WriteWord
<1>8. \A g \in Pages : g # New => Cleared[g] = mem[g]
  BY ClearedMemory
<1>9. mem'[directory][next] = Word(New) /\ mem'[New] = Table(next)
  BY <1>1, <1>2, <1>3, <1>6, <1>7
<1>10. \A i \in 0 .. next-1 :
         mem'[directory][i] = mem[directory][i] /\ mem'[TableIn(mem, i)] = mem[TableIn(mem, i)]
  BY <1>3, <1>4, <1>6, <1>7, <1>8
<1>11. \A i \in 0 .. next' - 1 :
         IF i = next THEN TableIn(mem, i)' = New ELSE i \in 0 .. next-1 /\ TableIn(mem, i)' = TableIn(mem, i)
  BY <1>1, <1>9, <1>10 DEF TableIn, Word, Index
<1>12. \A i \in 0 .. next' - 1 : mem'[directory'][i].present /\ Holds(use', TableIn(mem, i)', "table")
  <2> SUFFICES ASSUME NEW i \in 0 .. next' - 1
               PROVE  mem'[directory'][i].present /\ Holds(use', TableIn(mem, i)', "table")
    OBVIOUS
  <2>1. CASE i = next
    <3>1. TableIn(mem, i)' = New
      BY <1>11, <2>1
    <3>2. mem'[directory'][i].present
      BY <1>1, <1>9, <2>1 DEF Word
    <3>3. QED
      BY <1>2, <3>1, <3>2
  <2>2. CASE i # next
    <3>1. i \in 0 .. next-1 /\ TableIn(mem, i)' = TableIn(mem, i)
      BY <1>11, <2>2
    <3>2. QED
      BY <1>1, <1>2, <1>4, <1>10, <3>1
  <2>3. QED
    BY <2>1, <2>2
<1>13. \A i, j \in 0 .. next' - 1 : TableIn(mem, i)' = TableIn(mem, j)' => i = j
  BY <1>4, <1>11 DEF Linked
<1>14. Linked(mem, use, next)'
  BY <1>1, <1>2, <1>3, <1>12, <1>13 DEF Linked
<1>15. \A i \in 0 .. next' - 1 : mem'[TableIn(mem, i)'] = Table(i)
  BY <1>9, <1>10, <1>11 DEF Linear
<1>16. QED
  BY <1>14, <1>15 DEF Linear

LEMMA NewTableStep == IInv /\ NewTable => PagingInv'
<1> SUFFICES ASSUME IInv, NewTable PROVE PagingInv'
  OBVIOUS
<1>1. TypeOK /\ Filling /\ next \in Index /\ next' = next + 1 /\ pc' = "tables"
  BY AtLeastTwo DEF IInv, PagingInv, NewTable, TypeOK, Index
<1>2. CASE short = 0 /\ Taken(use) # NULL
  <2>1. Linked(mem, use, next)' /\ Linear(mem, next)' /\ short' = 0
    BY <1>1, <1>2, NewTableLinks DEF Filling, NewTable, kzalloc_page
  <2>2. QED
    BY <1>1, <2>1 DEF PagingInv, Filling
<1>3. CASE short # 0 \/ Taken(use) = NULL
  <2>1. Taken(use) = NULL /\ NoneFree(use)
    <3>1. short # 0 => NoneFree(use)
      BY <1>1 DEF Filling
    <3>2. \/ Taken(use) = NULL /\ NoneFree(use)
          \/ Taken(use) \in Heap /\ use[Taken(use)] = "free" /\ Taken(use) # NULL
      BY TakenIsFree, BlockHeapAssumption DEF Heap, NULL
    <3>3. QED
      BY <1>3, <3>1, <3>2 DEF NoneFree
  <2>2. New = 0 /\ use' = use /\ short' = short + 1 /\ directory' = directory
    BY <2>1 DEF NewTable, kzalloc_page, New, Frame, Hold
  <2>3. short' \in 1 .. next' + 1
    BY <1>1, <2>2, AtLeastTwo DEF Filling, Index
  <2> DEFINE filled == [Cleared EXCEPT ![New] = Table(next)]
  <2>4. filled \in Memory
    BY <1>1, ClearedMemory, NewFrame, WordsInMemory, WritePage
  <2>5. mem' = [filled EXCEPT ![directory][next] = Word(New)]
    BY DEF NewTable
  <2> HIDE DEF filled
  <2>6. mem'[directory][next] = Word(0)
    <3>1. directory \in Pages /\ Word(New) \in Words
      BY <1>1, <2>2, WordsInMemory DEF TypeOK
    <3>2. QED
      BY <1>1, <2>2, <2>4, <2>5, <3>1, WriteWord
  <2>7. Filling'
    BY <1>1, <2>1, <2>2, <2>3, <2>6 DEF Filling, NoneFree, Index
  <2>8. QED
    BY <1>1, <2>7 DEF PagingInv
<1>4. QED
  BY <1>2, <1>3

LEMMA NewChunkStep == IInv /\ NewChunk => PagingInv'
<1> SUFFICES ASSUME IInv, NewChunk PROVE PagingInv'
  OBVIOUS
<1>1. /\ TypeOK /\ Filling /\ next = Entries /\ pc' = "built"
      /\ use' = Hold(use, Taken(use), "chunk") /\ directory' = directory /\ chunk' = New
      /\ short' = IF Taken(use) = NULL THEN short + 1 ELSE short
      /\ mem' = [Cleared EXCEPT ![New][0] = Pointer(directory)]
  BY DEF IInv, PagingInv, NewChunk, kzalloc_page
<1>2. /\ New \in Pages /\ Cleared \in Memory /\ directory \in Pages /\ short \in Nat
      /\ Pointer(directory) \in Words /\ 0 \in Index
  BY <1>1, NewFrame, ClearedMemory, WordsInMemory, AtLeastTwo DEF TypeOK
<1>3. /\ \A g \in Pages, j \in Index :
           mem'[g][j] = IF g = New /\ j = 0 THEN Pointer(directory) ELSE Cleared[g][j]
      /\ \A g \in Pages : g # New => mem'[g] = Cleared[g]
  BY <1>1, <1>2 DEF Memory
<1>4. mem'[New][0] = Pointer(directory) /\ mem'[chunk'][0].frame = directory'
  BY <1>1, <1>2, <1>3, WordsInMemory DEF Pointer
<1>5. CASE short = 0
  <2>1. Linked(mem, use, Entries) /\ Linear(mem, Entries)
    BY <1>1, <1>5 DEF Filling
  <2>2. \A i \in Index : TableIn(mem, i) \in Pages /\ Holds(use, TableIn(mem, i), "table")
    BY <2>1, LinkedFrames
  <2>3. Holds(use, directory, "directory")
    BY <2>1, LinkedFrames
  <2>4. New # directory /\ \A i \in Index : New # TableIn(mem, i)
    BY <1>1, <2>2, <2>3, NewFrame, HeldFrame DEF Holds
  <2>5. mem'[directory] = mem[directory] /\ \A i \in Index : mem'[TableIn(mem, i)] = mem[TableIn(mem, i)]
    BY <1>1, <1>2, <1>3, <2>2, <2>4, ClearedMemory
  <2>6. \A f, w : w # "free" /\ Holds(use, f, w) => Holds(use', f, w)
    BY <1>1, NewFrame DEF Holds
  <2>7. \A i \in Index : TableIn(mem, i)' = TableIn(mem, i)
    BY <1>1, <2>5 DEF TableIn
  <2>8. Linked(mem, use, Entries)'
    <3>1. \A i \in 0 .. Entries-1 : mem'[directory'][i].present /\ Holds(use', TableIn(mem, i)', "table")
      BY <1>1, <2>1, <2>5, <2>6, <2>7, ZenonT(60) DEF Linked, Index
    <3>2. \A i, j \in 0 .. Entries-1 : TableIn(mem, i)' = TableIn(mem, j)' => i = j
      BY <2>1, <2>7 DEF Linked, Index
    <3>3. QED
      BY <1>1, <2>3, <2>6, <3>1, <3>2 DEF Linked
  <2>9. Linear(mem, Entries)'
    BY <2>1, <2>5, <2>7 DEF Linear, Index
  <2>10. short' = 0 => Holds(use', chunk', "chunk")
    BY <1>1, <1>5, NewFrame
  <2>11. ~(short' > 1)
    BY <1>1, <1>5
  <2>12. Complete'
    BY <1>4, <2>8, <2>9, <2>10, <2>11 DEF Complete
  <2>13. QED
    BY <1>1, <2>12 DEF PagingInv
<1>6. CASE short # 0
  <2>1. Taken(use) = NULL /\ short >= 1 /\ mem[directory][Entries-1] = Word(0)
    BY <1>1, <1>6, TakenIsFree, AtLeastTwo DEF Filling, NoneFree
  <2>2. New = 0 /\ Cleared = mem /\ ~(short' <= 1) /\ short' # 0
    BY <1>1, <1>2, <1>6, <2>1 DEF New, Frame, Cleared
  <2>3. ~mem'[0][0].present
    BY <1>4, <2>2 DEF Pointer
  <2>4. mem'[directory'][Entries-1] = Word(0)
    BY <1>1, <1>2, <1>3, <2>1, <2>2, WordsInMemory, AtLeastTwo
  <2>5. Complete'
    BY <1>4, <2>2, <2>3, <2>4 DEF Complete
  <2>6. QED
    BY <1>1, <2>5 DEF PagingInv
<1>7. QED
  BY <1>5, <1>6

-----------------------------------------------------------------------------
(* What the finished tables map.                                           *)
LEMMA LinearWalk ==
  ASSUME Linked(mem, use, Entries), Linear(mem, Entries), NEW p \in Pages
  PROVE  Walk(mem, directory, p) = p
<1> DEFINE d == p \div Entries
           r == p % Entries
           t == TableIn(mem, d)
<1>1. d \in Index /\ r \in Index /\ p = d * Entries + r
  BY PageIndex
<1> HIDE DEF d, r, t
<1>2. mem[directory][d].present /\ mem[directory][d].frame = t
  BY <1>1, LinkedFrames DEF t, TableIn
<1>3. mem[t] = Table(d)
  BY <1>1 DEF Linear, Index, t
<1>4. mem[t][r] = Word(p)
  BY <1>1, <1>3 DEF Table
<1>5. mem[t][r].present /\ mem[t][r].frame = p
  BY <1>4 DEF Word
<1>6. Walk(mem, directory, p) =
        IF mem[directory][d].present /\ mem[mem[directory][d].frame][r].present
        THEN mem[mem[directory][d].frame][r].frame
        ELSE None
  BY DEF Walk, d, r
<1>7. QED
  BY <1>2, <1>5, <1>6

LEMMA HollowWalk ==
  ASSUME mem[directory][Entries-1] = Word(0), ~mem[0][0].present
  PROVE  \E p \in Pages : Walk(mem, directory, p) # p
<1> DEFINE p == (Entries-1) * Entries + 0
<1>1. p \in Pages /\ p \div Entries = Entries-1 /\ p % Entries = 0
  BY WordsInMemory, IndexPage
<1> HIDE DEF p
<1>2. mem[directory][p \div Entries].frame = 0
  BY <1>1 DEF Word
<1>3. ~mem[mem[directory][p \div Entries].frame][p % Entries].present
  BY <1>1, <1>2
<1>4. Walk(mem, directory, p) = None
  BY <1>3 DEF Walk
<1>5. p # None
  BY <1>1 DEF Pages, None
<1>6. QED
  BY <1>1, <1>4, <1>5

LEMMA FinishedTables ==
  ASSUME TypeOK, Complete
  PROVE  short <= 1 <=> \A p \in Pages : Walk(mem, directory, p) = p
<1>1. short \in Nat
  BY AtLeastTwo DEF TypeOK
<1>2. CASE short <= 1
  BY <1>2, LinearWalk DEF Complete
<1>3. CASE short > 1
  <2>1. \E p \in Pages : Walk(mem, directory, p) # p
    BY <1>3, HollowWalk DEF Complete
  <2>2. ~(short <= 1)
    BY <1>1, <1>3
  <2>3. QED
    BY <2>1, <2>2
<1>4. QED
  BY <1>1, <1>2, <1>3

-----------------------------------------------------------------------------
(* The steps of a kernel whose tables are finished.                        *)
LEMMA SwitchStep == IInv /\ paging_switch => PagingInv' /\ LostOnlyWhenShort'
<1> SUFFICES ASSUME IInv, paging_switch PROVE PagingInv' /\ LostOnlyWhenShort'
  OBVIOUS
<1> DEFINE c   == IF pc = "built" THEN chunk ELSE Reached(mem, chunk)
           dir == DirectoryOf(mem, c)
<1>1. /\ pc \in {"built", "on"} /\ tlb' = Forgotten
      /\ cr3' = (IF dir = None THEN cr3 ELSE dir)
      /\ pc' = IF pc = "built" THEN "switched"
               ELSE IF dir # None /\ Walk(mem, dir, CodePage) = CodePage THEN "on" ELSE "lost"
      /\ UNCHANGED <<use, mem, built, past>>
  BY DEF paging_switch
<1>2. next' = next /\ directory' = directory /\ chunk' = chunk /\ short' = short /\ moved' = moved
  BY <1>1 DEF built, past
<1>3. TypeOK /\ PagingInv /\ short \in Nat
  BY AtLeastTwo DEF IInv, TypeOK
<1>4. chunk # None /\ directory # None
  BY <1>3 DEF TypeOK, Pages, None
<1> HIDE DEF c
<1>5. CASE pc = "built"
  <2>1. Complete
    BY <1>3, <1>5 DEF PagingInv
  <2>2. c = chunk
    BY <1>5 DEF c
  <2>3. dir = directory
    BY <1>4, <2>1, <2>2 DEF DirectoryOf, Complete
  <2>4. pc' = "switched" /\ cr3' = directory'
    BY <1>1, <1>2, <1>4, <1>5, <2>3
  <2>5. Complete'
    BY <1>1, <1>2, <2>1 DEF Complete, Linked, Linear, TableIn, Holds, Table, Word
  <2>6. QED
    BY <1>1, <2>4, <2>5 DEF PagingInv, LostOnlyWhenShort, Forgotten
<1>6. CASE pc = "on" /\ short = 0 /\ ~moved
  <2>1. Running(mem, use)
    BY <1>3, <1>6 DEF PagingInv
  <2>2. c = chunk
    BY <1>4, <1>6, <2>1 DEF c, Running, Reached, OwnIn
  <2>3. dir = directory
    BY <1>4, <2>1, <2>2 DEF DirectoryOf, Running
  <2>4. Walk(mem, dir, CodePage) = CodePage
    BY <2>1, <2>3 DEF Running
  <2>5. pc' = "on" /\ cr3' = cr3
    BY <1>1, <1>4, <1>6, <2>1, <2>3, <2>4 DEF Running
  <2>6. \A p \in OwnIn(mem) : p \in Pages
    <3>1. Holds(use, chunk, "chunk") /\ Linked(mem, use, Entries)
      BY <2>1, SMTT(60) DEF Running
    <3>2. QED
      BY <3>1, HeldFrame, LinkedFrames DEF OwnIn
  <2>7. Running(mem, use)'
    <3>1. UNCHANGED <<mem, use, directory, chunk, cr3>>
      BY <1>1, <1>2, <2>5
    <3>2. /\ Linked(mem, use, Entries)' /\ Holds(use, chunk, "chunk")'
          /\ OwnIn(mem)' = OwnIn(mem)
      BY <2>1, <3>1, SMTT(60) DEF Running, Linked, TableIn, Holds, OwnIn
    <3>3. \A p \in OwnIn(mem) \cup {CodePage} : Walk(mem, cr3, p)' = p
      BY <2>1, <3>1 DEF Running, Walk
    <3>4. \A p \in OwnIn(mem) : tlb'[p] = None
      BY <1>1, <2>6 DEF Forgotten
    <3>5. (mem[chunk][0].frame = directory)' /\ (cr3 = directory)'
      BY <2>1, <3>1 DEF Running
    <3>6. QED
      BY <3>2, <3>3, <3>4, <3>5 DEF Running
  <2>8. QED
    BY <2>5, <2>7 DEF PagingInv, LostOnlyWhenShort
<1>7. CASE pc = "on" /\ (short # 0 \/ moved)
  <2>1. pc' \in {"on", "lost"} /\ (short' > 0 \/ moved')
    BY <1>1, <1>2, <1>3, <1>7
  <2>2. QED
    BY <1>2, <1>3, <1>7, <2>1 DEF PagingInv, LostOnlyWhenShort
<1>8. QED
  BY <1>1, <1>5, <1>6, <1>7

LEMMA EnableStep == IInv /\ enable_paging => PagingInv' /\ LostOnlyWhenShort'
<1> SUFFICES ASSUME IInv, enable_paging PROVE PagingInv' /\ LostOnlyWhenShort'
  OBVIOUS
<1>1. /\ TypeOK /\ Complete /\ cr3 = directory /\ tlb = Forgotten /\ short \in Nat
      /\ pc' = (IF Walk(mem, cr3, CodePage) = CodePage THEN "enabled" ELSE "lost")
      /\ use' = use /\ mem' = mem /\ directory' = directory /\ chunk' = chunk /\ short' = short
      /\ cr3' = cr3 /\ tlb' = tlb
  BY AtLeastTwo DEF IInv, PagingInv, TypeOK, enable_paging, built
<1>2. ASSUME short <= 1 PROVE pc' = "enabled"
  <2>1. CodePage \in Pages
    BY PagingAssumption, BlockHeapAssumption DEF Pages
  <2>2. QED
    BY <1>1, <1>2, <2>1, FinishedTables
<1>3. ASSUME short = 0 PROVE Running(mem, use)
  <2>1. Linked(mem, use, Entries) /\ Holds(use, chunk, "chunk") /\ mem[chunk][0].frame = directory
    BY <1>1, <1>3 DEF Complete
  <2>2. \A p \in OwnIn(mem) \cup {CodePage} : p \in Pages
    BY <2>1, LinkedFrames, HeldFrame, PagingAssumption, BlockHeapAssumption DEF OwnIn, Pages
  <2>3. \A p \in Pages : Walk(mem, directory, p) = p
    BY <1>1, <1>3, FinishedTables
  <2>4. QED
    BY <1>1, <2>1, <2>2, <2>3 DEF Running, Forgotten
<1>4. Running(mem, use)' = Running(mem, use)
  BY <1>1 DEF Running, Linked, TableIn, Holds, OwnIn, Walk
<1>5. QED
  BY <1>1, <1>2, <1>3, <1>4 DEF PagingInv, LostOnlyWhenShort, Forgotten

(* A page is set: the map changes at that page.  Unless a page of the      *)
(* tables is mapped elsewhere, what the kernel needs stays where it is.    *)
LEMMA SetKeepsRunning ==
  ASSUME TypeOK, NEW m \in Memory, NEW u, NEW p \in Pages, NEW o \in {0, 1}, NEW f \in Pages, NEW done,
         Running(m, u), p # CodePage,
         paging_set(m, p * PageSize + o, f, done),
         use' = u, UNCHANGED <<directory, chunk, cr3>>
  PROVE  /\ pc' = done /\ OwnIn(mem)' = OwnIn(m)
         /\ p \notin OwnIn(m) \/ o = 1 \/ f = p => Running(mem, use)'
         /\ \A q \in Pages : Walk(mem, cr3, q)' = IF q = p /\ o = 0 THEN f ELSE Walk(m, cr3, q)
         /\ \A q \in Pages : tlb'[q] = tlb[q] \/ (q \in OwnIn(m) /\ tlb'[q] = q)
<1>1. Linked(m, u, Entries) /\ Holds(u, chunk, "chunk") /\ m[chunk][0].frame = directory /\ cr3 = directory
  BY DEF Running
<1> DEFINE t == TableIn(m, p \div Entries)
<1>2. {chunk, directory, t} \subseteq OwnIn(m) /\ \A q \in OwnIn(m) : q \in Pages
  <2>1. p \div Entries \in Index
    BY PageIndex
  <2>2. QED
    BY <1>1, <2>1, LinkedFrames, HeldFrame DEF OwnIn
<1> HIDE DEF t
<1>3. /\ pc' = done
      /\ \/ o = 1 /\ mem' = m /\ tlb' = [tlb EXCEPT ![chunk] = chunk]
         \/ o = 0 /\ mem' = Rewritten(m, p, f) /\ tlb' = Consulted(t)
  BY SetEffect DEF t
<1>4. \A q \in Pages : tlb'[q] = tlb[q] \/ (q \in OwnIn(m) /\ tlb'[q] = q)
  <2>1. tlb \in [Pages -> Pages \cup {None}]
    BY DEF TypeOK
  <2>2. CASE o = 1
    BY <1>2, <1>3, <2>1, <2>2
  <2>3. CASE o = 0
    <3>1. tlb' = [tlb EXCEPT ![chunk] = chunk, ![directory] = directory, ![t] = t]
      BY <1>3, <2>3 DEF Consulted
    <3>2. QED
      BY <1>2, <2>1, <3>1
  <2>4. QED
    BY <2>2, <2>3
<1>5. /\ OwnIn(mem') = OwnIn(m) /\ Linked(mem', u, Entries) /\ mem'[chunk][0].frame = directory
      /\ \A q \in Pages : Walk(mem', directory, q) = IF q = p /\ o = 0 THEN f ELSE Walk(m, directory, q)
  <2>1. CASE o = 1
    BY <1>1, <1>3, <2>1
  <2>2. CASE o = 0
    <3>1. mem' = Rewritten(m, p, f)
      BY <1>3, <2>2
    <3>2. /\ OwnIn(mem') = OwnIn(m) /\ Linked(mem', u, Entries)
          /\ mem'[chunk][0] = m[chunk][0]
          /\ \A q \in Pages : Walk(mem', directory, q) = IF q = p THEN f ELSE Walk(m, directory, q)
      BY ONLY <1>1, <3>1, SetWalk, m \in Memory, p \in Pages, f \in Pages
    <3>3. QED
      BY <1>1, <2>2, <3>2
  <2>3. QED
    BY <2>1, <2>2
<1>6. OwnIn(mem)' = OwnIn(m)
  <2>1. OwnIn(mem)' = OwnIn(mem')
    BY Zenon DEF OwnIn, TableIn
  <2>2. QED
    BY <1>5, <2>1
<1>7. \A q \in Pages : Walk(mem, cr3, q)' = IF q = p /\ o = 0 THEN f ELSE Walk(m, cr3, q)
  BY <1>1, <1>5, ZenonT(60) DEF Walk
<1>8. ASSUME p \notin OwnIn(m) \/ o = 1 \/ f = p PROVE Running(mem, use)'
  <2>1. Linked(mem, use, Entries)' /\ Holds(use', chunk', "chunk") /\ (mem[chunk][0].frame = directory)'
    BY <1>1, <1>5 DEF Linked, TableIn
  <2>2. ASSUME NEW q \in OwnIn(m) \cup {CodePage} PROVE Walk(mem, cr3, q)' = q
    <3>1. q \in Pages /\ (q = p => o = 1 \/ f = p) /\ Walk(m, cr3, q) = q
      BY <1>2, <1>8, PagingAssumption, BlockHeapAssumption DEF Pages, Running
    <3>2. QED
      BY <1>7, <3>1
  <2>3. \A q \in OwnIn(m) : tlb'[q] \in {None, q}
    BY <1>2, <1>4 DEF Running
  <2>4. QED
    BY <1>1, <1>6, <2>1, <2>2, <2>3 DEF Running
<1>9. QED
  BY <1>3, <1>4, <1>6, <1>7, <1>8

(* The first page of a kernel that was given all its memory.               *)
LEMMA MapVirtualEffect ==
  ASSUME IInv, MapVirtual, short = 0, ~moved
  PROVE  /\ pc' = "mapped" /\ Running(mem, use)' /\ OwnIn(mem)' = OwnIn(mem)
         /\ VA_start \in Pages /\ VA_start \notin OwnIn(mem) /\ New \in Pages \ OwnIn(mem)
         /\ \A q \in Pages : Walk(mem, cr3, q)' = IF q = VA_start THEN New ELSE Walk(mem, cr3, q)
         /\ \A q \in Pages : tlb'[q] = tlb[q] \/ (q \in OwnIn(mem) /\ tlb'[q] = q)
<1> DEFINE u == Hold(use, Taken(use), "data")
<1>1. TypeOK /\ Running(mem, use)
  BY DEF IInv, PagingInv, MapVirtual
<1>2. /\ Running(Cleared, u) /\ OwnIn(Cleared) = OwnIn(mem) /\ New \notin OwnIn(mem)
      /\ \A q \in Pages : Walk(Cleared, cr3, q) = Walk(mem, cr3, q)
  BY <1>1, RunningCleared
<1>3. VA_start \in Pages /\ VA_start # CodePage
  BY PagingAssumption, BlockHeapAssumption DEF Pages
<1>4. VA_start \notin OwnIn(mem)
  <2>1. Linked(mem, use, Entries) /\ Holds(use, chunk, "chunk")
    BY <1>1 DEF Running
  <2>2. \A g \in OwnIn(mem) : \E w : Holds(use, g, w)
    BY <2>1, LinkedFrames DEF OwnIn
  <2>3. QED
    BY <2>2, HeldFrame
<1>5. paging_set(Cleared, VA_start * PageSize + 0, New, "mapped") /\ use' = u
      /\ UNCHANGED <<directory, chunk, cr3>>
  <2>1. VA_start * PageSize + 0 = VA_start * PageSize
    BY <1>3, PagingAssumption DEF Pages
  <2>2. QED
    BY <2>1 DEF MapVirtual, built
<1>6. Cleared \in Memory /\ New \in Pages
  BY <1>1, ClearedMemory, NewFrame
<1> HIDE DEF u
<1>7. /\ pc' = "mapped" /\ Running(mem, use)' /\ OwnIn(mem)' = OwnIn(Cleared)
      /\ \A q \in Pages : Walk(mem, cr3, q)' = IF q = VA_start THEN New ELSE Walk(Cleared, cr3, q)
      /\ \A q \in Pages : tlb'[q] = tlb[q] \/ (q \in OwnIn(Cleared) /\ tlb'[q] = q)
  BY <1>1, <1>2, <1>3, <1>4, <1>5, <1>6, SetKeepsRunning
<1>8. QED
  BY <1>2, <1>3, <1>4, <1>6, <1>7

LEMMA OwnIsOwnIn == Own = OwnIn(mem)
BY DEF Own, OwnIn, TableIn

LEMMA MapVirtualStep == IInv /\ MapVirtual => PagingInv' /\ LostOnlyWhenShort'
<1> SUFFICES ASSUME IInv, MapVirtual PROVE PagingInv' /\ LostOnlyWhenShort'
  OBVIOUS
<1>1. short' = short /\ moved' = moved /\ short \in Nat /\ pc = "enabled" /\ tlb = Forgotten
  BY AtLeastTwo DEF IInv, TypeOK, PagingInv, MapVirtual, built, past
<1>2. CASE short = 0 /\ ~moved
  <2>1. tlb'[VA_start] = None
    BY <1>1, <1>2, MapVirtualEffect DEF Forgotten
  <2>2. Walk(mem, cr3, VA_start)' \in Pages \ Own'
    BY <1>2, MapVirtualEffect, OwnIsOwnIn DEF Own, OwnIn, TableIn
  <2>3. pc' = "mapped" /\ Running(mem, use)'
    BY <1>2, MapVirtualEffect
  <2>4. QED
    BY <2>1, <2>2, <2>3 DEF PagingInv, LostOnlyWhenShort
<1>3. CASE short # 0 \/ moved
  <2>1. TypeOK /\ Cleared \in Memory /\ New \in Pages
    BY ClearedMemory, NewFrame DEF IInv
  <2>2. VA_start \in Pages /\ VA_start * PageSize + 0 = VA_start * PageSize
    BY PagingAssumption, BlockHeapAssumption DEF Pages
  <2>3. pc' \in {"mapped", "lost"}
    BY <2>1, <2>2, SetTypes DEF MapVirtual
  <2>4. QED
    BY <1>1, <1>3, <2>3 DEF PagingInv, LostOnlyWhenShort
<1>4. QED
  BY <1>2, <1>3

(* Memory outside the tables may change, and a page of theirs be           *)
(* remembered or forgotten.                                                *)
LEMMA RunningKept ==
  ASSUME Running(mem, use), UNCHANGED <<use, directory, chunk, cr3>>,
         \A g \in OwnIn(mem) : mem'[g] = mem[g] /\ tlb'[g] \in {None, g}
  PROVE  /\ Running(mem, use)' /\ OwnIn(mem)' = OwnIn(mem)
         /\ \A q \in Pages : Walk(mem, cr3, q)' = Walk(mem, cr3, q)
<1>1. Linked(mem, use, Entries) /\ Holds(use, chunk, "chunk") /\ cr3 = directory
  BY DEF Running
<1>2. /\ OwnIn(mem') = OwnIn(mem) /\ Linked(mem', use, Entries)
      /\ \A p \in Pages : Walk(mem', directory, p) = Walk(mem, directory, p)
  BY <1>1, SameTables
<1>3. OwnIn(mem)' = OwnIn(mem)
  BY <1>2 DEF OwnIn, TableIn
<1>4. \A q \in Pages : Walk(mem, cr3, q)' = Walk(mem, cr3, q)
  BY <1>1, <1>2 DEF Walk
<1>5. Linked(mem, use, Entries)' /\ Holds(use', chunk', "chunk")
  BY <1>1, <1>2 DEF Linked, TableIn
<1>6. (mem[chunk][0].frame = directory)'
  BY DEF Running, OwnIn
<1>7. ASSUME NEW p \in OwnIn(mem) \cup {CodePage} PROVE Walk(mem, cr3, p)' = p
  <2>1. p \in Pages
    BY <1>1, LinkedFrames, HeldFrame, PagingAssumption, BlockHeapAssumption DEF OwnIn, Pages
  <2>2. QED
    BY <1>4, <2>1 DEF Running
<1>8. QED
  BY <1>1, <1>3, <1>4, <1>5, <1>6, <1>7 DEF Running

LEMMA WriteTextStep == IInv /\ WriteText => PagingInv' /\ LostOnlyWhenShort'
<1> SUFFICES ASSUME IInv, WriteText PROVE PagingInv' /\ LostOnlyWhenShort'
  OBVIOUS
<1> DEFINE to == Reached(mem, VA_start)
<1>1. /\ pc = "mapped" /\ short' = short /\ moved' = moved /\ short \in Nat
      /\ UNCHANGED <<use, directory, chunk, cr3>>
      /\ pc' \in {"on", "lost"}
  BY AtLeastTwo DEF IInv, TypeOK, WriteText, built
<1>2. CASE short = 0 /\ ~moved
  <2>1. Running(mem, use) /\ tlb[VA_start] = None /\ Walk(mem, cr3, VA_start) \in Pages \ Own
    BY <1>1, <1>2 DEF IInv, PagingInv
  <2>2. to \in Pages /\ to \notin OwnIn(mem) /\ to # None
    BY <2>1, OwnIsOwnIn DEF Reached, Pages, None
  <2> HIDE DEF to
  <2>3. pc' = "on" /\ mem' = [mem EXCEPT ![to][0] = Text] /\ tlb' = [tlb EXCEPT ![VA_start] = to]
    BY <2>2 DEF WriteText, to
  <2>4. VA_start \notin OwnIn(mem)
    <3>1. Linked(mem, use, Entries) /\ Holds(use, chunk, "chunk")
      BY <2>1 DEF Running
    <3>2. \A g \in OwnIn(mem) : \E w : Holds(use, g, w)
      BY <3>1, LinkedFrames DEF OwnIn
    <3>3. QED
      BY <3>2, HeldFrame
  <2>5. \A g \in OwnIn(mem) : mem'[g] = mem[g]
    <3>1. \A g \in OwnIn(mem) : g \in Pages /\ g # to
      BY <2>1, <2>2, LinkedFrames, HeldFrame DEF OwnIn, Running
    <3>2. mem \in Memory
      BY DEF IInv, TypeOK, Memory, Words
    <3>3. QED
      BY <2>3, <3>1, <3>2 DEF Memory
  <2>6. \A g \in OwnIn(mem) : tlb'[g] \in {None, g}
    <3>1. \A g \in OwnIn(mem) : g \in Pages /\ g # VA_start /\ tlb[g] \in {None, g}
      BY <2>1, <2>4, LinkedFrames, HeldFrame DEF OwnIn, Running
    <3>2. tlb \in [Pages -> Pages \cup {None}]
      BY DEF IInv, TypeOK
    <3>3. QED
      BY <2>3, <3>1, <3>2
  <2>7. Running(mem, use)'
    BY <1>1, <2>1, <2>5, <2>6, RunningKept
  <2>8. QED
    BY <2>3, <2>7 DEF PagingInv, LostOnlyWhenShort
<1>3. CASE short # 0 \/ moved
  BY <1>1, <1>3 DEF PagingInv, LostOnlyWhenShort
<1>4. QED
  BY <1>2, <1>3

\* What a call of paging_set does to a kernel that runs.
LEMMA MapEffect ==
  ASSUME IInv, NEW p \in Targets, NEW f \in Targets, NEW o \in {0, 1}, Map(p * PageSize + o, f),
         short = 0, ~moved
  PROVE  /\ pc' = "on" /\ short' = 0 /\ OwnIn(mem)' = OwnIn(mem)
         /\ moved' <=> p \in OwnIn(mem) /\ o = 0 /\ f # p
         /\ ~moved' => Running(mem, use)'
         /\ \A q \in Pages : Walk(mem, cr3, q)' = IF q = p /\ o = 0 THEN f ELSE Walk(mem, cr3, q)
         /\ \A q \in Pages : tlb'[q] = tlb[q] \/ (q \in OwnIn(mem) /\ tlb'[q] = q)
<1>1. /\ pc = "on" /\ short' = short
      /\ UNCHANGED <<use, directory, chunk, cr3>>
      /\ paging_set(mem, p * PageSize + o, f, "on")
      /\ moved' <=> (moved \/ \E q \in Own \ {f} : p * PageSize + o = q * PageSize)
  BY DEF IInv, TypeOK, Map, built
<1>2. p \in Pages /\ f \in Pages /\ p # CodePage
  BY PagingAssumption
<1>3. TypeOK /\ mem \in Memory /\ Running(mem, use)
  BY <1>1 DEF IInv, TypeOK, Memory, Words, PagingInv
<1>4. \A q \in Own : q \in Pages
  BY <1>3, OwnIsOwnIn, LinkedFrames, HeldFrame DEF OwnIn, Running
<1>5. moved' <=> p \in OwnIn(mem) /\ o = 0 /\ f # p
  <2>1. \A q \in Own : p * PageSize + o = q * PageSize <=> q = p /\ o = 0
    BY <1>2, <1>4, PageOfAddress
  <2>2. QED
    BY <1>1, <2>1, OwnIsOwnIn
<1>6. /\ pc' = "on" /\ OwnIn(mem)' = OwnIn(mem)
      /\ p \notin OwnIn(mem) \/ o = 1 \/ f = p => Running(mem, use)'
      /\ \A q \in Pages : Walk(mem, cr3, q)' = IF q = p /\ o = 0 THEN f ELSE Walk(mem, cr3, q)
      /\ \A q \in Pages : tlb'[q] = tlb[q] \/ (q \in OwnIn(mem) /\ tlb'[q] = q)
  BY <1>1, <1>2, <1>3, SetKeepsRunning
<1>7. QED
  BY <1>1, <1>5, <1>6

LEMMA MapStep ==
  ASSUME IInv, NEW p \in Targets, NEW f \in Targets, NEW o \in {0, 1}, Map(p * PageSize + o, f)
  PROVE  PagingInv' /\ LostOnlyWhenShort'
<1>1. /\ short' = short /\ short \in Nat /\ paging_set(mem, p * PageSize + o, f, "on")
      /\ moved => moved'
  BY AtLeastTwo DEF IInv, TypeOK, Map, built
<1>2. CASE short = 0 /\ ~moved'
  <2>1. pc' = "on" /\ Running(mem, use)'
    BY <1>1, <1>2, MapEffect
  <2>2. QED
    BY <2>1 DEF PagingInv, LostOnlyWhenShort
<1>3. CASE short # 0 \/ moved'
  <2>1. pc' \in {"on", "lost"}
    BY <1>1, ZenonT(60) DEF paging_set
  <2>2. QED
    BY <1>1, <1>3, <2>1 DEF PagingInv, LostOnlyWhenShort
<1>4. QED
  BY <1>2, <1>3

LEMMA AccessStep ==
  ASSUME IInv, NEW p \in Targets, Access(p)
  PROVE  PagingInv' /\ LostOnlyWhenShort'
<1>1. /\ pc = "on" /\ pc' = "on" /\ short' = short /\ moved' = moved
      /\ UNCHANGED <<use, mem, directory, chunk, cr3>>
      /\ tlb' = [tlb EXCEPT ![p] = Reached(mem, p)]
  BY DEF Access, built
<1>2. ASSUME short = 0, ~moved PROVE Running(mem, use)'
  <2>1. Running(mem, use)
    BY <1>1, <1>2 DEF IInv, PagingInv
  <2>2. \A g \in OwnIn(mem) : Reached(mem, g) = g /\ tlb[g] \in {None, g}
    BY <2>1 DEF Running, Reached
  <2>3. \A g \in OwnIn(mem) : g \in Pages
    BY <2>1, LinkedFrames, HeldFrame DEF OwnIn, Running
  <2>4. tlb \in [Pages -> Pages \cup {None}]
    BY DEF IInv, TypeOK
  <2>5. \A g \in OwnIn(mem) : mem'[g] = mem[g] /\ tlb'[g] \in {None, g}
    BY <1>1, <2>2, <2>3, <2>4
  <2>6. QED
    BY <1>1, <2>1, <2>5, RunningKept
<1>3. QED
  BY <1>1, <1>2 DEF PagingInv, LostOnlyWhenShort

LEMMA ForgetStep ==
  ASSUME IInv, NEW p \in Pages, Forget(p)
  PROVE  PagingInv' /\ LostOnlyWhenShort'
<1>1. /\ pc = "on" /\ pc' = "on" /\ short' = short /\ moved' = moved
      /\ UNCHANGED <<use, mem, directory, chunk, cr3>>
      /\ tlb' = [tlb EXCEPT ![p] = None]
  BY DEF Forget, built, past
<1>2. ASSUME short = 0, ~moved PROVE Running(mem, use)'
  <2>1. Running(mem, use)
    BY <1>1, <1>2 DEF IInv, PagingInv
  <2>2. \A g \in OwnIn(mem) : g \in Pages /\ tlb[g] \in {None, g}
    BY <2>1, LinkedFrames, HeldFrame DEF OwnIn, Running
  <2>3. tlb \in [Pages -> Pages \cup {None}]
    BY DEF IInv, TypeOK
  <2>4. \A g \in OwnIn(mem) : mem'[g] = mem[g] /\ tlb'[g] \in {None, g}
    BY <1>1, <2>2, <2>3
  <2>5. QED
    BY <1>1, <2>1, <2>4, RunningKept
<1>3. QED
  BY <1>1, <1>2 DEF PagingInv, LostOnlyWhenShort

-----------------------------------------------------------------------------
LEMMA PagingStep == IInv /\ [Next]_vars => IInv'
<1> SUFFICES ASSUME IInv, [Next]_vars PROVE IInv'
  OBVIOUS
<1>1. TypeOK'
  BY PagingTypeStep
<1>2. PagingInv' /\ LostOnlyWhenShort'
  <2>1. ASSUME NewDirectory \/ NewTable \/ NewChunk PROVE PagingInv' /\ LostOnlyWhenShort'
    <3>1. PagingInv'
      BY <2>1, NewDirectoryStep, NewTableStep, NewChunkStep
    <3>2. pc' # "lost"
      BY <2>1 DEF NewDirectory, NewTable, NewChunk
    <3>3. QED
      BY <3>1, <3>2 DEF LostOnlyWhenShort
  <2>2. ASSUME UNCHANGED vars PROVE PagingInv' /\ LostOnlyWhenShort'
    <3>1. /\ use' = use /\ mem' = mem /\ pc' = pc /\ next' = next /\ directory' = directory
          /\ chunk' = chunk /\ short' = short /\ cr3' = cr3 /\ tlb' = tlb /\ moved' = moved
      BY <2>2 DEF vars, built, past
    <3>2. Filling' = Filling
      BY <3>1 DEF Filling, Linked, Linear, Holds, TableIn, Table, Word, NoneFree
    <3>3. Complete' = Complete
      BY <3>1 DEF Complete, Linked, Linear, Holds, TableIn, Table, Word
    <3>4. Running(mem, use)' = Running(mem, use)
      BY <3>1 DEF Running, Linked, Holds, TableIn, OwnIn, Walk
    <3>5. Own' = Own /\ Walk(mem, cr3, VA_start)' = Walk(mem, cr3, VA_start)
      BY <3>1 DEF Own, Walk
    <3>6. QED
      BY <3>1, <3>2, <3>3, <3>4, <3>5 DEF IInv, PagingInv, LostOnlyWhenShort, Forgotten
  <2>3. CASE paging_switch
    BY <2>3, SwitchStep
  <2>4. CASE enable_paging
    BY <2>4, EnableStep
  <2>5. CASE MapVirtual
    BY <2>5, MapVirtualStep
  <2>6. CASE WriteText
    BY <2>6, WriteTextStep
  <2>7. ASSUME NEW p \in Targets, NEW f \in Targets, NEW o \in {0, 1}, Map(p * PageSize + o, f)
        PROVE  PagingInv' /\ LostOnlyWhenShort'
    BY <2>7, MapStep
  <2>8. ASSUME NEW p \in Targets, Access(p) PROVE PagingInv' /\ LostOnlyWhenShort'
    BY <2>8, AccessStep
  <2>9. ASSUME NEW p \in Pages, Forget(p) PROVE PagingInv' /\ LostOnlyWhenShort'
    BY <2>9, ForgetStep
  <2>10. QED
    BY <2>1, <2>2, <2>3, <2>4, <2>5, <2>6, <2>7, <2>8, <2>9 DEF Next
<1>3. QED
  BY <1>1, <1>2 DEF IInv

LEMMA PagingAlways == Spec => []IInv
BY PagingInit, PagingStep, PTL DEF Spec

-----------------------------------------------------------------------------
(* Every variable of the kernel's paging has its type, whatever the sizes  *)
(* of tables, pages and heap (paging.c, kernel.c).                         *)
THEOREM PagingTypeCorrect == Spec => []TypeOK
<1>1. IInv => TypeOK
  BY DEF IInv
<1>2. QED
  BY <1>1, PagingAlways, PTL

(* paging_new_4gb's tables are the identity if and only if at most one of  *)
(* its blocks was missing: then the missing one was the chunk.             *)
THEOREM PagingIdentity == Spec => []IdentityUnlessShort
<1>1. IInv => IdentityUnlessShort
  <2> SUFFICES ASSUME IInv, pc = "switched"
               PROVE  TableMap = [p \in Pages |-> p] <=> short <= 1
    BY DEF IdentityUnlessShort
  <2>1. TypeOK /\ Complete /\ cr3 = directory
    BY DEF IInv, PagingInv
  <2>2. TableMap = [p \in Pages |-> p] <=> \A p \in Pages : Walk(mem, directory, p) = p
    BY <2>1 DEF TableMap
  <2>3. QED
    BY <2>1, <2>2, FinishedTables
<1>2. QED
  BY <1>1, PagingAlways, PTL

(* A kernel that was given all its blocks is not lost on a page fault,     *)
(* whatever it maps, unless it maps a page of the tables (paging_set).     *)
THEOREM PagingNotLost == Spec => []LostOnlyWhenShort
<1>1. IInv => LostOnlyWhenShort
  BY DEF IInv
<1>2. QED
  BY <1>1, PagingAlways, PTL

-----------------------------------------------------------------------------
(* Paging implements AddressSpace.                                         *)
Sound == pc \in {"enabled", "mapped", "on"} /\ short = 0 /\ ~moved
Stale == {p \in Remembered : tlb[p] # Walk(mem, cr3, p)}

LEMMA SoundRuns ==
  ASSUME IInv, Sound
  PROVE  /\ TypeOK /\ Running(mem, use) /\ Own = OwnIn(mem) /\ cr3 = directory
         /\ \A g \in OwnIn(mem) : /\ g \in Pages /\ tlb[g] \in {None, g}
                                  /\ Walk(mem, cr3, g) = g /\ Reached(mem, g) = g
         /\ chunk \in OwnIn(mem)
<1>1. TypeOK /\ Running(mem, use)
  BY DEF IInv, PagingInv, Sound
<1>2. \A g \in OwnIn(mem) : g \in Pages
  BY <1>1, LinkedFrames, HeldFrame DEF OwnIn, Running
<1>3. QED
  BY <1>1, <1>2, OwnIsOwnIn DEF Running, Reached, OwnIn

\* A paging_set that changes the map at the page of its address, and
\* remembers pages of the tables.
LEMMA SetRefined ==
  ASSUME IInv, Sound, NEW p \in Pages, NEW o \in {0, 1}, NEW f \in Pages,
         OwnIn(mem)' = OwnIn(mem), call' = <<"set", p * PageSize + o, f>>,
         \A q \in Pages : Walk(mem, cr3, q)' = IF q = p /\ o = 0 THEN f ELSE Walk(mem, cr3, q),
         \A q \in Pages : tlb'[q] = tlb[q] \/ (q \in OwnIn(mem) /\ tlb'[q] = q)
  PROVE  AS!Set(p * PageSize + o, f)
<1> DEFINE changed == AS!Changed(p * PageSize + o)
<1>1. \A q \in Pages : q \in changed <=> q = p /\ o = 0
  BY PageOfAddress
<1> HIDE DEF changed
<1>2. TableMap' = [q \in Pages |-> IF q \in changed THEN f ELSE TableMap[q]]
  BY <1>1 DEF TableMap
<1>3. Own' = Own
  <2>1. Own' = OwnIn(mem)'
    BY OwnIsOwnIn DEF Own, OwnIn, TableIn
  <2>2. QED
    BY <2>1, SoundRuns
<1>4. Remembered' \subseteq Remembered \cup Own
  BY SoundRuns DEF Remembered
<1>5. Stale' \subseteq Stale \cup (changed \cap Remembered')
  <2> SUFFICES ASSUME NEW q \in Pages, tlb'[q] # None, tlb'[q] # Walk(mem, cr3, q)'
               PROVE  q \in Stale \cup (changed \cap Remembered')
    BY DEF Stale, Remembered
  <2>1. CASE q = p /\ o = 0
    BY <1>1, <2>1 DEF Remembered
  <2>2. CASE ~(q = p /\ o = 0)
    <3>1. Walk(mem, cr3, q)' = Walk(mem, cr3, q)
      BY <2>2
    <3>2. q \in OwnIn(mem) => Walk(mem, cr3, q) = q
      BY SoundRuns
    <3>3. tlb'[q] = tlb[q]
      BY <3>1, <3>2
    <3>4. QED
      BY <3>1, <3>3 DEF Stale, Remembered
  <2>3. QED
    BY <2>1, <2>2
<1>6. QED
  BY <1>2, <1>3, <1>4, <1>5 DEF AS!Set, Stale, changed

\* A step that remembers the frame which an access to page p reached.
LEMMA AccessRefined ==
  ASSUME IInv, Sound, NEW p \in Pages, NEW f, f = Reached(mem, p), f # None,
         call' = <<"access", p, f>>, tlb' = [tlb EXCEPT ![p] = f], Own' = Own,
         \A q \in Pages : Walk(mem, cr3, q)' = Walk(mem, cr3, q)
  PROVE  AS!Access(p, f)
<1>1. TableMap' = TableMap
  BY DEF TableMap
<1>2. tlb \in [Pages -> Pages \cup {None}]
  BY DEF IInv, TypeOK
<1>3. \A q \in Pages : tlb'[q] = IF q = p THEN f ELSE tlb[q]
  BY <1>2
<1>4. Remembered' = Remembered \cup {p}
  BY <1>3 DEF Remembered
<1>5. p \notin Stale => f = TableMap[p]
  BY DEF Stale, Remembered, TableMap, Reached
<1>6. Stale' = Stale
  <2>1. ASSUME NEW q \in Pages
        PROVE  tlb'[q] # None /\ tlb'[q] # Walk(mem, cr3, q)'
                 <=> tlb[q] # None /\ tlb[q] # Walk(mem, cr3, q)
    BY <1>3 DEF Reached
  <2>2. QED
    BY <2>1 DEF Stale, Remembered
<1>7. QED
  BY <1>1, <1>4, <1>5, <1>6 DEF AS!Access, Stale

\* A step that makes the processor forget pages and changes nothing else.
LEMMA ForgetRefined ==
  ASSUME UNCHANGED <<mem, directory, chunk, cr3, call>>,
         \A q \in Pages : tlb'[q] \in {None, tlb[q]}
  PROVE  AS!Forget
<1>1. TableMap' = TableMap /\ Own' = Own
  BY DEF TableMap, Walk, Own
<1>2. Remembered' \subseteq Remembered
  BY DEF Remembered
<1>3. \A q \in Pages : Walk(mem, cr3, q)' = Walk(mem, cr3, q)
  BY DEF Walk
<1>4. Stale' = Stale \cap Remembered'
  BY <1>3 DEF Stale, Remembered
<1>5. QED
  BY <1>1, <1>2, <1>4 DEF AS!Forget, Stale

(* A kernel that has all its blocks is not lost in these steps.            *)
LEMMA SoundKept ==
  ASSUME IInv, Sound, paging_switch \/ WriteText
  PROVE  Sound'
<1>1. LostOnlyWhenShort'
  BY SwitchStep, WriteTextStep
<1>2. short' = 0 /\ ~moved' /\ pc' \in {"enabled", "mapped", "on", "lost"}
  <2>1. CASE paging_switch
    BY <2>1 DEF paging_switch, Sound, built, past
  <2>2. CASE WriteText
    BY <2>2 DEF WriteText, Sound, built
  <2>3. QED
    BY <2>1, <2>2
<1>3. QED
  BY <1>1, <1>2 DEF LostOnlyWhenShort, Sound

LEMMA SoundStep ==
  ASSUME IInv, Next, Sound
  PROVE  AS!Next
<1>1. /\ TypeOK /\ mem \in Memory /\ Running(mem, use) /\ Own = OwnIn(mem) /\ cr3 = directory
      /\ \A g \in OwnIn(mem) : g \in Pages /\ Walk(mem, cr3, g) = g
      /\ chunk \in OwnIn(mem) /\ short = 0 /\ ~moved
  BY SoundRuns DEF Sound, TypeOK, Memory, Words
<1>2. ASSUME NEW p \in Pages, NEW o \in {0, 1}, NEW f \in Pages, AS!Set(p * PageSize + o, f),
             Sound' <=> AS!Changed(p * PageSize + o) \cap Own \subseteq {f}
      PROVE  AS!Next
  <2>1. o \in 0 .. PageSize-1
    BY PagingAssumption
  <2>2. QED
    BY <1>2, <2>1 DEF AS!Next, Sound
<1>3. ASSUME NEW p \in Pages, NEW f \in Pages, AS!Access(p, f), Sound' PROVE AS!Next
  BY <1>3 DEF AS!Next, Sound
<1>4. AS!Forget /\ Sound' => AS!Next
  BY DEF AS!Next, Sound
<1>5. CASE NewDirectory \/ NewTable \/ NewChunk \/ enable_paging
  BY <1>5 DEF NewDirectory, NewTable, NewChunk, enable_paging, Sound
<1>6. CASE paging_switch
  <2>1. UNCHANGED <<mem, directory, chunk, call>> /\ tlb' = Forgotten /\ pc = "on"
    BY <1>6 DEF paging_switch, built, past, Sound
  <2>2. cr3' = cr3
    <3>1. cr3' = IF DirectoryOf(mem, Reached(mem, chunk)) = None THEN cr3
                 ELSE DirectoryOf(mem, Reached(mem, chunk))
      BY <1>6, <2>1 DEF paging_switch
    <3>2. Reached(mem, chunk) = chunk /\ chunk # None
      BY <1>1, SoundRuns DEF Pages, None
    <3>3. DirectoryOf(mem, Reached(mem, chunk)) = directory
      BY <1>1, <3>2 DEF DirectoryOf, Running
    <3>4. QED
      BY <1>1, <3>1, <3>3
  <2>3. \A q \in Pages : tlb'[q] \in {None, tlb[q]}
    BY <2>1 DEF Forgotten
  <2>4. AS!Forget
    BY <2>1, <2>2, <2>3, ForgetRefined
  <2>5. Sound'
    BY <1>6, SoundKept
  <2>6. QED
    BY <1>4, <2>4, <2>5
<1>7. CASE MapVirtual
  <2>1. /\ VA_start \in Pages \ OwnIn(mem) /\ New \in Pages /\ pc' = "mapped"
        /\ OwnIn(mem)' = OwnIn(mem)
        /\ \A q \in Pages : Walk(mem, cr3, q)' = IF q = VA_start THEN New ELSE Walk(mem, cr3, q)
        /\ \A q \in Pages : tlb'[q] = tlb[q] \/ (q \in OwnIn(mem) /\ tlb'[q] = q)
    BY <1>1, <1>7, MapVirtualEffect
  <2>2. call' = <<"set", VA_start * PageSize + 0, New>> /\ short' = short /\ moved' = moved
    <3>1. VA_start * PageSize + 0 = VA_start * PageSize
      BY <2>1, PagingAssumption DEF Pages
    <3>2. QED
      BY <1>7, <3>1 DEF MapVirtual, built
  <2>3. ASSUME NEW f \in Pages, f = New
        PROVE  /\ AS!Set(VA_start * PageSize + 0, f)
               /\ Sound' <=> AS!Changed(VA_start * PageSize + 0) \cap Own \subseteq {f}
    <3>1. \A q \in Pages : Walk(mem, cr3, q)' = IF q = VA_start /\ 0 = 0 THEN f ELSE Walk(mem, cr3, q)
      BY <2>1, <2>3
    <3>2. AS!Changed(VA_start * PageSize + 0) = {VA_start}
      BY <2>1, PageOfAddress
    <3>3. Sound'
      BY <1>1, <2>1, <2>2 DEF Sound
    <3>4. AS!Set(VA_start * PageSize + 0, f)
      BY <2>1, <2>2, <2>3, <3>1, SetRefined
    <3>5. QED
      BY <1>1, <2>1, <3>2, <3>3, <3>4
  <2>4. QED
    BY <1>2, <2>1, <2>3
<1>8. CASE WriteText
  <2> DEFINE to == Reached(mem, VA_start)
  <2>1. Sound'
    BY <1>8, SoundKept
  <2>2. /\ pc = "mapped" /\ UNCHANGED <<use, directory, chunk, cr3>>
        /\ to # None /\ mem' = [mem EXCEPT ![to][0] = Text]
        /\ tlb' = [tlb EXCEPT ![VA_start] = to] /\ call' = <<"access", VA_start, to>>
    BY <1>8, <2>1 DEF WriteText, built, Sound
  <2>3. tlb[VA_start] = None /\ Walk(mem, cr3, VA_start) \in Pages \ Own
    BY <1>1, <2>2 DEF IInv, PagingInv
  <2>4. VA_start \in Pages /\ to \in Pages /\ to \notin OwnIn(mem)
    BY <1>1, <2>3, PagingAssumption, BlockHeapAssumption DEF Reached, Pages
  <2> HIDE DEF to
  <2>5. \A g \in OwnIn(mem) : mem'[g] = mem[g]
    BY <1>1, <2>2, <2>4 DEF Memory
  <2>6. /\ OwnIn(mem') = OwnIn(mem)
        /\ \A q \in Pages : Walk(mem', directory, q) = Walk(mem, directory, q)
    BY <1>1, <2>5, SameTables, ZenonT(60) DEF Running
  <2>7. \A q \in Pages : Walk(mem, cr3, q)' = Walk(mem, cr3, q)
    BY <1>1, <2>2, <2>6, ZenonT(60) DEF Walk
  <2>8. Own' = Own
    <3>1. Own' = OwnIn(mem')
      BY <2>2 DEF Own, OwnIn, TableIn
    <3>2. QED
      BY <1>1, <2>6, <3>1
  <2>9. AS!Access(VA_start, to)
    BY <2>2, <2>4, <2>7, <2>8, AccessRefined DEF to
  <2>10. QED
    BY <1>3, <2>4, <2>9, <2>1
<1>9. ASSUME NEW p \in Targets, Access(p) PROVE AS!Next
  <2>1. /\ UNCHANGED <<mem, directory, chunk, cr3>> /\ Reached(mem, p) # None
        /\ tlb' = [tlb EXCEPT ![p] = Reached(mem, p)] /\ call' = <<"access", p, Reached(mem, p)>>
    BY <1>9 DEF Access, built
  <2>2. p \in Pages /\ Reached(mem, p) \in Pages
    BY <1>1, <2>1, PagingAssumption, ReachedType
  <2>3. Own' = Own /\ \A q \in Pages : Walk(mem, cr3, q)' = Walk(mem, cr3, q)
    BY <2>1 DEF Own, Walk
  <2>4. AS!Access(p, Reached(mem, p))
    BY <2>1, <2>2, <2>3, AccessRefined
  <2>5. Sound'
    BY <1>1, <1>9 DEF Access, Sound, built
  <2>6. QED
    BY <1>3, <2>2, <2>4, <2>5
<1>10. ASSUME NEW p \in Targets, NEW f \in Targets, NEW o \in {0, 1}, Map(p * PageSize + o, f)
       PROVE  AS!Next
  <2>1. call' = <<"set", p * PageSize + o, f>> /\ p \in Pages /\ f \in Pages
    BY <1>10, PagingAssumption DEF Map
  <2>2. /\ pc' = "on" /\ short' = 0 /\ OwnIn(mem)' = OwnIn(mem)
        /\ moved' <=> p \in OwnIn(mem) /\ o = 0 /\ f # p
        /\ \A q \in Pages : Walk(mem, cr3, q)' = IF q = p /\ o = 0 THEN f ELSE Walk(mem, cr3, q)
        /\ \A q \in Pages : tlb'[q] = tlb[q] \/ (q \in OwnIn(mem) /\ tlb'[q] = q)
    BY <1>1, <1>10, MapEffect
  <2>3. AS!Set(p * PageSize + o, f)
    BY <2>1, <2>2, SetRefined
  <2>4. Sound' <=> AS!Changed(p * PageSize + o) \cap Own \subseteq {f}
    <3>1. AS!Changed(p * PageSize + o) = IF o = 0 THEN {p} ELSE {}
      BY <2>1, PageOfAddress
    <3>2. Sound' <=> ~moved'
      BY <2>2 DEF Sound
    <3>3. QED
      BY <1>1, <2>2, <3>1, <3>2
  <2>5. QED
    BY <1>2, <2>1, <2>3, <2>4
<1>11. ASSUME NEW p \in Pages, Forget(p) PROVE AS!Next
  <2>1. /\ UNCHANGED <<mem, directory, chunk, cr3, call>>
        /\ tlb' = [tlb EXCEPT ![p] = None] /\ tlb \in [Pages -> Pages \cup {None}]
    BY <1>1, <1>11 DEF Forget, built, past, TypeOK
  <2>2. \A q \in Pages : tlb'[q] \in {None, tlb[q]}
    BY <2>1
  <2>3. AS!Forget
    BY <2>1, <2>2, ForgetRefined
  <2>4. Sound'
    BY <1>1, <1>11 DEF Forget, Sound, built, past
  <2>5. QED
    BY <1>4, <2>3, <2>4
<1>12. QED
  BY <1>5, <1>6, <1>7, <1>8, <1>9, <1>10, <1>11 DEF Next

LEMMA SoundStarts ==
  ASSUME IInv, Next, ~Sound, Sound'
  PROVE  TableMap' = AS!Identity /\ Stale' = {} /\ call' = call
<1>1. enable_paging
  <2>1. short' \in Nat /\ short \in Nat /\ moved \in BOOLEAN
    BY PagingTypeStep, AtLeastTwo DEF IInv, TypeOK
  <2>2. pc' \in {"enabled", "mapped", "on"} /\ short' = 0 /\ ~moved'
    BY DEF Sound
  <2>3. short' = short /\ (moved => moved')
    BY <2>1, <2>2 DEF Next, NewDirectory, NewTable, NewChunk, paging_switch, enable_paging,
                      MapVirtual, WriteText, Map, Access, Forget, built, past
  <2>4. pc \notin {"enabled", "mapped", "on"}
    BY <2>1, <2>2, <2>3 DEF Sound
  <2>5. QED
    BY <2>2, <2>4 DEF Next, NewDirectory, NewTable, NewChunk, paging_switch, enable_paging,
                      MapVirtual, WriteText, Map, Access, Forget
<1>2. /\ pc = "switched" /\ short = 0 /\ UNCHANGED <<mem, cr3, tlb>>
  BY <1>1 DEF enable_paging, Sound, built
<1>3. TypeOK /\ Complete /\ cr3 = directory /\ tlb = Forgotten
  BY <1>2, SMTT(60) DEF IInv, PagingInv
<1>4. \A p \in Pages : Walk(mem, cr3, p)' = p
  <2>1. \A p \in Pages : Walk(mem, directory, p) = p
    BY <1>2, <1>3, FinishedTables
  <2>2. QED
    BY <1>2, <1>3, <2>1 DEF Walk
<1>5. TableMap' = AS!Identity
  BY <1>4 DEF TableMap, AS!Identity
<1>6. Stale' = {}
  BY <1>2, <1>3 DEF Stale, Remembered, Forgotten
<1>7. call' = call
  BY <1>1 DEF enable_paging, past
<1>8. QED
  BY <1>5, <1>6, <1>7

(* Directory, tables and TLB are together one map: the identity at first;  *)
(* each paging_set maps the page of its address to its frame and changes   *)
(* no other page, until one maps a page of the tables elsewhere; an access *)
(* sees the map unless its page was set while the processor remembered it. *)
THEOREM PagingRefines == Spec => AddressSpaceSpec
<1>1. Init => AS!Init
  BY DEF Init, AS!Init
<1>2. IInv /\ [Next]_vars => [AS!Next]_AS!vars
  <2> SUFFICES ASSUME IInv, [Next]_vars PROVE [AS!Next]_AS!vars
    OBVIOUS
  <2>1. CASE UNCHANGED vars
    <3>1. UNCHANGED <<use, mem, pc, directory, chunk, short, cr3, tlb, moved, call>>
      BY <2>1 DEF vars, built, past
    <3>2. UNCHANGED <<TableMap, Own, Remembered, Stale, call, Sound>>
      BY <3>1 DEF TableMap, Walk, Own, Remembered, Stale, Sound
    <3>3. QED
      BY <3>2 DEF AS!vars, Stale, Sound
  <2>2. CASE Next /\ ~Sound /\ ~Sound'
    BY <2>2 DEF AS!Next, Sound
  <2>3. CASE Next /\ Sound
    BY <2>3, SoundStep
  <2>4. CASE Next /\ ~Sound /\ Sound'
    BY <2>4, SoundStarts DEF AS!Next, AS!SwitchOn, Sound, Stale
  <2>5. QED
    BY <2>1, <2>2, <2>3, <2>4
<1>3. QED
  BY <1>1, <1>2, PagingAlways, PTL DEF Spec, AddressSpaceSpec, AS!Spec
=============================================================================
