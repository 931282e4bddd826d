------------------------------- MODULE Paging -------------------------------
(***************************************************************************)
(* Paging (memory/paging/paging.c): the kernel builds a directory and its  *)
(* tables in heap blocks, switches paging on and maps pages in the tables  *)
(* that are active.  An address is PageSize times a page plus an offset; a *)
(* directory, a table and a heap block fill a frame of memory each.  Of    *)
(* the flags only the present bit matters to a kernel that runs alone.     *)
(***************************************************************************)
EXTENDS BlockHeap

CONSTANTS
  Entries,      \* PAGING_TOTAL_ENTRIES_PER_TABLE
  PageSize,     \* PAGING_PAGE_SIZE
  HeapFrame,    \* the frame of the first heap block
  CodePage,     \* the page that the kernel runs in
  VA_start,     \* the page that enable_virtual_addressing maps
  Targets,      \* pages that are mapped afterwards; not the kernel's own
  MaxSets       \* bound: calls of paging_set afterwards

Index == 0 .. Entries-1
Pages == 0 .. Entries * Entries - 1

ASSUME PagingAssumption ==
  /\ Entries \in Nat \ {0} /\ PageSize \in Nat \ {0, 1} /\ MaxSets \in Nat
  /\ HeapFrame \in Nat \ {0} /\ HeapFrame + HeapBlocks - 1 \in Pages
  /\ {CodePage, VA_start} \subseteq 1 .. HeapFrame - 1 /\ CodePage # VA_start
  /\ Targets \subseteq Pages \ {CodePage}

VARIABLES
  use,          \* use[b]: what heap block b holds
  mem,          \* mem[f][i]: word i of frame f
  pc,           \* the step of kernel_main; "lost" after a page fault or a
                \* jump to where no code is
  next,         \* i: the next entry of the directory
  directory, chunk,     \* frames of directory and chunk_4gb; 0 for NULL
  cr3,          \* the frame of the active directory
  tlb,          \* tlb[p]: the remembered frame of page p, or None
  call,         \* history: the last paging_set, with the address and the frame
                \* it was given, or the last access to a page that was mapped
  short,        \* history: how many kzallocs of paging_new_4gb failed
  moved,        \* history: paging_set mapped a page of the tables elsewhere
  sets

built == <<next, directory, chunk, short>>
past  == <<call, moved, sets>>
vars  == <<use, mem, pc, built, cr3, tlb, past>>

None == -1
Frame(b) == IF b = NULL THEN 0 ELSE HeapFrame + b-1

NotPresent(f) == [frame |-> f, present |-> f = 0]      \* mutant: & for |

Word(f)    == [frame |-> f, present |-> TRUE]
Pointer(f) == [frame |-> f, present |-> FALSE]      \* its low bits are 0
Text       == Pointer(None)                         \* "Virt": bit 0 is 0
Zeroes     == [i \in Index |-> Pointer(0)]

-----------------------------------------------------------------------------
(* paging_new_4gb.  A block that kzalloc returns is cleared.  Pointers are *)
(* written through without a test: page 0 exists, and NULL is written to   *)
(* as a block is.                                                          *)
kzalloc_page(what) ==
  /\ use' = Hold(use, Taken(use), what)
  /\ short' = IF Taken(use) = NULL THEN short + 1 ELSE short

New     == Frame(Taken(use))
Cleared == IF New = 0 THEN mem ELSE [mem EXCEPT ![New] = Zeroes]

NewDirectory ==
  /\ pc = "boot" /\ pc' = "tables"
  /\ kzalloc_page("directory")
  /\ directory' = New
  /\ mem' = Cleared
  /\ UNCHANGED <<next, chunk, cr3, tlb, past>>

SameTable(n) == [i \in Index |-> Word(i)]   \* mutant: offset does not advance

BeyondTable(n) == [i \in 0 .. Entries |-> Word(n * Entries + i)]     \* mutant: i <= Entries

Table(n) == [i \in Index |-> Word(n * Entries + i)]

\* One round of the loop: a table is filled, then its entry is written.
NewTable ==
  /\ pc = "tables" /\ next < Entries
  /\ kzalloc_page("table")
  /\ mem' = [[Cleared EXCEPT ![New] = Table(next)] EXCEPT ![directory][next] = Word(New)]
  /\ next' = next + 1
  /\ UNCHANGED <<pc, directory, chunk, cr3, tlb, past>>

NewChunk ==
  /\ pc = "tables" /\ next = Entries /\ pc' = "built"
  /\ kzalloc_page("chunk")
  /\ chunk' = New
  /\ mem' = [Cleared EXCEPT ![New][0] = Pointer(directory)]
  /\ UNCHANGED <<next, directory, cr3, tlb, past>>

-----------------------------------------------------------------------------
(* The frame that the tables below root, in memory m, give to page p, and  *)
(* the one that an access reaches.                                         *)
Walk(m, root, p) ==
  LET entry == m[root][p \div Entries] IN
  IF entry.present /\ m[entry.frame][p % Entries].present
  THEN m[entry.frame][p % Entries].frame
  ELSE None

Reached(m, p) == IF tlb[p] # None THEN tlb[p] ELSE Walk(m, cr3, p)

\* pagin_4gb_chunk_get_directory, by a chunk that is found in frame c.
DirectoryOf(m, c) == IF c = None THEN None ELSE m[c][0].frame

Forgotten == [p \in Pages |-> None]

\* paging_switch of the chunk's directory empties the TLB.  With paging on,
\* the next instruction is fetched from where the tables have it.
paging_switch ==
  /\ pc \in {"built", "on"}
  /\ LET dir == DirectoryOf(mem, IF pc = "built" THEN chunk ELSE Reached(mem, chunk)) IN
     /\ cr3' = IF dir = None THEN cr3 ELSE dir
     /\ pc' = IF pc = "built" THEN "switched"
              ELSE IF dir # None /\ Walk(mem, dir, CodePage) = CodePage THEN "on" ELSE "lost"
  /\ tlb' = Forgotten
  /\ UNCHANGED <<use, mem, built, past>>

enable_paging ==
  /\ pc = "switched"
  /\ pc' = IF Walk(mem, cr3, CodePage) = CodePage THEN "enabled" ELSE "lost"
  /\ UNCHANGED <<use, mem, built, cr3, tlb, past>>

IndexSwapped(va) ==     \* mutant: the outputs are exchanged
  [table     |-> va \div (Entries * PageSize),
   directory |-> (va % (Entries * PageSize)) \div PageSize]

paging_get_index(va) ==
  [directory |-> va \div (Entries * PageSize),
   table     |-> (va % (Entries * PageSize)) \div PageSize]

(* paging_set on the directory of the chunk, with paging on: the chunk,    *)
(* the directory and the table are reached by their addresses, as all      *)
(* memory is.  An address inside a page is refused.  What changes is the   *)
(* memory m and the TLB, unless the kernel is lost on a page fault.        *)
paging_set(m, va, f, done) ==
  LET at  == paging_get_index(va)
      c   == Reached(m, chunk)
      dir == DirectoryOf(m, c)
      d   == IF dir = None THEN None ELSE Reached(m, dir)
      tab == IF d = None THEN None ELSE m[d][at.directory].frame
      t   == IF tab = None THEN None ELSE Reached(m, tab)
  IN  IF va % PageSize # 0 /\ dir # None
      THEN pc' = done /\ mem' = m /\ tlb' = [tlb EXCEPT ![chunk] = c]
      ELSE IF t = None
      THEN pc' = "lost" /\ mem' = m /\ tlb' = tlb
      ELSE /\ pc' = done
           /\ mem' = [m EXCEPT ![t][at.table] = Word(f)]
           /\ tlb' = [tlb EXCEPT ![chunk] = c, ![dir] = d, ![tab] = t]

\* enable_virtual_addressing: a page is mapped to a new block, and a text is
\* written by its new address.
MapVirtual ==
  /\ pc = "enabled"
  /\ use' = Hold(use, Taken(use), "data")
  /\ paging_set(Cleared, VA_start * PageSize, New, "mapped")
  /\ call' = <<"set", VA_start * PageSize, New>>
  /\ UNCHANGED <<built, cr3, moved, sets>>

WriteText ==
  /\ pc = "mapped"
  /\ LET to == Reached(mem, VA_start) IN
       IF to = None
       THEN pc' = "lost" /\ UNCHANGED <<mem, tlb, call>>
       ELSE /\ pc' = "on"
            /\ mem' = [mem EXCEPT ![to][0] = Text]
            /\ tlb' = [tlb EXCEPT ![VA_start] = to]
            /\ call' = <<"access", VA_start, to>>
  /\ UNCHANGED <<use, built, cr3, moved, sets>>

-----------------------------------------------------------------------------
\* The pages that hold what paging_set needs.
Own == {chunk, directory} \cup {mem[directory][i].frame : i \in Index}

\* A later call of paging_set.
Map(va, f) ==
  /\ pc = "on" /\ sets < MaxSets /\ sets' = sets + 1
  /\ paging_set(mem, va, f, "on")
  /\ call' = <<"set", va, f>>
  /\ moved' = (moved \/ \E p \in Own \ {f} : va = p * PageSize)
  /\ UNCHANGED <<use, built, cr3>>

\* The kernel uses a page, and the processor remembers where it is.
Access(p) ==
  /\ pc = "on" /\ Reached(mem, p) # None
  /\ call' = <<"access", p, Reached(mem, p)>>
  /\ tlb' = [tlb EXCEPT ![p] = Reached(mem, p)]
  /\ UNCHANGED <<use, mem, pc, built, cr3, moved, sets>>

\* The processor may forget a page at any time.
Forget(p) ==
  /\ pc = "on" /\ tlb[p] # None
  /\ tlb' = [tlb EXCEPT ![p] = None]
  /\ UNCHANGED <<use, mem, pc, built, cr3, past>>

Init ==
  /\ use \in [Heap -> {"free", "other"}]
  /\ mem = [f \in Pages |-> Zeroes]
  /\ pc = "boot" /\ next = 0 /\ directory = 0 /\ chunk = 0 /\ short = 0
  /\ cr3 = 0 /\ tlb = Forgotten
  /\ call = <<"none">> /\ moved = FALSE /\ sets = 0

Next ==
  \/ NewDirectory \/ NewTable \/ NewChunk
  \/ paging_switch \/ enable_paging \/ MapVirtual \/ WriteText
  \/ \E p \in Targets :
       Access(p) \/ \E f \in Targets, offset \in {0, 1} : Map(p * PageSize + offset, f)
  \/ \E p \in Pages : Forget(p)

Spec == Init /\ [][Next]_vars

-----------------------------------------------------------------------------
Calls == {<<"none">>}
         \cup {<<"set", p * PageSize + offset, f>> : p, f \in Pages, offset \in {0, 1}}
         \cup {<<"access", p, f>> : p, f \in Pages}

(* Every variable has its type.                                            *)
TypeOK ==
  /\ use \in [Heap -> {"free", "other", "directory", "table", "chunk", "data"}]
  /\ mem \in [Pages -> [Index -> [frame : Pages, present : BOOLEAN] \cup {Text}]]
  /\ pc \in {"boot", "tables", "built", "switched", "enabled", "mapped", "on", "lost"}
  /\ next \in 0 .. Entries
  /\ {directory, chunk, cr3} \subseteq Pages
  /\ tlb \in [Pages -> Pages \cup {None}]
  /\ call \in Calls
  /\ short \in 0 .. Entries + 2 /\ moved \in BOOLEAN /\ sets \in 0 .. MaxSets

TableMap == [p \in Pages |-> Walk(mem, cr3, p)]

(* paging_new_4gb reports nothing when the heap runs out.  Its tables are  *)
(* the identity as long as only the last of its blocks was missing: one    *)
(* structure at address 0 does no harm, while two lie on top of each other *)
(* and some page is mapped elsewhere, or nowhere.                          *)
IdentityUnlessShort ==
  pc = "switched" => (TableMap = [p \in Pages |-> p] <=> short <= 1)

(* With all its blocks the kernel is never lost on a page fault, in the    *)
(* boot or in any paging_set, unless one mapped a page of the tables       *)
(* elsewhere.                                                              *)
LostOnlyWhenShort == pc = "lost" => short > 0 \/ moved

Remembered == {p \in Pages : tlb[p] # None}

AS == INSTANCE AddressSpace WITH
  map <- TableMap,
  own <- Own,
  remembered <- Remembered,
  stale <- {p \in Remembered : tlb[p] # Walk(mem, cr3, p)},
  sound <- pc \in {"enabled", "mapped", "on"} /\ short = 0 /\ ~moved

(* Directory, tables and TLB together are one map that starts as the       *)
(* identity; each paging_set maps the page of its address to the frame it  *)
(* was given and changes no other page, until one maps a page of the       *)
(* tables elsewhere; an access goes by the map unless its page was set     *)
(* while the processor remembered it.                                      *)
AddressSpaceSpec == AS!Spec
=============================================================================
