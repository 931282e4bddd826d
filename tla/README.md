# SAMOS in TLA+

Specifications of the SAMOS kernel (`src/src` of the repository): a 32-bit x86
kernel with a block heap, a VGA terminal, a keyboard interrupt, an ATA driver, a
disk streamer, a path parser, a read-only FAT16 filesystem behind a table of file
descriptors, and paging.  The modules are checked with TLC on small instances;
what matters most is proved with TLAPS for every value of the constants.

Paths below are relative to `src/src`.

## 1. The system

### Components

| component | state | operations | what makes it correct |
|---|---|---|---|
| Kernel heap, `memory/heap` | a byte per 4096-byte block: type, IS_FIRST, HAS_NEXT | `kheap_init`, `kmalloc`, `kzalloc`, `kfree` | no block in two allocations, none lost, a request fails only when nothing is long enough |
| Descriptor table, `fs/file.c` | `file_descriptors[512]`, each with its index, disk and private data | `fopen`, `fread`, `fseek`, `fstat`, `fclose` | a number reaches its own open file until it is closed, and nothing afterwards |
| FAT16, files | position of an open file; the FAT on the disk | `fat16_read`, `fat16_seek`, `fat16_stat` | a file is a string of bytes with a cursor, wherever its clusters are |
| FAT16, directories | heap objects of the item under way and of open files; the items on the disk | `fat16_open`, `fat16_close`, the walk along a path, counting and reading a directory, names | the right file or an error, and no heap object leaked or freed twice |
| FAT16, mount | the registry, `disk.fs_private`, `disk.filesystem`, six heap objects | `fs_int`, `fs_resolve`, `fat16_resolve` | all of it or nothing, and the kernel's disk is mounted |
| Path parser, `fs/pparser.c` | linked list of names | `pathparser_parse`, `pathparser_free_root` | the list is the names of the path; all memory comes back |
| Disk streamer, `disk/streamer.c` | position and disk of a stream | new, seek, read, close | bytes in order across sectors |
| Terminal, `kernel.c` | `terminal_row`, `terminal_col`, video memory | `print`, `terminal_writechar` | a character is not overwritten by a later one |
| Interrupts, `idt`, `kernel.asm` | IDT, interrupt flag, PIC | `int21h`, `no_interrupt`, `idt_init` | every request is acknowledged; handlers do not nest |
| ATA driver, `disk/disk.c` | the struct disk; task file registers | `disk_read_sector`, `disk_search_and_init` | a read ends, with the sector or with an error |
| Paging, `memory/paging` | directory and tables, CR3 | `paging_new_4gb`, `paging_set`, `paging_switch` | an address translates as it was last set |
| Strings and memory | none | `strlen`, `strncmp`, `memset`, ... | |
| Boot sector, port I/O, build files | none of the running kernel's | | |

### How they interact

`kernel_main` initialises the terminal, the heap, the disk (which asks the registered
filesystems), the interrupt table and paging, enables interrupts and opens a file.
`fopen` parses the path, finds the disk and calls the filesystem through its function
pointers; the filesystem reads through streams that share the position between calls;
every one of them takes memory from the one heap and has to give it back.  The kernel
has one thread.  The only concurrency is the interrupt handlers: they run with
interrupts disabled, never allocate and never open files, but the keyboard handler
prints, so it shares `terminal_row` and `terminal_col` with whatever it interrupted.

### What is hard

* *Partial failure.* Almost every function allocates, most more than one object, and a
  `kzalloc` can fail at each of them, as can a read from the disk.
* *Sequences of legal calls.* The heap and the descriptor table hand out what earlier
  calls gave back; an inconsistency shows many calls later.
* *Arithmetic.* `size_t` in the heap, `int` byte positions on a 4 GB volume, a
  `uint32_t` for what the caller passed as an `int`, a `uint16_t` row.
* *Boundaries.* Sector and cluster ends in reads, the last descriptor, the last column,
  slashes in paths.
* *Interrupts* between any two accesses to the terminal's variables, and between any two
  words of a disk read; two interrupt controllers of which one is acknowledged.
* *Waiting without a bound*: the polling of the drive, the counting of a directory.
* *Stale state*: translations that the processor remembers behind the tables' back.
* *Order of initialisation.* Which table is filled when the disk is searched.

`PROJECT.json` lists each hazard at its line with the properties that watch it, and
says why where none does yet.

## 2. The modules

| module | models | notes |
|---|---|---|
| `HeapTable` | the block table: flags, first fit, marking and freeing a chain | operators only, recursion-free |
| `Heap` | `kheap_init`, `kmalloc`, `kfree` in modular address arithmetic | one action per call |
| `Allocator` | abstract: an allocator that grants runs of blocks and releases them by address | `Heap` implements it |
| `HeapScan` | the loop of `heap_get_start_block`, a step per iteration | computes the operator that `Heap` uses |
| `BlockHeap` | the heap as its callers see it: objects of one block, allocation may fail when none is free | used by `FileTable`, `FatOpen`, `PathParser`, `Mount`, `Paging` |
| `FileTable` | `fs/file.c`, every entry point | |
| `FatDirectory` | items and names of directories: counting, reading, 8.3 names, `istrncmp` | functions of the volume, over `FatVolume` |
| `FatOpen` | `fat16_open`, `fat16_close`, the directory walk over a volume | one action per iteration of the walk; composes `BlockHeap` and `FatDirectory` |
| `PathParser` | `fs/pparser.c` | one action per part of the path |
| `Mount` | `fs_int` with its registry, `disk_search_and_init`, `fs_resolve`, `fat16_resolve` | one action per step that can fail |
| `FatVolume` | cluster chains, `diskstreamer_read`, `fat16_stream_read`, `fat16_read_internal` | functions of the FAT |
| `FatFile` | `fat16_read`, `fat16_seek`, `fat16_stat` | |
| `ByteFile` | abstract: a file is a string of bytes with a cursor | `FatFile` implements it |
| `Terminal` | `print` and `terminal_writechar` per access to memory, `int21h_handler`, the interrupt flag and the keyboard's line of the PIC | two contexts on one CPU |
| `Ata` | `disk_read_sector`, a step per poll and word, and the drive | the drive is external |
| `Pic` | the interrupt table, the handlers' acknowledgement, both interrupt controllers | the controllers are external |
| `Devices` | composes `Ata` and `Pic`: disk reads under interrupts | liveness under weak fairness |
| `Paging` | `paging_new_4gb`, `paging_switch`, `enable_paging`, `paging_set`, `enable_virtual_addressing` | page walk and TLB are external |
| `AddressSpace` | abstract: one map from pages to frames, set by address, with stale pages | `Paging` implements it |
| `HeapProofs`, `FileTableProofs`, `FatProofs`, `PathParserProofs`, `MountProofs`, `DevicesProofs`, `TerminalProofs`, `PagingProofs` | the theorems of section 5 | `HeapProofs` is about `Heap` and `HeapScan`, `FatProofs` about `FatOpen` and `FatFile` |

Each `MC...` module gives a component the values of its constants for TLC.  Operators
marked "mutant" in the modules are plausible bugs: each is a variant of the definition
that follows it, with which TLC finds the property it is paired with in `PROJECT.json`
violated.  They are no part of the specifications.

### Correspondence

*Heap.* `entries[i]` is the byte of block i as a set of flags.  Before `kheap_init` the
table holds any of a set of bytes.  `call` is the last call with its argument and `ret` its
answer; they exist for the refinement, which so ties each grant to its size and each release
to its address.  The refinement maps each block with IS_FIRST to the chain
that `heap_free` would walk from it.  `heap_get_start_block` is an operator (the first run
of free blocks that is long enough); that the loop computes it is `HeapScan`'s business.

*BlockHeap.* What the filesystem allocates is smaller than a block but for a directory's
items; a block per object keeps what the callers depend on: an allocation succeeds when
there is room, two objects never share memory (both proved of `Heap`), and a `kfree` of
address 0 does nothing.  Which free block is taken does not matter to the callers;
the lowest one is, as first fit does.

*FileTable.* `use` says what each heap block holds, `table` what each slot points to,
`index` and `private` are the fields of a descriptor.  `held` and `starved` are history:
which file was opened under a number, and whether an allocation has failed.  The state in
which the kernel has called through a null function table is `stuck`.  `RefusesBound` is
explained in section 4.

*FatFile.* The byte stored at a position of the disk is represented by the position
itself, so the bytes that a read delivers say where they were read.  All positions are
computed in `int` or `uint32_t` with the width `IntRange`; the remainder is C's.  The offset
and the size of an item become `int`s on their way to `fat16_read_internal` (`ItemRead`): an
item of half the range or more reads nothing and counts as read.  A read may be given no
buffer (`fat16_read_nowhere`), and a seek a `whence` that is none of the three.  `call` is the
last call with its arguments.

*FatDirectory.* An item is what lies in one directory entry: its kind (what its first
character and its attributes say), its two name fields as character codes, its cluster.
`ItemAt` says which positions of the disk hold items; everywhere else there are zeroes, so
an empty item.  The counting loop reads through `fat16_read_internal` of `FatVolume`, so a
chain out of order, one that ends early and one that is circular have the effect that the
code has, down to the offset of a circular chain that overflows the `int` and goes on in
front of the directory.

*FatOpen.* `current` is `current_item` with the blocks that hang from it; a directory's items
are those of its cluster.  Memory at address 0 is taken for an item after a name in the
middle of a path was missing; `lost` is the state behind that.  `Leads` says what a path
leads to by the layout alone: it knows clusters, chains and padded fields, but no offsets,
reads, counts or built names.

*PathParser.* Paths are sequences of characters of which digits, colons, slashes and one
letter are told apart.  A name is copied without a bound into the block of its string; one
that the block does not hold, with the zero behind it, ends the model in the state `overrun`,
since it runs into another block.  When there is no block for the string it is copied to
address 0, where `LowMemory` bytes may be overwritten, and never read (`Room`).

*Mount.* `filesystems` is the registry with its slots.  `pc` is the step of `fat16_resolve`;
a read may fail wherever the code looks at the result of one.  Any of the heap's blocks may be
in use already, because `fs_resolve` is not bound to an empty heap.

*Terminal.* The steps are the loads and stores of the unoptimised build (`-O0` in the
Makefile): the row is loaded before the column, the column is stored before the character
is, an increment is a load and a store.  `print` writes the terminating zero as a
character, so every text ends with a shown character.  `at` is the cell written last.

*Ata, Pic, Devices.* The registers of the drive are computed from the sector number as the
code computes them, and the drive takes its sector from the registers.  A word that the data
port delivers is a pair of sector and index, so the buffer says what was read.  A poll that
does not find DRQ changes nothing and is no step.  A controller has requests (`irr`) and
lines in service (`isr`) with the priorities of the 8259; the slave's interrupt occupies a
line of each.  Interrupts come between any two steps of the main program while they are
enabled.

*Paging.* Memory is an array of frames of words; a directory, a table and the chunk fill a
heap block each.  Blocks are taken from a heap of which any may be in use.  After the switch,
each access of `paging_set` to the chunk, the directory and the table goes by the tables
and the TLB itself; the TLB remembers a page that was used until it forgets it or CR3 is
written.  The refinement maps directory and tables to one function, and a page whose
remembered frame differs from it is stale.  `call` is the last `paging_set` with its address
and frame, or the last access with the frame that it reached, and `moved` is set by the call
that maps a page of the tables elsewhere.

## 3. What is checked

| run | question | bounds, and why they are enough |
|---|---|---|
| `heap` | is the table consistent, are allocations disjoint, is nothing lost, and is it an allocator, for any calls | 4 blocks of 4 bytes at address 8 of a 5-bit address space; all 32 sizes and addresses, so sizes that wrap to 0, unaligned and foreign addresses, and addresses inside a run all occur; four blocks allow runs of every length with a hole between runs |
| `heap_scan` | does the loop end, with the first fit | every table of 4 entries with every combination of flags, every count from 0 to 5 |
| `mount` | is a mount all or nothing, whatever fails | 7 blocks of which any may be in use; a mount needs six, so each allocation can be the one that fails; each read can fail |
| `mount_as_written` | does the kernel's disk get its filesystem | (finding) |
| `path_parser` | is the list the names of the path, is memory given back, when does a name run out of its block | every tail of up to 7 letters and slashes behind a drive, and malformed prefixes; limits of 6 and 9 characters, so paths fall below, between and above them; blocks of 6 bytes, which a name of the longest paths overruns; 7 blocks of which any may be in use |
| `fat_open` | does an open answer by the volume, is the heap accounted for at every step, what keeps a call from returning | 25 paths of up to 4 names through a volume of 24 clusters of two items: a full root directory with a label, a deleted entry, a part of a long name and two entries of one name; directories in clusters out of order, empty, ending early, circular with and without an empty item in front, leading to cluster 1; `.` and `..`; names in both cases, with and without extension; 8 blocks, where the longest path needs 7, used up by files that stay open |
| `fat_file` | does a file behave as a string of bytes | 3 clusters of 2 sectors of 2 bytes, FATs in order, out of order, ending early in each of the four ways, circular; files of 3 and 11 bytes; item sizes and counts 0, 1, 3, 7; offsets in front of, inside and behind the file.  Reads start and end inside, at and across sector and cluster ends |
| `file_table` | do numbers lead to their own files through any calls | 3 slots, the last of which has the refused number; 11 blocks, so that the table fills up in some behaviours and the heap runs out first in others |
| `file_table_as_written` | does `fopen` open a file that is there | (finding) |
| `terminal` | is every character shown, is every key answered | lines of 3 cells, texts with newlines, tabs and wraps, 5 key events, and a row number that overflows after 9 rows |
| `devices` | does a read return what was asked for, does it end, are timer and keyboard answered | two reads of one or two sectors of two words; sector numbers that use each byte of the LBA, one behind the drive, one damaged, one negative; two requests of the timer and the keyboard at any time |
| `paging` | is the map of pages what `paging_set` was given, call by call, does the kernel keep running | 3 entries per table, so 9 pages of which 6 are heap blocks, in any state of use: each of the five allocations of `paging_new_4gb` can be the one that fails; two later calls of `paging_set` on a page of the tables, the mapped page and another, at an aligned address and inside the page, accesses and forgetting between them |

One open file is enough for `fat_file`: every reader of a shared stream seeks first
(`fat16_stream_read`, `fat16_get_fat_entry`), so open files share no state that changes, and
a call writes the position of its own descriptor only.

Deadlock is checked where calls never end.  It is off in `heap_scan`, `mount`,
`path_parser` (one run of a function, which ends), `fat_open` (a behaviour ends when the
kernel has read the item at address 0 or counts for ever), `file_table_as_written` (`stuck`),
`terminal` and `devices` (the kernel idles, or polls a drive that does not answer) and
`paging` (a page fault stops the kernel).

**Fairness.** `HeapScan` assumes that the loop goes on: it runs on the only CPU and waits
for nothing.  `Terminal` assumes that the CPU goes on executing and that it takes an
interrupt that stays requested while interrupts are enabled.  The keyboard is not fair: a
key need never be pressed.  `Devices` assumes the same of the CPU, in the main program and in
the handlers, and that a busy drive delivers its sector or an error some time; reads, ticks
and keys need not come.  Nothing else has a liveness property.

## 4. What the checks show

The heap, the search loop, reads and seeks, the walk along a path, the unwinding of a
failed mount, disk reads under interrupts and the map of pages hold up under every
interleaving of calls and failures in the bounds.  The properties state the code's
behaviour as it is, edges included:

* `ListsTheNames`: a path longer than `REALISTIC_STRLEN` is parsed although one longer
  than `SAMOS_MAX_PATH` is refused (`strlen` answers a negative error code); a parse that
  was refused memory may succeed with its last names missing.  Nothing but the limit of the
  length of a path bounds the copy of a name into its block (pparser.c:36), so a name of 4096
  characters or more runs out of it exactly in a path that `strlen` has given up on (`OverrunsWhenUnmeasured`, a part of `ListsTheNames`).  What
  `ListSound` and `ListsTheNames` say of the list they say of parses in which that has not
  happened.
* `AllocatorSpec`: a `kfree` releases the allocation that starts at its address, all of it
  and no other, and does nothing for any other address.
* `LosesLittle`: a parse without a name loses its root; a failed part loses its string.
* `HandlesWork`: the last number of the table (`fd == SAMOS_MAX_FILE_DESCRIPTORS`) is
  returned by `fopen` and refused by every other call.
* `FileLostOnlyWhenFull`: an `fopen` that finds the table full drops the file it has opened.
  No return of `fopen` frees the parsed path, so the heap runs out in the end.
* `ByteFileSpec`: `SEEK_CUR` moves forward only; a negative offset always fails.  It is
  checked on volumes whose byte positions fit an `int` (2 GiB).  Beyond, the offset or the
  size of an item is a negative `int`: the read starts in front of the cluster, or reads
  nothing and counts the item.  `ItemRead` has both; no run has a file that large, and
  `CursorInBounds` is proved for every size.

Two runs show disagreements with what the repository says of itself:

* `mount_as_written`: `kernel_main` never calls `fs_int`, so no filesystem is registered
  and the disk has none.  With the call (`CallsFsInit = TRUE`) the disk is mounted: run
  `mount`.
* `file_table_as_written`: `fopen` turns away a disk that *has* a filesystem (file.c:135);
  behind that, the inverted test of file.c:104 takes mode "r" for writing.  What lies
  behind the first test is checked with `RefusesBound = FALSE`: run `file_table`, where
  a mode that does not begin with "r" stands for reading, as the code has it.

What the properties say of the code's weak places, each checked as an exact statement:

* `ReadsNullPastMissing`: the walk takes memory at address 0 for an item exactly when a name
  after the first and before the last is missing (fat16.c:618).
* `StuckOnlyWhenDamaged`: a call that never returns has done that, or has come to a directory
  with a circular chain of full clusters.
* `AnswersByTree`: an open answers with the file the path leads to and never with another,
  short of memory too, when it may fail in place of that.  A directory whose items fill its
  last cluster cannot be opened: no empty item ends the count, although FAT16 asks for none.  Nothing is stated of paths through a
  first cluster of 0 (`..` of a directory in the root) or a link to cluster 1.
* `ReturnsWhatWasAsked` and `ReadsEnd`: reading a damaged sector, one behind the drive, or a
  negative one, which selects the drive that is not there, never returns.  A byte position
  beyond 2 GiB becomes such a negative sector; `Garbage` in `FatVolume` stands for what a read
  there would deliver.  A sector number of 2^29 or more would lose bits without an error;
  the streamer divides an `int` by 512, so it asks for none.
* `AnswersDriveOnce`: the handlers acknowledge the master only, so the slave delivers one
  interrupt of the drive and no other.  `AnswersInputs` and `ReadsEnd` show that neither the
  timer and keyboard nor the polling driver need it.
* `IdentityUnlessShort`: `paging_new_4gb` does not check its allocations.  One that fails does
  no harm, because page 0 takes the place of the block; with two the map is broken.
* `AddressSpaceSpec`: each `paging_set` maps the page of its address to its frame and changes no
  other page; an address inside a page changes nothing.  A page that is set again while the
  processor remembers it may be reached at its old frame, since nothing invalidates the TLB.
  The promise ends exactly with the call that maps a page of the tables elsewhere: later calls
  change whatever lies there, and what becomes of the map is not stated.
* `ShowsInOrder` holds because `kernel_main` prints nothing after `enable_interrupts` as long
  as `fopen` fails.  With the message it would print (`LateText`), a key press in the middle
  of it makes characters overwrite each other: the column is advanced before the line wraps
  (kernel.c:59-64).

## 5. What is proved

For every value of the constants that satisfies the modules' assumptions:

* `HeapProofs`: type correctness, `TableWellFormed`, `NoOrphanBlocks`, `RunsDisjoint`, and
  `Heap` implements `Allocator` (initial states and every step; a step of `kfree` releases
  exactly the allocation at its argument).  The inductive invariant is
  `TypeOK /\ TableWellFormed /\ NoOrphanBlocks`: `heap_free` trusts the links of the table,
  so that it frees exactly one run needs the links to be consistent in both directions,
  and that no block is left behind needs every taken block to lie in a chain.  The lemmas
  say what marking and freeing a run do to every other chain; one relates the rounded
  size, modulo the word size, to the number of blocks.
  The search loop of `HeapScan` answers the first fit, from `LoopInv`: the window is free,
  ends at the loop index, and nothing fits in front of it.
* `FileTableProofs`: type correctness, `TableSound`, `NoLostDescriptor`, `HandlesWork`,
  `CallsReachOwnFile`, and the action property `FileLostOnlyWhenFull`.  The invariant adds to these that the history of opened files agrees
  with the descriptors (`HeldAgrees`); failed allocations are included.
* `FatProofs`, opening and closing: type correctness and `HeapAccounted`, for every volume,
  set of paths and heap.  The invariant (`Accounted`) speaks of the call under way and of the
  open files; one lemma covers every way in which the call goes from one item to another, and
  another says that a new item has blocks of its own or leaves none behind.  What is on the
  volume does not matter to it.
* `FatProofs`, answers: `AnswersByTree`, `ReadsNullPastMissing` and `StuckOnlyWhenDamaged`, for
  every set of paths and heap and every `SoundVolume` (at the end of `FatOpen`; TLC evaluates
  it on the instance): the links of the FAT lead to clusters, which are finitely many and
  together smaller than 2 GiB, so that the offsets of a chain that visits each stay `int`s;
  names and extensions fit the buffer; paths are C strings.  Chains may be short, circular,
  out of order or shared, and lookups and allocations may fail.  The steps are: the driver's
  name of an item matches a part of the path iff the fields do (`MatchesByName`); the
  clusters that the reader walks are those of `Chain` (`InsideIsLinks`); the count ends at the
  first empty item in the order of the chain (`DirectoryIsRead`); the search through the
  items finds what `Found` finds (`LooksUp`).  With these `WalkInv` is inductive: between two
  parts of the path the walk is where `Leads` says (`OnTrack`), or it is starved of memory, or
  the layout promises nothing (`Astray`); a walk that has come through has what its path
  leads to (`Arrived`).
* `FatProofs`, files: `CursorInBounds`, for every FAT, file size and argument: `filesize - offset`
  never wraps, because a delivered item was tested to fit.  And `FilesImplementByteFile`:
  `FileSpec /\ OnVolume => ByteFileSpec`, under `PlainVolume` (at the end of `FatFile`): files
  are smaller than 2 GiB and seek offsets are `int`s; every link of a FAT is a cluster or ends
  the chain, so that the code never reads an entry outside it; the byte positions of all
  clusters are `int`s; a file that is not empty starts in a cluster.  Chains may be short,
  circular or shared.  TLC evaluates `PlainVolume` on the instance.
  The argument goes up in four layers, each with its invariant in closed form: the stream
  delivers `Run`, consecutive positions, through every sector boundary; the chain that
  the reader walks (`Links`) is the chain by definition (`ChainOf`); `fat16_read_internal`
  delivers `Part`, a part of the file's bytes, or all there are and an error (`Promised`);
  the items that `fat16_read` has delivered join to a part again.
* `PathParserProofs`: type correctness, `ListSound`, `LosesLittle` and `ListsTheNames` with
  `OverrunsWhenUnmeasured`, for every set of strings, both limits, every block size and every
  heap.  The invariant says where the parser stands: behind
  the slash whose number (`Rank`) is that of the next name, with the names before it in the
  list (`Reading`, `Listed`), and that it ended at the end of the path or at an empty name
  (`Ended`); nothing is lost while a parse goes on.
* `MountProofs`: type correctness, `AllOrNothing`, `NoDanglingDisk`, and `MountsFat16` when
  `CallsFsInit` holds, for every heap and whatever is in it.  The invariant says for each step
  which of the pointers are set, that the blocks they point to are theirs, and why a mount
  that fails has failed.
* `DevicesProofs`: type correctness, `ReturnsWhatWasAsked` and `AnswersDriveOnce`, for every size of sector and
  drive and for all sector numbers of an `int` position (`LbaAssumption`).  The invariant
  relates the loop to the drive: while a read goes on, its next sector is the one that comes
  next, or the drive selected is not there.
* `TerminalProofs`: type correctness, and `ShowsInOrder` under `LateText = <<>>`, for every width and text.  The
  invariant says, for each step of `terminal_writechar`, what its registers hold and that
  all cells written so far lie in front of the cursor and not below its row; the context
  that does not run is between two characters.

* `PagingProofs`: type correctness, `IdentityUnlessShort`, `LostOnlyWhenShort`, and `Paging`
  implements `AddressSpace` (initial states and every step), for every size of tables, pages
  and heap and every set of pages that `paging_set` is given; that a step changes the page of
  its address and no other rests on the division into page and offset (`PageOfAddress`).  The invariant follows the
  construction: while the directory is filled, its tables are blocks of their own and linear,
  or the heap is exhausted and the last entry is the table at address 0 (`Filling`); what comes of it
  (`Complete`); and once paging is on, the tables, the chunk, the directory and the kernel's code
  are reached at their own addresses (`Running`) as long as no page of them was set.

The assumptions are those named in the modules: positive sizes, the heap aligned and inside
the address space, counts that are naturals, pages of more than one word, a path limit of at
least the drive and its slash, below `strlen`'s own limit and not above the size of a heap
block, which is not above that of the free low memory, a page that holds the running code and is not remapped.  TLC
evaluates each on the instances.

*Recursive functions.*  The prover has no induction over data.  It is not needed for
the functions of `FatVolume`: each is the solution of an equation, chosen with CHOOSE.
`FatProofs` restates the equation, shows that a closed form solves it, so that there is a solution,
and that no solution differs from it: of the arguments where one did, the one nearest to
the end of the recursion (`Smallest`) would violate the equation.

Only model-checked: the liveness properties `Terminates`, `AnswersKeys`, `ReadsEnd` and
`AnswersInputs`, which depend on fairness and are outside what the prover can do here.

## 6. What is not modelled, and the plan

Not modelled:

* what a parse does after a name has run out of its block (`overrun`); `FatOpen` takes paths
  that were parsed without;
* names with a blank inside a field, which `fat16_to_proper_string` cuts there (`Padded`);
* the contents of memory that `kzalloc` clears, but for page tables; colours and the clearing
  of the screen; the flags of a page but the present bit;
* CPU exceptions inside handlers: `no_interrupt` returns from them as from an interrupt, with
  the error code on the stack.  A page fault is the state `lost` of `Paging`;
* the interrupt controller that `kernel.asm` leaves in its initialisation (a third word of
  0x1B, no fourth): `Pic` takes it to work, as the emulators' does;
* a status in which DRQ is set while the drive is busy, which the driver would take for data;
* port I/O (single instructions), the boot sector (straight-line real-mode code; its header is
  the constants of `FatVolume` and `FatDirectory`), the linker script, and `src/old_files`;
* `memset`, `memcpy`, `memcmp`, `strncmp`, `strcpy`: their effect is in the steps that use
  them; `strnlen_terminator`, `tonumericdigit` and `outw` change nothing that is modelled;
* `kernel_main` as one composition.  Its parts share the heap and run one after the other,
  and each module starts from every state of the heap that the parts before it may leave.

Every safety property and refinement that the passing runs check is proved.  Open is one
composition of the boot: mount, `fopen` and paging over a single heap, with the hand-over
between them stated rather than assumed.
