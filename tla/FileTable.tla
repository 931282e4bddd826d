----------------------------- MODULE FileTable -----------------------------
(***************************************************************************)
(* The descriptor table of fs/file.c: fopen, fread, fseek, fstat and       *)
(* fclose, and the heap blocks they take and give back.  Calls run to      *)
(* their end one after the other.                                          *)
(*                                                                         *)
(* What the filesystem does with a file is module FatFile's; here an open  *)
(* file is the heap object that its open function returned.  A parsed      *)
(* path, an open file and a descriptor are one heap block each.            *)
(***************************************************************************)
EXTENDS BlockHeap

CONSTANTS
  MaxDescriptors,       \* SAMOS_MAX_FILE_DESCRIPTORS
  Filesystem,           \* what disk->filesystem holds: NULL or not
  RefusesBound          \* TRUE: line 135 of file.c as it is written, which
                        \* turns away a disk that has a filesystem.  FALSE:
                        \* the opposite test, for what lies behind it.

ASSUME FileTableAssumption ==
  /\ MaxDescriptors \in Nat \ {0}
  /\ RefusesBound \in BOOLEAN

Slots == 0 .. MaxDescriptors-1
Fds   == 1 .. MaxDescriptors

VARIABLES
  use,          \* use[b]: what heap block b holds, "free" when it is free
  table,        \* file_descriptors: a block or NULL per slot
  index,        \* desc->index of the descriptor in a block
  private,      \* desc->private of the descriptor in a block
  stuck,        \* the kernel has called through a null filesystem
  call,         \* the last call and its arguments
  ret,          \* what it returned
  target,       \* the file the filesystem was asked to work on, or NULL
  held,         \* history: the file that fopen opened under a number that
                \* has not been closed since
  starved       \* history: some kzalloc has failed

vars == <<use, table, index, private, stuck, call, ret, target, held, starved>>

Uses  == {"free", "path", "file", "desc"}
Paths == {"malformed", "no_drive", "missing", "file"}
Modes == {"r", "w", "a"}

EIO     == -1
EINVARG == -2
ENOMEM  == -3

-----------------------------------------------------------------------------
(* file_get_mode_by_string.  "!strncmp(..) == 0" holds when the first      *)
(* character is NOT the one that is compared with.                         *)
file_get_mode_by_string(str) ==
  IF str # "r" THEN "FILE_MODE_READ"
  ELSE IF str # "w" THEN "FILE_MODE_WRITE"
  ELSE IF str # "a" THEN "FILE_MODE_APPEND" ELSE "FILE_MODE_INVALID"

GetsOneTooMany(fd) ==                       \* mutant: fd is used as the index
  IF fd < 1 \/ fd >= MaxDescriptors THEN NULL ELSE table[fd]

file_get_descriptor(fd) ==
  IF fd < 1 \/ fd >= MaxDescriptors THEN NULL ELSE table[fd - 1]

\* The slot that file_new_descriptor takes.
FirstFree(s) == table[s] = NULL /\ \A t \in 0 .. s-1 : table[t] # NULL

\* The check of mydisk->filesystem.
RefusesDisk == IF RefusesBound THEN Filesystem # NULL ELSE Filesystem = NULL

(* The end of fopen, from file_new_descriptor on: f is the open file.      *)
(* Nothing checks the kzalloc of file_new_descriptor: when it fails the    *)
(* descriptor is written to address 0, NULL is stored in the slot, and the *)
(* index is read back from address 0 and returned.                         *)
FillsTable(f, u) ==
  \/ \E s \in Slots, d \in Heap \cup {NULL} :
       /\ FirstFree(s)
       /\ kzalloc(u, d)
       /\ use' = Hold(u, d, "desc")
       /\ table' = [table EXCEPT ![s] = d]
       /\ index' = IF d = NULL THEN index ELSE [index EXCEPT ![d] = s + 1]
       /\ private' = IF d = NULL THEN private ELSE [private EXCEPT ![d] = f]
       /\ held' = [held EXCEPT ![s + 1] = f]
       /\ starved' = (starved \/ d = NULL)
       /\ ret' = s + 1
  \/ /\ \A s \in Slots : table[s] # NULL
     /\ use' = u
     /\ ret' = 0
     /\ UNCHANGED <<table, index, private, held, starved>>

\* A return of 0 that leaves the heap as u.
TurnedAway(u, starves) ==
  /\ use' = u
  /\ starved' = (starved \/ starves)
  /\ ret' = 0
  /\ UNCHANGED <<table, index, private, held>>

\* filesystem->open is reached, and with a filesystem it opens the file.
Calls(path) == path # "no_drive" /\ ~RefusesDisk

Serves(path, mode_str) ==
  /\ Calls(path) /\ Filesystem # NULL
  /\ path = "file"
  /\ file_get_mode_by_string(mode_str) = "FILE_MODE_READ"

(* fopen.  A path is malformed, names a drive that is not there, or names  *)
(* a file that is there or not; p is the parsed path and f the open file.  *)
(* No return frees the parsed path.  A call through a null filesystem does *)
(* not come back.                                                          *)
fopen(path, mode_str) ==
  /\ ~stuck
  /\ call' = <<"fopen", path, mode_str>>
  /\ target' = NULL
  /\ \/ /\ path = "malformed"
        /\ TurnedAway(use, FALSE)
        /\ UNCHANGED stuck
     \/ /\ path # "malformed"
        /\ kzalloc(use, NULL)
        /\ TurnedAway(use, TRUE)
        /\ UNCHANGED stuck
     \/ /\ path # "malformed"
        /\ \E p \in Heap :
             /\ kzalloc(use, p)
             /\ LET u == Hold(use, p, "path") IN
                \/ /\ ~Serves(path, mode_str)
                   /\ TurnedAway(u, FALSE)
                   /\ stuck' = (Calls(path) /\ Filesystem = NULL)
                \/ /\ Serves(path, mode_str)
                   /\ kzalloc(u, NULL)
                   /\ TurnedAway(u, TRUE)
                   /\ UNCHANGED stuck
                \/ /\ Serves(path, mode_str)
                   /\ \E f \in Heap : kzalloc(u, f) /\ FillsTable(f, Hold(u, f, "file"))
                   /\ UNCHANGED stuck

-----------------------------------------------------------------------------
\* A call that fails before it looks for the descriptor.
Rejects(c, error) ==
  /\ ~stuck
  /\ call' = c
  /\ ret' = error /\ target' = NULL
  /\ UNCHANGED <<use, table, index, private, stuck, held, starved>>

\* fread, fseek and fstat hand the private data of the descriptor to the
\* filesystem, or fail with an error of their own.
Dispatches(c, fd, error) ==
  /\ ~stuck
  /\ call' = c
  /\ LET d == file_get_descriptor(fd) IN
     IF d = NULL THEN ret' = error /\ target' = NULL
                 ELSE ret' = 0 /\ target' = private[d]
  /\ UNCHANGED <<use, table, index, private, stuck, held, starved>>

\* fread of items of size 0, or of none, is an error whatever fd is.
fread(fd) ==
  \/ Rejects(<<"fread", fd>>, EINVARG)
  \/ fd >= 1 /\ Dispatches(<<"fread", fd>>, fd, ENOMEM)

fseek(fd) == Dispatches(<<"fseek", fd>>, fd, EIO)
fstat(fd) == Dispatches(<<"fstat", fd>>, fd, EIO)

LeavesFileOpen(d) ==            \* mutant: the file is not closed
  /\ use' = [use EXCEPT ![d] = "free"]
  /\ table' = [table EXCEPT ![index[d] - 1] = NULL]
  /\ index' = [index EXCEPT ![d] = 0]
  /\ private' = [private EXCEPT ![d] = NULL]

KeepsSlot(d) ==                 \* mutant: the slot is not cleared
  /\ use' = [use EXCEPT ![private[d]] = "free", ![d] = "free"]
  /\ UNCHANGED <<table, index, private>>

ClearsNextSlot(d) ==            \* mutant: the index is used as the slot number
  /\ use' = [use EXCEPT ![private[d]] = "free", ![d] = "free"]
  /\ table' = [s \in Slots |-> IF s = index[d] THEN NULL ELSE table[s]]
  /\ UNCHANGED <<index, private>>

\* filesystem->close of the file, then file_free_descriptor.  The content
\* of a free block is not kept.
close_and_free(d) ==
  /\ use' = [use EXCEPT ![private[d]] = "free", ![d] = "free"]
  /\ table' = [table EXCEPT ![index[d] - 1] = NULL]
  /\ index' = [index EXCEPT ![d] = 0]
  /\ private' = [private EXCEPT ![d] = NULL]

fclose(fd) ==
  /\ ~stuck
  /\ call' = <<"fclose", fd>>
  /\ LET d == file_get_descriptor(fd) IN
     IF d = NULL
     THEN /\ ret' = EIO /\ target' = NULL
          /\ UNCHANGED <<use, table, index, private, held>>
     ELSE /\ ret' = 0 /\ target' = private[d]
          /\ close_and_free(d)
          /\ held' = [held EXCEPT ![fd] = NULL]
  /\ UNCHANGED <<stuck, starved>>

Init ==
  /\ use = [b \in Heap |-> "free"]
  /\ table = [s \in Slots |-> NULL]
  /\ index = [b \in Heap |-> 0]
  /\ private = [b \in Heap |-> NULL]
  /\ stuck = FALSE
  /\ call = <<"boot">> /\ ret = 0 /\ target = NULL
  /\ held = [fd \in Fds |-> NULL]
  /\ starved = FALSE

Next ==
  \/ \E path \in Paths, mode_str \in Modes : fopen(path, mode_str)
  \/ \E fd \in 0 .. MaxDescriptors + 1 :
       fread(fd) \/ fseek(fd) \/ fstat(fd) \/ fclose(fd)

Spec == Init /\ [][Next]_vars

-----------------------------------------------------------------------------
(* Every variable has its type.                                            *)
TypeOK ==
  /\ use \in [Heap -> Uses]
  /\ table \in [Slots -> Heap \cup {NULL}]
  /\ index \in [Heap -> 0 .. MaxDescriptors]
  /\ private \in [Heap -> Heap \cup {NULL}]
  /\ stuck \in BOOLEAN /\ starved \in BOOLEAN
  /\ ret \in ENOMEM .. MaxDescriptors
  /\ target \in Heap \cup {NULL}
  /\ held \in [Fds -> Heap \cup {NULL}]

(* No slot dangles, after any sequence of calls and failures: it points to *)
(* a descriptor that is allocated, numbered after the slot, and whose file *)
(* is open and belongs to no other slot.                                   *)
TableSound ==
  \A s \in Slots : table[s] # NULL =>
    /\ use[table[s]] = "desc"
    /\ index[table[s]] = s + 1
    /\ private[table[s]] # NULL
    /\ use[private[table[s]]] = "file"
    /\ \A t \in Slots \ {s} : table[t] # NULL =>
         table[t] # table[s] /\ private[table[t]] # private[table[s]]

(* Every descriptor that is allocated is in the table: none is lost.       *)
NoLostDescriptor ==
  \A b \in Heap : use[b] = "desc" => \E s \in Slots : table[s] = b

\* A number that fopen returned leads to the file it was returned for.
Works(fd) ==
  /\ file_get_descriptor(fd) # NULL
  /\ private[file_get_descriptor(fd)] = held[fd]
  /\ use[held[fd]] = "file"

(* As long as no kzalloc has failed, every number that fopen has returned  *)
(* leads to the file it was returned for until that number is closed,      *)
(* whatever is opened and closed in between - but for the last number of   *)
(* the table, which file_get_descriptor refuses: it leads nowhere.         *)
HandlesWork ==
  ~starved => \A fd \in 1 .. MaxDescriptors-1 : held[fd] # NULL => Works(fd)

\* The table refers to file f.
Owned(f) == \E s \in Slots : table[s] # NULL /\ private[table[s]] = f

(* A file is left open with no descriptor only by an fopen that found the  *)
(* table full or the heap exhausted.                                       *)
FileLostOnlyWhenFull ==
  [][\A f \in Heap :
       (use[f] = "file" => Owned(f)) /\ use'[f] = "file" /\ ~Owned(f)' =>
         \/ \A s \in Slots : table[s] # NULL
         \/ \A b \in Heap : use'[b] # "free"]_vars

(* The filesystem is only ever asked to work on the file that is open      *)
(* under the number of the call: no call reaches a closed file or another  *)
(* caller's.                                                               *)
CallsReachOwnFile ==
  [][target' # NULL => /\ use[target'] = "file"
                       /\ target' = held[call'[2]]]_vars

(* fopen opens the file it is given for reading when nothing stands in the *)
(* way: the file is there, and so is room in the table and in the heap.    *)
OpensFile ==
  [][/\ call' = <<"fopen", "file", "r">>
     /\ \E s \in Slots : table[s] = NULL
     /\ \E b \in Heap : use'[b] = "free"
     => ret' > 0]_vars
=============================================================================
