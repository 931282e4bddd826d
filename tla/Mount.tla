------------------------------- MODULE Mount -------------------------------
(***************************************************************************)
(* How the kernel finds the filesystem of its disk while it boots:         *)
(* disk_search_and_init (disk/disk.c) asks fs_resolve (fs/file.c), which   *)
(* asks fat16_resolve (fs/fat/fat16.c) when fs_int has registered it.  One *)
(* action per step of fat16_resolve that can fail.                         *)
(*                                                                         *)
(* A read from the disk may fail at any step, as the code provides for;    *)
(* disk_read_block itself fails only for a disk that is not the kernel's.  *)
(***************************************************************************)
EXTENDS BlockHeap, FiniteSets

CONSTANT CallsFsInit    \* FALSE: kernel_main as it is written, which never
                        \* calls fs_int.  TRUE: with that call, for what
                        \* lies behind it.

CONSTANT MaxFilesystems         \* SAMOS_MAX_FILESYSTEMS

ASSUME MountAssumption == CallsFsInit \in BOOLEAN /\ MaxFilesystems \in Nat \ {0}

VARIABLES
  use,          \* use[b]: what heap block b holds
  volume,       \* what is on the disk: "fat16" or "unknown"
  filesystems,  \* filesystems[i]: what is registered in slot i, or "none"
  pc,           \* the step of the boot, or of fat16_resolve
  private,      \* block of the struct fat_private that is being filled
  streams,      \* its three streams: blocks, or NULL
  stream,       \* the stream that the boot sector is read with
  root,         \* private->root_directory.item
  fs_private,   \* disk.fs_private
  filesystem,   \* disk.filesystem
  res,          \* the result of fat16_resolve
  readFailed,   \* history: a read has failed
  starved       \* history: some kzalloc has failed

vars == <<use, volume, filesystems, pc, private, streams, stream, root, fs_private,
          filesystem, res, readFailed, starved>>

EIO      == -1
ENOMEM   == -3
EFSNOTUS == -5

NoStreams == <<NULL, NULL, NULL>>

NoFilesystems == [i \in 1 .. MaxFilesystems |-> "none"]

\* fs_get_free_filesystem: the scan goes on up to the number of descriptors,
\* which is larger; there is a free slot in front of that.
fs_get_free_filesystem(slots) ==
  CHOOSE i \in DOMAIN slots : slots[i] = "none" /\ \A j \in 1 .. i-1 : slots[j] # "none"

fs_insert_filesystem(slots, fs) == [slots EXCEPT ![fs_get_free_filesystem(slots)] = fs]

\* kheap_init, and fs_int: both tables are cleared and fat16 is registered.
kheap_and_filesystems ==
  /\ pc = "boot"
  /\ filesystems' = IF CallsFsInit THEN fs_insert_filesystem(NoFilesystems, "fat16")
                                   ELSE filesystems
  /\ pc' = "disk"
  /\ UNCHANGED <<use, volume, private, streams, stream, root, fs_private,
                 filesystem, res, readFailed, starved>>

\* disk_search_and_init up to the first resolve function, if there is one.
disk_search_and_init ==
  /\ pc = "disk"
  /\ fs_private' = NULL
  /\ filesystem' = "none"
  /\ pc' = IF filesystems = NoFilesystems THEN "done" ELSE "private"
  /\ UNCHANGED <<use, volume, filesystems, private, streams, stream, root, res,
                 readFailed, starved>>

-----------------------------------------------------------------------------
Fails(error) == res' = error /\ pc' = "out"

NewPrivate ==
  /\ pc = "private"
  /\ private' = Taken(use)
  /\ use' = Hold(use, Taken(use), "private")
  /\ starved' = (Taken(use) = NULL)
  /\ IF Taken(use) = NULL THEN Fails(ENOMEM) ELSE pc' = "streams" /\ UNCHANGED res
  /\ UNCHANGED <<volume, filesystems, streams, stream, root, fs_private,
                 filesystem, readFailed>>

\* fat16_init_private makes the three streams, whichever of them fail, and
\* the disk is bound when none did.
InitPrivate ==
  /\ pc = "streams"
  /\ LET u1 == Hold(use, Taken(use), "stream")
         u2 == Hold(u1, Taken(u1), "stream")
         made == <<Taken(use), Taken(u1), Taken(u2)>>
     IN
     /\ use' = Hold(u2, Taken(u2), "stream")
     /\ streams' = made
     /\ \/ /\ \E k \in 1 .. 3 : made[k] = NULL
           /\ Fails(ENOMEM)
           /\ starved' = TRUE
           /\ UNCHANGED <<fs_private, filesystem>>
        \/ /\ \A k \in 1 .. 3 : made[k] # NULL
           /\ fs_private' = private
           /\ filesystem' = "fat16"
           /\ pc' = "stream"
           /\ UNCHANGED <<res, starved>>
  /\ UNCHANGED <<volume, filesystems, private, stream, root, readFailed>>

NewStream ==
  /\ pc = "stream"
  /\ stream' = Taken(use)
  /\ use' = Hold(use, Taken(use), "stream")
  /\ starved' = (Taken(use) = NULL)
  /\ IF Taken(use) = NULL THEN Fails(ENOMEM) ELSE pc' = "header" /\ UNCHANGED res
  /\ UNCHANGED <<volume, filesystems, private, streams, root, fs_private,
                 filesystem, readFailed>>

SignatureInverted ==    \* mutant: "==" for "!="
  /\ pc = "header"
  /\ \/ Fails(EIO) /\ readFailed' = TRUE
     \/ volume = "fat16" /\ Fails(EFSNOTUS) /\ UNCHANGED readFailed
     \/ volume # "fat16" /\ pc' = "root" /\ UNCHANGED <<res, readFailed>>
  /\ UNCHANGED <<use, volume, filesystems, private, streams, stream, root, fs_private,
                 filesystem, starved>>

ReadHeader ==
  /\ pc = "header"
  /\ \/ Fails(EIO) /\ readFailed' = TRUE
     \/ volume # "fat16" /\ Fails(EFSNOTUS) /\ UNCHANGED readFailed
     \/ volume = "fat16" /\ pc' = "root" /\ UNCHANGED <<res, readFailed>>
  /\ UNCHANGED <<use, volume, filesystems, private, streams, stream, root, fs_private,
                 filesystem, starved>>

KeepsUnread ==          \* mutant: dir is not freed when its read fails
  /\ pc = "root"
  /\ \/ Fails(EIO) /\ readFailed' = TRUE /\ UNCHANGED <<use, root, starved>>
     \/ /\ Taken(use) = NULL
        /\ Fails(EIO) /\ starved' = TRUE /\ UNCHANGED <<use, root, readFailed>>
     \/ /\ Taken(use) # NULL
        /\ use' = Hold(use, Taken(use), "root")
        /\ \/ Fails(EIO) /\ readFailed' = TRUE /\ UNCHANGED root
           \/ res' = 0 /\ pc' = "out" /\ root' = Taken(use) /\ UNCHANGED readFailed
        /\ UNCHANGED starved
  /\ UNCHANGED <<volume, filesystems, private, streams, stream, fs_private, filesystem>>

\* fat16_get_root_directory: the items are counted, memory is taken for the
\* whole directory and the directory is read into it.  When that read fails
\* the memory is given back.  fat16_resolve turns each error into EIO.
fat16_get_root_directory ==
  /\ pc = "root"
  /\ \/ Fails(EIO) /\ readFailed' = TRUE /\ UNCHANGED <<use, root, starved>>
     \/ /\ Taken(use) = NULL
        /\ Fails(EIO) /\ starved' = TRUE /\ UNCHANGED <<use, root, readFailed>>
     \/ /\ Taken(use) # NULL
        /\ \/ /\ Fails(EIO) /\ readFailed' = TRUE
              /\ use' = Freed(Hold(use, Taken(use), "root"), {Taken(use)})
              /\ UNCHANGED root
           \/ /\ res' = 0 /\ pc' = "out"
              /\ use' = Hold(use, Taken(use), "root")
              /\ root' = Taken(use)
              /\ UNCHANGED readFailed
        /\ UNCHANGED starved
  /\ UNCHANGED <<volume, filesystems, private, streams, stream, fs_private, filesystem>>

LeavesPointers ==       \* mutant: the disk keeps its pointers
  /\ pc = "out"
  /\ use' = Freed(use, IF res < 0
                       THEN {stream, root, private} \cup {streams[k] : k \in 1 .. 3}
                       ELSE {stream})
  /\ filesystem' = IF res < 0 THEN "none" ELSE filesystem
  /\ pc' = "done"
  /\ UNCHANGED <<volume, filesystems, private, streams, stream, root, fs_private, res,
                 readFailed, starved>>

\* The end of fat16_resolve, and fs_resolve's answer to the disk.
Out ==
  /\ pc = "out"
  /\ IF res < 0
     THEN /\ use' = Freed(use, {stream, root, private} \cup {streams[k] : k \in 1 .. 3})
          /\ fs_private' = NULL
          /\ filesystem' = "none"
     ELSE /\ use' = Freed(use, {stream})
          /\ UNCHANGED <<fs_private, filesystem>>
  /\ pc' = "done"
  /\ UNCHANGED <<volume, filesystems, private, streams, stream, root, res, readFailed, starved>>

Init ==
  /\ use \in [Heap -> {"free", "other"}]
  /\ volume \in {"fat16", "unknown"}
  /\ filesystems = NoFilesystems
  /\ pc = "boot"
  /\ private = NULL /\ streams = NoStreams /\ stream = NULL /\ root = NULL
  /\ fs_private = NULL /\ filesystem = "none"
  /\ res = 0
  /\ readFailed = FALSE /\ starved = FALSE

Next ==
  \/ kheap_and_filesystems \/ disk_search_and_init
  \/ NewPrivate \/ InitPrivate \/ NewStream \/ ReadHeader \/ fat16_get_root_directory \/ Out

Spec == Init /\ [][Next]_vars

-----------------------------------------------------------------------------
(* Every variable has its type.                                            *)
TypeOK ==
  /\ use \in [Heap -> {"free", "other", "private", "stream", "root"}]
  /\ volume \in {"fat16", "unknown"}
  /\ filesystems \in [1 .. MaxFilesystems -> {"none", "fat16"}]
  /\ pc \in {"boot", "disk", "private", "streams", "stream", "header", "root", "out", "done"}
  /\ {private, stream, root, fs_private} \subseteq Heap \cup {NULL}
  /\ streams \in [1 .. 3 -> Heap \cup {NULL}]
  /\ filesystem \in {"none", "fat16"}
  /\ res \in {0, EIO, ENOMEM, EFSNOTUS}
  /\ readFailed \in BOOLEAN /\ starved \in BOOLEAN

Kept == {private, root} \cup {streams[k] : k \in 1 .. 3}

(* A mount leaves all or nothing, wherever it failed: a disk that has a    *)
(* filesystem has its private data with three streams of their own and a   *)
(* root directory, and nothing else is left of the mount in the heap; a    *)
(* disk without one has no private data and nothing is left.               *)
AllOrNothing ==
  pc = "done" =>
    LET left == {b \in Heap : use[b] \notin {"free", "other"}} IN
    IF filesystem = "none"
    THEN fs_private = NULL /\ left = {}
    ELSE /\ fs_private = private
         /\ left = Kept /\ Cardinality(Kept) = 5
         /\ use[private] = "private" /\ use[root] = "root"
         /\ \A k \in 1 .. 3 : use[streams[k]] = "stream"

(* The disk never refers to private data that has been freed, and has a    *)
(* filesystem exactly when it has private data, while it is mounted too.   *)
NoDanglingDisk ==
  /\ fs_private # NULL => use[fs_private] = "private"
  /\ (filesystem = "none") <=> (fs_private = NULL)

(* A FAT16 disk that can be read has its filesystem when the boot is past  *)
(* disk_search_and_init, if there was memory for it.                       *)
MountsFat16 ==
  pc = "done" /\ volume = "fat16" /\ ~readFailed /\ ~starved => filesystem = "fat16"
=============================================================================
