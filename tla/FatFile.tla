------------------------------ MODULE FatFile ------------------------------
(***************************************************************************)
(* The open files of a FAT16 volume: fat16_read, fat16_seek and fat16_stat *)
(* (fs/fat/fat16.c) on the descriptors that fat16_open has returned.       *)
(* Calls run to their end one after the other; descriptors share the disk, *)
(* the FAT and the streams, and nothing writes to the disk.                *)
(***************************************************************************)
EXTENDS FatVolume

CONSTANTS
  Files,        \* descriptors (struct fat_file_descriptor) that are open
  Fats,         \* FATs: functions from cluster numbers to entries
  FirstClusters,\* first clusters that directory entries may hold
  FileSizes,    \* file sizes that directory entries may hold
  Counts,       \* size and nmemb arguments
  Offsets       \* offset arguments of fseek, negative ones included

\* The size in a directory entry is a uint32_t, and so are the counts.
ASSUME FileAssumption ==
  /\ FileSizes \subseteq 0 .. IntRange-1
  /\ Counts \subseteq Nat

VARIABLES
  fat,          \* the FAT of the volume
  item,         \* item[d]: the directory entry that was cloned for d
  pos,          \* pos[d]: fat_file_descriptor.pos
  call,         \* the last call and its arguments
  reply         \* what it returned and delivered

fileVars == <<fat, item, pos, call, reply>>

Word(x) == x % IntRange         \* a value stored in a uint32_t

Answer(res, out) == reply' = [res |-> res, out |-> out]

-----------------------------------------------------------------------------
\* One turn of the loop of fat16_read: the offset of item k, whether the
\* rest of the file holds it, and the bytes read for it.
item_offset(d, size, k) == Word(pos[d] + k * size)

CountsPartialItem(d, size, k) ==    \* mutant: the comparison with size is lost
  item_offset(d, size, k) < item[d].filesize

ItemFits(d, size, k) ==
  /\ item_offset(d, size, k) < item[d].filesize
  /\ size <= item[d].filesize - item_offset(d, size, k)

\* The size becomes an int too.  One of half the range or more is negative:
\* nothing is read, the buffer stays as it was, and the item counts as read.
ItemRead(d, size, k) ==
  LET offset == Int32(item_offset(d, size, k)) IN
  IF Int32(size) >= 0
  THEN fat16_read_internal(fat, item[d].first, offset, size)
  ELSE IF fat16_get_cluster_for_offset(fat, item[d].first, offset) = EIO
  THEN [res |-> EIO, out |-> <<>>]
  ELSE [res |-> 0, out |-> [i \in 1 .. size |-> Garbage]]

\* The first k turns have each delivered an item.
Delivered(d, size, k) ==
  \A j \in 0 .. k-1 : ItemFits(d, size, j) /\ ItemRead(d, size, j).res = 0

ItemsRead(d, size, k) ==
  [i \in 1 .. k * size |-> ItemRead(d, size, (i-1) \div size).out[((i-1) % size) + 1]]

fat16_read_delivers(d, size, nmemb) ==
  /\ size > 0 /\ nmemb > 0
  /\ \E k \in 0 .. nmemb :
       /\ Delivered(d, size, k)
       /\ k < nmemb => ~ItemFits(d, size, k)
       /\ pos' = [pos EXCEPT ![d] = item_offset(d, size, k)]
       /\ Answer(k, ItemsRead(d, size, k))
  /\ UNCHANGED <<fat, item>>

\* An error skips the assignment to pos: the items that the caller's buffer
\* already holds will be read again.
fat16_read_fails(d, size, nmemb) ==
  /\ size > 0 /\ nmemb > 0
  /\ \E k \in 0 .. nmemb-1 :
       /\ Delivered(d, size, k)
       /\ ItemFits(d, size, k)
       /\ ItemRead(d, size, k).res # 0
       /\ Answer(ItemRead(d, size, k).res,
                 ItemsRead(d, size, k) \o ItemRead(d, size, k).out)
  /\ UNCHANGED <<fat, item, pos>>

fat16_read_nothing(d, size, nmemb) ==
  /\ size = 0 \/ nmemb = 0
  /\ Answer(0, <<>>)
  /\ UNCHANGED <<fat, item, pos>>

\* There is no buffer.
fat16_read_nowhere(d, size, nmemb) ==
  /\ call' = <<"read to NULL", d, size, nmemb>>
  /\ Answer(IF size = 0 \/ nmemb = 0 THEN 0 ELSE EINVARG, <<>>)
  /\ UNCHANGED <<fat, item, pos>>

fat16_read(d, size, nmemb) ==
  /\ call' = <<"read", d, size, nmemb>>
  /\ \/ fat16_read_nothing(d, size, nmemb)
     \/ fat16_read_delivers(d, size, nmemb)
     \/ fat16_read_fails(d, size, nmemb)

-----------------------------------------------------------------------------
(* fat16_seek.  The offset comes from fseek as an int and is a uint32_t    *)
(* here: a negative one is a large one.                                    *)
Whences == {"SEEK_SET", "SEEK_CUR", "SEEK_END", "other"}

\* The switch: the new position, or the error that leaves the position alone.
new_pos(d, whence, offset) ==
  CASE whence = "SEEK_SET" -> Word(offset)
    [] whence = "SEEK_END" -> EUNIMP
    [] whence = "SEEK_CUR" ->
         IF \/ pos[d] > item[d].filesize
            \/ Word(offset) > item[d].filesize - pos[d]
         THEN EIO
         ELSE Word(pos[d] + Word(offset))
    [] whence = "other" -> EINVARG

fat16_seek(d, whence, offset) ==
  /\ call' = <<"seek", d, whence, offset>>
  /\ LET to == new_pos(d, whence, offset) IN
     \/ /\ to \in 0 .. item[d].filesize
        /\ pos' = [pos EXCEPT ![d] = to]
        /\ Answer(0, <<>>)
     \/ /\ to \notin 0 .. item[d].filesize
        /\ Answer(IF to < 0 THEN to ELSE EIO, <<>>)
        /\ UNCHANGED pos
  /\ UNCHANGED <<fat, item>>

fat16_stat(d) ==
  /\ call' = <<"stat", d>>
  /\ Answer(item[d].filesize, <<>>)
  /\ UNCHANGED <<fat, item, pos>>

FileInit ==
  /\ fat \in Fats
  /\ item \in [Files -> [first : FirstClusters, filesize : FileSizes]]
  /\ pos = [d \in Files |-> 0]
  /\ call = <<"open">>
  /\ reply = [res |-> 0, out |-> <<>>]

FileNext ==
  \E d \in Files :
    \/ \E size, nmemb \in Counts : fat16_read(d, size, nmemb) \/ fat16_read_nowhere(d, size, nmemb)
    \/ \E whence \in Whences, offset \in Offsets : fat16_seek(d, whence, offset)
    \/ fat16_stat(d)

FileSpec == FileInit /\ [][FileNext]_fileVars

-----------------------------------------------------------------------------
(* The position of an open file never passes its end: the subtractions     *)
(* filesize - pos of fat16_read and fat16_seek never wrap around.          *)
CursorInBounds == \A d \in Files : pos[d] \in 0 .. item[d].filesize

-----------------------------------------------------------------------------
(* The bytes of a file by the definition of a FAT: clusters linked from    *)
(* the first one on, until a link that is not a cluster number.            *)
IsChain(f, c, first) ==
  /\ c[1] = first
  /\ \A k \in 1 .. Len(c)-1 : ~EndsChain(f[c[k]]) /\ c[k+1] = f[c[k]]

\* The longest part of the chain that the bytes of the file can use.
ChainOf(f, it) ==
  LET need == (it.filesize + ClusterSize - 1) \div ClusterSize
      chains(n) == {c \in [1 .. n -> DOMAIN f] : IsChain(f, c, it.first)}
      n == CHOOSE m \in 0 .. need :
             /\ m > 0 => chains(m) # {}
             /\ m < need => chains(m+1) = {}
  IN  IF n = 0 THEN <<>> ELSE CHOOSE c \in chains(n) : TRUE

BytesOf(f, it) ==
  LET c == ChainOf(f, it)
      start(k) == (DataSector + (c[k] - 2) * SectorsPerCluster) * SectorSize
  IN  [i \in 1 .. Least(it.filesize, Len(c) * ClusterSize) |->
         start(((i-1) \div ClusterSize) + 1) + ((i-1) % ClusterSize)]

Bytes == INSTANCE ByteFile WITH
       content  <- [d \in Files |-> BytesOf(fat, item[d])],
       filesize <- [d \in Files |-> item[d].filesize],
       cursor   <- pos

(* Open files behave as strings of bytes with cursors: a read delivers     *)
(* exactly the bytes at the cursor, in order, whatever clusters and        *)
(* sectors they are in, as many whole items as the file has left, or fails *)
(* with the cursor where it was; a seek goes where it was asked to or      *)
(* fails; no call on one file moves another file's cursor.                 *)
ByteFileSpec == Bytes!Spec

-----------------------------------------------------------------------------
(* The volumes and calls for which the promise of ByteFile is proved.      *)
\* The offsets are ints, and the files are below the size at which a negative
\* int, taken for a uint32_t, is a position in them.
IntOffsets ==
  /\ \A n \in FileSizes : 2 * n < IntRange
  /\ \A o \in Offsets : o \in Int /\ -IntRange <= 2 * o /\ 2 * o < IntRange

PlainVolume == IntOffsets /\ \A f \in Fats : SoundFat(f)

\* A file that is not empty starts in a cluster of its FAT.
OnVolume == \A d \in Files : item[d].filesize > 0 => item[d].first \in DOMAIN fat
=============================================================================
