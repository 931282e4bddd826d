----------------------------- MODULE FatVolume -----------------------------
(***************************************************************************)
(* Reading bytes of a cluster chain from a FAT16 volume: disk/streamer.c   *)
(* and the lower half of fs/fat/fat16.c, as functions of the FAT.          *)
(*                                                                         *)
(* The byte stored at a position of the disk is represented by the         *)
(* position itself, so what a read delivers says where it was read from.   *)
(* A stream is not represented: every reader of a shared stream seeks      *)
(* first (fat16_stream_read, fat16_get_fat_entry), so no position survives *)
(* from one call to the next.                                              *)
(***************************************************************************)
EXTENDS Integers, Sequences

CONSTANTS
  SectorSize,           \* SAMOS_SECTOR_SIZE, disk->sector_size
  SectorsPerCluster,    \* primary_header.sectors_per_cluster
  DataSector,           \* root_directory.ending_sector_pos: sector of cluster 2
  IntRange              \* 2^32: an int is taken modulo this, with a sign

ASSUME VolumeAssumption ==
  /\ SectorSize \in Nat \ {0}
  /\ SectorsPerCluster \in Nat \ {0}
  /\ DataSector \in Nat
  /\ IntRange \in Nat \ {0}

ClusterSize == SectorsPerCluster * SectorSize

\* FAT entries with a meaning of their own; the others are cluster numbers.
UNUSED   == 0
RESERVED == 65520       \* 0xFFF0, the first reserved value
BAD      == 65527       \* SAMOS_FAT16_BAD_SECTOR
EOC      == 65528       \* SAMOS_FAT16_EOC, the first end-of-chain value

\* Results (status.h).
EIO     == -1
EINVARG == -2
EUNIMP  == -7

Garbage == -1           \* a byte that does not come from the disk

\* The int that an int expression of value x really has.
Int32(x) ==
  LET m == x % IntRange IN IF 2 * m >= IntRange THEN m - IntRange ELSE m

\* The remainder of C, which has the sign of the dividend.
Rem(a, b) == IF a >= 0 THEN a % b ELSE -((-a) % b)

Least(a, b) == IF a < b THEN a ELSE b

-----------------------------------------------------------------------------
(* diskstreamer_read after diskstreamer_seek: each round reads one sector  *)
(* into a buffer and copies at most SectorSize bytes from the offset of    *)
(* the stream in that sector.  Bytes beyond the end of the buffer, and all *)
(* bytes at a negative position, are not bytes of the disk.                *)
diskstreamer_read(pos, total) ==
  [i \in 1 .. total |->
     IF pos >= 0 /\ (pos % SectorSize) + ((i-1) % SectorSize) < SectorSize
     THEN pos + i-1
     ELSE Garbage]

(* fat16_stream_read: the request is cut at the sector boundaries.         *)
fat16_stream_read(pos, total) ==
  LET rest[done \in 0 .. total] ==
        LET cur  == Int32(pos + done)
            left == SectorSize - Rem(cur, SectorSize)
            n    == Least(total - done, left)
        IN  IF done = total THEN <<>>
            ELSE diskstreamer_read(cur, n) \o rest[done + n]
  IN  rest[0]

-----------------------------------------------------------------------------
(* fat16_cluster_to_sector, and the byte position of an offset in it.      *)
starting_pos(cluster, offset) ==
  Int32((DataSector + (cluster - 2) * SectorsPerCluster) * SectorSize
        + Rem(offset, ClusterSize))

(* The links at which the walk along a chain gives up.                     *)
EndsChain(entry) == entry = UNUSED \/ entry >= RESERVED

(* fat16_get_cluster_for_offset: the cluster that holds a byte of a file,  *)
(* found by following the FAT from its first cluster.  A negative offset   *)
(* is no cluster ahead.                                                    *)
fat16_get_cluster_for_offset(fat, start, offset) ==
  LET cluster[k \in Nat] ==
        IF k = 0 THEN start
        ELSE LET c == cluster[k-1]
             IN  IF c = EIO \/ EndsChain(fat[c]) THEN EIO ELSE fat[c]
  IN  cluster[IF offset < 0 THEN 0 ELSE offset \div ClusterSize]

(* fat16_read_internal: one piece per cluster, each found from the start   *)
(* of the chain again.  The bytes delivered before an error stay in the    *)
(* caller's buffer.                                                        *)
StaysInCluster(fat, start, offset, total) ==    \* mutant: the next piece is
  LET rest[done \in 0 .. total] ==              \* taken from the same cluster
        LET at == Int32(offset + done)
            c  == fat16_get_cluster_for_offset(fat, start, Int32(offset))
            n  == Least(total - done, ClusterSize - Rem(at, ClusterSize))
            r  == rest[done + n]
        IN  IF done = total THEN [res |-> 0, out |-> <<>>]
            ELSE IF c = EIO THEN [res |-> EIO, out |-> <<>>]
            ELSE [res |-> r.res,
                  out |-> fat16_stream_read(starting_pos(c, at), n) \o r.out]
  IN  rest[0]

fat16_read_internal(fat, start, offset, total) ==
  LET rest[done \in 0 .. total] ==
        LET at == Int32(offset + done)
            c  == fat16_get_cluster_for_offset(fat, start, at)
            n  == Least(total - done, ClusterSize - Rem(at, ClusterSize))
            r  == rest[done + n]
        IN  IF done = total THEN [res |-> 0, out |-> <<>>]
            ELSE IF c = EIO THEN [res |-> EIO, out |-> <<>>]
            ELSE [res |-> r.res,
                  out |-> fat16_stream_read(starting_pos(c, at), n) \o r.out]
  IN  rest[0]

-----------------------------------------------------------------------------
\* Every link of a FAT is a cluster or ends the chain, and the positions of
\* the bytes of every cluster are ints that are not negative.
SoundFat(f) ==
  /\ DOMAIN f \subseteq Nat
  /\ \A c \in DOMAIN f :
       /\ f[c] \in Nat /\ (f[c] \in DOMAIN f \/ EndsChain(f[c]))
       /\ 0 <= DataSector + (c-2) * SectorsPerCluster
       /\ 2 * ((DataSector + (c-1) * SectorsPerCluster) * SectorSize) <= IntRange
=============================================================================
