---------------------------- MODULE FatDirectory ----------------------------
(***************************************************************************)
(* Directories on a FAT16 volume, as fs/fat/fat16.c counts and reads them, *)
(* and the names in them.  An item is what lies in one entry; its name is  *)
(* two fields of character codes, padded with blanks.                      *)
(***************************************************************************)
EXTENDS FatVolume

CONSTANTS
  ItemSize,     \* sizeof(struct fat_directory_item)
  RootSector,   \* root_directory.sector_pos
  RootEntries,  \* primary_header.root_dir_entries
  Fat,          \* Fat[c]: the entry of cluster c
  ItemAt,       \* ItemAt[p]: the item at position p of the disk; elsewhere
                \* the disk holds zeroes
  MaxPath       \* SAMOS_MAX_PATH

Blank == {0, 32}
Empty == [kind |-> "empty", base |-> <<>>, ext |-> <<>>, cluster |-> 0]

\* A name is padded at its end only.
Padded(field) ==
  \A i \in DOMAIN field : field[i] \in Blank => \A j \in i .. Len(field) : field[j] \in Blank

\* Links and items lead into the FAT.
ASSUME DirectoryAssumption ==
  /\ ItemSize \in Nat \ {0} /\ SectorSize % ItemSize = 0
  /\ MaxPath \in Nat \ {0} /\ RootSector \in Nat /\ RootEntries \in Nat
  /\ (DataSector - RootSector) * SectorSize >= RootEntries * ItemSize
  /\ \A c \in DOMAIN Fat : Fat[c] \in DOMAIN Fat \/ EndsChain(Fat[c])
  /\ \A p \in DOMAIN ItemAt :
       /\ p % ItemSize = 0
       /\ Padded(ItemAt[p].base) /\ Padded(ItemAt[p].ext)
       /\ ItemAt[p].cluster \in DOMAIN Fat

-----------------------------------------------------------------------------
(* fat16_to_proper_string: what comes before the first blank, of at most   *)
(* remaining characters with the terminating zero.                         *)
fat16_to_proper_string(field, remaining) ==
  LET n == CHOOSE n \in 0 .. Len(field) :
             /\ \A i \in 1 .. n : field[i] \notin Blank /\ i < remaining
             /\ n < Len(field) => field[n+1] \in Blank \/ n+1 >= remaining
  IN  SubSeq(field, 1, n)

fat16_get_full_relative_filename(it) ==
  LET base == fat16_to_proper_string(it.base, MaxPath)
      room == MaxPath - Len(base)
  IN  IF room > 1 /\ it.ext[1] \notin Blank
      THEN base \o <<46>> \o fat16_to_proper_string(it.ext, room - 1)
      ELSE base

tolower(c) == IF c \in 65 .. 90 THEN c + 32 ELSE c

\* istrncmp(s1, s2, n) = 0 for strings without their terminating zero: the
\* first n characters are the same but for their case.
istrncmp_equal(s1, s2, n) ==
  LET at(s, i) == IF i <= Len(s) THEN tolower(s[i]) ELSE 0
  IN  \A i \in 1 .. Least(n, Len(s1) + 1) : at(s1, i) = at(s2, i)

-----------------------------------------------------------------------------
ItemOf(p) == IF p \in DOMAIN ItemAt THEN ItemAt[p] ELSE Empty

RootPos == RootSector * SectorSize

\* The number of items from a position on in front of the first empty one, or max.
FullItems(pos, max) ==
  CHOOSE n \in 0 .. max :
    /\ \A k \in 0 .. n-1 : ItemOf(pos + k * ItemSize).kind # "empty"
    /\ n < max => ItemOf(pos + n * ItemSize).kind = "empty"

(* fat16_get_total_items_for_directory: at most as many items as the root  *)
(* directory has entries.                                                  *)
RootTotal == FullItems(RootPos, RootEntries)

\* fat16_get_root_directory.
RootItems == [k \in 1 .. RootTotal |-> ItemOf(RootPos + (k-1) * ItemSize)]

(* fat16_get_total_items_for_directory_cluster: the items are read one by  *)
(* one until an empty one.  The answer is the offset of that one, which    *)
(* has wrapped below zero when the chain is circular and what lies in      *)
(* front of its first cluster ends the count.                              *)
Counted(offset) == [why |-> "counted", offset |-> offset]
CountFails      == [why |-> "unreadable", offset |-> 0]
CountsForever   == [why |-> "endless", offset |-> 0]

StopsAtCluster ==       \* mutant: only the first cluster is looked at
  [start \in DOMAIN Fat |->
     Counted(ItemSize * FullItems(starting_pos(start, 0), ClusterSize \div ItemSize))]

\* checked: the result of a read is looked at.
CountOf(start, checked) ==
  LET count[k \in 0 .. IntRange \div ItemSize] ==
        LET offset == Int32(k * ItemSize)
            r == fat16_read_internal(Fat, start, offset, ItemSize)
        IN  IF k = IntRange \div ItemSize THEN CountsForever
            ELSE IF checked /\ r.res # 0 THEN CountFails
            ELSE IF r.res = 0 /\ ItemOf(r.out[1]).kind = "empty" THEN Counted(offset)
            ELSE count[k + 1]
  IN  count[0]

IgnoresErrors ==        \* mutant: the result of the read is not looked at
  [start \in DOMAIN Fat |-> CountOf(start, FALSE)]

fat16_get_total_items == [start \in DOMAIN Fat |-> CountOf(start, TRUE)]

\* The items of a directory, as they are read into memory once counted.
Items ==
  [start \in DOMAIN Fat |->
     [k \in 1 .. fat16_get_total_items[start].offset \div ItemSize |->
        ItemOf(fat16_read_internal(Fat, start, (k-1) * ItemSize, ItemSize).out[1])]]
=============================================================================
