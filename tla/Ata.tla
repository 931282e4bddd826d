-------------------------------- MODULE Ata ---------------------------------
(***************************************************************************)
(* disk_read_sector of disk/disk.c and the drive that it talks to: one     *)
(* step per poll of the status and per word of data.  The drive is the     *)
(* only one; a drive that is selected and not there has a status of 0.     *)
(***************************************************************************)
EXTENDS Integers, Sequences

CONSTANTS
  Words,        \* TOTAL_DIVISIONS_PER_SECTOR
  Sectors,      \* number of sectors of the drive
  Bad,          \* sectors that it cannot read
  Lbas, Totals  \* the arguments of disk_read_sector

ASSUME AtaAssumption ==
  /\ Words \in Nat \ {0} /\ Sectors \in Nat
  /\ Bad \subseteq 0 .. Sectors-1 /\ Lbas \subseteq Int /\ Totals \subseteq 1 .. 255

\* The streamer asks for the sectors of int positions: 2^31 \div 512 of them.
ASSUME LbaAssumption == \A l \in Lbas : l >= -4194304 /\ l < 4194304

VARIABLES
  pc,           \* "idle", "poll" or "data"
  lba, total,   \* the arguments
  b,            \* the sectors read so far
  buf,          \* the words read so far
  drive,        \* "ready", "busy", "data" (DRQ), "error" (ERR without DRQ)
  sector,       \* the sector that the drive reads next
  left,         \* how many it has still to read
  word          \* the next word of the data port

ataVars == <<pc, lba, total, b, buf, drive, sector, left, word>>

\* The bytes of the registers 0x1F3 to 0x1F6, and what the drive makes of them.
MidTwice(l) ==          \* mutant: LBA high gets the bits of LBA mid
  [low |-> l % 256, mid |-> (l \div 256) % 256, high |-> (l \div 256) % 256,
   head |-> 224 + ((l \div 16777216) % 32)]

Registers(l) ==
  [low |-> l % 256, mid |-> (l \div 256) % 256, high |-> (l \div 65536) % 256,
   head |-> 224 + ((l \div 16777216) % 32)]

SelectsSlave(r) == (r.head \div 16) % 2 = 1
Addressed(r) == r.low + 256 * r.mid + 65536 * r.high + 16777216 * (r.head % 16)

\* The registers are written, the read command last.
Command(l, n) ==
  /\ pc = "idle" /\ pc' = "poll"
  /\ lba' = l /\ total' = n /\ b' = 0 /\ buf' = <<>>
  /\ IF SelectsSlave(Registers(l))
     THEN UNCHANGED <<drive, sector, left>>
     ELSE drive' = "busy" /\ sector' = Addressed(Registers(l)) /\ left' = n
  /\ word' = 0

NoPoll ==               \* mutant: the status is read once, and not tested
  /\ pc = "poll" /\ b < total
  /\ pc' = "data"
  /\ UNCHANGED <<lba, total, b, buf, drive, sector, left, word>>

\* The poll that finds DRQ; every other one changes nothing.
Poll ==
  /\ pc = "poll" /\ b < total
  /\ drive = "data"
  /\ pc' = "data"
  /\ UNCHANGED <<lba, total, b, buf, drive, sector, left, word>>

\* *ptr = insw(0x1F0), with what the drive does when its sector is out.
ReadWord ==
  /\ pc = "data"
  /\ buf' = Append(buf, IF drive = "data" THEN <<sector, word>> ELSE <<>>)
  /\ IF Len(buf') = (b + 1) * Words
     THEN b' = b + 1 /\ pc' = "poll"
     ELSE UNCHANGED <<b, pc>>
  /\ IF drive = "data" /\ word = Words - 1
     THEN /\ drive' = IF left = 1 THEN "ready" ELSE "busy"
          /\ sector' = sector + 1 /\ left' = left - 1 /\ word' = 0
     ELSE word' = word + 1 /\ UNCHANGED <<drive, sector, left>>
  /\ UNCHANGED <<lba, total>>

\* return 0
Done ==
  /\ pc = "poll" /\ b = total
  /\ pc' = "idle"
  /\ UNCHANGED <<lba, total, b, buf, drive, sector, left, word>>

\* The drive has a sector ready, or gives up.
DriveAnswers ==
  /\ drive = "busy"
  /\ drive' = IF sector \in (0 .. Sectors-1) \ Bad THEN "data" ELSE "error"
  /\ UNCHANGED <<pc, lba, total, b, buf, sector, left, word>>

AtaInit ==
  /\ pc = "idle" /\ lba = 0 /\ total = 0 /\ b = 0 /\ buf = <<>>
  /\ drive = "ready" /\ sector = 0 /\ left = 0 /\ word = 0

AtaTypeOK ==
  /\ pc \in {"idle", "poll", "data"}
  /\ lba \in Lbas \cup {0} /\ total \in Totals \cup {0} /\ b \in 0 .. total
  /\ buf \in Seq((Nat \X (0 .. Words-1)) \cup {<<>>})
  /\ drive \in {"ready", "busy", "data", "error"}
  /\ {sector, left, word} \subseteq Nat
=============================================================================
