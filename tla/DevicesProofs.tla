--------------------------- MODULE DevicesProofs ----------------------------
(***************************************************************************)
(* disk_read_sector returns what was asked for, and the slave controller   *)
(* takes one request of the drive to the CPU, whatever comes in between:   *)
(* for every sector size, drive, set of damaged sectors and argument.      *)
(***************************************************************************)
EXTENDS Devices, SequenceTheorems, TLAPS

\* What the drive delivers of the sectors from l on, word by word.
Delivered(l, k) == [i \in 1 .. k |-> <<l + (i-1) \div Words, (i-1) % Words>>]

\* The read before has left the drive ready, and all that it asked for.
Idle ==
  /\ b = total /\ word = 0 /\ drive = "ready"
  /\ buf = Delivered(lba, total * Words)

\* The drive that was selected is not there: the status is 0 for ever.
Nobody ==
  /\ pc = "poll" /\ b = 0 /\ total > 0 /\ drive = "ready"

\* The drive is as far as the loop of disk_read_sector.
InStep ==
  /\ total > 0
  /\ buf = Delivered(lba, b * Words + word)
  /\ word \in 0 .. Words-1
  /\ pc = "data" => drive = "data"
  /\ pc = "poll" => word = 0
  /\ IF b < total
     THEN drive # "ready" /\ sector = lba + b /\ left = total - b
     ELSE pc = "poll" /\ drive = "ready"

\* Once its request is taken, the line of the drive stays in service.
SlaveStuck ==
  \/ answered = 0 /\ "drive" \notin isr
  \/ answered = 1 /\ "drive" \in isr

ReadInv ==
  /\ pc \in {"idle", "poll", "data"}
  /\ lba \in Lbas \cup {0} /\ total \in Totals \cup {0} /\ b \in 0 .. total
  /\ drive \in {"ready", "busy", "data", "error"}
  /\ IF pc = "idle" THEN Idle ELSE Nobody \/ InStep

-----------------------------------------------------------------------------
(* Division by Words of a word's position in the buffer.                   *)
LEMMA WordPosition ==
  ASSUME NEW q \in Nat, NEW r \in 0 .. Words-1
  PROVE  (q * Words + r) \div Words = q /\ (q * Words + r) % Words = r
<1> USE AtaAssumption
<1> DEFINE a == q * Words + r
           d == a \div Words
           m == a % Words
<1>1. a \in Nat
  OBVIOUS
<1>2. d \in Int /\ m \in 0 .. Words-1 /\ a = Words * d + m
  BY <1>1
<1> HIDE DEF d, m
<1>3. Words * (q - d) = m - r
  BY <1>2
<1>4. q = d
  <2>1. CASE q > d
    <3>1. Words * (q - d) >= Words
      BY <2>1, <1>2
    <3>2. QED
      BY <3>1, <1>3, <1>2
  <2>2. CASE q < d
    <3>1. Words * (q - d) <= -Words
      BY <2>2, <1>2
    <3>2. QED
      BY <3>1, <1>3, <1>2
  <2>3. QED
    BY <2>1, <2>2, <1>2
<1>5. m = r
  BY <1>3, <1>4, <1>2
<1>6. QED
  BY <1>4, <1>5 DEF d, m

(* The registers name the sector that was asked for; a negative one        *)
(* selects the drive that is not there.                                    *)
LEMMA RegistersName ==
  ASSUME NEW l \in Int, l >= -4194304, l < 4194304
  PROVE  IF l < 0 THEN SelectsSlave(Registers(l))
         ELSE ~SelectsSlave(Registers(l)) /\ Addressed(Registers(l)) = l
<1>1. CASE l < 0
  <2>1. l \div 16777216 = -1
    BY <1>1, SMT
  <2>2. (l \div 16777216) % 32 = 31
    BY <2>1, SMT
  <2>3. QED
    BY <1>1, <2>2, SMT DEF SelectsSlave, Registers
<1>2. CASE l >= 0
  <2>1. l \div 16777216 = 0
    BY <1>2, SMT
  <2>2. (l \div 16777216) % 32 = 0
    BY <2>1, SMT
  <2>3. ~SelectsSlave(Registers(l))
    BY <2>2, SMT DEF SelectsSlave, Registers
  <2>4. Addressed(Registers(l)) = l
    BY <1>2, <2>2, SMT DEF Addressed, Registers
  <2>5. QED
    BY <1>2, <2>3, <2>4, SMT
<1>3. QED
  BY <1>1, <1>2, SMT

(* One more word of the sector that the drive delivers.                    *)
LEMMA DeliversWord ==
  ASSUME NEW l \in Int, NEW q \in Nat, NEW r \in 0 .. Words-1
  PROVE  Append(Delivered(l, q * Words + r), <<l + q, r>>)
           = Delivered(l, q * Words + r + 1)
<1> USE AtaAssumption
<1> DEFINE k == q * Words + r
<1>1. k \in Nat
  OBVIOUS
<1>2. k \div Words = q /\ k % Words = r
  BY WordPosition
<1> HIDE DEF k
<1> DEFINE S == Int \X Int
           D == Delivered(l, k)
<1>3. D \in Seq(S) /\ Len(D) = k
  <2>1. \A i \in 1 .. k : <<l + (i-1) \div Words, (i-1) % Words>> \in S
    <3>1. \A i \in 1 .. k : (i-1) \div Words \in Int /\ (i-1) % Words \in Int
      BY <1>1
    <3>2. QED
      BY <3>1
  <2> HIDE DEF S
  <2>2. D \in [1 .. k -> S]
    BY <2>1 DEF Delivered
  <2> HIDE DEF D
  <2>3. D \in Seq(S)
    BY <1>1, <2>2
  <2>4. QED
    BY <1>1, <2>2, <2>3, LenProperties
<1>4. Append(D, <<l + q, r>>)
        = [i \in 1 .. k+1 |-> IF i <= k THEN D[i] ELSE <<l + q, r>>]
  <2>1. <<l + q, r>> \in S
    OBVIOUS
  <2> HIDE DEF D, S
  <2>2. /\ Append(D, <<l + q, r>>) \in Seq(S)
        /\ Len(Append(D, <<l + q, r>>)) = k + 1
        /\ \A i \in 1 .. k : Append(D, <<l + q, r>>)[i] = D[i]
        /\ Append(D, <<l + q, r>>)[k + 1] = <<l + q, r>>
    BY <1>3, <2>1, AppendProperties
  <2>3. DOMAIN Append(D, <<l + q, r>>) = 1 .. k+1
    BY <2>2, LenProperties
  <2>4. QED
    BY <1>1, <2>2, <2>3
<1>5. \A i \in 1 .. k+1 :
        (IF i <= k THEN D[i] ELSE <<l + q, r>>)
          = <<l + (i-1) \div Words, (i-1) % Words>>
  BY <1>1, <1>2 DEF Delivered
<1>6. QED
  BY <1>4, <1>5, ZenonT(60) DEF Delivered, k
-----------------------------------------------------------------------------
(* The read, step by step.                                                 *)
LEMMA ReadInit == Init => ReadInv
<1> SUFFICES ASSUME Init PROVE ReadInv
  OBVIOUS
<1>1. buf = Delivered(lba, total * Words)
  BY AtaAssumption DEF Init, AtaInit, Delivered
<1>2. QED
  BY <1>1 DEF Init, AtaInit, ReadInv, Idle

\* A call of disk_read_sector finds the drive ready.
LEMMA CommandStep ==
  ASSUME ReadInv, NEW l \in Lbas, NEW n \in Totals, Command(l, n)
  PROVE  ReadInv'
<1> USE AtaAssumption
<1>1. l \in Int /\ n \in 1 .. 255 /\ pc = "idle" /\ drive = "ready"
  BY DEF ReadInv, Idle, Command
<1>2. /\ pc' = "poll" /\ lba' = l /\ total' = n /\ b' = 0 /\ buf' = <<>> /\ word' = 0
  BY DEF Command
<1>3. CASE SelectsSlave(Registers(l))
  <2>1. Nobody'
    BY <1>1, <1>2, <1>3 DEF Command, Nobody
  <2>2. QED
    BY <1>1, <1>2, <1>3, <2>1 DEF ReadInv, Command
<1>4. CASE ~SelectsSlave(Registers(l))
  <2>1. Addressed(Registers(l)) = l
    <3>1. l >= -4194304 /\ l < 4194304
      BY LbaAssumption, SMT
    <3>2. QED
      BY <1>1, <1>4, <3>1, RegistersName, SMT
  <2>2. drive' = "busy" /\ sector' = l /\ left' = n
    BY <1>4, <2>1 DEF Command
  <2>3. buf' = Delivered(l, 0)
    BY <1>2 DEF Delivered
  <2>4. InStep'
    BY <1>1, <1>2, <2>2, <2>3 DEF InStep
  <2>5. QED
    BY <1>1, <1>2, <2>2, <2>4 DEF ReadInv
<1>5. QED
  BY <1>3, <1>4

\* A word is read only from a drive that has it.
LEMMA WordStep == ASSUME ReadInv, ReadWord PROVE ReadInv'
<1> USE AtaAssumption
<1>1. /\ pc = "data" /\ InStep /\ drive = "data" /\ b < total
      /\ sector = lba + b /\ left = total - b
      /\ lba \in Int /\ total \in Nat /\ b \in Nat /\ word \in 0 .. Words-1
  BY DEF ReadInv, ReadWord, InStep, Nobody
<1>2. buf' = Delivered(lba, b * Words + word + 1)
  BY <1>1, DeliversWord, ZenonT(60) DEF ReadWord, InStep
<1>3. Len(buf') = b * Words + word + 1
  <2>1. b * Words + word + 1 \in Nat
    BY <1>1
  <2> DEFINE k == b * Words + word + 1
  <2> HIDE DEF k
  <2>2. Len(Delivered(lba, k)) = k
    BY <2>1 DEF Delivered, k
  <2>3. QED
    BY <1>2, <2>2 DEF k
<1>4. (b + 1) * Words = b * Words + Words
  BY <1>1
<1>5. CASE word = Words - 1
  <2>1. b' = b + 1 /\ pc' = "poll" /\ word' = 0 /\ sector' = sector + 1 /\ left' = left - 1
    BY <1>1, <1>3, <1>4, <1>5 DEF ReadWord
  <2>2. drive' = IF left = 1 THEN "ready" ELSE "busy"
    BY <1>1, <1>5 DEF ReadWord
  <2>3. buf' = Delivered(lba, (b + 1) * Words + 0)
    BY <1>1, <1>2, <1>4, <1>5
  <2>4. InStep'
    BY <1>1, <2>1, <2>2, <2>3 DEF InStep, ReadWord
  <2>5. QED
    BY <1>1, <2>1, <2>2, <2>4 DEF ReadInv, ReadWord
<1>6. CASE word # Words - 1
  <2>1. Len(buf') # (b + 1) * Words
    BY <1>1, <1>3, <1>4, <1>6
  <2>2. /\ word' = word + 1
        /\ UNCHANGED <<b, pc, drive, sector, left, lba, total>>
    BY <1>1, <1>6, <2>1 DEF ReadWord
  <2>3. buf' = Delivered(lba, b * Words + (word + 1))
    BY <1>1, <1>2
  <2>4. InStep'
    BY <1>1, <1>6, <2>2, <2>3 DEF InStep
  <2>5. QED
    BY <1>1, <2>2, <2>4 DEF ReadInv
<1>7. QED
  BY <1>5, <1>6

LEMMA ReadStep == ReadInv /\ [Next]_vars => ReadInv'
<1> SUFFICES ASSUME ReadInv, [Next]_vars PROVE ReadInv'
  OBVIOUS
<1> USE AtaAssumption
<1>1. CASE \E l \in Lbas, n \in Totals : disk_read_sector(l, n)
  BY <1>1, CommandStep DEF disk_read_sector
<1>2. CASE PollStatus
  BY <1>2 DEF PollStatus, Poll, ReadInv, Idle, Nobody, InStep
<1>3. CASE Transfer
  <2>1. CASE ReadWord
    BY <2>1, WordStep
  <2>2. CASE Done
    BY <2>2 DEF Done, ReadInv, Idle, Nobody, InStep
  <2>3. QED
    BY <1>3, <2>1, <2>2 DEF Transfer
<1>4. CASE Drive
  BY <1>4 DEF Drive, DriveAnswers, ReadInv, Idle, Nobody, InStep
<1>5. CASE UNCHANGED ataVars
  BY <1>5 DEF ataVars, ReadInv, Idle, Nobody, InStep
<1>6. QED
  BY <1>1, <1>2, <1>3, <1>4, <1>5 DEF Next, Interrupts, Boot, Inputs, vars

(* disk_read_sector never returns without the words that it was asked for: *)
(* for every size of sector and drive, wherever the damaged sectors are,   *)
(* and whatever interrupts come in between.                                *)
THEOREM ReadReturnsWhatWasAsked == Spec => []ReturnsWhatWasAsked
<1>1. ReadInv => ReturnsWhatWasAsked
  BY DEF ReadInv, Idle, ReturnsWhatWasAsked, Reading, Delivered
<1>2. QED
  BY <1>1, ReadInit, ReadStep, PTL DEF Spec

-----------------------------------------------------------------------------
(* The EOI of a handler ends no line of the slave, so that no request of   *)
(* the drive after the first gets through.                                 *)
LEMMA SlaveStep == SlaveStuck /\ [Next]_vars => SlaveStuck'
<1> SUFFICES ASSUME SlaveStuck, [Next]_vars PROVE SlaveStuck'
  OBVIOUS
<1>1. CASE \E l \in Lines : Interrupt(l)
  <2>1. PICK l \in Lines : Interrupt(l)
    BY <1>1
  <2>2. CASE l = "drive"
    BY <2>1, <2>2 DEF Interrupt, SlaveStuck
  <2>3. CASE l # "drive"
    BY <2>1, <2>3 DEF Interrupt, SlaveStuck
  <2>4. QED
    BY <2>2, <2>3
<1>2. CASE Return
  <2>1. "drive" \in isr' <=> "drive" \in isr
    BY <1>2 DEF Return, AfterEoi, Master
  <2>2. QED
    BY <1>2, <2>1 DEF Return, SlaveStuck
<1>3. CASE UNCHANGED <<isr, answered>>
  BY <1>3 DEF SlaveStuck
<1>4. QED
  BY <1>1, <1>2, <1>3
     DEF Next, disk_read_sector, PollStatus, Transfer, Drive, Interrupts, Boot, Inputs,
         enable_interrupts, Tick, Key, vars, picVars

(* The slave takes one request of the drive to the CPU and none after it,  *)
(* for every number of reads and of inputs.                                *)
THEOREM SlaveAnswersDriveOnce == Spec => []AnswersDriveOnce
<1>1. Init => SlaveStuck
  BY DEF Init, PicInit, SlaveStuck
<1>2. SlaveStuck => AnswersDriveOnce
  BY DEF SlaveStuck, AnswersDriveOnce
<1>3. QED
  BY <1>1, <1>2, SlaveStep, PTL DEF Spec

-----------------------------------------------------------------------------
(* The types of the disk driver, the drive and the controllers.            *)

\* Whatever the registers get, the drive makes a sector of them.
LEMMA SectorType ==
  ASSUME NEW l \in Int
  PROVE  Addressed(Registers(l)) \in Nat
<1> DEFINE head == 224 + ((l \div 16777216) % 32)
<1>1. /\ l % 256 \in Nat /\ (l \div 256) % 256 \in Nat /\ (l \div 65536) % 256 \in Nat
      /\ head \in Nat
  BY SMT
<1> HIDE DEF head
<1>2. head % 16 \in Nat
  BY <1>1, SMT
<1>3. /\ Registers(l).low = l % 256 /\ Registers(l).mid = (l \div 256) % 256
      /\ Registers(l).high = (l \div 65536) % 256 /\ Registers(l).head = head
  BY DEF Registers, head
<1>4. QED
  BY <1>1, <1>2, <1>3, SMT DEF Addressed

\* A word that is read is one of a sector, or what a port without one gives.
LEMMA WordTypes ==
  ASSUME AtaTypeOK, ReadInv, ReadWord
  PROVE  AtaTypeOK'
<1> USE AtaAssumption
<1> DEFINE Word == (Nat \X (0 .. Words-1)) \cup {<<>>}
<1>1. /\ InStep /\ drive = "data" /\ b < total /\ left = total - b
      /\ total \in Nat /\ b \in Nat /\ word \in 0 .. Words-1
  BY DEF ReadInv, ReadWord, InStep, Nobody
<1>2. buf' \in Seq(Word)
  <2>1. sector \in Nat
    BY DEF AtaTypeOK
  <2>2. <<sector, word>> \in Word
    BY <1>1, <2>1
  <2>3. buf \in Seq(Word) /\ buf' = Append(buf, <<sector, word>>)
    BY <1>1 DEF AtaTypeOK, ReadWord
  <2> HIDE DEF Word
  <2>4. QED
    BY <2>2, <2>3, AppendProperties
<1>3. sector' \in Nat /\ left' \in Nat /\ word' \in Nat /\ drive' \in {"ready", "busy", "data", "error"}
  <2>1. left >= 1 /\ sector \in Nat /\ left \in Nat /\ word \in Nat
    BY <1>1 DEF AtaTypeOK
  <2>2. QED
    BY <1>1, <2>1, SMTT(60) DEF ReadWord
<1>4. QED
  BY <1>2, <1>3, WordStep DEF AtaTypeOK, ReadInv

LEMMA AtaTypes == AtaTypeOK /\ ReadInv /\ [Next]_vars => AtaTypeOK'
<1> SUFFICES ASSUME AtaTypeOK, ReadInv, [Next]_vars PROVE AtaTypeOK'
  OBVIOUS
<1>1. CASE \E l \in Lbas, n \in Totals : disk_read_sector(l, n)
  <2>1. PICK l \in Lbas, n \in Totals : Command(l, n)
    BY <1>1 DEF disk_read_sector
  <2>2. l \in Int /\ n \in Nat
    BY AtaAssumption
  <2>3. Addressed(Registers(l)) \in Nat
    BY <2>2, SectorType
  <2>4. sector' \in Nat /\ left' \in Nat /\ word' \in Nat /\ drive' \in {"ready", "busy", "data", "error"}
    BY <2>1, <2>2, <2>3 DEF Command, AtaTypeOK
  <2>5. buf' \in Seq((Nat \X (0 .. Words-1)) \cup {<<>>})
    BY <2>1 DEF Command
  <2>6. ReadInv'
    BY <2>1, CommandStep
  <2>7. QED
    BY <2>4, <2>5, <2>6 DEF AtaTypeOK, ReadInv
<1>2. CASE PollStatus
  BY <1>2 DEF PollStatus, Poll, AtaTypeOK
<1>3. CASE Transfer
  BY <1>3, WordTypes DEF Transfer, Done, AtaTypeOK
<1>4. CASE Drive
  BY <1>4 DEF Drive, DriveAnswers, AtaTypeOK
<1>5. CASE UNCHANGED ataVars
  BY <1>5 DEF ataVars, AtaTypeOK
<1>6. QED
  BY <1>1, <1>2, <1>3, <1>4, <1>5 DEF Next, Interrupts, Boot, Inputs, vars

\* A handler runs that the table has for the vector, never idt_zero.
LEMMA HandlerTypes ==
  ASSUME PicTypeOK, NEW l \in Lines, Interrupt(l)
  PROVE  PicTypeOK'
<1>1. running' \in {"int21h", "no_interrupt"}
  BY DEF Interrupt, idt_descriptors, Vector, Lines
<1>2. irr' \subseteq Lines /\ isr' \subseteq Lines \cup {"slave"}
  BY DEF Interrupt, PicTypeOK
<1>3. answered' \in Nat
  BY DEF Interrupt, PicTypeOK
<1>4. QED
  BY <1>1, <1>2, <1>3 DEF Interrupt, PicTypeOK

LEMMA PicTypes == PicTypeOK /\ [Next]_vars => PicTypeOK'
<1> SUFFICES ASSUME PicTypeOK, [Next]_vars PROVE PicTypeOK'
  OBVIOUS
<1> USE PicAssumption DEF PicTypeOK
<1>1. CASE \E l \in Lines : Interrupt(l)
  BY <1>1, HandlerTypes
<1>2. CASE Return
  <2>1. isr' \subseteq Lines \cup {"slave"}
    BY <1>2 DEF Return, AfterEoi
  <2>2. scancode' \in BOOLEAN /\ running' = "main" /\ enabled' = TRUE
    BY <1>2 DEF Return
  <2>3. QED
    BY <1>2, <2>1, <2>2 DEF Return
<1>3. CASE PollStatus
  BY <1>3 DEF PollStatus
<1>4. CASE Drive
  BY <1>4 DEF Drive, Lines
<1>5. CASE enable_interrupts
  BY <1>5 DEF enable_interrupts
<1>6. CASE Tick
  BY <1>6 DEF Tick, Lines
<1>7. CASE Key
  BY <1>7 DEF Key, Lines
<1>8. CASE UNCHANGED picVars
  BY <1>8 DEF picVars
<1>9. QED
  BY <1>1, <1>2, <1>3, <1>4, <1>5, <1>6, <1>7, <1>8
     DEF Next, disk_read_sector, Transfer, Interrupts, Boot, Inputs, vars

(* Every variable has its type: what the drive is told is always a sector, *)
(* it delivers no more sectors than it was asked for, and an interrupt     *)
(* always finds a handler that returns (disk.c, idt.c, idt.asm).           *)
THEOREM DevicesTypeCorrect == Spec => []TypeOK
<1> DEFINE IInv == TypeOK /\ ReadInv
<1>1. Init => IInv
  <2>1. Init => AtaTypeOK
    BY AtaAssumption DEF Init, AtaInit, AtaTypeOK
  <2>2. Init => PicTypeOK
    <3> SUFFICES ASSUME PicInit PROVE PicTypeOK
      BY DEF Init
    <3>1. irr \subseteq Lines /\ isr \subseteq Lines \cup {"slave"}
      BY DEF PicInit
    <3>2. enabled \in BOOLEAN /\ scancode \in BOOLEAN
      BY DEF PicInit
    <3>3. requests \in 0 .. MaxRequests /\ answered \in Nat
      BY PicAssumption DEF PicInit
    <3>4. QED
      BY <3>1, <3>2, <3>3 DEF PicInit, PicTypeOK
  <2>3. QED
    BY <2>1, <2>2, ReadInit, DevicesAssumption DEF Init, TypeOK
<1>2. IInv /\ [Next]_vars => IInv'
  <2> SUFFICES ASSUME IInv, [Next]_vars PROVE IInv'
    OBVIOUS
  <2>1. reads' \in 0 .. MaxReads
    BY DevicesAssumption
       DEF TypeOK, Next, disk_read_sector, PollStatus, Transfer, Drive, Interrupts, Boot,
           Inputs, vars
  <2>2. AtaTypeOK' /\ PicTypeOK' /\ ReadInv'
    BY AtaTypes, PicTypes, ReadStep DEF TypeOK
  <2>3. QED
    BY <2>1, <2>2 DEF TypeOK
<1>3. QED
  BY <1>1, <1>2, PTL DEF Spec
=============================================================================
