------------------------------ MODULE ByteFile ------------------------------
(***************************************************************************)
(* What the kernel's read-only file interface promises: an open file is a  *)
(* string of bytes with a cursor.  No clusters, no sectors, no machine     *)
(* integers.                                                               *)
(*                                                                         *)
(* content[d] is the part of the file that the disk can supply; it is      *)
(* shorter than filesize[d] when the volume is damaged.                    *)
(***************************************************************************)
EXTENDS Integers, Sequences

CONSTANTS Files,        \* the open files
          Counts,       \* sizes and item counts that callers use
          Offsets       \* seek offsets that callers use, negative ones too

VARIABLES content, filesize, cursor, call, reply

bvars == <<content, filesize, cursor, call, reply>>

Answer(res, out) == reply' = [res |-> res, out |-> out]

\* n items of size bytes are left in front of the end of file d.
Holds(d, size, n) == cursor[d] + n * size <= filesize[d]

\* The number of items a read of nmemb items of size bytes is to deliver.
Due(d, size, nmemb, n) ==
  /\ n \in 0 .. nmemb
  /\ Holds(d, size, n)
  /\ n < nmemb => ~Holds(d, size, n+1)

\* All items that are due are delivered, or the disk cannot supply one of
\* them and the call fails without moving the cursor.
Read(d, size, nmemb) ==
  /\ call' = <<"read", d, size, nmemb>>
  /\ \E n \in 0 .. nmemb :
       /\ Due(d, size, nmemb, n)
       /\ LET end == cursor[d] + n * size IN
          \/ /\ n = 0 \/ end <= Len(content[d])
             /\ Answer(n,
                       SubSeq(content[d], cursor[d] + 1, end))
             /\ cursor' = [cursor EXCEPT ![d] = end]
          \/ /\ n > 0 /\ end > Len(content[d])
             /\ Answer(-1,
                       SubSeq(content[d], cursor[d] + 1, Len(content[d])))
             /\ UNCHANGED cursor
  /\ UNCHANGED <<content, filesize>>

ReadNothing(d, size, nmemb) ==
  /\ call' = <<"read", d, size, nmemb>>
  /\ size = 0 \/ nmemb = 0
  /\ Answer(0, <<>>)
  /\ UNCHANGED <<content, filesize, cursor>>

ReadNowhere(d, size, nmemb) ==
  /\ call' = <<"read to NULL", d, size, nmemb>>
  /\ Answer(IF size = 0 \/ nmemb = 0 THEN 0 ELSE -2, <<>>)
  /\ UNCHANGED <<content, filesize, cursor>>

\* The cursor goes where it is asked to, inside the file, or the call fails
\* and it stays.  SEEK_CUR moves it forward only.
Target(d, whence, offset) ==
  IF whence = "SEEK_SET" THEN offset ELSE cursor[d] + offset

Seek(d, whence, offset) ==
  /\ call' = <<"seek", d, whence, offset>>
  /\ whence \in {"SEEK_SET", "SEEK_CUR"}
  /\ offset >= 0 /\ Target(d, whence, offset) <= filesize[d]
  /\ Answer(0, <<>>)
  /\ cursor' = [cursor EXCEPT ![d] = Target(d, whence, offset)]
  /\ UNCHANGED <<content, filesize>>

SeekFails(d, whence, offset) ==
  /\ call' = <<"seek", d, whence, offset>>
  /\ whence \in {"SEEK_SET", "SEEK_CUR"} =>
       offset < 0 \/ Target(d, whence, offset) > filesize[d]
  /\ \E res \in {-1, -2, -7} : Answer(res, <<>>)
  /\ UNCHANGED <<content, filesize, cursor>>

Stat(d) ==
  /\ call' = <<"stat", d>>
  /\ Answer(filesize[d], <<>>)
  /\ UNCHANGED <<content, filesize, cursor>>

Init ==
  /\ cursor = [d \in Files |-> 0]
  /\ call = <<"open">>
  /\ reply = [res |-> 0, out |-> <<>>]

Next ==
  \E d \in Files :
    \/ \E size, nmemb \in Counts :
         Read(d, size, nmemb) \/ ReadNothing(d, size, nmemb) \/ ReadNowhere(d, size, nmemb)
    \/ \E whence \in {"SEEK_SET", "SEEK_CUR", "SEEK_END", "other"}, offset \in Offsets :
         Seek(d, whence, offset) \/ SeekFails(d, whence, offset)
    \/ Stat(d)

Spec == Init /\ [][Next]_bvars
=============================================================================
