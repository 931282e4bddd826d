------------------------------ MODULE Devices -------------------------------
(***************************************************************************)
(* The kernel reads its disk while interrupts come in: disk_read_sector    *)
(* (module Ata) is the main program, the drive raises a request for every  *)
(* sector and for every error, and the handlers (module Pic) take the CPU  *)
(* between two instructions.  The kernel reads before and after it has     *)
(* enabled interrupts.                                                     *)
(***************************************************************************)
EXTENDS Ata, Pic

CONSTANT MaxReads       \* bound: calls of disk_read_sector

ASSUME DevicesAssumption == MaxReads \in Nat

VARIABLE reads

vars == <<ataVars, picVars, reads>>

Main == running = "main"

disk_read_sector(l, n) ==
  /\ Main /\ reads < MaxReads /\ reads' = reads + 1
  /\ Command(l, n)
  /\ UNCHANGED picVars

\* Reading the status takes the drive's request back.  A controller may drop
\* the request for that, or keep it.
PollStatus ==
  /\ Main /\ Poll
  /\ irr' \in {irr, irr \ {"drive"}}
  /\ UNCHANGED <<isr, enabled, running, scancode, requests, answered, reads>>

Transfer == Main /\ (ReadWord \/ Done) /\ UNCHANGED <<picVars, reads>>

Drive ==
  /\ DriveAnswers
  /\ irr' = irr \cup {"drive"}
  /\ UNCHANGED <<isr, enabled, running, scancode, requests, answered, reads>>

Interrupts ==
  /\ \/ \E l \in Lines : Interrupt(l)
     \/ Return
  /\ UNCHANGED <<ataVars, reads>>

Boot   == pc = "idle" /\ enable_interrupts /\ UNCHANGED <<ataVars, reads>>
Inputs == (Tick \/ Key) /\ UNCHANGED <<ataVars, reads>>

Init == AtaInit /\ PicInit /\ reads = 0

Next ==
  \/ \E l \in Lbas, n \in Totals : disk_read_sector(l, n)
  \/ PollStatus \/ Transfer \/ Drive \/ Interrupts \/ Boot \/ Inputs

\* The CPU and the drive never stop; reads and inputs may.
Spec == /\ Init /\ [][Next]_vars
        /\ WF_vars(PollStatus) /\ WF_vars(Transfer) /\ WF_vars(Drive)
        /\ WF_vars(Interrupts)

-----------------------------------------------------------------------------
(* Every variable has its type.                                            *)
TypeOK == AtaTypeOK /\ PicTypeOK /\ reads \in 0 .. MaxReads

Reading == pc # "idle"
Asked   == lba .. lba + total - 1

(* disk_read_sector answers 0 in any case; it returns only when the buffer *)
(* holds every word of the sectors asked for, in their order, whatever     *)
(* interrupts came in between and whatever the drive could not read.       *)
ReturnsWhatWasAsked ==
  ~Reading =>
    buf = [i \in 1 .. total * Words |-> <<lba + (i-1) \div Words, (i-1) % Words>>]

(* A read of sectors that the drive can read ends, though the drive's      *)
(* interrupts are not answered any more.  Every other read hangs the       *)
(* kernel: see ReturnsWhatWasAsked.                                        *)
ReadsEnd == Reading /\ Asked \subseteq (0 .. Sectors-1) \ Bad ~> ~Reading

(* With interrupts enabled every tick and every key is answered, during a  *)
(* read and behind a drive that was never acknowledged as well.            *)
AnswersInputs ==
  /\ enabled /\ "timer" \in irr ~> "timer" \notin irr
  /\ enabled /\ scancode ~> ~scancode

(* The handlers acknowledge the master only: the slave takes one request   *)
(* of the drive to the CPU and none after it.                              *)
AnswersDriveOnce == answered <= 1
=============================================================================
