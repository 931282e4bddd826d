-------------------------------- MODULE Pic ---------------------------------
(***************************************************************************)
(* Interrupts of the kernel: the two 8259 controllers as kernel.asm leaves *)
(* them, and the handlers of idt/idt.asm and idt/idt.c.  The timer and the *)
(* keyboard are lines of the master; the drive is a line of the slave,     *)
(* which is a line of the master itself.  One handler runs at a time: the  *)
(* gates clear the interrupt flag, and no interrupt comes between sti and  *)
(* iret.                                                                   *)
(***************************************************************************)
EXTENDS Integers

CONSTANT MaxRequests    \* bound: requests of the timer and the keyboard

ASSUME PicAssumption == MaxRequests \in Nat

VARIABLES
  irr,          \* the lines with a request
  isr,          \* the lines in service
  enabled,      \* the interrupt flag
  running,      \* "main", or the handler that has the CPU
  scancode,     \* the keyboard has a scan code that nobody has read
  requests,     \* requests of the timer and the keyboard so far
  answered      \* history: how many requests of the drive were taken

picVars == <<irr, isr, enabled, running, scancode, requests, answered>>

Lines == {"timer", "keyboard", "drive"}

\* The lines of the master by priority, 0 first.
Master == [timer |-> 0, keyboard |-> 1, slave |-> 2]

\* kernel.asm moves the master to 0x20; the slave stays where the BIOS put it.
Vector == [timer |-> 32, keyboard |-> 33, drive |-> 118]

ZeroFirst(v) ==         \* mutant: the exceptions all get idt_zero, and one more
  IF v <= 32 THEN "idt_zero" ELSE IF v = 33 THEN "int21h" ELSE "no_interrupt"

\* The table of idt_init.
idt_descriptors(v) ==
  IF v = 0 THEN "idt_zero" ELSE IF v = 33 THEN "int21h" ELSE "no_interrupt"

\* A line of the master is served while nothing of its priority or above is.
Served(line) == \A l \in isr \cap DOMAIN Master : Master[l] > Master[line]

\* The CPU takes a request between two instructions.
Interrupt(line) ==
  /\ enabled /\ running = "main" /\ line \in irr
  /\ IF line = "drive" THEN Served("slave") /\ line \notin isr ELSE Served(line)
  /\ running' = idt_descriptors(Vector[line])
  /\ enabled' = FALSE
  /\ irr' = irr \ {line}
  /\ isr' = isr \cup (IF line = "drive" THEN {"drive", "slave"} ELSE {line})
  /\ answered' = IF line = "drive" THEN answered + 1 ELSE answered
  /\ UNCHANGED <<scancode, requests>>

BothEois ==             \* mutant: outb(0xA0, 0x20) as well
  {l \in isr \ {"drive"} : l \in DOMAIN Master =>
     \E k \in isr \cap DOMAIN Master : Master[k] < Master[l]}

NoEoi == isr            \* mutant: outb(0x20, 0x20) is missing

\* outb(0x20, 0x20): the line of the master that is first in service ends.
\* The slave is not told.
AfterEoi ==
  {l \in isr : l \in DOMAIN Master =>
     \E k \in isr \cap DOMAIN Master : Master[k] < Master[l]}

\* int21h_handler reads the scan code; both handlers send the EOI and return.
Return ==
  /\ running \in {"int21h", "no_interrupt"}
  /\ isr' = AfterEoi
  /\ scancode' = (scancode /\ running # "int21h")
  /\ running' = "main"
  /\ enabled' = TRUE
  /\ UNCHANGED <<irr, requests, answered>>

enable_interrupts ==
  /\ running = "main" /\ ~enabled
  /\ enabled' = TRUE
  /\ UNCHANGED <<irr, isr, running, scancode, requests, answered>>

Tick ==
  /\ requests < MaxRequests /\ requests' = requests + 1
  /\ irr' = irr \cup {"timer"}
  /\ UNCHANGED <<isr, enabled, running, scancode, answered>>

\* The keyboard requests again only when its scan code has been read.
Key ==
  /\ requests < MaxRequests /\ requests' = requests + 1
  /\ ~scancode /\ scancode' = TRUE
  /\ irr' = irr \cup {"keyboard"}
  /\ UNCHANGED <<isr, enabled, running, answered>>

PicInit ==
  /\ irr = {} /\ isr = {} /\ enabled = FALSE /\ running = "main"
  /\ scancode = FALSE /\ requests = 0 /\ answered = 0

PicTypeOK ==
  /\ irr \subseteq Lines
  /\ isr \subseteq Lines \cup {"slave"}
  /\ running \in {"main", "int21h", "no_interrupt"}
  /\ enabled \in BOOLEAN /\ scancode \in BOOLEAN
  /\ requests \in 0 .. MaxRequests /\ answered \in Nat
=============================================================================
