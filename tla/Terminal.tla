------------------------------ MODULE Terminal ------------------------------
(***************************************************************************)
(* The text terminal of kernel.c and the keyboard handler of idt/idt.c     *)
(* that prints on it: one step per access to terminal_row, terminal_col    *)
(* and the video memory, because an interrupt can come between any two.    *)
(* The main program and the handler run the same print function on one     *)
(* CPU.                                                                    *)
(*                                                                         *)
(* A character is a newline, a tab, or one that is shown; print shows the  *)
(* terminating zero too, so a text ends with a character that is shown.    *)
(***************************************************************************)
EXTENDS Integers, Sequences

CONSTANTS
  Width,        \* VGA_WIDTH
  RowRange,     \* 2^16: terminal_row is a uint16_t
  BootText,     \* what kernel_main prints before enable_interrupts
  LateText,     \* what it prints afterwards: <<>> in the code as it is
                \* written, where fopen fails; "Test Completed!" behind that
  KeyText,      \* what int21h_handler prints
  MaxKeys       \* bound: key presses and releases in a behaviour

Chars == {"newline", "tab", "shown"}

ASSUME TerminalAssumption ==
  /\ Width \in Nat \ {0}
  /\ RowRange \in Nat \ {0}
  /\ {BootText, LateText, KeyText} \subseteq Seq(Chars)
  /\ MaxKeys \in Nat

Contexts == {"main", "int21h"}

VARIABLES
  terminal_row, terminal_col,
  text,         \* text[c]: what context c has yet to print
  pc,           \* pc[c]: the access to memory that c does next
  line, reg,    \* line[c], reg[c]: registers of c
  running,      \* the context that has the CPU
  enabled,      \* the interrupt flag
  pending,      \* the keyboard's interrupt request
  inService,    \* its in-service bit in the PIC, cleared by the EOI
  keys,         \* key presses and releases so far
  at, writes,   \* history: the last cell written, and the number of writes
  wrapped       \* history: terminal_row has overflowed

screen == <<terminal_row, terminal_col, at, writes, wrapped>>
cpu    == <<running, enabled, pending, inService, keys>>
vars   == <<screen, cpu, text, pc, line, reg>>

-----------------------------------------------------------------------------
\* Context c does step p of terminal_writechar, and q comes next.
Step(c, p, q) ==
  /\ running = c
  /\ pc[c] = p /\ pc' = [pc EXCEPT ![c] = q]
  /\ text[c] # <<>>
  /\ UNCHANGED cpu

Goes(c, p, q) == Step(c, p, q) /\ UNCHANGED text

Load(c, value) ==
  /\ reg' = [reg EXCEPT ![c] = value]
  /\ UNCHANGED <<screen, line>>

RowOverflows(c) ==      \* mutant: terminal_row is wider than 16 bits
  /\ terminal_row' = reg[c] + 1
  /\ wrapped' = (wrapped \/ reg[c] + 1 = RowRange)
  /\ UNCHANGED <<terminal_col, at, writes, line, reg>>

\* The next row, in 16 bits.
NextRow(c) ==
  /\ terminal_row' = (reg[c] + 1) % RowRange
  /\ wrapped' = (wrapped \/ reg[c] + 1 = RowRange)
  /\ UNCHANGED <<terminal_col, at, writes, line, reg>>

SetCol(value) ==
  /\ terminal_col' = value
  /\ UNCHANGED <<terminal_row, at, writes, wrapped, line, reg>>

\* terminal_row++; terminal_col = 0;
LoadRow(c)    == Goes(c, "char", "newline") /\ Head(text[c]) = "newline" /\ Load(c, terminal_row)
StoreRow(c)   == Goes(c, "newline", "return") /\ NextRow(c)
ClearCol(c)   == Goes(c, "return", "wrap") /\ SetCol(0)

\* terminal_col += 4;
LoadCol(c)    == Goes(c, "char", "tab") /\ Head(text[c]) = "tab" /\ Load(c, terminal_col)
StoreTab(c)   == Goes(c, "tab", "wrap") /\ SetCol(reg[c] + 4)

\* terminal_putchar(terminal_col++, terminal_row, c, color): the row is
\* loaded first, the column is stored before the character is.
LoadLine(c) ==
  /\ Goes(c, "char", "column") /\ Head(text[c]) = "shown"
  /\ line' = [line EXCEPT ![c] = terminal_row]
  /\ UNCHANGED <<screen, reg>>

LoadColumn(c) == Goes(c, "column", "advance") /\ Load(c, terminal_col)
StoreCol(c)   == Goes(c, "advance", "cell") /\ SetCol(reg[c] + 1)

StoreCell(c) ==
  /\ Goes(c, "cell", "wrap")
  /\ at' = line[c] * Width + reg[c]
  /\ writes' = writes + 1
  /\ UNCHANGED <<terminal_row, terminal_col, wrapped, line, reg>>

WrapsLate(c) ==         \* mutant: ">" for ">="
  \/ /\ terminal_col <= Width
     /\ Step(c, "wrap", "char")
     /\ text' = [text EXCEPT ![c] = Tail(@)]
     /\ UNCHANGED <<screen, line, reg>>
  \/ /\ terminal_col > Width
     /\ Goes(c, "wrap", "home")
     /\ UNCHANGED <<screen, line, reg>>

\* if (terminal_col >= VGA_WIDTH)
Wraps(c) ==
  \/ /\ terminal_col < Width
     /\ Step(c, "wrap", "char")
     /\ text' = [text EXCEPT ![c] = Tail(@)]
     /\ UNCHANGED <<screen, line, reg>>
  \/ /\ terminal_col >= Width
     /\ Goes(c, "wrap", "home")
     /\ UNCHANGED <<screen, line, reg>>

\* { terminal_col = 0; terminal_row += 1; }
Home(c)       == Goes(c, "home", "feed") /\ SetCol(0)
LoadFeed(c)   == Goes(c, "feed", "fed") /\ Load(c, terminal_row)

StoreFeed(c) ==
  /\ Step(c, "fed", "char")
  /\ text' = [text EXCEPT ![c] = Tail(@)]
  /\ NextRow(c)

terminal_writechar(c) ==
  \/ LoadRow(c) \/ StoreRow(c) \/ ClearCol(c)
  \/ LoadCol(c) \/ StoreTab(c)
  \/ LoadLine(c) \/ LoadColumn(c) \/ StoreCol(c) \/ StoreCell(c)
  \/ Wraps(c) \/ Home(c) \/ LoadFeed(c) \/ StoreFeed(c)

-----------------------------------------------------------------------------
\* kernel_main: the boot messages are out.
enable_interrupts ==
  /\ running = "main" /\ ~enabled /\ text["main"] = <<>>
  /\ enabled' = TRUE
  /\ text' = [text EXCEPT !["main"] = LateText]
  /\ UNCHANGED <<screen, running, pending, inService, keys, pc, line, reg>>

\* The keyboard requests an interrupt for a key that goes down or up.
Key ==
  /\ keys < MaxKeys /\ ~pending
  /\ pending' = TRUE
  /\ keys' = keys + 1
  /\ UNCHANGED <<screen, running, enabled, inService, text, pc, line, reg>>

\* The CPU takes the request between two instructions.  The gate of the
\* descriptor clears the interrupt flag.  int21h_handler reads the scan code,
\* and prints only for a key that goes down.
int21h ==
  /\ enabled /\ pending /\ ~inService
  /\ running' = "int21h"
  /\ enabled' = FALSE
  /\ pending' = FALSE
  /\ inService' = TRUE
  /\ \E t \in {KeyText, <<>>} : text' = [text EXCEPT !["int21h"] = t]
  /\ UNCHANGED <<screen, keys, pc, line, reg>>

ForgetsEoi ==           \* mutant: outb(0x20, 0x20) is missing
  /\ running = "int21h" /\ text["int21h"] = <<>>
  /\ running' = "main"
  /\ enabled' = TRUE
  /\ UNCHANGED <<screen, pending, inService, keys, text, pc, line, reg>>

\* The EOI, and after it sti and iret, which no interrupt can come between.
iret ==
  /\ running = "int21h" /\ text["int21h"] = <<>>
  /\ running' = "main"
  /\ enabled' = TRUE
  /\ inService' = FALSE
  /\ UNCHANGED <<screen, pending, keys, text, pc, line, reg>>

Init ==
  /\ terminal_row = 0 /\ terminal_col = 0
  /\ text = [c \in Contexts |-> IF c = "main" THEN BootText ELSE <<>>]
  /\ pc = [c \in Contexts |-> "char"]
  /\ line = [c \in Contexts |-> 0] /\ reg = [c \in Contexts |-> 0]
  /\ running = "main" /\ enabled = FALSE
  /\ pending = FALSE /\ inService = FALSE /\ keys = 0
  /\ at = -1 /\ writes = 0 /\ wrapped = FALSE

Cpu == enable_interrupts \/ iret \/ \E c \in Contexts : terminal_writechar(c)

Next == Cpu \/ int21h \/ Key

\* The CPU never stops executing, and takes an interrupt that stays requested.
Spec == Init /\ [][Next]_vars /\ WF_vars(Cpu) /\ WF_vars(int21h)

-----------------------------------------------------------------------------
(* Every variable has its type.                                            *)
TypeOK ==
  /\ terminal_row \in 0 .. RowRange-1
  /\ terminal_col \in Nat
  /\ text \in [Contexts -> Seq(Chars)]
  /\ pc \in [Contexts -> {"char", "newline", "return", "tab", "column", "advance",
                          "cell", "wrap", "home", "feed", "fed"}]
  /\ line \in [Contexts -> 0 .. RowRange-1]
  /\ reg \in [Contexts -> Nat]
  /\ running \in Contexts
  /\ {enabled, pending, inService, wrapped} \subseteq BOOLEAN
  /\ keys \in 0 .. MaxKeys
  /\ at \in Int /\ writes \in Nat

(* Print shows every character: each one goes to a cell behind all cells   *)
(* written before it, in the order of printing, so that none is            *)
(* overwritten - until terminal_row has overflowed.                        *)
ShowsInOrder == [][writes' # writes /\ ~wrapped => at' > at]_vars

(* Every request of the keyboard is taken and acknowledged in the end, so  *)
(* that the next one can be.                                               *)
AnswersKeys ==
  /\ pending ~> ~pending
  /\ inService ~> ~inService
=============================================================================
