--------------------------- MODULE TerminalProofs ---------------------------
(***************************************************************************)
(* Proof that the terminal shows every character, in order, for every      *)
(* width and every text, as long as the main program prints nothing while  *)
(* interrupts are enabled (LateText = <<>>, the code as it is written).    *)
(*                                                                         *)
(* The invariant says of each step of terminal_writechar what it has in    *)
(* its registers and how far the cells written so far reach: they are in   *)
(* front of the cursor, and no further than the cursor's row.  It speaks   *)
(* of the running context only; the other one is between two characters.   *)
(***************************************************************************)
EXTENDS Terminal, TLAPS

Row(r) == r * Width
Ahead == at < Row(terminal_row) + terminal_col
InRow == at < Row(terminal_row + 1)
Inside == terminal_col < Width

\* What holds in front of step p of context c.
Before(c, p) ==
  /\ p = "char"    => Ahead /\ Inside
  /\ p = "newline" => Ahead /\ Inside /\ reg[c] = terminal_row
  /\ p = "return"  => at < Row(terminal_row)
  /\ p = "tab"     => Ahead /\ Inside /\ reg[c] = terminal_col
  /\ p = "column"  => Ahead /\ Inside /\ line[c] = terminal_row
  /\ p = "advance" => Ahead /\ Inside /\ line[c] = terminal_row /\ reg[c] = terminal_col
  /\ p = "cell"    => /\ line[c] = terminal_row /\ terminal_col = reg[c] + 1
                      /\ reg[c] < Width /\ at < Row(line[c]) + reg[c]
  /\ p = "wrap"    => Ahead /\ InRow
  /\ p = "home"    => InRow
  /\ p = "feed"    => InRow /\ terminal_col = 0
  /\ p = "fed"     => InRow /\ terminal_col = 0 /\ reg[c] = terminal_row

Idle(c) == pc[c] = "char" /\ text[c] = <<>>

\* Interrupts are enabled only when the main program has nothing to print.
OneAtATime ==
  /\ running = "main" => Idle("int21h")
  /\ enabled \/ running = "int21h" => Idle("main")
  /\ enabled => running = "main"
  /\ \A c \in Contexts : pc[c] # "char" => text[c] # <<>>

Types ==
  /\ terminal_row \in 0 .. RowRange-1 /\ terminal_col \in Nat /\ at \in Int
  /\ running \in Contexts /\ enabled \in BOOLEAN /\ wrapped \in BOOLEAN
  /\ text \in [Contexts -> Seq(Chars)]
  /\ pc \in [Contexts -> {"char", "newline", "return", "tab", "column", "advance",
                          "cell", "wrap", "home", "feed", "fed"}]
  /\ line \in [Contexts -> Nat] /\ reg \in [Contexts -> Nat]

IInv == Types /\ OneAtATime /\ (~wrapped => Before(running, pc[running]))

-----------------------------------------------------------------------------
\* Rows follow one another.
LEMMA RowTyped == ASSUME NEW r \in Nat PROVE Row(r) \in Nat /\ Row(r + 1) = Row(r) + Width
  BY TerminalAssumption DEF Row

LEMMA BelowModulus ==
  ASSUME NEW m \in Nat \ {0}, NEW x \in Nat, x < m PROVE x % m = x
  <1>1. x = m * 0 + x /\ x \in 0 .. m-1
    OBVIOUS
  <1> QED BY <1>1

LEMMA TerminalInit == Init => IInv
  <1> SUFFICES ASSUME Init PROVE IInv
    OBVIOUS
  <1>0. BootText \in Seq(Chars) /\ <<>> \in Seq(Chars) /\ 0 \in 0 .. RowRange-1
    BY TerminalAssumption
  <1>1. Types
    <2>1. text \in [Contexts -> Seq(Chars)]
      BY <1>0 DEF Init
    <2>2. /\ pc \in [Contexts -> {"char", "newline", "return", "tab", "column", "advance",
                               "cell", "wrap", "home", "feed", "fed"}]
          /\ line \in [Contexts -> Nat] /\ reg \in [Contexts -> Nat]
      BY DEF Init
    <2>3. terminal_row \in 0 .. RowRange-1 /\ terminal_col \in Nat /\ at \in Int
      BY <1>0 DEF Init
    <2>4. running \in Contexts /\ enabled \in BOOLEAN /\ wrapped \in BOOLEAN
      BY DEF Init, Contexts
    <2> QED BY <1>0, <2>1, <2>2, <2>3, <2>4 DEF Types
  <1>2. OneAtATime
    BY DEF Init, OneAtATime, Idle, Contexts
  <1>3. Row(0) = 0
    BY TerminalAssumption DEF Row
  <1>4. Before(running, pc[running])
    BY <1>3, TerminalAssumption DEF Init, Before, Ahead, Inside, Contexts
  <1> QED BY <1>1, <1>2, <1>4 DEF IInv

\* A step of print keeps the types and leaves the other context alone.
LEMMA WritecharKeepsRest ==
  ASSUME IInv, NEW c \in Contexts, terminal_writechar(c)
  PROVE  /\ Types' /\ OneAtATime'
         /\ running = c /\ running' = c
  <1> USE TerminalAssumption DEF IInv, Types
  <1>0. /\ running = c /\ text[c] # <<>> /\ UNCHANGED <<running, enabled>>
        /\ \A k \in Contexts \ {c} : pc'[k] = pc[k] /\ text'[k] = text[k]
        /\ pc'[c] = "char" \/ text'[c] = text[c]
    BY DEF terminal_writechar, LoadRow, StoreRow, ClearCol, LoadCol, StoreTab, LoadLine,
           LoadColumn, StoreCol, StoreCell, Wraps, Home, LoadFeed, StoreFeed, Goes, Step, cpu
  <1>1. text' \in [Contexts -> Seq(Chars)]
    <2>1. Tail(text[c]) \in Seq(Chars)
      BY <1>0
    <2>2. UNCHANGED text \/ text' = [text EXCEPT ![c] = Tail(@)]
      BY DEF terminal_writechar, LoadRow, StoreRow, ClearCol, LoadCol, StoreTab, LoadLine,
             LoadColumn, StoreCol, StoreCell, Wraps, Home, LoadFeed, StoreFeed, Goes
    <2> QED BY <2>1, <2>2
  <1>2. Types'
    <2>1. \A r \in Nat : (r + 1) % RowRange \in 0 .. RowRange-1
      OBVIOUS
    <2>2. CASE StoreRow(c) \/ StoreFeed(c)
      BY <2>1, <2>2, <1>0, <1>1, ZenonT(60) DEF StoreRow, StoreFeed, Goes, Step, NextRow
    <2>3. CASE LoadRow(c) \/ LoadCol(c) \/ LoadColumn(c) \/ LoadFeed(c) \/ LoadLine(c)
      <3>1. terminal_row \in Nat
        OBVIOUS
      <3>2. line' \in [Contexts -> Nat] /\ reg' \in [Contexts -> Nat]
        BY <2>3, <3>1, ZenonT(60) DEF LoadRow, LoadCol, LoadColumn, LoadFeed, LoadLine, Load
      <3> QED BY <2>3, <3>2, <1>0, <1>1 DEF LoadRow, LoadCol, LoadColumn, LoadFeed, LoadLine,
                                            Load, screen, Goes, Step
    <2>4. CASE ClearCol(c) \/ StoreTab(c) \/ StoreCol(c) \/ Home(c)
      <3>1. terminal_col' \in Nat
        BY <2>4, SMTT(60) DEF ClearCol, StoreTab, StoreCol, Home, SetCol
      <3> QED BY <2>4, <3>1, <1>0, <1>1 DEF ClearCol, StoreTab, StoreCol, Home, SetCol,
                                            Goes, Step
    <2>5. CASE StoreCell(c)
      BY <2>5, <1>0, <1>1, SMTT(60) DEF StoreCell, Goes, Step
    <2>6. CASE Wraps(c)
      BY <2>6, <1>0, <1>1 DEF Wraps, screen, Goes, Step
    <2> QED BY <2>2, <2>3, <2>4, <2>5, <2>6 DEF terminal_writechar
  <1>3. OneAtATime'
    BY <1>0, <1>2, SMTT(60) DEF OneAtATime, Idle, Contexts
  <1> QED BY <1>0, <1>2, <1>3

\* One step of print, from what holds before it to what holds after it.
LEMMA WritecharKeepsOrder ==
  ASSUME IInv, NEW c \in Contexts, terminal_writechar(c), ~wrapped'
  PROVE  /\ Before(c, pc[c])' 
         /\ writes' # writes => at' > at
  <1> USE TerminalAssumption DEF IInv, Types, Step, Goes
  <1>0. running = c /\ ~wrapped /\ Before(c, pc[c])
    BY WritecharKeepsRest
       DEF terminal_writechar, LoadRow, StoreRow, ClearCol, LoadCol, StoreTab, LoadLine,
           LoadColumn, StoreCol, StoreCell, Wraps, Home, LoadFeed, StoreFeed,
           Load, SetCol, NextRow, screen
  <1>R. /\ Row(terminal_row) \in Nat
        /\ Row(terminal_row + 1) = Row(terminal_row) + Width
    <2> terminal_row \in Nat
      OBVIOUS
    <2> QED BY RowTyped
  <1>a. CASE LoadRow(c) \/ LoadCol(c) \/ LoadColumn(c) \/ LoadFeed(c) \/ LoadLine(c)
    BY <1>0, <1>a, SMTT(60) DEF LoadRow, LoadCol, LoadColumn, LoadFeed, LoadLine, Load, screen, Before,
                      Ahead, InRow, Inside
  <1>b. CASE StoreRow(c) \/ StoreFeed(c)
    <2>1. reg[c] = terminal_row /\ InRow
      BY <1>0, <1>b, <1>R, SMTT(60) DEF StoreRow, StoreFeed, Before, Ahead, InRow, Inside
    <2>2. reg[c] + 1 # RowRange /\ at' = at /\ terminal_col' = terminal_col /\ writes' = writes
      BY <1>b DEF StoreRow, StoreFeed, NextRow
    <2>3. (terminal_row + 1) % RowRange = terminal_row + 1
      <3>1. terminal_row + 1 \in Nat /\ terminal_row + 1 < RowRange
        BY <2>1, <2>2
      <3> QED BY <3>1, BelowModulus
    <2>4. terminal_row' = terminal_row + 1
      BY <1>b, <2>1, <2>3 DEF StoreRow, StoreFeed, NextRow
    <2>5. at' < Row(terminal_row') /\ Row(terminal_row') \in Nat
      BY <2>1, <2>2, <2>4, RowTyped DEF InRow
    <2>6. CASE StoreRow(c)
      BY <2>5, <2>6, <2>2 DEF StoreRow, Before
    <2>7. CASE StoreFeed(c)
      BY <2>5, <2>7, <2>2, <1>0 DEF StoreFeed, Before, Ahead, Inside
    <2> QED BY <1>b, <2>6, <2>7
  <1>c. CASE ClearCol(c) \/ StoreTab(c) \/ StoreCol(c) \/ Home(c)
    <2>1. /\ terminal_row' = terminal_row /\ at' = at /\ writes' = writes
          /\ line' = line /\ reg' = reg
      BY <1>c DEF ClearCol, StoreTab, StoreCol, Home, SetCol
    <2>2. CASE ClearCol(c)
      BY <2>1, <2>2, <1>0, <1>R DEF ClearCol, SetCol, Before, Ahead, InRow
    <2>3. CASE StoreTab(c)
      BY <2>1, <2>3, <1>0, <1>R, SMTT(60) DEF StoreTab, SetCol, Before, Ahead, InRow, Inside
    <2>4. CASE StoreCol(c)
      BY <2>1, <2>4, <1>0, <1>R DEF StoreCol, SetCol, Before, Ahead, Inside
    <2>5. CASE Home(c)
      BY <2>1, <2>5, <1>0 DEF Home, SetCol, Before, InRow
    <2> QED BY <1>c, <2>2, <2>3, <2>4, <2>5
  <1>d. CASE StoreCell(c)
    BY <1>0, <1>d, <1>R, SMTT(60) DEF StoreCell, Row, Before, Ahead, InRow, Inside
  <1>e. CASE Wraps(c)
    BY <1>0, <1>e DEF Wraps, screen, Before, Ahead, InRow, Inside
  <1> QED BY <1>a, <1>b, <1>c, <1>d, <1>e DEF terminal_writechar

LEMMA TerminalStep ==
  ASSUME LateText = <<>>, IInv, [Next]_vars
  PROVE  IInv' /\ (writes' # writes /\ ~wrapped => at' > at)
  <1>1. CASE \E c \in Contexts : terminal_writechar(c)
    <2> PICK c \in Contexts : terminal_writechar(c)
      BY <1>1
    <2>1. wrapped => wrapped'
      BY DEF terminal_writechar, LoadRow, StoreRow, ClearCol, LoadCol, StoreTab, LoadLine,
             LoadColumn, StoreCol, StoreCell, Wraps, Home, LoadFeed, StoreFeed,
             Load, SetCol, NextRow, screen
    <2>2. writes' # writes => wrapped' = wrapped
      BY DEF terminal_writechar, LoadRow, StoreRow, ClearCol, LoadCol, StoreTab, LoadLine,
             LoadColumn, StoreCol, StoreCell, Wraps, Home, LoadFeed, StoreFeed,
             Load, SetCol, NextRow, screen
    <2> QED BY <2>1, <2>2, WritecharKeepsRest, WritecharKeepsOrder DEF IInv
  <1>2. CASE enable_interrupts
    BY <1>2 DEF IInv, Types, OneAtATime, Idle, enable_interrupts, screen, Before, Ahead, InRow,
                Inside, Contexts
  <1>3. CASE Key
    BY <1>3 DEF IInv, Types, OneAtATime, Idle, Key, screen, Before, Ahead, InRow, Inside
  <1>4. CASE int21h
    BY <1>4, TerminalAssumption, ZenonT(60)
       DEF IInv, Types, OneAtATime, Idle, int21h, screen, Before, Ahead, InRow, Inside, Contexts
  <1>5. CASE iret
    BY <1>5 DEF IInv, Types, OneAtATime, Idle, iret, screen, Before, Ahead, InRow, Inside, Contexts
  <1>6. CASE UNCHANGED vars
    BY <1>6 DEF IInv, Types, OneAtATime, Idle, vars, screen, cpu, Before, Ahead, InRow, Inside
  <1> QED BY <1>1, <1>2, <1>3, <1>4, <1>5, <1>6 DEF Next, Cpu

(* As long as the main program prints nothing while interrupts are enabled, *)
(* each character goes to a cell behind all cells written before, for      *)
(* every width of the screen, every text and every number of key presses.  *)
THEOREM TerminalShowsInOrder == LateText = <<>> => (Spec => ShowsInOrder)
  <1> SUFFICES ASSUME LateText = <<>> PROVE Spec => ShowsInOrder
    OBVIOUS
  <1>1. Init => IInv
    BY TerminalInit
  <1>2. IInv /\ [Next]_vars => IInv' /\ [writes' # writes /\ ~wrapped => at' > at]_vars
    BY TerminalStep
  <1> QED BY <1>1, <1>2, PTL DEF Spec, ShowsInOrder

-----------------------------------------------------------------------------
\* A step of print keeps every variable in its type, whoever runs it.
LEMMA WritecharTypes ==
  ASSUME TypeOK, NEW c \in Contexts, terminal_writechar(c)
  PROVE  TypeOK'
<1> USE TerminalAssumption DEF TypeOK
<1>1. /\ UNCHANGED <<running, enabled, pending, inService, keys>>
      /\ pc' \in [Contexts -> {"char", "newline", "return", "tab", "column", "advance",
                               "cell", "wrap", "home", "feed", "fed"}]
      /\ text[c] # <<>>
      /\ text' = text \/ text' = [text EXCEPT ![c] = Tail(@)]
  BY DEF terminal_writechar, LoadRow, StoreRow, ClearCol, LoadCol, StoreTab, LoadLine,
         LoadColumn, StoreCol, StoreCell, Wraps, Home, LoadFeed, StoreFeed, Goes, Step, cpu
<1>2. text' \in [Contexts -> Seq(Chars)]
  <2>1. Tail(text[c]) \in Seq(Chars)
    BY <1>1
  <2>2. QED
    BY <1>1, <2>1
<1>3. /\ terminal_row' \in 0 .. RowRange-1 /\ terminal_col' \in Nat /\ wrapped' \in BOOLEAN
      /\ line' \in [Contexts -> 0 .. RowRange-1] /\ reg' \in [Contexts -> Nat]
      /\ at' \in Int /\ writes' \in Nat
  <2>1. CASE StoreRow(c) \/ StoreFeed(c)
    <3>1. (reg[c] + 1) % RowRange \in 0 .. RowRange-1
      OBVIOUS
    <3>2. QED
      BY <2>1, <3>1 DEF StoreRow, StoreFeed, NextRow
  <2>2. CASE LoadRow(c) \/ LoadCol(c) \/ LoadColumn(c) \/ LoadFeed(c)
    <3>1. terminal_row \in Nat
      OBVIOUS
    <3>2. QED
      BY <2>2, <3>1 DEF LoadRow, LoadCol, LoadColumn, LoadFeed, Load, screen
  <2>3. CASE LoadLine(c)
    BY <2>3 DEF LoadLine, screen
  <2>4. CASE ClearCol(c) \/ StoreTab(c) \/ StoreCol(c) \/ Home(c)
    <3>1. reg[c] + 4 \in Nat /\ reg[c] + 1 \in Nat /\ 0 \in Nat
      OBVIOUS
    <3>2. \E value \in Nat : SetCol(value)
      BY <2>4, <3>1 DEF ClearCol, StoreTab, StoreCol, Home
    <3>3. terminal_col' \in Nat /\ UNCHANGED <<terminal_row, line, reg, at, writes, wrapped>>
      BY <3>2, <2>4 DEF SetCol, ClearCol, StoreTab, StoreCol, Home
    <3>4. QED
      BY <3>3
  <2>5. CASE StoreCell(c)
    <3>1. line[c] * Width + reg[c] \in Int
      OBVIOUS
    <3>2. QED
      BY <2>5, <3>1, SMTT(60) DEF StoreCell
  <2>6. CASE Wraps(c)
    BY <2>6 DEF Wraps, screen
  <2>7. QED
    BY <2>1, <2>2, <2>3, <2>4, <2>5, <2>6 DEF terminal_writechar
<1>4. QED
  BY <1>1, <1>2, <1>3

(* Every variable has its type, whatever the kernel prints with interrupts *)
(* enabled: the row stays in its 16 bits (kernel.c, idt.c).                *)
THEOREM TerminalTypeCorrect == Spec => []TypeOK
<1>1. Init => TypeOK
  <2> SUFFICES ASSUME Init PROVE TypeOK
    OBVIOUS
  <2>1. BootText \in Seq(Chars) /\ <<>> \in Seq(Chars) /\ 0 \in 0 .. RowRange-1 /\ 0 \in 0 .. MaxKeys
    BY TerminalAssumption
  <2>2. text \in [Contexts -> Seq(Chars)]
    BY <2>1 DEF Init
  <2>3. pc \in [Contexts -> {"char"}] /\ line \in [Contexts -> {0}] /\ reg \in [Contexts -> {0}]
    BY DEF Init
  <2>4. /\ terminal_row \in 0 .. RowRange-1 /\ terminal_col \in Nat
        /\ running \in Contexts /\ keys \in 0 .. MaxKeys /\ at \in Int /\ writes \in Nat
    BY <2>1 DEF Init, Contexts
  <2>5. {enabled, pending, inService, wrapped} \subseteq BOOLEAN
    BY DEF Init
  <2>6. pc \in [Contexts -> {"char", "newline", "return", "tab", "column", "advance",
                             "cell", "wrap", "home", "feed", "fed"}]
    BY <2>3
  <2>7. line \in [Contexts -> 0 .. RowRange-1] /\ reg \in [Contexts -> Nat]
    BY <2>1, <2>3
  <2>8. QED
    BY <2>2, <2>4, <2>5, <2>6, <2>7 DEF TypeOK
<1>2. TypeOK /\ [Next]_vars => TypeOK'
  <2> SUFFICES ASSUME TypeOK, [Next]_vars PROVE TypeOK'
    OBVIOUS
  <2>1. CASE \E c \in Contexts : terminal_writechar(c)
    BY <2>1, WritecharTypes
  <2>2. CASE enable_interrupts
    BY <2>2, TerminalAssumption DEF TypeOK, enable_interrupts, screen
  <2>3. CASE Key
    BY <2>3, TerminalAssumption DEF TypeOK, Key, screen
  <2>4. CASE int21h
    <3>0. KeyText \in Seq(Chars) /\ <<>> \in Seq(Chars)
      BY TerminalAssumption
    <3>1. \A t \in {KeyText, <<>>} : t \in Seq(Chars)
      BY <3>0
    <3>2. "int21h" \in Contexts
      BY DEF Contexts
    <3>3. QED
      BY <2>4, <3>1, <3>2, ZenonT(60) DEF TypeOK, int21h, screen
  <2>5. CASE iret
    BY <2>5 DEF TypeOK, iret, screen, Contexts
  <2>6. CASE UNCHANGED vars
    BY <2>6 DEF TypeOK, vars, screen, cpu
  <2>7. QED
    BY <2>1, <2>2, <2>3, <2>4, <2>5, <2>6 DEF Next, Cpu
<1>3. QED
  BY <1>1, <1>2, PTL DEF Spec
=============================================================================
