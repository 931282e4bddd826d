----------------------------- MODULE PathParser -----------------------------
(***************************************************************************)
(* pathparser_parse and pathparser_free_root (fs/pparser.c): a path such   *)
(* as 0:/test/test.txt becomes a linked list of its names.  One action per *)
(* call of pathparser_parser_path_part, because any of the two kzallocs in *)
(* it can fail.  The heap may be partly used by others.                    *)
(*                                                                         *)
(* A path is a sequence of characters of which only digits, colons and     *)
(* slashes are told apart.  A name that runs out of the block of its       *)
(* string ends the model: what lies behind it is read or written, and      *)
(* nothing is said of the list any more.                                   *)
(***************************************************************************)
EXTENDS BlockHeap, SequencesExt

CONSTANTS
  PathStrings,          \* the paths that are parsed
  MaxPath,              \* SAMOS_MAX_PATH
  RealisticStrlen,      \* REALISTIC_STRLEN of string.c
  BlockSize,            \* SAMOS_HEAP_BLOCK_SIZE
  LowMemory             \* bytes from address 0 on that nothing else is in

ASSUME PathParserAssumption ==
  /\ PathStrings \subseteq Seq(STRING)
  /\ MaxPath \in Nat /\ RealisticStrlen \in Nat
  /\ 3 <= MaxPath /\ MaxPath < RealisticStrlen
  /\ BlockSize \in Nat /\ LowMemory \in Nat
  /\ MaxPath <= BlockSize /\ BlockSize <= LowMemory

VARIABLES
  use,          \* use[b]: what heap block b holds
  pc,           \* "start", "parts", "done", "freed" or "overrun"
  path,         \* the argument of pathparser_parse
  at,           \* *path: the position that is read next
  root,         \* path_r: block of the struct path_root, or NULL
  parts,        \* the list from path_r->first on
  starved       \* history: some kzalloc has failed

vars == <<use, pc, path, at, root, parts, starved>>

ENOMEM == -3

\* A part: its block, the block of its string, and the characters in it.
Part(b, str, name) == [block |-> b, str |-> str, name |-> name]

-----------------------------------------------------------------------------
(* strlen gives up on long strings with an error code, which is negative.  *)
strlen(s) == IF Len(s) > RealisticStrlen THEN ENOMEM ELSE Len(s)

strnlen(s, maxlen) ==
  IF strlen(s) > maxlen \/ strlen(s) = ENOMEM THEN maxlen ELSE strlen(s)

isdigit(c) == c \in {"0", "1"}

pathparser_path_valid_format(s) ==
  /\ strnlen(s, MaxPath) >= 3
  /\ isdigit(s[1]) /\ s[2] = ":" /\ s[3] = "/"

Accepted(s) == ~(strlen(s) > MaxPath) /\ pathparser_path_valid_format(s)

\* Where the name that starts at position k ends: before the next slash or
\* at the end of the string.
EndOfName(s, k) ==
  CHOOSE n \in k .. Len(s) + 1 :
    /\ n = Len(s) + 1 \/ s[n] = "/"
    /\ \A m \in k .. n-1 : s[m] # "/"

KeepsSlash(s, k) == EndOfName(s, k)             \* mutant: the slash is not skipped

SkipsTerminator(s, k) == EndOfName(s, k) + 1    \* mutant: so is the terminator

\* The position after it, with the slash skipped.
AfterName(s, k) ==
  IF EndOfName(s, k) <= Len(s) THEN EndOfName(s, k) + 1 ELSE EndOfName(s, k)

\* The longest name that can be copied to str and read again.  A string at
\* address 0 is never read.
Room(str) == IF str = NULL THEN LowMemory ELSE BlockSize - 1

-----------------------------------------------------------------------------
\* pathparser_parse up to the first part.  pathparser_create_root writes to
\* the root before anyone looks whether there is one; a null root ends the
\* parse all the same.
Start ==
  /\ pc = "start"
  /\ \/ /\ ~Accepted(path)
        /\ pc' = "done"
        /\ UNCHANGED <<use, at, root, starved>>
     \/ /\ Accepted(path)
        /\ kzalloc(use, NULL)
        /\ starved' = TRUE
        /\ pc' = "done"
        /\ UNCHANGED <<use, at, root>>
     \/ /\ Accepted(path)
        /\ \E b \in Heap :
             /\ kzalloc(use, b)
             /\ use' = Hold(use, b, "root")
             /\ root' = b
        /\ at' = 4
        /\ pc' = "parts"
        /\ UNCHANGED starved
  /\ UNCHANGED <<path, parts>>

\* pathparser_parser_path_part returned 0, which ends the list.  A parse
\* that has no first part returns 0, and nothing refers to its root any more.
EndOfList ==
  /\ pc' = "done"
  /\ root' = IF parts = <<>> THEN NULL ELSE root
  /\ UNCHANGED parts

FreesRoot(str) ==           \* mutant: the root is freed at an empty name
  /\ use' = Freed(Hold(use, str, "string"), {str, root})
  /\ EndOfList
  /\ UNCHANGED starved

\* The name is empty and its string is freed.
EmptyName(str) ==
  /\ use' = Freed(Hold(use, str, "string"), {str})
  /\ EndOfList
  /\ UNCHANGED starved

\* The loop copies a name of any length.
Overrun(str) ==
  /\ use' = Hold(use, str, "string")
  /\ pc' = "overrun"
  /\ UNCHANGED <<root, parts, starved>>

\* The string of the next name.  With no block for it the characters go to
\* address 0 and the null pointer that comes back looks like the end of the
\* path.  With no block for the part the string is lost.
NextPart ==
  /\ pc = "parts"
  /\ LET name == SubSeq(path, at, EndOfName(path, at) - 1) IN
     \/ \E str \in Heap \cup {NULL} :
          kzalloc(use, str) /\ Len(name) > Room(str) /\ Overrun(str)
     \/ /\ kzalloc(use, NULL) /\ Len(name) <= Room(NULL)
        /\ EndOfList
        /\ starved' = TRUE
        /\ UNCHANGED use
     \/ \E str \in Heap :
          /\ kzalloc(use, str) /\ Len(name) <= Room(str)
          /\ LET withString == Hold(use, str, "string") IN
             \/ name = <<>> /\ EmptyName(str)
             \/ /\ name # <<>> /\ kzalloc(withString, NULL)
                /\ use' = withString
                /\ EndOfList
                /\ starved' = TRUE
             \/ /\ name # <<>>
                /\ \E b \in Heap :
                     /\ kzalloc(withString, b)
                     /\ use' = Hold(withString, b, "part")
                     /\ parts' = Append(parts, Part(b, str, name))
                /\ UNCHANGED <<pc, root, starved>>
  /\ at' = AfterName(path, at)
  /\ UNCHANGED path

\* The blocks that can be reached from the root.
Reachable ==
  IF root = NULL THEN {}
  ELSE {root} \cup UNION {{parts[k].block, parts[k].str} : k \in DOMAIN parts}

KeepsStrings ==             \* mutant: kfree of part->part is missing
  /\ pc = "done" /\ root # NULL
  /\ use' = Freed(use, {root} \cup {parts[k].block : k \in DOMAIN parts})
  /\ pc' = "freed" /\ root' = NULL /\ parts' = <<>>
  /\ UNCHANGED <<path, at, starved>>

\* pathparser_free_root of the result: each part with its string, the root.
pathparser_free_root ==
  /\ pc = "done" /\ root # NULL
  /\ use' = Freed(use, Reachable)
  /\ pc' = "freed" /\ root' = NULL /\ parts' = <<>>
  /\ UNCHANGED <<path, at, starved>>

Init ==
  /\ use \in [Heap -> {"free", "other"}]
  /\ pc = "start"
  /\ path \in PathStrings
  /\ at = 1 /\ root = NULL /\ parts = <<>>
  /\ starved = FALSE

Next == Start \/ NextPart \/ pathparser_free_root

Spec == Init /\ [][Next]_vars

-----------------------------------------------------------------------------
(* Every variable has its type.                                            *)
TypeOK ==
  /\ use \in [Heap -> {"free", "other", "root", "string", "part"}]
  /\ pc \in {"start", "parts", "done", "freed", "overrun"}
  /\ path \in PathStrings
  /\ at \in 1 .. Len(path) + 1
  /\ root \in Heap \cup {NULL}
  /\ \A k \in DOMAIN parts : parts[k].block \in Heap /\ parts[k].str \in Heap
  /\ starved \in BOOLEAN

\* The blocks that the parse has in use.
Parsed == {b \in Heap : use[b] \in {"root", "string", "part"}}

(* The list is one of separate blocks that are all in use for what the     *)
(* list takes them for.                                                    *)
ListSound ==
  pc # "overrun" =>
    /\ root # NULL => use[root] = "root"
    /\ \A k \in DOMAIN parts : use[parts[k].block] = "part" /\ use[parts[k].str] = "string"
    /\ root # NULL => Cardinality(Reachable) = 1 + 2 * Len(parts)

(* A parse gives back what it took: with pathparser_free_root after it has *)
(* succeeded, by itself when it failed.  What it loses is the root of a     *)
(* parse that has found no name (nothing refers to it any more), and one   *)
(* string when the heap had room for it but not for its part.              *)
LosesLittle ==
  LET lost == {b \in Parsed : b \notin Reachable} IN
  pc \in {"done", "freed"} =>
    /\ \A b \in lost : \/ use[b] = "root" /\ pc = "done" /\ root = NULL
                       \/ use[b] = "string" /\ starved
    /\ \A k \in {"root", "string"} : Cardinality({b \in lost : use[b] = k}) <= 1

\* The names of a path by its slashes alone: the text between two slashes,
\* or between the last one and the end.
Slashes(s) == {k \in 3 .. Len(s) : s[k] = "/"}

Rank(s, k)    == Cardinality({j \in Slashes(s) : j <= k})
Slash(s, n)   == CHOOSE k \in Slashes(s) : Rank(s, k) = n
NameEnd(s, n) == IF n < Cardinality(Slashes(s)) THEN Slash(s, n+1) - 1 ELSE Len(s)

Names(s) ==
  [n \in 1 .. Cardinality(Slashes(s)) |-> SubSeq(s, Slash(s, n) + 1, NameEnd(s, n))]

\* A parse stops at the first empty name.
NamesBeforeEmpty(s) ==
  LET n == CHOOSE m \in 0 .. Len(Names(s)) :
             /\ \A k \in 1 .. m : Names(s)[k] # <<>>
             /\ m < Len(Names(s)) => Names(s)[m+1] = <<>>
  IN  SubSeq(Names(s), 1, n)

Parts == [k \in DOMAIN parts |-> parts[k].name]

HasPrefix(s) == Len(s) >= 3 /\ isdigit(s[1]) /\ s[2] = ":" /\ s[3] = "/"

\* The paths with a name that a block does not hold, which strlen has given
\* up on.
Unmeasured(s) ==
  /\ Len(s) > RealisticStrlen /\ HasPrefix(s)
  /\ \E n \in DOMAIN NamesBeforeEmpty(s) : Len(NamesBeforeEmpty(s)[n]) >= BlockSize

\* The limit of the length of a path keeps each name in its block: no name
\* runs out of it except in a path that strlen has given up on.  Such a
\* path is never parsed to its end unless memory was refused.
OverrunsWhenUnmeasured ==
  /\ pc = "overrun" => Unmeasured(path)
  /\ pc = "done" /\ ~starved => ~Unmeasured(path)

\* What a parse lists in which no name has done so.
NamesListed ==
  /\ pc # "overrun" /\ parts # <<>> => IsPrefix(Parts, NamesBeforeEmpty(path))
  /\ pc = "done" /\ ~starved =>
       IF /\ Len(path) <= MaxPath \/ Len(path) > RealisticStrlen
          /\ HasPrefix(path) /\ NamesBeforeEmpty(path) # <<>>
       THEN root # NULL /\ Parts = NamesBeforeEmpty(path)
       ELSE root = NULL

(* The list is a beginning of the names of the path, in order and whole.   *)
(* A parse that got all the memory it asked for lists all of them, up to   *)
(* the first that is empty, and fails exactly when there is none, the path *)
(* has no drive or it is too long - unless it is so long that strlen gives *)
(* up: the error code passes for a length.  A parse that was refused       *)
(* memory may succeed with the last names missing.  Only in a path that    *)
(* strlen has given up on does a name run out of its block; nothing is     *)
(* said of its list then, and with enough memory no such path is parsed to *)
(* its end.                                                                *)
ListsTheNames == NamesListed /\ OverrunsWhenUnmeasured
=============================================================================
