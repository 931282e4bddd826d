------------------------------ MODULE FatOpen ------------------------------
(***************************************************************************)
(* Opening and closing files of a FAT16 volume (fs/fat/fat16.c): the walk  *)
(* of fat16_get_directory_entry along a path, one action per iteration of  *)
(* its loop, and the heap objects that it makes and must give back.  The   *)
(* calls run to their end one after the other; files stay open between     *)
(* them.  Each heap object fits into one block.                            *)
(***************************************************************************)
EXTENDS BlockHeap, FatDirectory, FiniteSets, SequencesExt

CONSTANT Paths          \* the parsed paths, sequences of names, that are opened

ASSUME PathsAssumption == \A p \in Paths : p \in Seq(Seq(Nat)) /\ Len(p) >= 1

VARIABLES
  use,          \* use[b]: what heap block b holds
  pc,           \* "idle", "first", "loop", "found", "counting" in a count that
                \* never ends, or "lost" after memory at address 0 was taken
                \* for a directory item
  path,         \* the path that is being opened, or was last
  next,         \* next_part: the index of the next name in it
  desc,         \* block of the new struct fat_file_descriptor
  current,      \* current_item, or NoItem for a null pointer
  files,        \* the files that are open
  ret,          \* what the last call returned
  readNull,     \* history: this call read current_item while it was NULL
  starved       \* history: some kzalloc of this call has failed

vars == <<use, pc, path, next, desc, current, files, ret, readNull, starved>>

ENOMEM  == -3
ERDONLY == -6

-----------------------------------------------------------------------------
(* struct fat_item and what hangs from it: object is the directory, whose  *)
(* items are in a block of their own, or the cloned directory item.  What  *)
(* the entries of the directory are follows from its cluster.              *)
NoItem == [type |-> "none", cluster |-> 0, item |-> NULL, object |-> NULL, items |-> NULL]

Blocks(it) == {it.item, it.object, it.items} \ {NULL}

\* What a function that makes a fat_item returns: the heap, the item, and why
\* there is none.
Made(u, it)  == [use |-> u, item |-> it, why |-> "made"]
Not(u, why)  == [use |-> u, item |-> NoItem, why |-> why]

\* fat16_load_fat_directory, into the item it.  A size below zero takes no
\* memory and reads nothing, but total is above zero.
fat16_load_fat_directory(u, it) ==
  LET d == Taken(u)
      withDirectory == Hold(u, d, "directory")
      i == Taken(withDirectory)
      total == fat16_get_total_items[it.cluster]
  IN  IF d = NULL THEN Not(u, "starved")
      ELSE IF total.why # "counted" THEN Not(u, total.why)
      ELSE IF total.offset <= 0 THEN Made(withDirectory, [it EXCEPT !.object = d])
      ELSE IF i = NULL THEN Not(u, "starved")
      ELSE Made(Hold(withDirectory, i, "items"), [it EXCEPT !.object = d, !.items = i])

\* fat16_clone_directory_item, into the item it.
fat16_clone_directory_item(u, it) ==
  LET c == Taken(u) IN
  IF c = NULL THEN Not(u, "starved") ELSE Made(Hold(u, c, "clone"), [it EXCEPT !.object = c])

(* fat16_new_fat_item_for_directory_item.                                  *)
fat16_new_fat_item(u, entry) ==
  LET f == Taken(u)
      it == [NoItem EXCEPT !.type = entry.kind, !.cluster = entry.cluster, !.item = f]
      filled == IF entry.kind = "directory"
                THEN fat16_load_fat_directory(Hold(u, f, "item"), it)
                ELSE fat16_clone_directory_item(Hold(u, f, "item"), it)
  IN  IF f = NULL THEN Not(u, "starved")
      ELSE IF filled.item = NoItem THEN Not(Freed(filled.use, {f}), filled.why)
      ELSE filled

(* An entry that is a file or a directory and has the name: deleted ones,  *)
(* parts of long names and the label are skipped.                          *)
MatchesAnyEntry(entry, name) == \* mutant: no entry is skipped
  istrncmp_equal(fat16_get_full_relative_filename(entry), name, MaxPath)

Matches(entry, name) ==
  /\ entry.kind \in {"file", "directory"}
  /\ istrncmp_equal(fat16_get_full_relative_filename(entry), name, MaxPath)

IsLastMatch(items, name, i) ==  \* mutant: the loop is not left at a match
  /\ Matches(items[i], name)
  /\ \A j \in i+1 .. Len(items) : ~Matches(items[j], name)

IsFirstMatch(items, name, i) ==
  /\ Matches(items[i], name)
  /\ \A j \in 1 .. i-1 : ~Matches(items[j], name)

fat16_find_item_in_directory(u, items, name) ==
  IF \E i \in DOMAIN items : IsFirstMatch(items, name, i)
  THEN fat16_new_fat_item(u, items[CHOOSE i \in DOMAIN items : IsFirstMatch(items, name, i)])
  ELSE Not(u, "missing")

\* The lookup in a directory that has been loaded; with a total but no items,
\* it reads items at address 0.
FindIn(u, it, name) ==
  IF fat16_get_total_items[it.cluster].offset < 0 THEN Not(u, "lost")
  ELSE fat16_find_item_in_directory(u, Items[it.cluster], name)

-----------------------------------------------------------------------------
\* fat16_open up to its call of fat16_get_directory_entry.
fat16_open(p, mode) ==
  /\ pc = "idle"
  /\ path' = p
  /\ readNull' = FALSE
  /\ \/ /\ mode # "FILE_MODE_READ"
        /\ ret' = ERDONLY
        /\ UNCHANGED <<use, pc, next, desc, starved>>
     \/ /\ mode = "FILE_MODE_READ" /\ Taken(use) = NULL
        /\ ret' = ENOMEM
        /\ starved' = TRUE
        /\ UNCHANGED <<use, pc, next, desc>>
     \/ /\ mode = "FILE_MODE_READ" /\ Taken(use) # NULL
        /\ desc' = Taken(use)
        /\ use' = Hold(use, Taken(use), "desc")
        /\ pc' = "first" /\ next' = 1
        /\ starved' = FALSE
        /\ UNCHANGED ret
  /\ UNCHANGED <<current, files>>

\* The call goes on at p with what a lookup found, if the lookup returns.
GoesOn(r, p) ==
  /\ current' = r.item
  /\ starved' = (starved \/ r.why = "starved")
  /\ pc' = CASE r.why = "endless" -> "counting" [] r.why = "lost" -> "lost" [] OTHER -> p

\* The lookup of the first name in the root directory.
FindInRoot ==
  /\ pc = "first"
  /\ LET r == fat16_find_item_in_directory(use, RootItems, path[1]) IN
       /\ use' = r.use
       /\ GoesOn(r, IF r.item = NoItem THEN "found" ELSE "loop")
  /\ next' = 2
  /\ UNCHANGED <<path, desc, files, ret, readNull>>

MoreParts == next <= Len(path)

KeptBlocks(u, it) == u      \* mutant: the directory that was searched is not freed

fat16_item_free(u, it) == Freed(u, Blocks(it))

\* An iteration of the loop: the next name is looked up in the directory that
\* has been found so far, which is freed afterwards.
Descend ==
  /\ pc = "loop" /\ MoreParts /\ current.type = "directory"
  /\ LET r == FindIn(use, current, path[next]) IN
       /\ use' = fat16_item_free(r.use, current)
       /\ GoesOn(r, "loop")
  /\ next' = next + 1
  /\ UNCHANGED <<path, desc, files, ret, readNull>>

\* A file is in the way.
NotADirectory ==
  /\ pc = "loop" /\ MoreParts /\ current.type = "file"
  /\ use' = fat16_item_free(use, current)
  /\ current' = NoItem
  /\ pc' = "found"
  /\ UNCHANGED <<path, next, desc, files, ret, readNull, starved>>

\* The previous iteration found nothing and the loop reads the type of the
\* item through a null pointer.  Page 0 is mapped: the type is whatever the
\* word there holds.  With anything but 0, FAT_ITEM_TYPE_DIRECTORY, the item
\* is freed, which does nothing to a null pointer, and the loop ends.
ReadsNull ==
  /\ pc = "loop" /\ MoreParts /\ current = NoItem
  /\ readNull' = TRUE
  /\ pc' \in {"found", "lost"}
  /\ UNCHANGED <<use, path, next, desc, current, files, ret, starved>>

EndOfPath ==
  /\ pc = "loop" /\ ~MoreParts
  /\ pc' = "found"
  /\ UNCHANGED <<use, path, next, desc, current, files, ret, readNull, starved>>

\* fat16_open after fat16_get_directory_entry.
Finish ==
  /\ pc = "found"
  /\ \/ /\ current.type = "file"
        /\ files' = files \cup {[desc |-> desc, item |-> current]}
        /\ ret' = desc
        /\ UNCHANGED use
     \/ /\ current.type # "file"
        /\ use' = Freed(use, {desc} \cup Blocks(current))
        /\ ret' = IF current = NoItem THEN EIO ELSE EINVARG
        /\ UNCHANGED files
  /\ pc' = "idle" /\ desc' = NULL /\ current' = NoItem
  /\ UNCHANGED <<path, next, readNull, starved>>

fat16_close(f) ==
  /\ pc = "idle"
  /\ use' = Freed(use, {f.desc} \cup Blocks(f.item))
  /\ files' = files \ {f}
  /\ path' = <<>>
  /\ ret' = 0
  /\ UNCHANGED <<pc, next, desc, current, readNull, starved>>

Init ==
  /\ use = [b \in Heap |-> "free"]
  /\ pc = "idle" /\ path = <<>> /\ next = 1
  /\ desc = NULL /\ current = NoItem
  /\ files = {}
  /\ ret = 0
  /\ readNull = FALSE /\ starved = FALSE

Next ==
  \/ \E p \in Paths, mode \in {"FILE_MODE_READ", "FILE_MODE_WRITE"} : fat16_open(p, mode)
  \/ FindInRoot \/ Descend \/ NotADirectory \/ ReadsNull \/ EndOfPath \/ Finish
  \/ \E f \in files : fat16_close(f)

Spec == Init /\ [][Next]_vars

-----------------------------------------------------------------------------
(* Every variable has its type.                                            *)
TypeOK ==
  /\ use \in [Heap -> {"free", "desc", "item", "directory", "items", "clone"}]
  /\ pc \in {"idle", "first", "loop", "found", "counting", "lost"}
  /\ path \in Paths \cup {<<>>}
  /\ next \in 1 .. Len(path) + 1 \/ pc = "idle"
  /\ desc \in Heap \cup {NULL}
  /\ current.type \in {"none", "file", "directory"}
  /\ ret \in Heap \cup {0, ERDONLY, ENOMEM, EINVARG, EIO}
  /\ readNull \in BOOLEAN /\ starved \in BOOLEAN

\* An item's blocks hold what the item takes them for.
Intact(it) ==
  /\ it.type = "file" => use[it.item] = "item" /\ use[it.object] = "clone"
  /\ it.type = "directory" =>
       /\ use[it.item] = "item" /\ use[it.object] = "directory"
       /\ it.items # NULL => use[it.items] = "items"

\* The objects that the call under way and the open files hold on to.
Held == {[desc |-> desc, item |-> current]} \cup files
BlocksOf(f) == ({f.desc} \ {NULL}) \cup Blocks(f.item)

(* The heap is accounted for at every step of a call that returns,         *)
(* whatever lookups and allocations fail: each block in use belongs to one *)
(* open file or to the call under way, and none of their blocks has been   *)
(* freed.  So nothing leaks, nothing is freed twice and nothing is used    *)
(* after it was freed.                                                     *)
HeapAccounted ==
  pc \notin {"counting", "lost"} =>
    /\ \A f \in Held : Intact(f.item) /\ (f.desc # NULL => use[f.desc] = "desc")
    /\ \A f, g \in Held : f # g => BlocksOf(f) \cap BlocksOf(g) = {}
    /\ \A b \in Heap : use[b] # "free" => \E f \in Held : b \in BlocksOf(f)

-----------------------------------------------------------------------------
(* What a path leads to, by the layout of the volume alone.  The entries   *)
(* of a directory are the items of its clusters, in the order of its       *)
(* chain, up to the first empty one.                                       *)
Clusters == {c \in DOMAIN Fat : c >= 2}

\* The links from a cluster on; where the chain leaves the clusters of the
\* volume, the last one is repeated.
Chain(c) ==
  LET link[k \in 0 .. Cardinality(Clusters)] ==
        IF k = 0 THEN c
        ELSE LET last == link[k-1] IN IF last \in Clusters THEN Fat[last] ELSE last
  IN  [k \in 1 .. Cardinality(Clusters) + 1 |-> link[k-1]]

RootListed == [k \in 1 .. RootEntries |-> ItemOf(RootPos + (k-1) * ItemSize)]

PerCluster == ClusterSize \div ItemSize

Listed(c) ==
  LET chain == Chain(c)
      n == CHOOSE n \in 0 .. Len(chain) :
             /\ \A k \in 1 .. n : chain[k] \in Clusters
             /\ n < Len(chain) => chain[n+1] \notin Clusters
      start(k) == (DataSector + (chain[k] - 2) * SectorsPerCluster) * SectorSize
  IN  [i \in 1 .. n * PerCluster |->
         ItemOf(start(((i-1) \div PerCluster) + 1) + ((i-1) % PerCluster) * ItemSize)]

(* What becomes of a directory at a cluster: it can be read up to an empty *)
(* item or, without one, its chain ends; or its chain is circular or       *)
(* leaves the clusters of the volume, as the .. of a directory of the root *)
(* does at once.                                                           *)
Sort ==
  [c \in DOMAIN Fat |->
     IF \E e \in Range(Listed(c)) : e.kind = "empty" THEN "directory"
     ELSE IF c = 0 \/ Last(Chain(c)) \in Clusters \cup {1} THEN "unknown"
     ELSE "nothing"]

(* The name of an entry: what is in front of the dot fills the first       *)
(* field, what is behind it the second, and case does not count.  Names of *)
(* entries without an extension have no dot between the fields.            *)
Fills(s, field) ==
  /\ Len(s) <= Len(field)
  /\ \A i \in DOMAIN s : s[i] \notin Blank /\ tolower(s[i]) = tolower(field[i])
  /\ \A i \in Len(s)+1 .. Len(field) : field[i] \in Blank

Named(entry, name) ==
  \/ Fills(<<>>, entry.ext) /\ Fills(name, entry.base)
  \/ /\ ~Fills(<<>>, entry.ext)
     /\ \E i \in DOMAIN name :
          /\ name[i] = 46
          /\ Fills(SubSeq(name, 1, i-1), entry.base)
          /\ Fills(SubSeq(name, i+1, Len(name)), entry.ext)

\* The first item of a directory that has a name or ends the directory.
Found(items, name) ==
  LET Stops(e) == e.kind = "empty" \/ (e.kind \in {"file", "directory"} /\ Named(e, name))
      First(i) == Stops(items[i]) /\ \A j \in 1 .. i-1 : ~Stops(items[j])
  IN  IF \E i \in DOMAIN items : First(i)
      THEN items[CHOOSE i \in DOMAIN items : First(i)]
      ELSE Empty

Read(e) == [e EXCEPT !.kind = CASE @ = "directory" -> Sort[e.cluster]
                                [] @ = "empty"     -> "nothing"
                                [] OTHER           -> @]

(* Where the first k names of a path lead: to a file or a directory, to    *)
(* nothing, or to what the layout of the volume leaves unknown.            *)
Leads ==
  [p \in Paths |->
     LET entry[k \in 0 .. Len(p)] ==
           IF k = 0 THEN [Empty EXCEPT !.kind = "directory"]
           ELSE LET above == entry[k-1] IN
                CASE above.kind = "directory" ->
                       Read(Found(IF k = 1 THEN RootListed ELSE Listed(above.cluster), p[k]))
                  [] above.kind = "unknown" -> above
                  [] OTHER -> [above EXCEPT !.kind = "nothing"]
     IN  entry]

Leaf(p) == Leads[p][Len(p)]

\* The last call was an open with the mode r, which has returned.
Opened == pc = "idle" /\ path # <<>> /\ ret # ERDONLY

(* fopen of a path answers what the volume says: a descriptor of the file  *)
(* that the path leads to and of no other, EINVARG for a directory, and    *)
(* EIO where there is nothing or where a directory cannot be read to its   *)
(* end.  If an allocation fails it says so, or answers EIO, at worst.      *)
AnswersByTree ==
  Opened => \/ CASE Leaf(path).kind = "file" ->
                      \E f \in files : f.desc = ret /\ f.item.cluster = Leaf(path).cluster
                 [] Leaf(path).kind = "directory" -> ret = EINVARG
                 [] Leaf(path).kind = "nothing"   -> ret = EIO
                 [] OTHER                         -> TRUE
            \/ starved /\ ret \in {ENOMEM, EIO}

\* A name after the first and before the last leads nowhere, in a directory
\* that the names before it lead to.
MissingInside(p) ==
  \E k \in 2 .. Len(p)-1 : Leads[p][k-1].kind = "directory" /\ Leads[p][k].kind = "nothing"

(* The lookup takes memory at address 0 for an item exactly when a name in *)
(* the middle of the path leads nowhere, or no memory is left for what it  *)
(* leads to.                                                               *)
ReadsNullPastMissing ==
  Opened /\ ~starved /\ Leaf(path).kind # "unknown" => (readNull <=> MissingInside(path))

(* A call that never returns has come to a directory whose chain of        *)
(* clusters is circular and full, or it has taken memory at address 0 for  *)
(* a directory.                                                            *)
StuckOnlyWhenDamaged ==
  /\ pc = "counting" => Leaf(path).kind = "unknown"
  /\ pc = "lost" => readNull \/ Leaf(path).kind = "unknown"

-----------------------------------------------------------------------------
\* What an item can be.
ItemKinds == {"empty", "deleted", "longname", "label", "file", "directory"}

(* The volumes and paths for which the answers are proved: every link of   *)
(* the FAT leads to a cluster or ends the chain, all clusters together are *)
(* smaller than an int, every item has its two fields and its name fits    *)
(* the buffer of MaxPath characters, and a path is a list of C strings.    *)
SoundVolume ==
  /\ SoundFat(Fat) /\ \A c \in DOMAIN Fat : c < RESERVED
  /\ IsFiniteSet(Clusters) /\ 2 * ((Cardinality(Clusters) + 1) * ClusterSize) < IntRange
  /\ \A p \in DOMAIN ItemAt :
       /\ ItemAt[p] \in [kind : ItemKinds, base : Seq(Nat), ext : Seq(Nat), cluster : DOMAIN Fat]
       /\ ItemAt[p].ext # <<>>
       /\ Len(ItemAt[p].base) + Len(ItemAt[p].ext) + 1 < MaxPath
  /\ \A p \in Paths : p \in Seq(Seq(Nat \ {0}))
=============================================================================
