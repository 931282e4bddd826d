---------------------------- MODULE FatProofs -------------------------------
(***************************************************************************)
(* Proofs about the FAT16 driver, in four parts.                           *)
(*                                                                         *)
(* FatOpen, the heap: opening and closing files loses no heap block and    *)
(* frees none twice, for every volume, every set of paths and every size   *)
(* of the heap, whichever lookups and allocations fail.                    *)
(*                                                                         *)
(* FatFile, cursors: no position passes the end of its file, no offset     *)
(* wraps around, and seeks go where they are asked to.                     *)
(*                                                                         *)
(* FatFile, bytes: the functions that read a chain of clusters are         *)
(* recursive.  The text of each is restated as the equation that its       *)
(* function solves (StreamTurn, ReadTurn, Links); a closed form is shown   *)
(* to solve it too, and where the two differed there would be a first      *)
(* place where they do (Smallest), which the equation rules out.           *)
(*                                                                         *)
(* FatOpen, answers: fopen answers what the layout of the volume says.     *)
(* The driver makes the same of a name as Named does (MatchesByName), it   *)
(* follows the chain of a directory as Chain does (InsideIsLinks), counts  *)
(* its items up to the first empty one (DirectoryIsRead) and finds in it   *)
(* what Found finds (LooksUp); then each step of the walk along a path     *)
(* stays on the track that Leads lays out (WalkStep).                      *)
(***************************************************************************)
EXTENDS FatOpen, FatFile, FiniteSetTheorems, SequenceTheorems, WellFoundedInduction, TLAPS

Kinds == {"free", "desc", "item", "directory", "items", "clone"}

\* The heap u holds what the item takes its blocks for.
IntactIn(u, it) ==
  \/ it = NoItem
  \/ /\ it.type \in {"file", "directory"}
     /\ it.item \in Heap /\ u[it.item] = "item"
     /\ it.object \in Heap
     /\ u[it.object] = IF it.type = "file" THEN "clone" ELSE "directory"
     /\ it.items # NULL => it.items \in Heap /\ u[it.items] = "items"

Sound(u, f) ==
  /\ f.desc # NULL => f.desc \in Heap /\ u[f.desc] = "desc"
  /\ IntactIn(u, f.item)

\* h is the call under way, and F are the open files.
Accounted(u, h, F) ==
  /\ Sound(u, h)
  /\ \A f \in F : Sound(u, f) /\ BlocksOf(h) \cap BlocksOf(f) = {}
  /\ \A f, g \in F : f # g => BlocksOf(f) \cap BlocksOf(g) = {}
  /\ \A b \in Heap : u[b] # "free" => b \in BlocksOf(h) \/ \E f \in F : b \in BlocksOf(f)

Call == [desc |-> desc, item |-> current]

IInv ==
  /\ use \in [Heap -> Kinds]
  /\ Accounted(use, Call, files)
  /\ pc = "idle" => desc = NULL
  /\ pc \in {"idle", "first"} => current = NoItem

-----------------------------------------------------------------------------
(* Every set of naturals that is not empty has a smallest element.         *)
LEMMA Smallest ==
  ASSUME NEW S \in SUBSET Nat, S # {}
  PROVE  \E x \in S : \A y \in S : x <= y
<1> DEFINE Less == OpToRel(<, Nat)
<1>1. IsWellFoundedOn(Less, Nat)
  BY NatLessThanWellFounded
<1>2. \A x, y \in Nat : <<x, y>> \in Less <=> x < y
  BY DEF OpToRel
<1> HIDE DEF Less
<1>3. PICK x \in S : \A y \in S : ~ (<<y, x>> \in Less)
  BY <1>1, WFMin
<1>4. ASSUME NEW y \in S PROVE x <= y
  <2>1. x \in Nat /\ y \in Nat
    OBVIOUS
  <2>2. ~ (y < x)
    BY <1>2, <1>3, <2>1
  <2>3. QED
    BY <2>1, <2>2
<1>5. QED
  BY <1>4

(* kzalloc returns a free block, or NULL.                                  *)
LEMMA TakenIsFree ==
  ASSUME NEW u
  PROVE  \/ Taken(u) = NULL
         \/ Taken(u) \in Heap /\ Taken(u) # NULL /\ u[Taken(u)] = "free"
<1> USE BlockHeapAssumption DEF NULL, Heap
<1> DEFINE F == {b \in Heap : u[b] = "free"}
<1>1. \E b \in Heap \cup {NULL} : kzalloc(u, b)
  <2>1. CASE F = {}
    BY <2>1 DEF kzalloc
  <2>2. CASE F # {}
    <3>1. F \in SUBSET Nat
      OBVIOUS
    <3>2. PICK b \in F : \A y \in F : b <= y
      BY <2>2, <3>1, Smallest
    <3>3. kzalloc(u, b)
      BY <3>2 DEF kzalloc
    <3>4. QED
      BY <3>2, <3>3
  <2>3. QED
    BY <2>1, <2>2
<1>2. kzalloc(u, Taken(u)) /\ Taken(u) \in Heap \cup {NULL}
  BY <1>1 DEF Taken
<1>3. QED
  BY <1>2 DEF kzalloc

(* A change of the heap outside of its blocks does not disturb a file.     *)
LEMMA SoundElsewhere ==
  ASSUME NEW u, NEW v, NEW f, Sound(u, f), \A b \in Heap \cap BlocksOf(f) : v[b] = u[b]
  PROVE  Sound(v, f)
<1>1. f.desc # NULL => f.desc \in Heap \cap BlocksOf(f)
  BY DEF Sound, BlocksOf
<1>2. f.item = NoItem \/ {f.item.item, f.item.object} \subseteq Heap \cap BlocksOf(f)
  BY DEF Sound, IntactIn, BlocksOf, Blocks, NULL, Heap
<1>3. f.item = NoItem \/ f.item.items = NULL \/ f.item.items \in Heap \cap BlocksOf(f)
  BY DEF Sound, IntactIn, BlocksOf, Blocks
<1>4. QED
  BY <1>1, <1>2, <1>3 DEF Sound, IntactIn

(* The call goes from h to k: its new blocks were free, and those it drops *)
(* are freed.                                                              *)
LEMMA CallKeepsAccount ==
  ASSUME NEW u, NEW v, NEW h, NEW k, NEW F,
         Accounted(u, h, F), Sound(v, k),
         \A b \in Heap \cap BlocksOf(k) : b \in BlocksOf(h) \/ u[b] = "free",
         \A b \in Heap \ BlocksOf(k) : v[b] = IF b \in BlocksOf(h) THEN "free" ELSE u[b],
         BlocksOf(k) \subseteq Heap
  PROVE  Accounted(v, k, F)
<1>1. ASSUME NEW f \in F, NEW b \in BlocksOf(f) PROVE b \in Heap /\ u[b] # "free"
  <2>1. Sound(u, f)
    BY DEF Accounted
  <2>2. QED
    BY <2>1, <1>1 DEF Sound, IntactIn, BlocksOf, Blocks, NoItem
<1>2. ASSUME NEW f \in F PROVE BlocksOf(k) \cap BlocksOf(f) = {}
  BY <1>1 DEF Accounted
<1>3. ASSUME NEW f \in F PROVE Sound(v, f)
  <2>1. \A b \in BlocksOf(f) : b \notin BlocksOf(h) /\ b \notin BlocksOf(k)
    BY <1>2 DEF Accounted
  <2>2. Sound(u, f)
    BY DEF Accounted
  <2>3. \A b \in Heap \cap BlocksOf(f) : v[b] = u[b]
    BY <2>1
  <2>4. QED
    BY <2>2, <2>3, SoundElsewhere
<1>4. ASSUME NEW b \in Heap, v[b] # "free"
      PROVE  b \in BlocksOf(k) \/ \E f \in F : b \in BlocksOf(f)
  BY <1>4 DEF Accounted
<1>5. QED
  BY <1>2, <1>3, <1>4 DEF Accounted

-----------------------------------------------------------------------------
\* What a function that makes an item does to the heap u.
Brings(u, r) ==
  /\ r.use \in [Heap -> Kinds]
  /\ \/ r.item = NoItem /\ r.use = u
     \/ /\ IntactIn(r.use, r.item) /\ Blocks(r.item) \subseteq Heap
        /\ \A b \in Blocks(r.item) : u[b] = "free"
        /\ \A b \in Heap \ Blocks(r.item) : r.use[b] = u[b]

\* Three fields of an item are filled, one after the other.
LEMMA FilledItem ==
  ASSUME NEW x, NEW y, NEW z
  PROVE  [NoItem EXCEPT !.type = x, !.cluster = y, !.item = z]
           = [type |-> x, cluster |-> y, item |-> z, object |-> NULL, items |-> NULL]
<1> DEFINE a == "none"
           b == 0
           it1 == [NoItem EXCEPT !.type = x]
           it2 == [it1 EXCEPT !.cluster = y]
           it3 == [it2 EXCEPT !.item = z]
<1>1. NoItem = [type |-> a, cluster |-> b, item |-> NULL, object |-> NULL, items |-> NULL]
  BY DEF NoItem
<1> HIDE DEF a, b
<1>2. it1 = [type |-> x, cluster |-> b, item |-> NULL, object |-> NULL, items |-> NULL]
  BY <1>1
<1> HIDE DEF it1
<1>3. it2 = [type |-> x, cluster |-> y, item |-> NULL, object |-> NULL, items |-> NULL]
  BY <1>2
<1> HIDE DEF it2
<1>4. it3 = [type |-> x, cluster |-> y, item |-> z, object |-> NULL, items |-> NULL]
  BY <1>3
<1>5. [NoItem EXCEPT !.type = x, !.cluster = y, !.item = z] = it3
  BY DEF it1, it2
<1>6. QED
  BY <1>4, <1>5

(* A new item has blocks of its own; when one of them is missing, or the   *)
(* directory cannot be read, nothing is left of it.                        *)
LEMMA NewItem ==
  ASSUME NEW u \in [Heap -> Kinds], NEW entry, entry.kind \in {"file", "directory"}
  PROVE  Brings(u, fat16_new_fat_item(u, entry))
<1> DEFINE n == Taken(u)
           uf == Hold(u, n, "item")
           it == [NoItem EXCEPT !.type = entry.kind, !.cluster = entry.cluster, !.item = n]
           o == Taken(uf)
           ud == Hold(uf, o, "directory")
           i == Taken(ud)
           r == fat16_new_fat_item(u, entry)
<1> SUFFICES Brings(u, r)
  OBVIOUS
<1>1. CASE n = NULL
  BY <1>1 DEF fat16_new_fat_item, Not, Brings
<1>2. CASE n # NULL
  <2>1. n \in Heap /\ u[n] = "free"
    BY <1>2, TakenIsFree
  <2>2. uf = [u EXCEPT ![n] = "item"] /\ uf \in [Heap -> Kinds]
    BY <1>2, <2>1 DEF Hold, Kinds
  <2>3. it = [type |-> entry.kind, cluster |-> entry.cluster, item |-> n, object |-> NULL,
              items |-> NULL]
    BY FilledItem
  <2>4. o = NULL \/ (o \in Heap /\ o # NULL /\ uf[o] = "free")
    <3> HIDE DEF uf
    <3>1. QED
      BY TakenIsFree
  <2>5. Freed(uf, {n}) = u
    BY <2>1, <2>2 DEF Freed
  <2> HIDE DEF n, uf, it, o
  <2>6. CASE entry.kind = "file"
    <3>1. r = IF o = NULL THEN Not(u, "starved")
              ELSE Made(Hold(uf, o, "clone"), [it EXCEPT !.object = o])
      BY <1>2, <2>3, <2>5, <2>6
         DEF fat16_new_fat_item, fat16_clone_directory_item, Not, Made, NoItem, n, uf, it, o
    <3> HIDE DEF r
    <3>2. CASE o = NULL
      BY <3>1, <3>2 DEF Not, Brings
    <3>3. CASE o # NULL
      <4>1. r.use = [uf EXCEPT ![o] = "clone"]
        BY <3>1, <3>3 DEF Made, Hold
      <4>2. r.item = [type |-> "file", cluster |-> entry.cluster, item |-> n, object |-> o,
                      items |-> NULL]
        BY <2>3, <2>6, <3>1, <3>3 DEF Made
      <4>3. Blocks(r.item) = {n, o}
        BY <1>2, <3>3, <4>2 DEF Blocks
      <4>4. n # o /\ o \in Heap /\ u[o] = "free"
        BY <2>1, <2>2, <2>4, <3>3
      <4>5. IntactIn(r.use, r.item)
        BY <2>1, <2>2, <4>1, <4>2, <4>4 DEF IntactIn
      <4>6. r.use \in [Heap -> Kinds]
        BY <2>2, <4>1 DEF Kinds
      <4>7. QED
        BY <2>1, <2>2, <4>1, <4>3, <4>4, <4>5, <4>6 DEF Brings
    <3>4. QED
      BY <3>2, <3>3
  <2>7. CASE entry.kind = "directory"
    <3> DEFINE total == fat16_get_total_items[it.cluster]
    <3>1. \/ r.item = NoItem /\ r.use = u
          \/ o # NULL /\ r = Made(ud, [it EXCEPT !.object = o])
          \/ /\ o # NULL /\ i # NULL
             /\ r = Made(Hold(ud, i, "items"), [it EXCEPT !.object = o, !.items = i])
      <4>1. [it EXCEPT !.object = o].type = "directory"
            /\ [it EXCEPT !.object = o, !.items = i].type = "directory"
        BY <2>3, <2>7
      <4>2. /\ [it EXCEPT !.object = o] # NoItem
            /\ [it EXCEPT !.object = o, !.items = i] # NoItem
        BY <4>1 DEF NoItem
      <4>3. LET d == fat16_load_fat_directory(uf, it)
            IN  \/ d.item = NoItem
                \/ o # NULL /\ d = Made(ud, [it EXCEPT !.object = o])
                \/ /\ o # NULL /\ i # NULL
                   /\ d = Made(Hold(ud, i, "items"), [it EXCEPT !.object = o, !.items = i])
        BY DEF fat16_load_fat_directory, Not, o
      <4>4. LET d == fat16_load_fat_directory(uf, it)
            IN  d.item = NoItem => d.use = uf
        BY <4>2 DEF fat16_load_fat_directory, Not, Made, o
      <4>5. LET d == fat16_load_fat_directory(uf, it)
            IN  r = IF d.item = NoItem THEN Not(Freed(d.use, {n}), d.why) ELSE d
        BY <1>2, <2>7 DEF fat16_new_fat_item, n, uf, it
      <4>6. QED
        BY <2>5, <4>2, <4>3, <4>4, <4>5 DEF Not, Made
    <3>2. o # NULL => /\ ud = [uf EXCEPT ![o] = "directory"] /\ ud \in [Heap -> Kinds]
                      /\ n # o /\ o \in Heap /\ u[o] = "free"
      BY <2>1, <2>2, <2>4 DEF Hold, Kinds
    <3>3. i = NULL \/ (i \in Heap /\ i # NULL /\ ud[i] = "free")
      <4> HIDE DEF ud
      <4>1. QED
        BY TakenIsFree
    <3> HIDE DEF r, ud, i
    <3>4. CASE r.item = NoItem /\ r.use = u
      BY <3>4 DEF Brings
    <3>5. CASE o # NULL /\ r = Made(ud, [it EXCEPT !.object = o])
      <4>1. r.use = ud
        BY <3>5 DEF Made
      <4>2. r.item = [type |-> "directory", cluster |-> entry.cluster, item |-> n, object |-> o,
                      items |-> NULL]
        BY <2>3, <2>7, <3>5 DEF Made
      <4>3. Blocks(r.item) = {n, o}
        BY <1>2, <3>5, <4>2 DEF Blocks
      <4>4. ud[n] = "item" /\ ud[o] = "directory"
        BY <2>1, <2>2, <3>2, <3>5
      <4>5. IntactIn(r.use, r.item)
        BY <2>1, <3>2, <3>5, <4>1, <4>2, <4>4 DEF IntactIn
      <4>6. QED
        BY <2>1, <2>2, <3>2, <3>5, <4>1, <4>3, <4>5 DEF Brings
    <3>6. CASE /\ o # NULL /\ i # NULL
               /\ r = Made(Hold(ud, i, "items"), [it EXCEPT !.object = o, !.items = i])
      <4>1. r.use = [ud EXCEPT ![i] = "items"]
        BY <3>6 DEF Made, Hold
      <4>2. r.item = [type |-> "directory", cluster |-> entry.cluster, item |-> n, object |-> o,
                      items |-> i]
        BY <2>3, <2>7, <3>6 DEF Made
      <4>3. Blocks(r.item) = {n, o, i}
        BY <1>2, <3>6, <4>2 DEF Blocks
      <4>4. i \in Heap /\ i # n /\ i # o /\ u[i] = "free"
        BY <2>1, <2>2, <3>2, <3>3, <3>6
      <4>5. IntactIn(r.use, r.item)
        <5>1. r.use[n] = "item" /\ r.use[o] = "directory" /\ r.use[i] = "items"
          BY <2>1, <2>2, <3>2, <3>6, <4>1, <4>4, ZenonT(60)
        <5>2. QED
          BY <2>1, <3>2, <3>6, <4>2, <4>4, <5>1 DEF IntactIn
      <4>6. r.use \in [Heap -> Kinds]
        BY <3>2, <3>6, <4>1 DEF Kinds
      <4>7. QED
        BY <2>1, <2>2, <3>2, <3>6, <4>1, <4>3, <4>4, <4>5, <4>6 DEF Brings
    <3>7. QED
      BY <3>1, <3>4, <3>5, <3>6
  <2>8. QED
    BY <2>6, <2>7
<1>3. QED
  BY <1>1, <1>2

LEMMA Finds ==
  ASSUME NEW u \in [Heap -> Kinds], NEW items, NEW name
  PROVE  Brings(u, fat16_find_item_in_directory(u, items, name))
<1>1. CASE \E i \in DOMAIN items : IsFirstMatch(items, name, i)
  <2> DEFINE i == CHOOSE i \in DOMAIN items : IsFirstMatch(items, name, i)
  <2>1. IsFirstMatch(items, name, i)
    BY <1>1
  <2> HIDE DEF i
  <2>2. items[i].kind \in {"file", "directory"}
    BY <2>1 DEF IsFirstMatch, Matches
  <2>3. Brings(u, fat16_new_fat_item(u, items[i]))
    BY <2>2, NewItem
  <2>4. QED
    BY <1>1, <2>3 DEF fat16_find_item_in_directory, i
<1>2. CASE ~ \E i \in DOMAIN items : IsFirstMatch(items, name, i)
  BY <1>2 DEF fat16_find_item_in_directory, Not, Brings
<1>3. QED
  BY <1>1, <1>2
-----------------------------------------------------------------------------
\* A lookup brings the call from no item, or from the item it, to what it has
\* found; the blocks of it are freed after that.
LEMMA CallFindsItem ==
  ASSUME NEW u \in [Heap -> Kinds], NEW d, NEW it, NEW F, NEW r,
         Accounted(u, [desc |-> d, item |-> it], F), Brings(u, r)
  PROVE  Accounted(Freed(r.use, Blocks(it)), [desc |-> d, item |-> r.item], F)
<1> DEFINE h == [desc |-> d, item |-> it]
           k == [desc |-> d, item |-> r.item]
           v == Freed(r.use, Blocks(it))
<1>1. BlocksOf(h) = ({d} \ {NULL}) \cup Blocks(it) /\ BlocksOf(k) = ({d} \ {NULL}) \cup Blocks(r.item)
  BY DEF BlocksOf
<1>2. /\ d # NULL => d \in Heap /\ u[d] = "desc"
      /\ \A b \in Blocks(it) : b \in Heap /\ u[b] # "free" /\ u[b] # "desc"
  BY DEF Accounted, Sound, IntactIn, Blocks, NoItem
<1>3. /\ Blocks(r.item) \subseteq Heap /\ \A b \in Blocks(r.item) : u[b] = "free"
      /\ \A b \in Heap \ Blocks(r.item) : r.use[b] = u[b]
      /\ IntactIn(r.use, r.item)
  BY DEF Brings, Blocks, NoItem, IntactIn
<1>4. \A b \in Heap : v[b] = IF b \in Blocks(it) THEN "free" ELSE r.use[b]
  BY DEF Freed
<1> HIDE DEF v
<1>5. Blocks(it) \cap Blocks(r.item) = {} /\ d \notin Blocks(it) /\ (d # NULL => d \notin Blocks(r.item))
  <2>1. NULL \notin Blocks(it)
    BY DEF Blocks
  <2>2. QED
    BY <1>2, <1>3, <2>1
<1>6. Sound(v, k)
  <2>1. Sound(r.use, k)
    BY <1>2, <1>3, <1>5 DEF Sound
  <2>2. \A b \in Heap \cap BlocksOf(k) : v[b] = r.use[b]
    BY <1>1, <1>4, <1>5
  <2>3. QED
    BY <2>1, <2>2, SoundElsewhere
<1>7. \A b \in Heap \cap BlocksOf(k) : b \in BlocksOf(h) \/ u[b] = "free"
  BY <1>1, <1>3
<1>8. \A b \in Heap \ BlocksOf(k) : v[b] = IF b \in BlocksOf(h) THEN "free" ELSE u[b]
  <2>1. \A b \in Heap \ BlocksOf(k) : b # d \/ d = NULL
    BY <1>1
  <2>2. NULL \notin Heap
    BY BlockHeapAssumption DEF NULL, Heap
  <2>3. QED
    BY <1>1, <1>3, <1>4, <2>1, <2>2
<1>9. BlocksOf(k) \subseteq Heap
  BY <1>1, <1>2, <1>3
<1> HIDE DEF h, k
<1>10. Accounted(v, k, F)
  BY <1>6, <1>7, <1>8, <1>9, CallKeepsAccount DEF h
<1>11. QED
  BY <1>10 DEF v, k

\* The call drops its item, and its descriptor too when it has failed.
LEMMA CallDrops ==
  ASSUME NEW u \in [Heap -> Kinds], NEW h, NEW k, NEW F, Accounted(u, h, F),
         k.item = NoItem, k.desc = NULL \/ k.desc = h.desc
  PROVE  Accounted(Freed(u, BlocksOf(h) \ {k.desc}), k, F)
<1> DEFINE v == Freed(u, BlocksOf(h) \ {k.desc})
<1>1. \A b \in Heap : v[b] = IF b \in BlocksOf(h) \ {k.desc} THEN "free" ELSE u[b]
  BY DEF Freed
<1> HIDE DEF v
<1>2. BlocksOf(k) = {k.desc} \ {NULL}
  BY DEF BlocksOf, Blocks, NoItem
<1>3. k.desc # NULL => k.desc \in Heap /\ k.desc \in BlocksOf(h) /\ v[k.desc] = "desc"
  BY <1>1 DEF Accounted, Sound, BlocksOf
<1>4. Sound(v, k)
  BY <1>3 DEF Sound, IntactIn
<1>5. NULL \notin Heap
  BY BlockHeapAssumption DEF NULL, Heap
<1>6. /\ \A b \in Heap \cap BlocksOf(k) : b \in BlocksOf(h) \/ u[b] = "free"
      /\ \A b \in Heap \ BlocksOf(k) : v[b] = IF b \in BlocksOf(h) THEN "free" ELSE u[b]
      /\ BlocksOf(k) \subseteq Heap
  BY <1>1, <1>2, <1>3, <1>5
<1>7. Accounted(v, k, F)
  BY <1>4, <1>6, CallKeepsAccount
<1>8. QED
  BY <1>7 DEF v

LEMMA OpenInit == Init => IInv
<1> SUFFICES ASSUME Init PROVE IInv
  OBVIOUS
<1>1. use \in [Heap -> Kinds]
  BY DEF Init, Kinds
<1>2. Call = [desc |-> NULL, item |-> NoItem] /\ files = {} /\ \A b \in Heap : use[b] = "free"
  BY DEF Init, Call
<1>3. Accounted(use, Call, files)
  BY <1>2 DEF Accounted, Sound, IntactIn
<1>4. QED
  BY <1>1, <1>3 DEF Init, IInv
LEMMA OpenStep == IInv /\ [Next]_vars => IInv'
<1> SUFFICES ASSUME IInv, [Next]_vars PROVE IInv'
  OBVIOUS
<1> DEFINE none == [desc |-> NULL, item |-> NoItem]
<1>1. /\ use \in [Heap -> Kinds] /\ Accounted(use, Call, files)
      /\ pc = "idle" => Call = none
      /\ pc = "first" => current = NoItem
  BY DEF IInv, Call
<1>2. NULL \notin Heap /\ Blocks(NoItem) = {} /\ BlocksOf(none) = {}
  BY BlockHeapAssumption DEF NULL, Heap, Blocks, NoItem, BlocksOf
<1>3. ASSUME NEW u, u \in [Heap -> Kinds], NEW s PROVE Freed(u, s) \in [Heap -> Kinds]
  BY <1>3 DEF Freed, Kinds
<1>4. ASSUME NEW p \in Paths, NEW mode \in {"FILE_MODE_READ", "FILE_MODE_WRITE"},
             fat16_open(p, mode)
      PROVE  IInv'
  <2>1. CASE UNCHANGED <<use, pc, desc>>
    BY <1>1, <1>4, <2>1 DEF fat16_open, IInv, Call
  <2>2. CASE /\ Taken(use) # NULL /\ desc' = Taken(use) /\ pc' = "first"
             /\ use' = Hold(use, Taken(use), "desc")
    <3> DEFINE d == Taken(use)
               k == [desc |-> d, item |-> NoItem]
    <3>1. d \in Heap /\ use[d] = "free" /\ d # NULL
      BY <2>2, TakenIsFree
    <3>2. use' = [use EXCEPT ![d] = "desc"] /\ use' \in [Heap -> Kinds]
      BY <1>1, <2>2, <3>1 DEF Hold, Kinds
    <3>3. Call = none /\ Call' = k /\ files' = files /\ current' = NoItem
      BY <1>1, <1>4, <2>2 DEF fat16_open, Call
    <3>4. BlocksOf(k) = {d}
      BY <1>2, <3>1 DEF BlocksOf
    <3> HIDE DEF d
    <3>5. Sound(use', k)
      BY <1>1, <3>1, <3>2 DEF Sound, IntactIn
    <3>6. /\ \A b \in Heap \cap BlocksOf(k) : b \in BlocksOf(none) \/ use[b] = "free"
          /\ \A b \in Heap \ BlocksOf(k) :
               use'[b] = IF b \in BlocksOf(none) THEN "free" ELSE use[b]
          /\ BlocksOf(k) \subseteq Heap
      BY <1>1, <1>2, <3>1, <3>2, <3>4
    <3> HIDE DEF k, none
    <3>7. Accounted(use', k, files)
      BY <1>1, <3>3, <3>5, <3>6, CallKeepsAccount
    <3>8. QED
      BY <2>2, <3>2, <3>3, <3>7 DEF IInv
  <2>3. QED
    BY <1>4, <2>1, <2>2 DEF fat16_open
<1>5. CASE FindInRoot
  <2> DEFINE r == fat16_find_item_in_directory(use, RootItems, path[1])
  <2>1. Brings(use, r)
    BY <1>1, Finds
  <2>2. /\ use' = r.use /\ current' = r.item /\ UNCHANGED <<desc, files>>
        /\ pc' \in {"counting", "lost", "found", "loop"} /\ current = NoItem
    BY <1>1, <1>5 DEF FindInRoot, GoesOn
  <2> HIDE DEF r
  <2>3. Accounted(Freed(r.use, Blocks(current)), [desc |-> desc, item |-> r.item], files)
    BY <1>1, <2>1, CallFindsItem DEF Call
  <2>4. Freed(r.use, Blocks(current)) = r.use /\ r.use \in [Heap -> Kinds]
    BY <1>2, <2>1, <2>2 DEF Freed, Brings
  <2>5. QED
    BY <2>2, <2>3, <2>4 DEF IInv, Call
<1>6. CASE Descend
  <2> DEFINE r == FindIn(use, current, path[next])
  <2>1. Brings(use, r)
    <3>1. Brings(use, Not(use, "lost"))
      BY <1>1 DEF Brings, Not
    <3>2. Brings(use, fat16_find_item_in_directory(use, Items[current.cluster], path[next]))
      BY <1>1, Finds
    <3>3. QED
      BY <3>1, <3>2 DEF FindIn
  <2>2. /\ use' = Freed(r.use, Blocks(current)) /\ current' = r.item
        /\ UNCHANGED <<desc, files>> /\ pc' \in {"counting", "lost", "loop"}
    BY <1>6 DEF Descend, GoesOn, fat16_item_free
  <2> HIDE DEF r
  <2>3. Accounted(Freed(r.use, Blocks(current)), [desc |-> desc, item |-> r.item], files)
    BY <1>1, <2>1, CallFindsItem DEF Call
  <2>4. use' \in [Heap -> Kinds]
    BY <1>3, <2>1, <2>2 DEF Brings
  <2>5. QED
    BY <2>2, <2>3, <2>4 DEF IInv, Call
<1>7. CASE NotADirectory
  <2> DEFINE k == [desc |-> desc, item |-> NoItem]
  <2>1. /\ use' = Freed(use, Blocks(current)) /\ Call' = k /\ files' = files
        /\ pc' = "found"
    BY <1>7 DEF NotADirectory, fat16_item_free, Call
  <2>2. desc \notin Blocks(current)
    BY <1>1 DEF Accounted, Sound, IntactIn, Call, Blocks, NoItem
  <2>3. BlocksOf(Call) \ {k.desc} = Blocks(current)
    BY <2>2 DEF BlocksOf, Call
  <2>4. Accounted(Freed(use, BlocksOf(Call) \ {k.desc}), k, files)
    <3>1. k.item = NoItem /\ k.desc = Call.desc
      BY DEF Call
    <3> HIDE DEF k
    <3>2. QED
      BY <1>1, <3>1, CallDrops
  <2>5. QED
    BY <1>1, <1>3, <2>1, <2>3, <2>4 DEF IInv
<1>8. CASE Finish
  <2>1. pc' = "idle" /\ Call' = none /\ desc' = NULL /\ current' = NoItem
    BY <1>8 DEF Finish, Call
  <2>2. CASE files' = files \cup {Call} /\ use' = use
    <3> HIDE DEF none
    <3>1. \A f \in files' : f = Call \/ f \in files
      BY <2>2
    <3>2. Sound(use, none)
      BY DEF Sound, IntactIn, none
    <3>3. Accounted(use, none, files')
      BY <1>1, <1>2, <2>2, <3>1, <3>2 DEF Accounted
    <3>4. QED
      BY <1>1, <2>1, <2>2, <3>3 DEF IInv
  <2>3. CASE files' = files /\ use' = Freed(use, {desc} \cup Blocks(current))
    <3>1. Freed(use, {desc} \cup Blocks(current)) = Freed(use, BlocksOf(Call) \ {NULL})
      <4>1. \A b \in Heap : b \in {desc} \cup Blocks(current) <=> b \in BlocksOf(Call) \ {NULL}
        BY <1>2 DEF BlocksOf, Call
      <4>2. QED
        BY <4>1 DEF Freed
    <3>2. none.item = NoItem /\ none.desc = NULL
      OBVIOUS
    <3> HIDE DEF none
    <3>3. Accounted(Freed(use, BlocksOf(Call) \ {none.desc}), none, files)
      BY <1>1, <3>2, CallDrops
    <3>4. QED
      BY <1>1, <1>3, <2>1, <2>3, <3>1, <3>2, <3>3 DEF IInv
  <2>4. QED
    BY <1>8, <2>2, <2>3 DEF Finish, Call
<1>9. ASSUME NEW f \in files, fat16_close(f) PROVE IInv'
  <2> DEFINE v == Freed(use, BlocksOf(f))
  <2>1. /\ use' = Freed(use, {f.desc} \cup Blocks(f.item)) /\ files' = files \ {f}
        /\ pc = "idle" /\ Call' = none /\ Call = none /\ UNCHANGED <<pc, desc, current>>
    BY <1>1, <1>9 DEF fat16_close, Call
  <2>2. use' = v
    <3>1. \A b \in Heap : b \in {f.desc} \cup Blocks(f.item) <=> b \in BlocksOf(f)
      BY <1>2 DEF BlocksOf
    <3>2. QED
      BY <2>1, <3>1 DEF Freed
  <2>3. \A b \in Heap : v[b] = IF b \in BlocksOf(f) THEN "free" ELSE use[b]
    BY DEF Freed
  <2> HIDE DEF v, none
  <2>4. ASSUME NEW g \in files \ {f} PROVE Sound(v, g)
    <3>1. BlocksOf(f) \cap BlocksOf(g) = {} /\ Sound(use, g)
      BY <1>1 DEF Accounted
    <3>2. QED
      BY <2>3, <3>1, SoundElsewhere
  <2>5. Sound(v, none)
    BY DEF Sound, IntactIn, none
  <2>6. Accounted(v, none, files \ {f})
    BY <1>1, <1>2, <2>1, <2>3, <2>4, <2>5 DEF Accounted
  <2>7. QED
    BY <1>1, <1>3, <2>1, <2>2, <2>6 DEF IInv, v
<1>10. CASE ReadsNull \/ EndOfPath \/ UNCHANGED vars
  BY <1>1, <1>10 DEF ReadsNull, EndOfPath, vars, IInv, Call
<1>11. QED
  BY <1>4, <1>5, <1>6, <1>7, <1>8, <1>9, <1>10 DEF Next

(* Nothing leaks, nothing is freed twice and nothing is used after it was  *)
(* freed: each block in use belongs to one open file or to the call.       *)
THEOREM OpenAccountsForHeap == Spec => []HeapAccounted
<1>1. IInv => HeapAccounted
  <2> SUFFICES ASSUME IInv PROVE HeapAccounted
    OBVIOUS
  <2>1. Held = {Call} \cup files /\ Accounted(use, Call, files)
    BY DEF IInv, Held, Call
  <2>2. ASSUME NEW f \in Held
        PROVE  Intact(f.item) /\ (f.desc # NULL => use[f.desc] = "desc")
    <3>1. Sound(use, f)
      BY <2>1 DEF Accounted
    <3>2. QED
      BY <3>1 DEF Sound, IntactIn, Intact, NoItem
  <2>3. ASSUME NEW f \in Held, NEW g \in Held, f # g PROVE BlocksOf(f) \cap BlocksOf(g) = {}
    BY <2>1, <2>3 DEF Accounted
  <2>4. ASSUME NEW b \in Heap, use[b] # "free" PROVE \E f \in Held : b \in BlocksOf(f)
    BY <2>1, <2>4 DEF Accounted
  <2>5. QED
    BY <2>2, <2>3, <2>4 DEF HeapAccounted
<1>2. QED
  BY <1>1, OpenInit, OpenStep, PTL DEF Spec

-----------------------------------------------------------------------------
\* While a call runs, its path is one of those that are opened.
PathKept == pc # "idle" => path \in Paths

\* What a lookup leaves of the types: the item is read from IInv.
LEMMA OpenTypesStep ==
  ASSUME TypeOK, PathKept, IInv, IInv', [Next]_vars
  PROVE  TypeOK' /\ PathKept'
<1> DEFINE Pcs == {"idle", "first", "loop", "found", "counting", "lost"}
           Rets == Heap \cup {0, ERDONLY, ENOMEM, EINVARG, EIO}
<1>1. /\ use' \in [Heap -> {"free", "desc", "item", "directory", "items", "clone"}]
      /\ desc' \in Heap \cup {NULL}
      /\ current'.type \in {"none", "file", "directory"}
  <2>1. use' \in [Heap -> Kinds] /\ Sound(use', Call')
    BY DEF IInv, Accounted
  <2>2. QED
    BY <2>1 DEF Sound, IntactIn, Call, Kinds, NoItem
<1>2. \A p \in Paths : p \in Seq(Seq(Nat)) /\ Len(p) \in Nat /\ Len(p) >= 1
  BY PathsAssumption
<1>3. SUFFICES /\ pc' \in Pcs /\ path' \in Paths \cup {<<>>}
               /\ pc' = "idle" \/ (path' \in Paths /\ next' \in 1 .. Len(path') + 1)
               /\ ret' \in Rets /\ readNull' \in BOOLEAN /\ starved' \in BOOLEAN
  BY <1>1 DEF TypeOK, PathKept
<1>4. /\ pc \in Pcs /\ path \in Paths \cup {<<>>}
      /\ pc = "idle" \/ (path \in Paths /\ next \in 1 .. Len(path) + 1)
      /\ ret \in Rets /\ readNull \in BOOLEAN /\ starved \in BOOLEAN
      /\ desc \in Heap \cup {0}
  BY DEF TypeOK, PathKept, NULL
<1>5. ASSUME NEW p \in Paths, NEW mode \in {"FILE_MODE_READ", "FILE_MODE_WRITE"},
             fat16_open(p, mode)
      PROVE  /\ pc' \in Pcs /\ path' \in Paths \cup {<<>>}
             /\ pc' = "idle" \/ (path' \in Paths /\ next' \in 1 .. Len(path') + 1)
             /\ ret' \in Rets /\ readNull' \in BOOLEAN /\ starved' \in BOOLEAN
  <2>1. pc = "idle" /\ path' = p /\ readNull' = FALSE
    BY <1>5 DEF fat16_open
  <2>2. starved' \in BOOLEAN /\ ret' \in {ERDONLY, ENOMEM, ret}
    BY <1>4, <1>5 DEF fat16_open
  <2>3. pc' = "idle" \/ (pc' = "first" /\ next' = 1)
    BY <1>5, <2>1 DEF fat16_open
  <2>4. 1 \in 1 .. Len(p) + 1
    BY <1>2
  <2>5. QED
    BY <1>4, <2>1, <2>2, <2>3, <2>4
<1>6. CASE FindInRoot
  BY <1>2, <1>4, <1>6 DEF FindInRoot, GoesOn
<1>7. CASE Descend
  <2>1. pc' \in {"counting", "lost", "loop"} /\ starved' \in BOOLEAN
        /\ UNCHANGED <<path, ret, readNull>>
    BY <1>4, <1>7 DEF Descend, GoesOn
  <2>2. path \in Paths /\ next \in 1 .. Len(path) + 1 /\ next <= Len(path) /\ next' = next + 1
    BY <1>4, <1>7 DEF Descend, MoreParts
  <2>3. next' \in 1 .. Len(path) + 1
    BY <1>2, <2>2
  <2>4. QED
    BY <1>4, <2>1, <2>2, <2>3
<1>8. CASE Finish
  BY <1>4, <1>8 DEF Finish
<1>9. ASSUME NEW f \in files, fat16_close(f)
      PROVE  /\ pc' \in Pcs /\ path' \in Paths \cup {<<>>}
             /\ pc' = "idle" \/ (path' \in Paths /\ next' \in 1 .. Len(path') + 1)
             /\ ret' \in Rets /\ readNull' \in BOOLEAN /\ starved' \in BOOLEAN
  BY <1>4, <1>9 DEF fat16_close
<1>10. CASE NotADirectory \/ ReadsNull \/ EndOfPath \/ UNCHANGED vars
  BY <1>4, <1>10 DEF NotADirectory, ReadsNull, EndOfPath, vars
<1>11. QED
  BY <1>5, <1>6, <1>7, <1>8, <1>9, <1>10 DEF Next

(* Every variable of the open and close paths keeps its type, wherever the *)
(* walk along the path ends: next_part stays within the path.              *)
THEOREM OpenTypeCorrect == Spec => []TypeOK
<1>1. Init => TypeOK /\ PathKept
  <2> SUFFICES ASSUME Init PROVE TypeOK /\ PathKept
    OBVIOUS
  <2>1. use \in [Heap -> {"free", "desc", "item", "directory", "items", "clone"}]
    BY DEF Init
  <2>2. readNull \in BOOLEAN /\ starved \in BOOLEAN
    BY DEF Init
  <2>3. QED
    BY <2>1, <2>2 DEF Init, TypeOK, PathKept, NoItem
<1>2. TypeOK /\ PathKept /\ IInv /\ [Next]_vars => TypeOK' /\ PathKept' /\ IInv'
  BY OpenStep, OpenTypesStep
<1>3. QED
  BY <1>1, <1>2, OpenInit, PTL DEF Spec

-----------------------------------------------------------------------------
(***************************************************************************)
(* The open files of the volume (module FatFile).  For every FAT (damaged  *)
(* ones included), every file size a uint32_t can hold and every sequence  *)
(* of reads and seeks, the position of an open file stays within the file. *)
(***************************************************************************)
Cloned == item \in [Files -> [first : FirstClusters, filesize : FileSizes]]

FileIInv == Cloned /\ pos \in [Files -> Nat] /\ CursorInBounds

\* A sum that stays below the modulus is not changed by taking the remainder
\* of one of its parts first.
LEMMA SumBelowModulus ==
  ASSUME NEW m \in Nat \ {0}, NEW x \in Nat, NEW y \in Nat, (x % m) + y < m
  PROVE  (x + y) % m = (x % m) + y
<1> DEFINE q == x \div m
           r == x % m
<1>1. q \in Nat /\ r \in 0 .. m-1 /\ x = m * q + r
  OBVIOUS
<1>2. x + y = m * q + (r + y) /\ r + y \in 0 .. m-1
  BY <1>1
<1> HIDE DEF q, r
<1>3. (m * q + (r + y)) % m = r + y
  BY <1>1, <1>2
<1>4. QED
  BY <1>2, <1>3 DEF r

\* When every turn up to turn k has delivered its item, turn k starts within
\* the file.
LEMMA DeliveredStaysInside ==
  ASSUME FileIInv, NEW d \in Files, NEW size \in Nat, NEW k \in Nat, Delivered(d, size, k)
  PROVE  item_offset(d, size, k) \in 0 .. item[d].filesize
<1> USE VolumeAssumption, FileAssumption
<1>1. /\ item[d].filesize \in 0 .. IntRange-1
      /\ pos[d] \in 0 .. item[d].filesize
  BY DEF FileIInv, Cloned, CursorInBounds
<1>2. CASE k = 0
  <2>1. item_offset(d, size, k) = pos[d] % IntRange
    BY <1>2, <1>1 DEF item_offset, Word
  <2>2. QED
    BY <1>1, <2>1
<1>3. CASE k # 0
  <2> DEFINE x == pos[d] + (k-1) * size
  <2>1. x \in Nat /\ pos[d] + k * size = x + size
    BY <1>1, <1>3
  <2>2. ItemFits(d, size, k-1)
    BY <1>3 DEF Delivered
  <2>3. item_offset(d, size, k-1) = x % IntRange
    BY DEF item_offset, Word
  <2>4. x % IntRange \in Nat /\ (x % IntRange) + size <= item[d].filesize
    BY <1>1, <2>1, <2>2, <2>3 DEF ItemFits
  <2> HIDE DEF x
  <2>5. (x + size) % IntRange = (x % IntRange) + size
    <3>1. IntRange \in Nat \ {0} /\ (x % IntRange) + size < IntRange
      BY <1>1, <2>4
    <3>2. QED
      BY <2>1, <3>1, SumBelowModulus
  <2>6. item_offset(d, size, k) = (x + size) % IntRange
    BY <2>1 DEF item_offset, Word
  <2>7. QED
    BY <1>1, <2>4, <2>5, <2>6
<1>4. QED
  BY <1>2, <1>3

LEMMA ReadKeeps ==
  ASSUME FileIInv, NEW d \in Files, NEW size \in Counts, NEW nmemb \in Counts,
         fat16_read(d, size, nmemb)
  PROVE  FileIInv'
<1> USE FileAssumption
<1>1. CASE fat16_read_delivers(d, size, nmemb)
  <2>1. PICK k \in 0 .. nmemb : /\ Delivered(d, size, k)
                                /\ pos' = [pos EXCEPT ![d] = item_offset(d, size, k)]
    BY <1>1 DEF fat16_read_delivers
  <2>2. item_offset(d, size, k) \in 0 .. item[d].filesize
    BY <2>1, DeliveredStaysInside
  <2>3. item' = item
    BY <1>1 DEF fat16_read_delivers
  <2>4. QED
    BY <2>1, <2>2, <2>3 DEF FileIInv, Cloned, CursorInBounds
<1>2. CASE fat16_read_fails(d, size, nmemb) \/ fat16_read_nothing(d, size, nmemb)
  BY <1>2 DEF fat16_read_fails, fat16_read_nothing, FileIInv, Cloned, CursorInBounds
<1>3. QED
  BY <1>1, <1>2 DEF fat16_read

LEMMA SeekKeeps ==
  ASSUME FileIInv, NEW d \in Files, NEW whence, NEW offset, fat16_seek(d, whence, offset)
  PROVE  FileIInv'
<1>1. item' = item
  BY DEF fat16_seek
<1>2. pos' = pos \/ \E to \in 0 .. item[d].filesize : pos' = [pos EXCEPT ![d] = to]
  BY DEF fat16_seek
<1>3. QED
  BY <1>1, <1>2, FileAssumption DEF FileIInv, Cloned, CursorInBounds

LEMMA FileInvariant == FileSpec => []FileIInv
<1>1. FileInit => FileIInv
  <2> SUFFICES ASSUME FileInit PROVE FileIInv
    OBVIOUS
  <2>1. Cloned /\ pos = [d \in Files |-> 0]
    BY DEF FileInit, Cloned
  <2>2. \A d \in Files : item[d].filesize \in Nat
    <3>1. \A n \in FileSizes : n \in Nat
      BY FileAssumption, VolumeAssumption
    <3>2. \A d \in Files : item[d].filesize \in FileSizes
      BY <2>1 DEF Cloned
    <3>3. QED
      BY <3>1, <3>2
  <2>3. QED
    BY <2>1, <2>2 DEF FileIInv, CursorInBounds
<1>2. FileIInv /\ [FileNext]_fileVars => FileIInv'
  <2> SUFFICES ASSUME FileIInv, [FileNext]_fileVars PROVE FileIInv'
    OBVIOUS
  <2>1. CASE UNCHANGED fileVars
    BY <2>1 DEF fileVars, FileIInv, Cloned, CursorInBounds
  <2>2. ASSUME NEW d \in Files, fat16_stat(d) PROVE FileIInv'
    BY <2>2 DEF fat16_stat, FileIInv, Cloned, CursorInBounds
  <2>3. ASSUME NEW d \in Files, NEW size, NEW nmemb, fat16_read_nowhere(d, size, nmemb)
        PROVE  FileIInv'
    BY <2>3 DEF fat16_read_nowhere, FileIInv, Cloned, CursorInBounds
  <2>4. QED
    BY <2>1, <2>2, <2>3, ReadKeeps, SeekKeeps DEF FileNext
<1>3. QED
  BY <1>1, <1>2, PTL DEF FileSpec

(* No sequence of reads and seeks takes the position of an open file past  *)
(* the end of the file, so filesize - pos never wraps around.              *)
THEOREM CursorStaysInBounds == FileSpec => []CursorInBounds
BY FileInvariant, PTL DEF FileIInv

-----------------------------------------------------------------------------
(* Offsets and seeks do what module ByteFile promises, which knows no      *)
(* machine integers.                                                       *)

\* The bytes of a file change only with the FAT and its directory entry.
LEMMA SameBytes ==
  ASSUME UNCHANGED <<fat, item>>
  PROVE  /\ [d \in Files |-> BytesOf(fat, item[d])]' = [d \in Files |-> BytesOf(fat, item[d])]
         /\ [d \in Files |-> item[d].filesize]' = [d \in Files |-> item[d].filesize]
OBVIOUS

\* No offset of a turn wraps around in front of the first item that does not fit.
LEMMA OffsetsAreExact ==
  ASSUME FileIInv, NEW d \in Files, NEW size \in Nat, NEW k \in Nat, Delivered(d, size, k)
  PROVE  item_offset(d, size, k) = pos[d] + k * size
<1> USE VolumeAssumption, FileAssumption
<1>1. /\ item[d].filesize \in 0 .. IntRange-1
      /\ pos[d] \in 0 .. item[d].filesize
  BY DEF FileIInv, Cloned, CursorInBounds
<1> DEFINE Wrong == {j \in 0 .. k : item_offset(d, size, j) # pos[d] + j * size}
<1>2. Wrong = {}
  <2> SUFFICES ASSUME Wrong # {} PROVE FALSE
    OBVIOUS
  <2>1. PICK j \in Wrong : \A i \in Wrong : j <= i
    <3>1. Wrong \in SUBSET Nat
      OBVIOUS
    <3>2. QED
      BY <3>1, Smallest
  <2>2. j \in 0 .. k /\ item_offset(d, size, j) # pos[d] + j * size
    BY <2>1
  <2>3. item_offset(d, size, 0) = pos[d]
    <3>1. pos[d] + 0 * size = pos[d] /\ pos[d] % IntRange = pos[d]
      BY <1>1
    <3>2. QED
      BY <3>1 DEF item_offset, Word
  <2>4. j # 0
    BY <1>1, <2>2, <2>3
  <2>5. j-1 \in 0 .. k-1 /\ item_offset(d, size, j-1) = pos[d] + (j-1) * size
    <3>1. j-1 \in 0 .. k /\ ~(j <= j-1)
      BY <2>2, <2>4
    <3>2. j-1 \notin Wrong
      BY <2>1, <3>1
    <3>3. QED
      BY <2>2, <2>4, <3>1, <3>2
  <2>6. ItemFits(d, size, j-1)
    BY <2>5 DEF Delivered
  <2>7. pos[d] + (j-1) * size + size < IntRange /\ pos[d] + (j-1) * size \in Nat
    BY <1>1, <2>2, <2>4, <2>5, <2>6 DEF ItemFits
  <2>8. pos[d] + j * size = pos[d] + (j-1) * size + size
    BY <1>1, <2>2
  <2>9. item_offset(d, size, j) = pos[d] + j * size
    <3> DEFINE x == pos[d] + j * size
    <3>1. x \in Nat /\ x < IntRange
      BY <1>1, <2>7, <2>8
    <3>2. item_offset(d, size, j) = x % IntRange
      BY DEF item_offset, Word
    <3> HIDE DEF x
    <3>3. x % IntRange = x
      BY <3>1
    <3>4. QED
      BY <3>2, <3>3 DEF x
  <2>10. QED
    BY <2>2, <2>9
<1>3. QED
  BY <1>2

LEMMA SeekMovesCursor ==
  ASSUME FileIInv, IntOffsets, NEW d \in Files,
         NEW whence \in Whences, NEW offset \in Offsets,
         fat16_seek(d, whence, offset)
  PROVE  Bytes!Seek(d, whence, offset) \/ Bytes!SeekFails(d, whence, offset)
<1> USE VolumeAssumption, FileAssumption
<1> DEFINE size == item[d].filesize
           to == new_pos(d, whence, offset)
           target == Bytes!Target(d, whence, offset)
           legal == whence \in {"SEEK_SET", "SEEK_CUR"} /\ offset >= 0 /\ target <= size
<1>1. /\ size \in Nat /\ 2 * size < IntRange /\ pos[d] \in 0 .. size
      /\ offset \in Int /\ -IntRange <= 2 * offset /\ 2 * offset < IntRange
  <2>1. size \in FileSizes /\ pos[d] \in 0 .. size
    BY DEF FileIInv, Cloned, CursorInBounds
  <2> HIDE DEF size
  <2>2. QED
    BY <2>1 DEF IntOffsets
<1>2. target = IF whence = "SEEK_SET" THEN offset ELSE pos[d] + offset
  BY DEF Bytes!Target
<1>3. Word(offset) = IF offset >= 0 THEN offset ELSE offset + IntRange
  <2>1. CASE offset >= 0
    BY <1>1, <2>1 DEF Word
  <2>2. CASE offset < 0
    <3>1. offset + IntRange \in 0 .. IntRange-1
      BY <1>1, <2>2
    <3>2. offset % IntRange = offset + IntRange
      BY <1>1, <2>2, <3>1
    <3>3. QED
      BY <1>1, <2>2, <3>2 DEF Word
  <2>3. QED
    BY <1>1, <2>1, <2>2
<1>4. legal => to = target /\ to \in 0 .. size
  BY <1>1, <1>2, <1>3 DEF new_pos, Word
<1>5. ~legal => to \notin 0 .. size /\ (to < 0 => to \in {EIO, EINVARG, EUNIMP})
  BY <1>1, <1>2, <1>3 DEF new_pos, Whences, EIO, EINVARG, EUNIMP
<1>6. /\ call' = <<"seek", d, whence, offset>>
      /\ UNCHANGED <<fat, item>>
      /\ \/ /\ to \in 0 .. size
            /\ pos' = [pos EXCEPT ![d] = to]
            /\ reply' = [res |-> 0, out |-> <<>>]
         \/ /\ to \notin 0 .. size
            /\ reply' = [res |-> IF to < 0 THEN to ELSE EIO, out |-> <<>>]
            /\ UNCHANGED pos
  BY DEF fat16_seek, Answer
<1> HIDE DEF to
<1>7. CASE legal
  <2>1. pos' = [pos EXCEPT ![d] = target] /\ reply' = [res |-> 0, out |-> <<>>]
    BY <1>4, <1>6, <1>7
  <2>2. target <= [e \in Files |-> item[e].filesize][d]
    BY <1>7
  <2>3. QED
    BY <1>6, <1>7, <2>1, <2>2, SameBytes DEF Bytes!Seek, Bytes!Answer
<1>8. CASE ~legal
  <2>1. /\ pos' = pos
        /\ reply' = [res |-> IF to < 0 THEN to ELSE EIO, out |-> <<>>]
        /\ (IF to < 0 THEN to ELSE EIO) \in {-1, -2, -7}
    BY <1>5, <1>6, <1>8 DEF EIO, EINVARG, EUNIMP
  <2>2. whence \in {"SEEK_SET", "SEEK_CUR"} =>
          offset < 0 \/ target > [e \in Files |-> item[e].filesize][d]
    BY <1>1, <1>2, <1>8
  <2>3. QED
    BY <1>6, <2>1, <2>2, SameBytes DEF Bytes!SeekFails, Bytes!Answer
<1>9. QED
  BY <1>7, <1>8

-----------------------------------------------------------------------------
(* A function may be iterated any number of times.                         *)
LEMMA Iterates ==
  ASSUME NEW S, NEW a \in S, NEW step \in [S -> S]
  PROVE  \E g \in [Nat -> S] : g[0] = a /\ \A n \in Nat : g[n+1] = step[g[n]]
<1> DEFINE Up(n) == {g \in [0 .. n -> S] : g[0] = a /\ \A k \in 0 .. n-1 : g[k+1] = step[g[k]]}
<1>1. \A n \in Nat : Up(n) # {}
  <2> DEFINE Wrong == {n \in Nat : Up(n) = {}}
  <2> SUFFICES ASSUME Wrong # {} PROVE FALSE
    OBVIOUS
  <2> HIDE DEF Up
  <2>1. PICK n \in Wrong : \A m \in Wrong : n <= m
    <3>1. Wrong \in SUBSET Nat
      OBVIOUS
    <3>2. QED
      BY <3>1, Smallest
  <2>2. n \in Nat /\ Up(n) = {}
    BY <2>1
  <2>3. CASE n = 0
    <3>1. [k \in 0 .. 0 |-> a] \in Up(0)
      BY DEF Up
    <3>2. QED
      BY <2>2, <2>3, <3>1
  <2>4. CASE n # 0
    <3>1. n-1 \in Nat /\ ~(n <= n-1)
      BY <2>2, <2>4
    <3>2. PICK g : g \in Up(n-1)
      BY <2>1, <3>1
    <3>3. [k \in 0 .. n |-> IF k < n THEN g[k] ELSE step[g[n-1]]] \in Up(n)
      BY <2>2, <2>4, <3>1, <3>2 DEF Up
    <3>4. QED
      BY <2>2, <3>3
  <2>5. QED
    BY <2>3, <2>4
<1>2. ASSUME NEW n \in Nat, NEW m \in Nat, NEW g \in Up(n), NEW h \in Up(m), NEW k \in Nat,
             k <= n, k <= m
      PROVE  g[k] = h[k]
  <2> DEFINE Wrong == {i \in 0 .. k : g[i] # h[i]}
  <2> SUFFICES ASSUME Wrong # {} PROVE FALSE
    BY SMTT(60)
  <2>1. PICK i \in Wrong : \A j \in Wrong : i <= j
    <3>1. Wrong \in SUBSET Nat
      OBVIOUS
    <3>2. QED
      BY <3>1, Smallest
  <2>2. i \in 0 .. k /\ g[i] # h[i] /\ i # 0
    BY <2>1
  <2>3. i-1 \in 0 .. k /\ ~(i <= i-1)
    BY <2>2
  <2>4. g[i-1] = h[i-1]
    BY <2>1, <2>3
  <2>5. g[i] = step[g[i-1]] /\ h[i] = step[h[i-1]]
    <3>1. i-1 \in 0 .. n-1 /\ i-1 \in 0 .. m-1 /\ (i-1)+1 = i
      BY <1>2, <2>2
    <3>2. QED
      BY <3>1
  <2>6. QED
    BY <2>2, <2>4, <2>5
<1> DEFINE G(n) == CHOOSE g : g \in Up(n)
           it == [n \in Nat |-> G(n)[n]]
<1>3. ASSUME NEW n \in Nat PROVE G(n) \in Up(n)
  BY <1>1
<1>4. ASSUME NEW n \in Nat PROVE it[n] \in S /\ it[n+1] = step[it[n]]
  <2>1. n+1 \in Nat
    OBVIOUS
  <2>2. G(n) \in Up(n) /\ G(n+1) \in Up(n+1)
    <3> HIDE DEF G, Up
    <3>1. QED
      BY <1>3, <2>1
  <2> HIDE DEF G
  <2>5. G(n+1)[n] = G(n)[n]
    <3>1. n+1 \in Nat /\ n <= n /\ n <= n+1
      OBVIOUS
    <3> HIDE DEF Up
    <3>2. QED
      BY <1>2, <2>2, <3>1
  <2>3. G(n+1)[n+1] = step[G(n+1)[n]] /\ G(n)[n] \in S
    BY <2>2
  <2>4. it[n] = G(n)[n] /\ it[n+1] = G(n+1)[n+1]
    OBVIOUS
  <2>6. QED
    BY <2>3, <2>4, <2>5
<1>5. it[0] = a
  <2>1. G(0) \in Up(0)
    BY <1>3
  <2>2. QED
    BY <2>1
<1>6. it \in [Nat -> S]
  <2> HIDE DEF G
  <2>1. \A n \in Nat : G(n)[n] \in S
    BY <1>4
  <2>2. QED
    BY <2>1
<1>7. QED
  BY <1>4, <1>5, <1>6

-----------------------------------------------------------------------------
\* Two sequences that follow each other in f.
LEMMA Join ==
  ASSUME NEW S, NEW f, NEW m \in Nat, NEW k \in Nat, \A i \in 1 .. m+k : f[i] \in S
  PROVE  [i \in 1 .. m |-> f[i]] \o [i \in 1 .. k |-> f[m+i]] = [i \in 1 .. m+k |-> f[i]]
<1> DEFINE s == [i \in 1 .. m |-> f[i]]
           t == [i \in 1 .. k |-> f[m+i]]
           u == [i \in 1 .. m+k |-> f[i]]
<1>1. s \in Seq(S) /\ Len(s) = m /\ \A i \in 1 .. m : s[i] = f[i]
  OBVIOUS
<1>2. t \in Seq(S) /\ Len(t) = k /\ \A i \in 1 .. k : t[i] = f[m+i]
  <2>1. \A i \in 1 .. k : m+i \in 1 .. m+k
    OBVIOUS
  <2>2. QED
    BY <2>1
<1>3. u \in Seq(S) /\ Len(u) = m+k /\ \A i \in 1 .. m+k : u[i] = f[i]
  OBVIOUS
<1> HIDE DEF s, t, u
<1>4. /\ s \o t \in Seq(S) /\ Len(s \o t) = m + k
      /\ \A i \in 1 .. m+k : (s \o t)[i] = IF i <= m THEN s[i] ELSE t[i-m]
  BY <1>1, <1>2, ConcatProperties, ZenonT(60)
<1>5. \A i \in 1 .. m+k : (s \o t)[i] = u[i]
  <2> SUFFICES ASSUME NEW i \in 1 .. m+k PROVE (s \o t)[i] = u[i]
    OBVIOUS
  <2>1. CASE i <= m
    BY <1>1, <1>3, <1>4, <2>1
  <2>2. CASE ~(i <= m)
    <3>1. i-m \in 1 .. k /\ m + (i-m) = i
      BY <2>2
    <3>2. t[i-m] = f[i]
      BY <1>2, <3>1
    <3>3. QED
      BY <1>3, <1>4, <2>2, <3>2
  <2>3. QED
    BY <2>1, <2>2
<1>6. s \o t = u
  BY <1>3, <1>4, <1>5, SeqEqual
<1>7. QED
  BY <1>6 DEF s, t, u

\* The bytes of s between two positions, and m bytes of the disk from p on.
Part(s, from, to) == [i \in 1 .. to-from |-> s[from + i]]
Run(p, m) == [i \in 1 .. m |-> p + i-1]

LEMMA RunsJoin ==
  ASSUME NEW p \in Int, NEW m \in Nat, NEW k \in Nat
  PROVE  Run(p, m) \o Run(p + m, k) = Run(p, m + k)
<1> DEFINE f == [i \in 1 .. m+k |-> p + i-1]
<1>1. \A i \in 1 .. m+k : f[i] \in Int
  OBVIOUS
<1>2. Run(p, m) = [i \in 1 .. m |-> f[i]]
  BY DEF Run
<1>3. Run(p + m, k) = [i \in 1 .. k |-> f[m + i]]
  BY DEF Run
<1>4. Run(p, m + k) = [i \in 1 .. m+k |-> f[i]]
  BY DEF Run
<1> HIDE DEF f
<1>5. [i \in 1 .. m |-> f[i]] \o [i \in 1 .. k |-> f[m+i]] = [i \in 1 .. m+k |-> f[i]]
  BY <1>1, Join
<1>6. QED
  BY ONLY <1>2, <1>3, <1>4, <1>5

LEMMA PartsJoin ==
  ASSUME NEW S, NEW s \in Seq(S), NEW a \in Nat, NEW b \in Nat, NEW e \in Nat,
         a <= b, b <= e, e <= Len(s)
  PROVE  Part(s, a, b) \o Part(s, b, e) = Part(s, a, e)
<1> DEFINE f == [i \in 1 .. e-a |-> s[a+i]]
           m == b-a
           k == e-b
<1>1. m \in Nat /\ k \in Nat /\ m + k = e-a
  OBVIOUS
<1>2. \A i \in 1 .. m+k : f[i] \in S
  OBVIOUS
<1>3. Part(s, a, b) = [i \in 1 .. m |-> f[i]]
  BY DEF Part
<1>4. Part(s, b, e) = [i \in 1 .. k |-> f[m + i]]
  <2>1. \A i \in 1 .. k : m + i \in 1 .. e-a /\ a + (m + i) = b + i
    OBVIOUS
  <2>2. QED
    BY <2>1 DEF Part
<1>5. Part(s, a, e) = [i \in 1 .. m+k |-> f[i]]
  BY <1>1 DEF Part
<1> HIDE DEF f, m, k
<1>6. QED
  BY <1>1, <1>2, <1>3, <1>4, <1>5, Join

-----------------------------------------------------------------------------
(* The stream delivers the bytes it is asked for, in spite of the sector   *)
(* boundaries, as long as their positions are ints.                        *)
LEMMA IntIsExact ==
  ASSUME NEW x \in Nat, 2 * x < IntRange
  PROVE  Int32(x) = x
<1>1. x % IntRange = x
  BY VolumeAssumption
<1>2. QED
  BY <1>1, VolumeAssumption DEF Int32

\* The piece that one call of the stream takes.
LEMMA SectorPiece ==
  ASSUME NEW cur \in Nat, NEW rest \in Nat \ {0}
  PROVE  LET n == Least(rest, SectorSize - Rem(cur, SectorSize))
         IN  n \in 1 .. rest /\ diskstreamer_read(cur, n) = Run(cur, n)
<1> USE VolumeAssumption
<1> DEFINE m == cur % SectorSize
           n == Least(rest, SectorSize - Rem(cur, SectorSize))
<1>1. m \in 0 .. SectorSize-1
  OBVIOUS
<1>2. Rem(cur, SectorSize) = m
  BY DEF Rem
<1>3. n \in 1 .. rest /\ n <= SectorSize - m
  <2>1. SectorSize - m \in Nat \ {0}
    BY <1>1
  <2> HIDE DEF m
  <2>2. Least(rest, SectorSize - m) \in 1 .. rest /\ Least(rest, SectorSize - m) <= SectorSize - m
    BY <2>1 DEF Least
  <2>3. QED
    BY <1>2, <2>2
<1>4. ASSUME NEW i \in 1 .. n PROVE m + ((i-1) % SectorSize) < SectorSize
  <2>1. i-1 \in Nat /\ i-1 < SectorSize /\ i-1 < SectorSize - m
    BY <1>1, <1>3
  <2>2. (i-1) % SectorSize = i-1
    BY <2>1
  <2>3. QED
    BY <1>1, <2>1, <2>2
<1> HIDE DEF n
<1>5. diskstreamer_read(cur, n) = Run(cur, n)
  BY <1>4 DEF diskstreamer_read, Run
<1>6. QED
  BY <1>3, <1>5 DEF n

\* The function behind fat16_stream_read, and the equation it solves.
StreamTurn(p, total, h, done) ==
  LET cur  == Int32(p + done)
      left == SectorSize - Rem(cur, SectorSize)
      n    == Least(total - done, left)
  IN  IF done = total THEN <<>> ELSE diskstreamer_read(cur, n) \o h[done + n]

StreamRest(p, total) ==
  CHOOSE h : h = [done \in 0 .. total |-> StreamTurn(p, total, h, done)]

LEMMA StreamTurnDelivers ==
  ASSUME NEW p \in Nat, NEW total \in Nat, 2 * (p + total) <= IntRange,
         NEW h, NEW done \in 0 .. total,
         \A i \in done+1 .. total : h[i] = Run(p + i, total - i)
  PROVE  StreamTurn(p, total, h, done) = Run(p + done, total - done)
<1>1. CASE done = total
  BY <1>1 DEF StreamTurn, Run
<1>2. CASE done # total
  <2> DEFINE cur == p + done
             n == Least(total - done, SectorSize - Rem(cur, SectorSize))
  <2>1. cur \in Nat /\ total - done \in Nat \ {0} /\ Int32(cur) = cur
    <3>1. cur \in Nat /\ total - done \in Nat \ {0} /\ 2 * cur < IntRange
      BY <1>2, VolumeAssumption
    <3> HIDE DEF cur
    <3>2. QED
      BY <3>1, IntIsExact
  <2>2. n \in 1 .. total - done /\ diskstreamer_read(cur, n) = Run(cur, n)
    BY <2>1, SectorPiece
  <2>3. StreamTurn(p, total, h, done) = diskstreamer_read(cur, n) \o h[done + n]
    BY <1>2, <2>1 DEF StreamTurn
  <2> HIDE DEF n
  <2>4. h[done + n] = Run(p + (done + n), total - (done + n))
    BY <2>2
  <2>5. p + (done + n) = cur + n /\ total - (done + n) \in Nat
        /\ n + (total - (done + n)) = total - done
    BY <2>2
  <2>6. Run(cur, n) \o Run(cur + n, total - (done + n)) = Run(cur, n + (total - (done + n)))
    <3> DEFINE k == total - (done + n)
    <3>1. cur \in Int /\ n \in Nat /\ k \in Nat
      BY <2>1, <2>2, <2>5
    <3> HIDE DEF cur, k
    <3>2. Run(cur, n) \o Run(cur + n, k) = Run(cur, n + k)
      BY <3>1, RunsJoin
    <3>3. QED
      BY <3>2 DEF k
  <2>7. QED
    BY <2>2, <2>3, <2>4, <2>5, <2>6
<1>3. QED
  BY <1>1, <1>2

LEMMA StreamDelivers ==
  ASSUME NEW p \in Nat, NEW total \in Nat, 2 * (p + total) <= IntRange
  PROVE  fat16_stream_read(p, total) = Run(p, total)
<1> DEFINE h == StreamRest(p, total)
           g == [done \in 0 .. total |-> Run(p + done, total - done)]
<1>1. fat16_stream_read(p, total) = h[0]
  BY DEF fat16_stream_read, StreamRest, StreamTurn
<1>2. g = [done \in 0 .. total |-> StreamTurn(p, total, g, done)]
  <2>1. ASSUME NEW done \in 0 .. total, NEW i \in done+1 .. total
        PROVE  g[i] = Run(p + i, total - i)
    OBVIOUS
  <2> HIDE DEF g
  <2>2. \A done \in 0 .. total :
          StreamTurn(p, total, g, done) = Run(p + done, total - done)
    BY <2>1, StreamTurnDelivers, ZenonT(60)
  <2>3. QED
    BY <2>2 DEF g
<1> HIDE DEF g
<1>3. h = [done \in 0 .. total |-> StreamTurn(p, total, h, done)]
  BY <1>2 DEF StreamRest
<1> HIDE DEF h
<1> DEFINE Wrong == {k \in 0 .. total : h[total - k] # Run(p + (total - k), total - (total - k))}
<1>4. Wrong = {}
  <2> SUFFICES ASSUME Wrong # {} PROVE FALSE
    OBVIOUS
  <2>1. PICK k \in Wrong : \A j \in Wrong : k <= j
    <3>1. Wrong \in SUBSET Nat
      OBVIOUS
    <3>2. QED
      BY <3>1, Smallest
  <2>2. k \in 0 .. total /\ total - k \in 0 .. total
    BY <2>1
  <2>3. ASSUME NEW i \in (total - k)+1 .. total PROVE h[i] = Run(p + i, total - i)
    <3>1. total - i \in 0 .. total /\ ~(k <= total - i) /\ total - (total - i) = i
      BY <2>2
    <3>2. total - i \notin Wrong
      BY <2>1, <3>1
    <3>3. QED
      BY <3>1, <3>2
  <2>4. StreamTurn(p, total, h, total - k) = Run(p + (total - k), total - (total - k))
    BY <2>2, <2>3, StreamTurnDelivers
  <2>5. h[total - k] = StreamTurn(p, total, h, total - k)
    BY <1>3, <2>2
  <2>6. QED
    BY <2>1, <2>4, <2>5
<1>5. h[0] = Run(p, total)
  <2>1. total \in 0 .. total /\ total - total = 0 /\ total - 0 = total /\ p + 0 = p
    OBVIOUS
  <2>2. total \notin Wrong
    BY <1>4
  <2>3. QED
    BY <2>1, <2>2
<1>6. QED
  BY <1>1, <1>5

-----------------------------------------------------------------------------
(* The clusters of a chain.                                                *)

\* The function behind fat16_get_cluster_for_offset.
Links(f, start) ==
  CHOOSE g : g = [k \in Nat |->
    IF k = 0 THEN start
    ELSE LET c == g[k-1] IN IF c = EIO \/ EndsChain(f[c]) THEN EIO ELSE f[c]]

LEMMA ClusterIsLink ==
  ASSUME NEW f, NEW start, NEW offset \in Nat
  PROVE  fat16_get_cluster_for_offset(f, start, offset)
           = Links(f, start)[offset \div ClusterSize]
BY DEF fat16_get_cluster_for_offset, Links

LEMMA LinksFollow ==
  ASSUME NEW f, SoundFat(f), NEW start \in DOMAIN f
  PROVE  /\ Links(f, start) \in [Nat -> DOMAIN f \cup {EIO}]
         /\ Links(f, start)[0] = start
         /\ \A k \in Nat : Links(f, start)[k+1] =
              IF Links(f, start)[k] = EIO \/ EndsChain(f[Links(f, start)[k]])
              THEN EIO ELSE f[Links(f, start)[k]]
<1> DEFINE S == DOMAIN f \cup {EIO}
           step == [c \in S |-> IF c = EIO \/ EndsChain(f[c]) THEN EIO ELSE f[c]]
           L == Links(f, start)
<1>1. step \in [S -> S]
  BY DEF SoundFat
<1>2. PICK g \in [Nat -> S] : g[0] = start /\ \A n \in Nat : g[n+1] = step[g[n]]
  <2>1. start \in S
    OBVIOUS
  <2> HIDE DEF S, step
  <2>2. QED
    BY <1>1, <2>1, Iterates, SMTT(60)
<1>3. g = [k \in Nat |->
             IF k = 0 THEN start
             ELSE LET c == g[k-1] IN IF c = EIO \/ EndsChain(f[c]) THEN EIO ELSE f[c]]
  <2>1. ASSUME NEW k \in Nat, k # 0
        PROVE  g[k] = LET c == g[k-1] IN IF c = EIO \/ EndsChain(f[c]) THEN EIO ELSE f[c]
    <3>1. k-1 \in Nat /\ (k-1)+1 = k
      BY <2>1
    <3>2. g[k] = step[g[k-1]] /\ g[k-1] \in S
      BY <1>2, <3>1
    <3> HIDE DEF S
    <3>3. QED
      BY <3>2
  <2>2. QED
    BY <1>2, <2>1
<1>4. L = [k \in Nat |->
             IF k = 0 THEN start
             ELSE LET c == L[k-1] IN IF c = EIO \/ EndsChain(f[c]) THEN EIO ELSE f[c]]
  BY <1>3, ZenonT(60) DEF Links
<1> HIDE DEF L
<1>5. \A k \in Nat : L[k+1] = IF L[k] = EIO \/ EndsChain(f[L[k]]) THEN EIO ELSE f[L[k]]
  <2> SUFFICES ASSUME NEW k \in Nat
               PROVE  L[k+1] = IF L[k] = EIO \/ EndsChain(f[L[k]]) THEN EIO ELSE f[L[k]]
    OBVIOUS
  <2>1. k+1 \in Nat /\ k+1 # 0 /\ (k+1)-1 = k
    OBVIOUS
  <2>2. QED
    BY <1>4, <2>1
<1>6. L[0] = start
  BY <1>4
<1>7. \A k \in Nat : L[k] \in S
  <2> DEFINE Wrong == {k \in Nat : L[k] \notin S}
  <2> SUFFICES ASSUME Wrong # {} PROVE FALSE
    OBVIOUS
  <2>1. PICK k \in Wrong : \A j \in Wrong : k <= j
    <3>1. Wrong \in SUBSET Nat
      OBVIOUS
    <3>2. QED
      BY <3>1, Smallest
  <2>2. k \in Nat /\ k # 0
    BY <1>6, <2>1
  <2>3. k-1 \in Nat /\ ~(k <= k-1) /\ (k-1)+1 = k
    BY <2>2
  <2>4. L[k-1] \in S
    BY <2>1, <2>3
  <2>5. L[k] = IF L[k-1] = EIO \/ EndsChain(f[L[k-1]]) THEN EIO ELSE f[L[k-1]]
    BY <1>5, <2>3
  <2>6. QED
    BY <2>1, <2>4, <2>5 DEF SoundFat
<1>8. QED
  <2>1. L \in [Nat -> S]
    <3> HIDE DEF S
    <3>1. QED
      BY <1>4, <1>7
  <2>2. QED
    BY <1>5, <1>6, <2>1 DEF L

\* Behind the end of the chain there is no cluster.
LEMMA LinksEnd ==
  ASSUME NEW f, SoundFat(f), NEW start \in DOMAIN f,
         NEW n \in Nat, Links(f, start)[n] = EIO, NEW k \in Nat, n <= k
  PROVE  Links(f, start)[k] = EIO
<1> DEFINE L == Links(f, start)
           Wrong == {j \in Nat : n <= j /\ L[j] # EIO}
<1> SUFFICES ASSUME Wrong # {} PROVE FALSE
  OBVIOUS
<1>1. PICK j \in Wrong : \A i \in Wrong : j <= i
  <2>1. Wrong \in SUBSET Nat
    OBVIOUS
  <2>2. QED
    BY <2>1, Smallest
<1>2. j \in Nat /\ n <= j /\ j # n
  BY <1>1
<1>3. j-1 \in Nat /\ n <= j-1 /\ ~(j <= j-1) /\ (j-1)+1 = j
  BY <1>2
<1>4. L[j-1] = EIO
  BY <1>1, <1>3
<1>5. L[j] = EIO
  BY <1>3, <1>4, LinksFollow
<1>6. QED
  BY <1>1, <1>5

LEMMA ClusterSizeType == ClusterSize \in Nat \ {0}
BY VolumeAssumption DEF ClusterSize

\* The clusters that the bytes of a file need.
Needs(filesize) == (filesize + ClusterSize - 1) \div ClusterSize

LEMMA NeedsEnough ==
  ASSUME NEW filesize \in Nat, NEW n \in Nat
  PROVE  /\ Needs(filesize) \in Nat
         /\ n = Needs(filesize) => filesize <= n * ClusterSize
         /\ n < Needs(filesize) => n * ClusterSize < filesize
<1> DEFINE x == filesize + ClusterSize - 1
           q == x \div ClusterSize
           r == x % ClusterSize
<1>1. x \in Nat
  BY ClusterSizeType
<1>2. q \in Nat /\ r \in 0 .. ClusterSize-1 /\ x = ClusterSize * q + r
  <2> HIDE DEF x
  <2>1. QED
    BY <1>1, ClusterSizeType
<1> HIDE DEF q, r
<1>3. n = q => filesize <= n * ClusterSize
  BY <1>2, ClusterSizeType
<1>4. n < q => n * ClusterSize < filesize
  <2> SUFFICES ASSUME n < q PROVE n * ClusterSize < filesize
    OBVIOUS
  <2>1. PICK e \in Nat : q = n + 1 + e
    <3>1. q - n - 1 \in Nat /\ q = n + 1 + (q - n - 1)
      BY <1>2
    <3>2. QED
      BY <3>1
  <2>2. ClusterSize * q = n * ClusterSize + ClusterSize + ClusterSize * e
    BY <2>1, ClusterSizeType
  <2>3. ClusterSize * e >= 0
    BY <2>1, ClusterSizeType
  <2>4. QED
    BY <1>2, <2>2, <2>3, ClusterSizeType
<1>5. QED
  BY <1>2, <1>3, <1>4 DEF Needs, q

Chains(f, first, n) == {c \in [1 .. n -> DOMAIN f] : IsChain(f, c, first)}

\* The clusters of a chain are the links one after the other.
LEMMA ChainIsLinks ==
  ASSUME NEW f, SoundFat(f), NEW first \in DOMAIN f,
         NEW n \in Nat \ {0}, NEW c \in Chains(f, first, n)
  PROVE  \A k \in 1 .. n : c[k] = Links(f, first)[k-1]
<1> DEFINE L == Links(f, first)
           Wrong == {k \in 1 .. n : c[k] # L[k-1]}
<1> SUFFICES ASSUME Wrong # {} PROVE FALSE
  OBVIOUS
<1>1. PICK k \in Wrong : \A j \in Wrong : k <= j
  <2>1. Wrong \in SUBSET Nat
    OBVIOUS
  <2>2. QED
    BY <2>1, Smallest
<1>2. /\ c \in [1 .. n -> DOMAIN f] /\ Len(c) = n /\ c[1] = first
      /\ \A i \in 1 .. n-1 : ~EndsChain(f[c[i]]) /\ c[i+1] = f[c[i]]
  <2>1. c \in [1 .. n -> DOMAIN f] /\ IsChain(f, c, first)
    BY DEF Chains
  <2>2. Len(c) = n
    BY <2>1
  <2>3. QED
    BY <2>1, <2>2 DEF IsChain
<1>3. k \in 1 .. n /\ k # 1 /\ c[k] # L[k-1]
  BY <1>1, <1>2, LinksFollow, SMTT(60)
<1>4. k-1 \in 1 .. n-1 /\ ~(k <= k-1) /\ (k-1)+1 = k /\ (k-1)-1 \in Nat /\ ((k-1)-1)+1 = k-1
  BY <1>3
<1>5. c[k-1] = L[(k-1)-1] /\ c[k-1] \in DOMAIN f
  <2>1. k-1 \in 1 .. n
    BY <1>4
  <2>2. k-1 \notin Wrong
    BY <1>1, <1>4
  <2>3. QED
    BY <1>2, <2>1, <2>2
<1>6. c[k] = f[c[k-1]] /\ ~EndsChain(f[c[k-1]])
  BY <1>2, <1>4
<1>7. c[k-1] # EIO
  BY <1>5 DEF SoundFat, EIO
<1>8. L[k-1] = IF L[(k-1)-1] = EIO \/ EndsChain(f[L[(k-1)-1]]) THEN EIO ELSE f[L[(k-1)-1]]
  BY <1>4, LinksFollow
<1>9. QED
  BY <1>3, <1>5, <1>6, <1>7, <1>8

\* The chain of a file has as many clusters as its bytes need, or it ends.
ChainEnds(f, it, n) ==
  /\ n \in Nat /\ n <= Needs(it.filesize)
  /\ ChainOf(f, it) \in [1 .. n -> DOMAIN f] /\ Len(ChainOf(f, it)) = n
  /\ \A k \in 1 .. n : ChainOf(f, it)[k] = Links(f, it.first)[k-1]
  /\ n < Needs(it.filesize) => Links(f, it.first)[n] = EIO

LEMMA ChainFollows ==
  ASSUME NEW f, SoundFat(f), NEW it, it.first \in DOMAIN f, it.filesize \in Nat
  PROVE  \E n \in Nat : ChainEnds(f, it, n)
<1> DEFINE need == Needs(it.filesize)
           first == it.first
           L == Links(f, first)
           ends(m) == (m > 0 => Chains(f, first, m) # {})
                      /\ (m < need => Chains(f, first, m+1) = {})
           n == CHOOSE m \in 0 .. need : ends(m)
<1>1. need \in Nat
  BY NeedsEnough
<1> HIDE DEF need
<1>2. \E m \in 0 .. need : ends(m)
  <2> DEFINE M == {m \in 0 .. need : m = need \/ Chains(f, first, m+1) = {}}
  <2>1. PICK m \in M : \A j \in M : m <= j
    <3>1. M \in SUBSET Nat /\ need \in M
      BY <1>1
    <3>2. QED
      BY <3>1, Smallest
  <2>2. m > 0 => Chains(f, first, m) # {}
    <3> SUFFICES ASSUME m > 0 PROVE Chains(f, first, m) # {}
      OBVIOUS
    <3>1. m-1 \in 0 .. need /\ ~(m <= m-1) /\ (m-1)+1 = m
      BY <1>1, <2>1
    <3>2. m-1 \notin M
      BY <2>1, <3>1
    <3>3. QED
      BY <3>1, <3>2
  <2>3. QED
    BY <1>1, <2>1, <2>2
<1>3. n \in 0 .. need /\ ends(n)
  <2> HIDE DEF ends
  <2>1. QED
    BY <1>2
<1>4. ChainOf(f, it) = IF n = 0 THEN <<>> ELSE CHOOSE c \in Chains(f, first, n) : TRUE
  BY DEF ChainOf, Chains, Needs, need
<1> HIDE DEF n
<1>5. CASE n = 0
  <2>1. need = 0
    <3> SUFFICES ASSUME need # 0 PROVE FALSE
      OBVIOUS
    <3>1. Chains(f, first, 1) = {}
      BY <1>1, <1>3, <1>5
    <3>2. [k \in 1 .. 1 |-> first] \in Chains(f, first, 1)
      BY DEF Chains, IsChain
    <3>3. QED
      BY <3>1, <3>2
  <2>2. ChainOf(f, it) = <<>> /\ <<>> \in [1 .. 0 -> DOMAIN f] /\ Len(<<>>) = 0
    BY <1>4, <1>5
  <2>3. ChainEnds(f, it, 0)
    BY <2>1, <2>2 DEF ChainEnds, need
  <2>4. QED
    BY <2>3
<1>6. CASE n # 0
  <2> DEFINE c == CHOOSE c \in Chains(f, first, n) : TRUE
  <2>1. n \in Nat \ {0} /\ c \in Chains(f, first, n) /\ ChainOf(f, it) = c
    BY <1>1, <1>3, <1>4, <1>6
  <2> HIDE DEF c
  <2>2. /\ c \in [1 .. n -> DOMAIN f] /\ Len(c) = n /\ c[1] = first
        /\ \A i \in 1 .. n-1 : ~EndsChain(f[c[i]]) /\ c[i+1] = f[c[i]]
    BY <2>1 DEF Chains, IsChain
  <2>3. \A k \in 1 .. n : c[k] = L[k-1]
    BY <2>1, ChainIsLinks
  <2>4. n < need => L[n] = EIO
    <3> SUFFICES ASSUME n < need, L[n] # EIO PROVE FALSE
      OBVIOUS
    <3>1. n-1 \in Nat /\ (n-1)+1 = n /\ n \in 1 .. n
      BY <2>1
    <3>2. c[n] = L[n-1] /\ c[n] \in DOMAIN f
      BY <2>2, <2>3, <3>1
    <3>3. L[n] = IF L[n-1] = EIO \/ EndsChain(f[L[n-1]]) THEN EIO ELSE f[L[n-1]]
      BY <3>1, LinksFollow
    <3>4. ~EndsChain(f[c[n]]) /\ f[c[n]] \in DOMAIN f
      BY <3>2, <3>3 DEF SoundFat
    <3> DEFINE more == [k \in 1 .. n+1 |-> IF k <= n THEN c[k] ELSE f[c[n]]]
    <3>5. more \in Chains(f, first, n+1)
      <4>1. more \in [1 .. n+1 -> DOMAIN f] /\ Len(more) = n+1
        BY <2>1, <2>2, <3>4
      <4>2. more[1] = first
        BY <2>1, <2>2
      <4>3. \A i \in 1 .. n : ~EndsChain(f[more[i]]) /\ more[i+1] = f[more[i]]
        <5> SUFFICES ASSUME NEW i \in 1 .. n
                     PROVE  ~EndsChain(f[more[i]]) /\ more[i+1] = f[more[i]]
          OBVIOUS
        <5>1. CASE i = n
          BY <2>1, <3>4, <5>1
        <5>2. CASE i # n
          <6>1. i \in 1 .. n-1 /\ i+1 <= n /\ i+1 \in 1 .. n+1 /\ i \in 1 .. n+1 /\ i <= n
            BY <2>1, <5>2
          <6>2. more[i] = c[i] /\ more[i+1] = c[i+1]
            BY <6>1
          <6>3. QED
            BY <2>2, <6>1, <6>2
        <5>3. QED
          BY <5>1, <5>2
      <4> HIDE DEF more
      <4>4. (n+1)-1 = n
        BY <2>1
      <4>5. IsChain(f, more, first)
        BY <4>1, <4>2, <4>3, <4>4 DEF IsChain
      <4>6. QED
        BY <4>1, <4>5 DEF Chains
    <3>6. QED
      BY <1>3, <3>5
  <2>5. ChainEnds(f, it, n)
    BY <1>3, <2>1, <2>2, <2>3, <2>4 DEF ChainEnds, need
  <2>6. QED
    BY <2>1, <2>5
<1>7. QED
  BY <1>5, <1>6

-----------------------------------------------------------------------------
(* The pieces in which fat16_read_internal reads: one per cluster.         *)
LEMMA DivMod ==
  ASSUME NEW m \in Nat \ {0}, NEW q \in Nat, NEW r \in 0 .. m-1
  PROVE  (q * m + r) \div m = q /\ (q * m + r) % m = r
<1> DEFINE a == q * m + r
           e == a \div m
           o == a % m
<1>1. a \in Nat
  OBVIOUS
<1>2. e \in Int /\ o \in 0 .. m-1 /\ a = m * e + o
  BY <1>1
<1> HIDE DEF e, o
<1>3. m * (q - e) = o - r
  BY <1>2
<1>4. q = e
  <2>1. CASE q > e
    <3>1. m * (q - e) >= m
      BY <2>1, <1>2
    <3>2. QED
      BY <3>1, <1>3, <1>2
  <2>2. CASE q < e
    <3>1. m * (q - e) <= -m
      BY <2>2, <1>2
    <3>2. QED
      BY <3>1, <1>3, <1>2
  <2>3. QED
    BY <2>1, <2>2, <1>2
<1>5. o = r
  BY <1>3, <1>4, <1>2
<1>6. QED
  BY <1>4, <1>5 DEF e, o

\* Where an offset of the file lies: the number of its cluster, and in it.
LEMMA InCluster ==
  ASSUME NEW x \in Nat
  PROVE  /\ x \div ClusterSize \in Nat /\ x % ClusterSize \in 0 .. ClusterSize-1
         /\ x = (x \div ClusterSize) * ClusterSize + (x % ClusterSize)
         /\ \A j \in 0 .. ClusterSize-1 - (x % ClusterSize) :
              /\ (x + j) \div ClusterSize = x \div ClusterSize
              /\ (x + j) % ClusterSize = (x % ClusterSize) + j
<1> DEFINE q == x \div ClusterSize
           r == x % ClusterSize
<1>1. q \in Nat /\ r \in 0 .. ClusterSize-1 /\ x = q * ClusterSize + r
  BY ClusterSizeType
<1> HIDE DEF q, r
<1>2. ASSUME NEW j \in 0 .. ClusterSize-1 - r
      PROVE  (x + j) \div ClusterSize = q /\ (x + j) % ClusterSize = r + j
  <2>1. r + j \in 0 .. ClusterSize-1 /\ x + j = q * ClusterSize + (r + j)
    BY <1>1, ClusterSizeType
  <2>2. QED
    BY <1>1, <2>1, ClusterSizeType, DivMod
<1>3. QED
  BY <1>1, <1>2 DEF q, r

\* The position of the first byte of a cluster.
Start(c) == (DataSector + (c-2) * SectorsPerCluster) * SectorSize

LEMMA StartIsInt ==
  ASSUME NEW f, SoundFat(f), NEW c \in DOMAIN f
  PROVE  Start(c) \in Nat /\ 2 * (Start(c) + ClusterSize) <= IntRange
<1> USE VolumeAssumption
<1>1. c \in Nat
  BY DEF SoundFat
<1>2. (c-2) * SectorsPerCluster \in Int 
      /\ (c-1) * SectorsPerCluster = (c-2) * SectorsPerCluster + SectorsPerCluster
  BY <1>1
<1> DEFINE x == DataSector + (c-2) * SectorsPerCluster
<1>3. x \in Nat /\ DataSector + (c-1) * SectorsPerCluster = x + SectorsPerCluster
  <2>1. 0 <= x
    BY DEF SoundFat
  <2> DEFINE y == (c-2) * SectorsPerCluster
  <2>2. y \in Int /\ (c-1) * SectorsPerCluster = y + SectorsPerCluster /\ x = DataSector + y
    BY <1>2
  <2> HIDE DEF y, x
  <2>3. QED
    BY <2>1, <2>2
<1> HIDE DEF x
<1>4. x * SectorSize \in Nat
        /\ (x + SectorsPerCluster) * SectorSize = x * SectorSize + SectorsPerCluster * SectorSize
  BY <1>3
<1>5. 2 * ((DataSector + (c-1) * SectorsPerCluster) * SectorSize) <= IntRange
  BY DEF SoundFat
<1>6. QED
  BY <1>3, <1>4, <1>5 DEF Start, ClusterSize, x

\* The bytes of a file, cluster by cluster.
LEMMA ContentIs ==
  ASSUME NEW f, SoundFat(f), NEW it, it.first \in DOMAIN f, it.filesize \in Nat,
         NEW n \in Nat, ChainEnds(f, it, n)
  PROVE  /\ Len(BytesOf(f, it)) = Least(it.filesize, n * ClusterSize)
         /\ BytesOf(f, it) \in Seq(Int)
         /\ \A i \in 1 .. Least(it.filesize, n * ClusterSize) :
              BytesOf(f, it)[i] = Start(Links(f, it.first)[(i-1) \div ClusterSize])
                                  + ((i-1) % ClusterSize)
<1> DEFINE T == Least(it.filesize, n * ClusterSize)
           c == ChainOf(f, it)
           B == [i \in 1 .. T |-> Start(c[((i-1) \div ClusterSize) + 1]) + ((i-1) % ClusterSize)]
<1>1. n * ClusterSize \in Nat
  BY ClusterSizeType
<1>2. T \in Nat /\ T <= n * ClusterSize
  BY <1>1 DEF Least
<1>3. Len(c) = n /\ c \in [1 .. n -> DOMAIN f]
      /\ \A k \in 1 .. n : c[k] = Links(f, it.first)[k-1]
  BY DEF ChainEnds
<1>4. BytesOf(f, it) = B
  BY <1>3 DEF BytesOf, Start
<1> HIDE DEF T, c
<1>5. ASSUME NEW i \in 1 .. T
      PROVE  /\ Start(c[((i-1) \div ClusterSize) + 1]) + ((i-1) % ClusterSize) \in Int
             /\ c[((i-1) \div ClusterSize) + 1] = Links(f, it.first)[(i-1) \div ClusterSize]
  <2> DEFINE q == (i-1) \div ClusterSize
             r == (i-1) % ClusterSize
  <2>1. i-1 \in Nat /\ i-1 < n * ClusterSize
    BY <1>1, <1>2
  <2>2. q \in Nat /\ r \in 0 .. ClusterSize-1 /\ i-1 = q * ClusterSize + r
    BY <2>1, InCluster
  <2> HIDE DEF q, r
  <2>3. q < n
    <3> SUFFICES ASSUME q >= n PROVE FALSE
      BY <2>2
    <3>1. q * ClusterSize >= n * ClusterSize
      BY <2>2, ClusterSizeType
    <3>2. QED
      BY <1>1, <2>1, <2>2, <3>1, ClusterSizeType
  <2>4. q+1 \in 1 .. n /\ (q+1)-1 = q
    BY <2>2, <2>3
  <2>5. c[q+1] \in DOMAIN f /\ c[q+1] = Links(f, it.first)[q]
    BY <1>3, <2>4
  <2>6. Start(c[q+1]) \in Nat
    BY <2>5, StartIsInt
  <2>7. Start(c[q+1]) + r \in Int
    BY <2>2, <2>6, ClusterSizeType
  <2>8. QED
    BY <2>5, <2>7 DEF q, r
<1>6. B \in Seq(Int) /\ Len(B) = T
  BY <1>2, <1>5
<1>7. \A i \in 1 .. T :
        B[i] = Start(Links(f, it.first)[(i-1) \div ClusterSize]) + ((i-1) % ClusterSize)
  BY <1>5
<1> HIDE DEF B
<1>8. QED
  BY <1>4, <1>6, <1>7 DEF T

\* A piece in front of the end of the content is read from the disk...
LEMMA PieceInside ==
  ASSUME NEW f, SoundFat(f), NEW it, it.first \in DOMAIN f, it.filesize \in Nat,
         NEW n \in Nat, ChainEnds(f, it, n),
         NEW x \in Nat, x < Len(BytesOf(f, it)),
         NEW rest \in Nat \ {0}, x + rest <= it.filesize
  PROVE  LET cut == Least(rest, ClusterSize - Rem(x, ClusterSize))
             c   == fat16_get_cluster_for_offset(f, it.first, x)
         IN  /\ cut \in 1 .. rest /\ x + cut <= Len(BytesOf(f, it))
             /\ c # EIO
             /\ fat16_stream_read(starting_pos(c, x), cut) = Part(BytesOf(f, it), x, x + cut)
<1> DEFINE cut == Least(rest, ClusterSize - Rem(x, ClusterSize))
           c == fat16_get_cluster_for_offset(f, it.first, x)
           s == BytesOf(f, it)
           L == Links(f, it.first)
           q == x \div ClusterSize
           r == x % ClusterSize
           T == Least(it.filesize, n * ClusterSize)
<1>1. /\ Len(s) = T
      /\ \A i \in 1 .. T : s[i] = Start(L[(i-1) \div ClusterSize]) + ((i-1) % ClusterSize)
  BY ContentIs, ZenonT(60)
<1>2. n * ClusterSize \in Nat /\ T <= n * ClusterSize /\ T \in Nat /\ T <= it.filesize
      /\ T \in {it.filesize, n * ClusterSize}
  BY ClusterSizeType DEF Least
<1>3. /\ q \in Nat /\ r \in 0 .. ClusterSize-1 /\ x = q * ClusterSize + r
      /\ \A j \in 0 .. ClusterSize-1 - r :
           (x + j) \div ClusterSize = q /\ (x + j) % ClusterSize = r + j
  BY InCluster
<1>4. c = L[q]
  BY ClusterIsLink
<1>5. Rem(x, ClusterSize) = r
  BY DEF Rem
<1>6. cut \in 1 .. rest /\ cut <= ClusterSize - r
  <2>1. ClusterSize - r \in Nat \ {0}
    BY <1>3, ClusterSizeType
  <2> HIDE DEF r
  <2>2. Least(rest, ClusterSize - r) \in 1 .. rest /\ Least(rest, ClusterSize - r) <= ClusterSize - r
    BY <2>1 DEF Least
  <2>3. QED
    BY <1>5, <2>2
<1> HIDE DEF cut, s, T, q, r, L
<1>7. q+1 \in 1 .. n /\ (q+1) * ClusterSize <= n * ClusterSize
  <2>1. q < n
    <3> SUFFICES ASSUME q >= n PROVE FALSE
      BY <1>3
    <3>1. q * ClusterSize >= n * ClusterSize
      BY <1>3, ClusterSizeType
    <3>2. x < n * ClusterSize
      BY <1>1, <1>2 DEF s
    <3>3. QED
      BY <1>2, <1>3, <3>1, <3>2, ClusterSizeType
  <2>2. n - (q+1) \in Nat
    BY <1>3, <2>1
  <2>3. (n - (q+1)) * ClusterSize >= 0
    BY <2>2, ClusterSizeType
  <2>4. n * ClusterSize = (q+1) * ClusterSize + (n - (q+1)) * ClusterSize
    BY <1>3, ClusterSizeType
  <2>5. QED
    BY <1>3, <2>1, <2>3, <2>4, ClusterSizeType
<1>8. x + cut <= T
  <2>1. (q+1) * ClusterSize = q * ClusterSize + ClusterSize /\ q * ClusterSize \in Nat
    BY <1>3, ClusterSizeType
  <2>2. x + cut <= (q+1) * ClusterSize
    BY <1>3, <1>6, <2>1, ClusterSizeType
  <2>3. x + cut <= n * ClusterSize /\ x + cut <= it.filesize
    <3>1. (q+1) * ClusterSize \in Nat
      BY <1>3, <2>1, ClusterSizeType
    <3>2. QED
      BY <1>2, <1>6, <1>7, <2>2, <3>1
  <2>4. QED
    BY <1>2, <2>3
<1>9. L[q] \in DOMAIN f /\ L[q] # EIO
  <2>1. L[(q+1)-1] = ChainOf(f, it)[q+1] /\ ChainOf(f, it)[q+1] \in DOMAIN f /\ (q+1)-1 = q
    BY <1>3, <1>7, SMTT(60) DEF ChainEnds, L
  <2>2. QED
    BY <2>1 DEF SoundFat, EIO
<1> DEFINE p == Start(L[q]) + r
<1>10. p \in Nat /\ 2 * (p + cut) <= IntRange /\ 2 * p < IntRange
  <2>1. Start(L[q]) \in Nat /\ 2 * (Start(L[q]) + ClusterSize) <= IntRange
    BY <1>9, StartIsInt
  <2>2. r \in Nat /\ cut \in Nat /\ cut >= 1 /\ r + cut <= ClusterSize
    BY <1>3, <1>6, ClusterSizeType
  <2> DEFINE k == Start(L[q])
  <2> HIDE DEF k
  <2>3. k + r \in Nat /\ 2 * ((k + r) + cut) <= IntRange /\ 2 * (k + r) < IntRange
    BY <2>1, <2>2, ClusterSizeType, VolumeAssumption, SMTT(60) DEF k
  <2>4. QED
    BY <2>3 DEF k
<1>11. starting_pos(L[q], x) = p
  <2>1. starting_pos(L[q], x) = Int32(p)
    BY <1>5 DEF starting_pos, Start
  <2> HIDE DEF p
  <2>2. QED
    BY <1>10, <2>1, IntIsExact
<1>12. Part(s, x, x + cut) = Run(p, cut)
  <2>1. ASSUME NEW i \in 1 .. cut PROVE s[x + i] = p + i-1
    <3>1. x + i \in 1 .. T /\ (x + i)-1 = x + (i-1) /\ i-1 \in 0 .. ClusterSize-1 - r
      BY <1>2, <1>3, <1>6, <1>8, ClusterSizeType
    <3>2. s[x + i] = Start(L[(x + (i-1)) \div ClusterSize]) + ((x + (i-1)) % ClusterSize)
      BY <1>1, <3>1
    <3>3. s[x + i] = Start(L[q]) + (r + (i-1))
      BY <1>3, <3>1, <3>2
    <3>4. Start(L[q]) \in Nat
      BY <1>9, StartIsInt
    <3>5. QED
      BY <1>3, <3>3, <3>4, ClusterSizeType
  <2>2. (x + cut) - x = cut
    BY <1>6
  <2> HIDE DEF p
  <2>3. QED
    BY <2>1, <2>2 DEF Part, Run
<1>13. fat16_stream_read(p, cut) = Run(p, cut)
  <2>1. cut \in Nat
    BY <1>6
  <2> HIDE DEF p
  <2>2. QED
    BY <1>10, <2>1, StreamDelivers
<1>14. /\ cut \in 1 .. rest /\ x + cut <= Len(s) /\ c # EIO
       /\ fat16_stream_read(starting_pos(c, x), cut) = Part(s, x, x + cut)
  BY <1>1, <1>4, <1>6, <1>8, <1>9, <1>11, <1>12, <1>13
<1>15. QED
  BY <1>14 DEF cut, s

\* ... and behind it there is no cluster.
LEMMA NoPieceBehind ==
  ASSUME NEW f, SoundFat(f), NEW it, it.first \in DOMAIN f, it.filesize \in Nat,
         NEW n \in Nat, ChainEnds(f, it, n),
         NEW x \in Nat, x >= Len(BytesOf(f, it)), x < it.filesize
  PROVE  fat16_get_cluster_for_offset(f, it.first, x) = EIO
<1> DEFINE L == Links(f, it.first)
           q == x \div ClusterSize
           r == x % ClusterSize
<1>1. Len(BytesOf(f, it)) = Least(it.filesize, n * ClusterSize)
  BY ContentIs
<1>2. n * ClusterSize \in Nat /\ n * ClusterSize <= x
  <2>1. n * ClusterSize \in Nat
    BY ClusterSizeType
  <2>2. QED
    BY <1>1, <2>1 DEF Least
<1>3. L[n] = EIO
  <2>1. n * ClusterSize < it.filesize
    BY <1>2
  <2>2. /\ Needs(it.filesize) \in Nat /\ n <= Needs(it.filesize)
        /\ n # Needs(it.filesize)
    BY <1>2, <2>1, NeedsEnough DEF ChainEnds
  <2>3. QED
    BY <2>2 DEF ChainEnds
<1>4. q \in Nat /\ r \in 0 .. ClusterSize-1 /\ x = q * ClusterSize + r
  BY InCluster
<1> HIDE DEF q, r
<1>5. n <= q
  <2> SUFFICES ASSUME q < n PROVE FALSE
    BY <1>4
  <2>1. n - (q+1) \in Nat
    BY <1>4
  <2>2. (n - (q+1)) * ClusterSize >= 0
    BY <2>1, ClusterSizeType
  <2>3. n * ClusterSize = q * ClusterSize + ClusterSize + (n - (q+1)) * ClusterSize
    BY <1>4, ClusterSizeType
  <2>4. QED
    BY <1>2, <1>4, <2>2, <2>3, ClusterSizeType
<1>6. L[q] = EIO
  BY <1>3, <1>4, <1>5, LinksEnd
<1>7. QED
  BY <1>6, ClusterIsLink DEF q

-----------------------------------------------------------------------------
(* fat16_read_internal delivers the bytes of the file from the offset on,  *)
(* or those that the volume has, and an error.                             *)

\* The function behind fat16_read_internal, and the equation it solves.
ReadTurn(f, start, offset, total, h, done) ==
  LET at == Int32(offset + done)
      c  == fat16_get_cluster_for_offset(f, start, at)
      n  == Least(total - done, ClusterSize - Rem(at, ClusterSize))
      r  == h[done + n]
  IN  IF done = total THEN [res |-> 0, out |-> <<>>]
      ELSE IF c = EIO THEN [res |-> EIO, out |-> <<>>]
      ELSE [res |-> r.res, out |-> fat16_stream_read(starting_pos(c, at), n) \o r.out]

ReadRest(f, start, offset, total) ==
  CHOOSE h : h = [done \in 0 .. total |-> ReadTurn(f, start, offset, total, h, done)]

\* What is left to deliver when done bytes have been read.
Promised(s, offset, total, done) ==
  IF done = total \/ offset + total <= Len(s)
  THEN [res |-> 0, out |-> Part(s, offset + done, offset + total)]
  ELSE [res |-> EIO, out |-> Part(s, offset + done, Len(s))]

PromisedFrom(h, s, offset, total, done) ==
  \A i \in done .. total : h[i] = Promised(s, offset, total, i)

LEMMA ReadTurnDelivers ==
  ASSUME NEW f, SoundFat(f), NEW it, it.first \in DOMAIN f, it.filesize \in Nat,
         2 * it.filesize < IntRange, NEW n \in Nat, ChainEnds(f, it, n),
         NEW offset \in Nat, NEW total \in Nat, offset + total <= it.filesize,
         NEW h, NEW done \in 0 .. total,
         PromisedFrom(h, BytesOf(f, it), offset, total, done+1)
  PROVE  ReadTurn(f, it.first, offset, total, h, done)
           = Promised(BytesOf(f, it), offset, total, done)
<1> DEFINE s == BytesOf(f, it)
           x == offset + done
           turn == ReadTurn(f, it.first, offset, total, h, done)
<1>1. s \in Seq(Int) /\ Len(s) \in Nat
  BY ContentIs
<1>2. CASE done = total
  <2>1. Part(s, offset + done, offset + total) = <<>>
    BY <1>2 DEF Part
  <2>2. QED
    BY <1>2, <2>1 DEF ReadTurn, Promised
<1>3. CASE done # total
  <2> DEFINE rest == total - done
             cut == Least(rest, ClusterSize - Rem(x, ClusterSize))
             c == fat16_get_cluster_for_offset(f, it.first, x)
  <2>1. x \in Nat /\ rest \in Nat \ {0} /\ x + rest = offset + total /\ x < it.filesize
    BY <1>3
  <2>2. Int32(x) = x
    <3>1. 2 * x < IntRange
      BY <2>1, VolumeAssumption
    <3> HIDE DEF x
    <3>2. QED
      BY <2>1, <3>1, IntIsExact
  <2>3. turn = IF c = EIO THEN [res |-> EIO, out |-> <<>>]
               ELSE [res |-> h[done + cut].res,
                     out |-> fat16_stream_read(starting_pos(c, x), cut) \o h[done + cut].out]
    BY <1>3, <2>2 DEF ReadTurn
  <2> HIDE DEF turn
  <2>4. CASE x < Len(s)
    <3>1. /\ cut \in 1 .. rest /\ x + cut <= Len(s) /\ c # EIO
          /\ fat16_stream_read(starting_pos(c, x), cut) = Part(s, x, x + cut)
      <4> HIDE DEF x, rest
      <4>1. x + rest <= it.filesize
        BY <2>1
      <4>2. QED
        BY <2>1, <2>4, <4>1, PieceInside
    <3> HIDE DEF cut, c, s
    <3>2. done + cut \in done+1 .. total
      BY <3>1, SMTT(60)
    <3>3. h[done + cut] = Promised(s, offset, total, done + cut)
      BY <3>2 DEF s, PromisedFrom
    <3>4. turn = [res |-> h[done + cut].res, out |-> Part(s, x, x + cut) \o h[done + cut].out]
      BY <2>3, <3>1
    <3>5. x + cut \in Nat /\ offset + (done + cut) = x + cut /\ x <= x + cut
      <4>1. cut \in Nat /\ offset \in Nat /\ done \in Nat
        BY <2>1, <3>1
      <4>2. QED
        BY ONLY <4>1
    <3>6. CASE offset + total <= Len(s)
      <4>1. h[done + cut] = [res |-> 0, out |-> Part(s, x + cut, offset + total)]
        BY <3>3, <3>5, <3>6 DEF Promised
      <4>2. x + cut <= offset + total /\ offset + total \in Nat
        BY <2>1, <3>1, SMTT(60)
      <4>3. Part(s, x, x + cut) \o Part(s, x + cut, offset + total) = Part(s, x, offset + total)
        <5> DEFINE b == x + cut
                   e == offset + total
        <5>1. x \in Nat /\ b \in Nat /\ e \in Nat /\ x <= b /\ b <= e /\ e <= Len(s)
          BY <2>1, <3>5, <3>6, <4>2
        <5> HIDE DEF x, b, e
        <5>2. Part(s, x, b) \o Part(s, b, e) = Part(s, x, e)
          BY ONLY <1>1, <5>1, PartsJoin
        <5>3. QED
          BY <5>2 DEF b, e
      <4>4. turn = [res |-> 0, out |-> Part(s, x, offset + total)]
        <5> DEFINE hc == h[done + cut]
        <5>1. hc.res = 0 /\ hc.out = Part(s, x + cut, offset + total)
          BY <4>1
        <5>2. turn = [res |-> hc.res, out |-> Part(s, x, x + cut) \o hc.out]
          BY <3>4
        <5> HIDE DEF hc, x, turn
        <5>3. QED
          BY <4>3, <5>1, <5>2
      <4>5. QED
        BY <3>6, <4>4 DEF Promised, turn, s
    <3>7. CASE ~(offset + total <= Len(s))
      <4>1. done + cut # total
        BY <1>1, <3>1, <3>5, <3>7
      <4>2. h[done + cut] = [res |-> EIO, out |-> Part(s, x + cut, Len(s))]
        BY <3>3, <3>5, <3>7, <4>1 DEF Promised
      <4>3. Part(s, x, x + cut) \o Part(s, x + cut, Len(s)) = Part(s, x, Len(s))
        <5> DEFINE b == x + cut
                   e == Len(s)
        <5>1. x \in Nat /\ b \in Nat /\ e \in Nat /\ x <= b /\ b <= e /\ e <= Len(s)
          BY <1>1, <2>1, <3>1, <3>5
        <5> HIDE DEF x, b, e
        <5>2. Part(s, x, b) \o Part(s, b, e) = Part(s, x, e)
          BY ONLY <1>1, <5>1, PartsJoin
        <5>3. QED
          BY <5>2 DEF b, e
      <4>4. turn = [res |-> EIO, out |-> Part(s, x, Len(s))]
        <5> DEFINE hc == h[done + cut]
        <5>1. hc.res = EIO /\ hc.out = Part(s, x + cut, Len(s))
          BY <4>2
        <5>2. turn = [res |-> hc.res, out |-> Part(s, x, x + cut) \o hc.out]
          BY <3>4
        <5> HIDE DEF hc, x, turn
        <5>3. QED
          BY <4>3, <5>1, <5>2
      <4>5. QED
        BY <1>3, <3>7, <4>4 DEF Promised, turn, s
    <3>8. QED
      BY <3>6, <3>7
  <2>5. CASE ~(x < Len(s))
    <3>1. c = EIO
      <4> HIDE DEF x
      <4>1. x >= Len(s)
        BY <1>1, <2>1, <2>5
      <4>2. QED
        BY <2>1, <4>1, NoPieceBehind
    <3>2. turn = [res |-> EIO, out |-> <<>>]
      BY <2>3, <3>1
    <3>3. ~(offset + total <= Len(s)) /\ Len(s) - x <= 0
      BY <1>1, <2>1, <2>5, SMTT(60)
    <3>4. Part(s, x, Len(s)) = <<>>
      <4> HIDE DEF s, x
      <4>1. 1 .. Len(s) - x = {}
        BY <1>1, <2>1, <3>3
      <4>2. QED
        BY <4>1 DEF Part
    <3> HIDE DEF s
    <3>5. QED
      BY <1>3, <3>2, <3>3, <3>4 DEF Promised, turn, s
  <2>6. QED
    BY <2>4, <2>5
<1>4. QED
  BY <1>2, <1>3

LEMMA ReadDelivers ==
  ASSUME NEW f, SoundFat(f), NEW it, it.first \in DOMAIN f, it.filesize \in Nat,
         2 * it.filesize < IntRange,
         NEW offset \in Nat, NEW total \in Nat, offset + total <= it.filesize
  PROVE  fat16_read_internal(f, it.first, offset, total)
           = Promised(BytesOf(f, it), offset, total, 0)
<1> DEFINE h == ReadRest(f, it.first, offset, total)
           s == BytesOf(f, it)
           g == [done \in 0 .. total |-> Promised(s, offset, total, done)]
           Turn(u, m) == ReadTurn(f, it.first, offset, total, u, m)
<1>1. fat16_read_internal(f, it.first, offset, total) = h[0]
  BY DEF fat16_read_internal, ReadRest, ReadTurn
<1>2. PICK n \in Nat : ChainEnds(f, it, n)
  BY ChainFollows
<1> HIDE DEF g, h
<1>23. ASSUME NEW k, NEW i \in 0 .. total, PromisedFrom(k, s, offset, total, i+1)
      PROVE  Turn(k, i) = Promised(s, offset, total, i)
  <2>1. QED
    BY <1>2, <1>23, ReadTurnDelivers
<1> USE DEF g, h
<1>3. g = [done \in 0 .. total |-> Turn(g, done)]
  <2>1. ASSUME NEW done \in 0 .. total, NEW i \in done+1 .. total
        PROVE  g[i] = Promised(s, offset, total, i)
    OBVIOUS
  <2> HIDE DEF g
  <2>2. ASSUME NEW done \in 0 .. total
        PROVE  Turn(g, done) = Promised(s, offset, total, done)
    <3>1. done \in 0 .. total /\ \A i \in done+1 .. total : g[i] = Promised(s, offset, total, i)
      BY <2>1
    <3> HIDE DEF s, Turn
    <3>2. PromisedFrom(g, s, offset, total, done+1)
      BY <3>1 DEF PromisedFrom
    <3>3. QED
      BY <3>2, <1>23
  <2> HIDE DEF s, Turn
  <2>3. QED
    BY <2>2 DEF g
<1> HIDE DEF g
<1>4. h = [done \in 0 .. total |-> Turn(h, done)]
  BY <1>3 DEF ReadRest
<1> HIDE DEF h
<1> DEFINE Wrong == {k \in 0 .. total : h[total - k] # Promised(s, offset, total, total - k)}
<1>5. Wrong = {}
  <2> SUFFICES ASSUME Wrong # {} PROVE FALSE
    OBVIOUS
  <2>1. PICK k \in Wrong : \A j \in Wrong : k <= j
    <3>1. Wrong \in SUBSET Nat
      OBVIOUS
    <3>2. QED
      BY <3>1, Smallest
  <2>2. k \in 0 .. total /\ total - k \in 0 .. total
    BY <2>1
  <2>3. ASSUME NEW i \in (total - k)+1 .. total PROVE h[i] = Promised(s, offset, total, i)
    <3>1. total - i \in 0 .. total /\ ~(k <= total - i) /\ total - (total - i) = i
      BY <2>2
    <3>2. total - i \notin Wrong
      BY <2>1, <3>1
    <3>3. QED
      BY <3>1, <3>2
  <2>4. Turn(h, total - k) = Promised(s, offset, total, total - k)
    <3> DEFINE done == total - k
    <3>1. done \in 0 .. total /\ \A i \in done+1 .. total : h[i] = Promised(s, offset, total, i)
      BY <2>2, <2>3
    <3> HIDE DEF done
    <3> HIDE DEF s, Turn
    <3>2. PromisedFrom(h, s, offset, total, done+1)
      BY <3>1 DEF PromisedFrom
    <3>3. Turn(h, done) = Promised(s, offset, total, done)
      BY <1>23, <3>1, <3>2
    <3>4. QED
      BY <3>3 DEF done
  <2>5. h[total - k] = Turn(h, total - k)
    <3> HIDE DEF Turn
    <3>1. QED
      BY <1>4, <2>2
  <2>6. QED
    BY <2>1, <2>4, <2>5
<1>6. h[0] = Promised(s, offset, total, 0)
  <2>1. total \in 0 .. total /\ total - total = 0
    OBVIOUS
  <2>2. total \notin Wrong
    BY <1>5
  <2>3. QED
    BY <2>1, <2>2
<1>7. QED
  BY <1>1, <1>6

-----------------------------------------------------------------------------
(* The calls of module FatFile implement those of module ByteFile.         *)

VolumeInv == FileIInv /\ fat \in Fats /\ OnVolume

Data(d) == BytesOf(fat, item[d])

LEMMA VolumeTypes ==
  ASSUME VolumeInv, NEW d \in Files
  PROVE  item[d].filesize \in FileSizes /\ item[d].filesize \in Nat /\ pos[d] \in Nat
<1>1. \A n \in FileSizes : n \in Nat
  BY FileAssumption, VolumeAssumption
<1>2. item[d].filesize \in FileSizes /\ pos[d] \in Nat
  BY DEF VolumeInv, FileIInv, Cloned
<1>3. QED
  BY <1>1, <1>2

LEMMA PartIsSubSeq ==
  ASSUME NEW s \in Seq(Int), NEW a \in Nat, NEW b \in Nat, b <= Len(s) \/ b <= a
  PROVE  Part(s, a, b) = SubSeq(s, a+1, b)
<1>1. CASE b <= a
  <2>1. SubSeq(s, a+1, b) = <<>>
    BY <1>1, SubSeqEmpty
  <2>2. 1 .. b - a = {}
    BY <1>1
  <2>3. QED
    BY <2>1, <2>2 DEF Part
<1>2. CASE ~(b <= a)
  <2> DEFINE t == SubSeq(s, a+1, b)
             p == Part(s, a, b)
  <2>1. a+1 \in Int /\ \A i \in a+1 .. b : s[i] \in Int
    BY <1>2
  <2>2. /\ t \in Seq(Int) /\ Len(t) = b - a
        /\ \A i \in 1 .. b - a : t[i] = s[a + i]
    <3>1. /\ t \in Seq(Int) /\ Len(t) = IF a+1 <= b THEN b - (a+1) + 1 ELSE 0
          /\ \A i \in 1 .. b - (a+1) + 1 : t[i] = s[(a+1) + i-1]
      BY <2>1, SubSeqProperties
    <3> HIDE DEF t
    <3>2. b - (a+1) + 1 = b - a /\ \A i \in Int : (a+1) + i-1 = a + i
      OBVIOUS
    <3>3. QED
      BY <1>2, <3>1, <3>2
  <2>3. p \in Seq(Int) /\ Len(p) = b - a /\ \A i \in 1 .. b - a : p[i] = s[a + i]
    <3>1. b - a \in Nat /\ \A i \in 1 .. b - a : s[a + i] \in Int
      BY <1>2
    <3>2. QED
      BY <3>1 DEF Part
  <2> HIDE DEF t, p
  <2>4. t = p
    BY <2>2, <2>3, SeqEqual
  <2>5. QED
    BY <2>4 DEF t, p
<1>3. QED
  BY <1>1, <1>2

\* What is known of a turn whose item fits.
LEMMA ItemIsPromised ==
  ASSUME PlainVolume, VolumeInv, NEW d \in Files, NEW size \in Nat \ {0}, NEW k \in Nat,
         Delivered(d, size, k), ItemFits(d, size, k)
  PROVE  /\ Data(d) \in Seq(Int) /\ Len(Data(d)) \in Nat
         /\ pos[d] \in Nat /\ pos[d] + k * size \in Nat
         /\ pos[d] + k * size + size <= item[d].filesize
         /\ ItemRead(d, size, k) = Promised(Data(d), pos[d] + k * size, size, 0)
<1> DEFINE it == item[d]
           x == pos[d] + k * size
           at == item_offset(d, size, k)
<1>1. it.filesize \in Nat /\ 2 * it.filesize < IntRange /\ pos[d] \in Nat
  <2>1. it.filesize \in FileSizes /\ it.filesize \in Nat /\ pos[d] \in Nat
    BY VolumeTypes
  <2>2. QED
    BY <2>1 DEF PlainVolume, IntOffsets
<1>2. k * size \in Nat /\ x \in Nat
  BY <1>1
<1>3. at = x
  BY OffsetsAreExact DEF VolumeInv
<1>4. x + size <= it.filesize
  BY <1>1, <1>2, <1>3 DEF ItemFits
<1>5. it.first \in DOMAIN fat /\ SoundFat(fat)
  BY <1>1, <1>2, <1>4 DEF VolumeInv, OnVolume, PlainVolume
<1> HIDE DEF x, it, at
<1>6. Int32(at) = x
  <2>1. 2 * x < IntRange
    BY <1>1, <1>2, <1>4, VolumeAssumption
  <2>2. QED
    BY <1>2, <1>3, <2>1, IntIsExact
<1>7. fat16_read_internal(fat, it.first, x, size) = Promised(BytesOf(fat, it), x, size, 0)
  BY <1>1, <1>2, <1>4, <1>5, ReadDelivers
<1>8. ItemRead(d, size, k) = Promised(BytesOf(fat, it), x, size, 0)
  <2>1. 2 * size < IntRange
    BY <1>1, <1>2, <1>4, VolumeAssumption
  <2>2. Int32(size) = size /\ Int32(size) >= 0
    BY <2>1, IntIsExact
  <2>3. ItemRead(d, size, k) = fat16_read_internal(fat, it.first, Int32(at), size)
    BY <2>2 DEF ItemRead, it, at
  <2>4. QED
    BY <1>6, <1>7, <2>3
<1>9. BytesOf(fat, it) \in Seq(Int) /\ Len(BytesOf(fat, it)) \in Nat
  <2>1. PICK n \in Nat : ChainEnds(fat, it, n)
    BY <1>1, <1>5, ChainFollows
  <2>2. BytesOf(fat, it) \in Seq(Int)
    BY <1>1, <1>5, <2>1, ContentIs
  <2>3. QED
    BY <2>2
<1>10. QED
  BY <1>1, <1>2, <1>4, <1>8, <1>9 DEF it, x, Data

\* The turns together deliver the bytes of the file from the cursor on.
LEMMA ItemsArePart ==
  ASSUME PlainVolume, VolumeInv, NEW d \in Files, NEW size \in Nat \ {0}, NEW k \in Nat,
         Delivered(d, size, k)
  PROVE  /\ ItemsRead(d, size, k) = Part(Data(d), pos[d], pos[d] + k * size)
         /\ k > 0 => Data(d) \in Seq(Int) /\ pos[d] + k * size <= Len(Data(d))
<1> DEFINE s == Data(d)
           b == pos[d]
<1>1. b \in Nat /\ k * size \in Nat
  BY DEF VolumeInv, FileIInv
<1>2. ASSUME NEW j \in 0 .. k-1
      PROVE  /\ s \in Seq(Int) /\ Len(s) \in Nat
             /\ j * size \in Nat
             /\ b + j * size + size <= Len(s)
             /\ ItemRead(d, size, j).out = Part(s, b + j * size, b + j * size + size)
  <2>1. j \in Nat /\ Delivered(d, size, j) /\ ItemFits(d, size, j) /\ ItemRead(d, size, j).res = 0
    BY DEF Delivered
  <2>2. /\ s \in Seq(Int) /\ Len(s) \in Nat /\ b + j * size \in Nat
        /\ ItemRead(d, size, j) = Promised(s, b + j * size, size, 0)
    BY <2>1, ItemIsPromised
  <2>3. j * size \in Nat
    BY <2>1
  <2> DEFINE x == b + j * size
  <2> HIDE DEF s, b, x
  <2>4. x \in Nat /\ x + 0 = x /\ size # 0
    BY <2>2 DEF x
  <2>5. x + size <= Len(s)
    <3> SUFFICES ASSUME ~(x + size <= Len(s)) PROVE FALSE
      BY <2>2, <2>4
    <3>1. Promised(s, x, size, 0).res = EIO
      BY <2>4 DEF Promised
    <3>2. QED
      BY <2>1, <2>2, <3>1 DEF x, EIO
  <2>6. Promised(s, x, size, 0).out = Part(s, x, x + size)
    BY <2>4, <2>5 DEF Promised
  <2>7. QED
    BY <1>1, <2>2, <2>3, <2>5, <2>6 DEF x
<1> HIDE DEF s, b
<1>3. ASSUME NEW i \in 1 .. k * size
      PROVE  ItemRead(d, size, (i-1) \div size).out[((i-1) % size) + 1] = s[b + i]
  <2> DEFINE j == (i-1) \div size
             r == (i-1) % size
  <2>1. j \in Nat /\ r \in 0 .. size-1 /\ i-1 = j * size + r
    <3>1. i-1 \in Nat
      OBVIOUS
    <3>2. QED
      BY <3>1
  <2> HIDE DEF j, r
  <2>2. j \in 0 .. k-1
    <3> SUFFICES ASSUME k <= j PROVE FALSE
      BY <2>1
    <3>1. (j - k) * size \in Nat /\ j * size = k * size + (j - k) * size
      <4>1. j - k \in Nat
        BY <2>1
      <4>2. QED
        BY <2>1, <4>1
    <3>2. QED
      BY <1>1, <2>1, <3>1
  <2>3. /\ j * size \in Nat
        /\ ItemRead(d, size, j).out = Part(s, b + j * size, b + j * size + size)
    BY <1>2, <2>2
  <2> DEFINE x == b + j * size
  <2>4. x \in Nat /\ x + (r+1) = b + i /\ (x + size) - x = size /\ r+1 \in 1 .. size
    BY <1>1, <2>1, <2>3
  <2> HIDE DEF x
  <2>5. Part(s, x, x + size)[r+1] = s[b + i]
    BY <2>4 DEF Part
  <2>6. QED
    BY <2>3, <2>5 DEF x, j, r
<1>4. ItemsRead(d, size, k) = Part(s, b, b + k * size)
  <2>1. (b + k * size) - b = k * size
    BY <1>1
  <2>2. QED
    BY <1>3, <2>1 DEF ItemsRead, Part
<1>5. ASSUME k > 0 PROVE s \in Seq(Int) /\ b + k * size <= Len(s)
  <2>1. k-1 \in 0 .. k-1 /\ k * size = (k-1) * size + size
    BY <1>5
  <2> DEFINE m == (k-1) * size
  <2>2. s \in Seq(Int) /\ Len(s) \in Nat /\ m \in Nat /\ b + m + size <= Len(s)
    BY <1>2, <2>1
  <2> HIDE DEF m
  <2>3. QED
    BY <1>1, <2>1, <2>2 DEF m
<1>6. QED
  BY <1>4, <1>5 DEF s, b

\* One item of size bytes more than n are n+1 items.
LEMMA HoldsItems ==
  ASSUME VolumeInv, NEW d \in Files, NEW size \in Nat, NEW n \in Nat
  PROVE  /\ Bytes!Holds(d, size, n) <=> pos[d] + n * size <= item[d].filesize
         /\ Bytes!Holds(d, size, n+1) <=> pos[d] + n * size + size <= item[d].filesize
<1>1. (n+1) * size = n * size + size /\ n * size \in Nat /\ pos[d] \in Nat
  BY DEF VolumeInv, FileIInv
<1>2. Bytes!Holds(d, size, n) <=> pos[d] + n * size <= item[d].filesize
  BY DEF Bytes!Holds
<1>3. Bytes!Holds(d, size, n+1) <=> pos[d] + (n+1) * size <= item[d].filesize
  BY DEF Bytes!Holds
<1>4. pos[d] + (n+1) * size = pos[d] + n * size + size
  BY <1>1
<1>5. QED
  BY <1>2, <1>3, <1>4

\* Among the items that the file still holds there is a last one to deliver.
LEMMA SomeAreDue ==
  ASSUME VolumeInv, NEW d \in Files, NEW size \in Nat, NEW nmemb \in Nat, NEW k \in 0 .. nmemb,
         Bytes!Holds(d, size, k)
  PROVE  \E n \in k .. nmemb : Bytes!Due(d, size, nmemb, n)
<1> DEFINE M == {m \in k .. nmemb : m = nmemb \/ ~Bytes!Holds(d, size, m+1)}
<1>1. PICK n \in M : \A m \in M : n <= m
  <2>1. nmemb \in M
    OBVIOUS
  <2>2. M # {} /\ M \in SUBSET Nat
    BY <2>1
  <2>3. QED
    BY <2>2, Smallest
<1>2. n \in k .. nmemb /\ (n < nmemb => ~Bytes!Holds(d, size, n+1))
  BY <1>1
<1>3. Bytes!Holds(d, size, n)
  <2>1. CASE n = k
    BY <2>1
  <2>2. CASE n # k
    <3>1. n-1 \in k .. nmemb /\ n-1 # nmemb /\ ~(n <= n-1) /\ (n-1)+1 = n
      BY <1>2, <2>2
    <3>2. n-1 \notin M
      BY <1>1, <3>1
    <3> DEFINE m == n-1
    <3>3. m \in k .. nmemb /\ m # nmemb /\ m \notin M
      BY <3>1, <3>2
    <3> HIDE DEF m
    <3>4. Bytes!Holds(d, size, m+1)
      BY <3>3
    <3>5. QED
      BY <3>1, <3>4 DEF m
  <2>3. QED
    BY <2>1, <2>2
<1>4. QED
  BY <1>2, <1>3 DEF Bytes!Due

LEMMA ReadImplements ==
  ASSUME PlainVolume, VolumeInv, NEW d \in Files, NEW size \in Counts, NEW nmemb \in Counts,
         fat16_read(d, size, nmemb)
  PROVE  Bytes!Read(d, size, nmemb) \/ Bytes!ReadNothing(d, size, nmemb)
<1> USE FileAssumption
<1> DEFINE s == Data(d)
           b == pos[d]
<1>1. b \in Nat /\ size \in Nat /\ nmemb \in Nat
  BY DEF VolumeInv, FileIInv
<1>2. call' = <<"read", d, size, nmemb>>
  BY DEF fat16_read
<1>3. [e \in Files |-> BytesOf(fat, item[e])][d] = s
  BY DEF Data
<1>4. CASE fat16_read_delivers(d, size, nmemb)
  <2>1. PICK k \in 0 .. nmemb :
          /\ Delivered(d, size, k)
          /\ k < nmemb => ~ItemFits(d, size, k)
          /\ pos' = [pos EXCEPT ![d] = item_offset(d, size, k)]
          /\ reply' = [res |-> k, out |-> ItemsRead(d, size, k)]
    BY <1>4 DEF fat16_read_delivers, Answer
  <2>2. size \in Nat \ {0} /\ k \in Nat /\ UNCHANGED <<fat, item>>
    BY <1>1, <1>4 DEF fat16_read_delivers
  <2> DEFINE end == b + k * size
  <2>3. end \in Nat /\ item_offset(d, size, k) = end
    <3>1. item_offset(d, size, k) = end
      BY <2>1, <2>2, OffsetsAreExact DEF VolumeInv
    <3>2. k * size \in Nat
      BY <2>2
    <3>3. QED
      BY <1>1, <3>1, <3>2
  <2>4. Bytes!Due(d, size, nmemb, k)
    <3>1. item_offset(d, size, k) <= item[d].filesize
      BY <2>1, <2>2, DeliveredStaysInside DEF VolumeInv
    <3>2. ~ItemFits(d, size, k) => ~(end + size <= item[d].filesize)
      <4>1. item[d].filesize \in Nat
        BY VolumeTypes
      <4> HIDE DEF end
      <4>2. QED
        BY <2>2, <2>3, <4>1 DEF ItemFits
    <3>3. /\ Bytes!Holds(d, size, k) <=> end <= item[d].filesize
          /\ Bytes!Holds(d, size, k+1) <=> end + size <= item[d].filesize
      BY <2>2, HoldsItems
    <3> HIDE DEF end
    <3>4. QED
      BY <2>1, <2>3, <3>1, <3>2, <3>3 DEF Bytes!Due
  <2>5. /\ ItemsRead(d, size, k) = Part(s, b, end)
        /\ k > 0 => s \in Seq(Int) /\ end <= Len(s)
    BY <2>1, <2>2, ItemsArePart
  <2>6. Part(s, b, end) = SubSeq(s, b+1, end)
    <3>1. CASE k > 0
      <4> HIDE DEF s, b, end
      <4>1. QED
        BY <1>1, <2>3, <2>5, <3>1, PartIsSubSeq
    <3>2. CASE k = 0
      <4>1. end = b
        BY <1>1, <2>2, <3>2
      <4>2. SubSeq(s, b+1, b) = <<>>
        BY <1>1, SubSeqEmpty
      <4>3. 1 .. b - b = {}
        BY <1>1
      <4> HIDE DEF s, b, end
      <4>4. Part(s, b, b) = <<>>
        BY <4>3 DEF Part
      <4>5. QED
        BY <4>1, <4>2, <4>4
    <3>3. QED
      BY <2>2, <3>1, <3>2
  <2>7. reply' = [res |-> k, out |-> SubSeq(s, b+1, end)]
    BY <2>1, <2>5, <2>6
  <2>8. pos' = [pos EXCEPT ![d] = end]
    BY <2>1, <2>3
  <2>9. k = 0 \/ end <= Len(s)
    BY <2>2, <2>5
  <2> HIDE DEF s
  <2>10. Bytes!Read(d, size, nmemb)
    BY <1>2, <1>3, <2>1, <2>2, <2>4, <2>7, <2>8, <2>9, SameBytes DEF Bytes!Read, Bytes!Answer
  <2>11. QED
    BY <2>10
<1>5. CASE fat16_read_fails(d, size, nmemb)
  <2>1. PICK k \in 0 .. nmemb-1 :
          /\ Delivered(d, size, k) /\ ItemFits(d, size, k)
          /\ ItemRead(d, size, k).res # 0
          /\ reply' = [res |-> ItemRead(d, size, k).res,
                       out |-> ItemsRead(d, size, k) \o ItemRead(d, size, k).out]
    BY <1>5 DEF fat16_read_fails, Answer
  <2>2. size \in Nat \ {0} /\ k \in Nat /\ UNCHANGED <<fat, item, pos>>
    BY <1>1, <1>5, <2>1 DEF fat16_read_fails
  <2> DEFINE x == b + k * size
  <2>3. /\ s \in Seq(Int) /\ Len(s) \in Nat /\ x \in Nat
        /\ x + size <= item[d].filesize
        /\ ItemRead(d, size, k) = Promised(s, x, size, 0)
    BY <2>1, <2>2, ItemIsPromised
  <2>4. /\ ItemsRead(d, size, k) = Part(s, b, x)
        /\ k > 0 => x <= Len(s)
    BY <2>1, <2>2, ItemsArePart
  <2>5. ~(x + size <= Len(s)) /\ ItemRead(d, size, k) = [res |-> EIO, out |-> Part(s, x, Len(s))]
    <3> HIDE DEF s, x, b
    <3>1. x + 0 = x /\ size # 0
      BY <2>2, <2>3
    <3>2. ~(x + size <= Len(s))
      <4> SUFFICES ASSUME x + size <= Len(s) PROVE FALSE
        OBVIOUS
      <4>1. Promised(s, x, size, 0).res = 0
        BY <3>1 DEF Promised
      <4>2. QED
        BY <2>1, <2>3, <4>1
    <3>3. Promised(s, x, size, 0) = [res |-> EIO, out |-> Part(s, x, Len(s))]
      BY <3>1, <3>2 DEF Promised
    <3>4. QED
      BY <2>3, <3>2, <3>3
  <2>6. Part(s, b, x) \o Part(s, x, Len(s)) = SubSeq(s, b+1, Len(s))
    <3> DEFINE e == Len(s)
    <3>1. b \in Nat /\ x \in Nat /\ e \in Nat /\ b <= x
      <4>1. k * size \in Nat
        BY <2>2
      <4>2. QED
        BY <1>1, <2>3, <4>1
    <3>2. CASE x <= e
      <4>1. Part(s, b, x) \o Part(s, x, e) = Part(s, b, e)
        <5> HIDE DEF s, b, x
        <5>1. e <= Len(s)
          BY <3>1
        <5> HIDE DEF e
        <5>2. QED
          BY <2>3, <3>1, <3>2, <5>1, PartsJoin, ZenonT(60)
      <4>2. Part(s, b, e) = SubSeq(s, b+1, e)
        <5> HIDE DEF s, b, x
        <5>1. e <= Len(s)
          BY <3>1
        <5> HIDE DEF e
        <5>2. QED
          BY <2>3, <3>1, <5>1, PartIsSubSeq
      <4>3. QED
        BY <4>1, <4>2
    <3>3. CASE ~(x <= e)
      <4>1. k = 0 /\ x = b
        <5>1. k = 0
          BY <2>2, <2>4, <3>3
        <5>2. QED
          BY <1>1, <5>1
      <4> HIDE DEF s, b, x
      <4>2. 1 .. x - b = {} /\ 1 .. e - x = {}
        BY <3>1, <3>3, <4>1
      <4>3. Part(s, b, x) = <<>> /\ Part(s, x, e) = <<>>
        BY <4>2 DEF Part
      <4>4. SubSeq(s, b+1, e) = <<>>
        <5>1. b+1 \in Int /\ e \in Int /\ e < b+1
          BY <3>1, <3>3, <4>1
        <5>2. QED
          BY <5>1, SubSeqEmpty
      <4>5. <<>> \o <<>> = <<>>
        OBVIOUS
      <4>6. QED
        BY <4>3, <4>4, <4>5
    <3>4. QED
      BY <3>2, <3>3
  <2>7. reply' = [res |-> -1, out |-> SubSeq(s, b+1, Len(s))]
    <3> DEFINE r == ItemRead(d, size, k)
    <3>1. r.res = EIO /\ r.out = Part(s, x, Len(s))
      BY <2>5
    <3>2. reply' = [res |-> r.res, out |-> ItemsRead(d, size, k) \o r.out]
      BY <2>1
    <3> HIDE DEF r, s, b, x
    <3>3. QED
      BY <2>4, <2>6, <3>1, <3>2 DEF EIO
  <2>8. PICK n \in k+1 .. nmemb : Bytes!Due(d, size, nmemb, n)
    <3>1. Bytes!Holds(d, size, k+1)
      BY <2>2, <2>3, HoldsItems
    <3>2. k+1 \in 0 .. nmemb
      BY <1>1, <2>1
    <3>3. QED
      BY <1>1, <3>1, <3>2, SomeAreDue
  <2>9. n \in 0 .. nmemb /\ n > 0 /\ b + n * size > Len(s)
    <3>1. n \in 0 .. nmemb /\ n > 0 /\ n - (k+1) \in Nat
      BY <2>2, <2>8
    <3> DEFINE m == n - (k+1)
    <3>2. m * size \in Nat /\ n * size = k * size + size + m * size
      BY <2>2, <3>1
    <3>3. k * size \in Nat
      BY <2>2
    <3>4. b + n * size >= x + size
      <4> DEFINE y == k * size
      <4>1. y \in Nat /\ m * size \in Nat /\ n * size = y + size + m * size
        BY <3>2, <3>3
      <4> HIDE DEF y, m
      <4>2. QED
        BY <1>1, <2>2, <4>1 DEF y
    <3>5. n * size \in Nat
      BY <2>2, <3>1
    <3> DEFINE w == n * size
    <3> HIDE DEF m, w, x, s
    <3>6. b + w >= x + size /\ w \in Nat
      BY <3>4, <3>5 DEF w
    <3>7. b + w > Len(s)
      BY <1>1, <2>2, <2>3, <2>5, <3>6
    <3>8. QED
      BY <3>1, <3>7 DEF w
  <2> HIDE DEF s
  <2>10. Bytes!Read(d, size, nmemb)
    BY <1>2, <1>3, <2>2, <2>7, <2>8, <2>9, SameBytes DEF Bytes!Read, Bytes!Answer
  <2>11. QED
    BY <2>10
<1>6. CASE fat16_read_nothing(d, size, nmemb)
  BY <1>2, <1>6, SameBytes DEF fat16_read_nothing, Answer, Bytes!ReadNothing, Bytes!Answer
<1>7. QED
  BY <1>4, <1>5, <1>6 DEF fat16_read

LEMMA VolumeInvariant == FileSpec /\ OnVolume => []VolumeInv
<1> DEFINE Placed == fat \in Fats /\ OnVolume
<1>1. FileInit /\ OnVolume => Placed
  BY DEF FileInit
<1>2. Placed /\ [FileNext]_fileVars => Placed'
  <2>1. [FileNext]_fileVars => UNCHANGED <<fat, item>>
    BY DEF FileNext, fileVars, fat16_read, fat16_read_delivers, fat16_read_fails,
           fat16_read_nothing, fat16_read_nowhere, fat16_seek, fat16_stat
  <2>2. QED
    BY <2>1 DEF OnVolume
<1>3. VolumeInv <=> FileIInv /\ Placed
  BY DEF VolumeInv
<1> HIDE DEF Placed
<1>4. QED
  BY <1>1, <1>2, <1>3, FileInvariant, PTL DEF FileSpec

LEMMA FilesStep ==
  ASSUME PlainVolume, VolumeInv, [FileNext]_fileVars
  PROVE  [Bytes!Next]_(Bytes!bvars)
<1>1. CASE FileNext
  <2>1. PICK d \in Files :
          \/ \E size, nmemb \in Counts : fat16_read(d, size, nmemb)
          \/ \E size, nmemb \in Counts : fat16_read_nowhere(d, size, nmemb)
          \/ \E whence \in Whences, offset \in Offsets : fat16_seek(d, whence, offset)
          \/ fat16_stat(d)
    BY <1>1 DEF FileNext
  <2>2. CASE \E size, nmemb \in Counts : fat16_read(d, size, nmemb)
    <3>1. PICK size \in Counts, nmemb \in Counts : fat16_read(d, size, nmemb)
      BY <2>2
    <3>2. Bytes!Read(d, size, nmemb) \/ Bytes!ReadNothing(d, size, nmemb)
      BY <3>1, ReadImplements
    <3>3. QED
      BY <3>2 DEF Bytes!Next
  <2>3. CASE \E whence \in Whences, offset \in Offsets : fat16_seek(d, whence, offset)
    <3>1. PICK whence \in Whences, offset \in Offsets : fat16_seek(d, whence, offset)
      BY <2>3
    <3>2. Bytes!Seek(d, whence, offset) \/ Bytes!SeekFails(d, whence, offset)
      BY <3>1, SeekMovesCursor DEF PlainVolume, VolumeInv
    <3>3. QED
      BY <3>2 DEF Bytes!Next, Whences
  <2>4. CASE fat16_stat(d)
    <3>1. Bytes!Stat(d)
      BY <2>4, SameBytes DEF fat16_stat, Answer, Bytes!Stat, Bytes!Answer
    <3>2. QED
      BY <3>1 DEF Bytes!Next
  <2>5. CASE \E size, nmemb \in Counts : fat16_read_nowhere(d, size, nmemb)
    <3>1. PICK size \in Counts, nmemb \in Counts : fat16_read_nowhere(d, size, nmemb)
      BY <2>5
    <3>2. Bytes!ReadNowhere(d, size, nmemb)
      BY <3>1, SameBytes DEF fat16_read_nowhere, Answer, EINVARG, Bytes!ReadNowhere, Bytes!Answer
    <3>3. QED
      BY <3>2 DEF Bytes!Next
  <2>6. QED
    BY <2>1, <2>2, <2>3, <2>4, <2>5
<1>2. CASE UNCHANGED fileVars
  <2>1. UNCHANGED <<fat, item, pos, call, reply>>
    BY <1>2 DEF fileVars
  <2>2. QED
    BY <2>1, SameBytes DEF Bytes!bvars
<1>3. QED
  BY <1>1, <1>2

(* For every sound volume and every sequence of calls, open files are the  *)
(* strings of bytes with cursors that module ByteFile describes.           *)
THEOREM FilesImplementByteFile ==
  ASSUME PlainVolume
  PROVE  FileSpec /\ OnVolume => ByteFileSpec
<1>1. FileInit => Bytes!Init
  BY DEF FileInit, Bytes!Init
<1>2. VolumeInv /\ [FileNext]_fileVars => [Bytes!Next]_(Bytes!bvars)
  BY FilesStep
<1>3. QED
  BY <1>1, <1>2, VolumeInvariant, PTL DEF FileSpec, ByteFileSpec, Bytes!Spec

-----------------------------------------------------------------------------
(* FatOpen, answers: the names.  The name that the driver makes of an      *)
(* entry and compares is the one that its two fields are filled with.      *)

\* A field ends in front of its first blank, after n characters.
EndsAt(field, n) ==
  /\ n \in 0 .. Len(field)
  /\ \A i \in 1 .. n : field[i] \notin Blank
  /\ \A i \in n+1 .. Len(field) : field[i] \in Blank

LEMMA FieldEnds ==
  ASSUME NEW field \in Seq(Nat), Padded(field), NEW remaining \in Nat, Len(field) < remaining
  PROVE  \E n : EndsAt(field, n) /\ fat16_to_proper_string(field, remaining) = SubSeq(field, 1, n)
<1> DEFINE stops(n) == /\ \A i \in 1 .. n : field[i] \notin Blank /\ i < remaining
                       /\ n < Len(field) => field[n+1] \in Blank \/ n+1 >= remaining
           n == CHOOSE n \in 0 .. Len(field) : stops(n)
<1>1. Len(field) \in Nat /\ DOMAIN field = 1 .. Len(field)
  OBVIOUS
<1>2. \E m \in 0 .. Len(field) : stops(m)
  <2> DEFINE B == {i \in 1 .. Len(field) : field[i] \in Blank}
  <2>1. CASE B = {}
    <3>1. stops(Len(field))
      BY <1>1, <2>1
    <3>2. QED
      BY <1>1, <3>1
  <2>2. CASE B # {}
    <3>1. B \in SUBSET Nat
      OBVIOUS
    <3>2. PICK i \in B : \A j \in B : i <= j
      BY <2>2, <3>1, Smallest
    <3>3. i-1 \in 0 .. Len(field) /\ (i-1)+1 = i /\ \A j \in 1 .. i-1 : ~(i <= j) /\ j \in 1 .. Len(field)
      BY <1>1, <3>2
    <3>4. stops(i-1)
      BY <1>1, <3>2, <3>3
    <3>5. QED
      BY <3>3, <3>4
  <2>3. QED
    BY <2>1, <2>2
<1>3. n \in 0 .. Len(field) /\ stops(n)
  <2> HIDE DEF stops
  <2>1. QED
    BY <1>2
<1>4. fat16_to_proper_string(field, remaining) = SubSeq(field, 1, n)
  BY DEF fat16_to_proper_string
<1> HIDE DEF n
<1>5. \A i \in n+1 .. Len(field) : field[i] \in Blank
  <2> SUFFICES ASSUME NEW i \in n+1 .. Len(field) PROVE field[i] \in Blank
    OBVIOUS
  <2>1. n < Len(field) /\ n+1 \in 1 .. Len(field) /\ ~(n+1 >= remaining)
    BY <1>1, <1>3
  <2>2. field[n+1] \in Blank
    BY <1>3, <2>1
  <2>3. QED
    BY <1>1, <2>1, <2>2 DEF Padded
<1>6. EndsAt(field, n)
  BY <1>3, <1>5 DEF EndsAt
<1>7. QED
  BY <1>4, <1>6

\* Strings that are the same but for the case of their characters.
SameName(s, t) ==
  Len(s) = Len(t) /\ \A i \in 1 .. Len(s) : tolower(s[i]) = tolower(t[i])

\* Characters that are the same but for their case are both blanks, dots or
\* zeroes, or neither is.
LEMMA CaseKeeps ==
  ASSUME NEW a \in Nat, NEW b \in Nat, tolower(a) = tolower(b)
  PROVE  /\ a \in Blank <=> b \in Blank
         /\ a = 46 <=> b = 46
         /\ a = 0 <=> b = 0
BY DEF tolower, Blank

\* The name fills the field: it is what comes before the first blank.
LEMMA FillsIsSame ==
  ASSUME NEW field \in Seq(Nat), NEW n, EndsAt(field, n), NEW s \in Seq(Nat)
  PROVE  Fills(s, field) <=> SameName(SubSeq(field, 1, n), s)
<1> DEFINE t == SubSeq(field, 1, n)
<1>1. n \in 0 .. Len(field) /\ Len(field) \in Nat /\ Len(s) \in Nat
      /\ DOMAIN s = 1 .. Len(s)
  BY DEF EndsAt
<1>2. Len(t) = n /\ \A i \in 1 .. n : t[i] = field[i]
  BY <1>1
<1> HIDE DEF t
<1>3. \A i \in 1 .. Len(field) : field[i] \in Nat
  OBVIOUS
<1>4. \A i \in 1 .. Len(s) : s[i] \in Nat
  OBVIOUS
<1>5. ASSUME Fills(s, field) PROVE SameName(t, s)
  <2>1. /\ Len(s) <= Len(field)
        /\ \A i \in 1 .. Len(s) : s[i] \notin Blank /\ tolower(s[i]) = tolower(field[i])
        /\ \A i \in Len(s)+1 .. Len(field) : field[i] \in Blank
    BY <1>1, <1>5 DEF Fills
  <2>2. ~(n < Len(s))
    <3> SUFFICES ASSUME n < Len(s) PROVE FALSE
      OBVIOUS
    <3>1. n+1 \in 1 .. Len(s) /\ n+1 \in n+1 .. Len(field) /\ n+1 \in 1 .. Len(field)
      BY <1>1, <2>1
    <3>2. field[n+1] \in Blank
      BY <3>1 DEF EndsAt
    <3>3. s[n+1] \in Nat /\ field[n+1] \in Nat /\ s[n+1] \notin Blank
          /\ tolower(s[n+1]) = tolower(field[n+1])
      BY <1>3, <1>4, <2>1, <3>1
    <3>4. QED
      BY <3>2, <3>3, CaseKeeps
  <2>3. ~(Len(s) < n)
    <3> SUFFICES ASSUME Len(s) < n PROVE FALSE
      OBVIOUS
    <3>1. Len(s)+1 \in Len(s)+1 .. Len(field) /\ Len(s)+1 \in 1 .. n
      BY <1>1
    <3>2. QED
      BY <2>1, <3>1 DEF EndsAt
  <2>4. Len(s) = n
    <3>1. n \in Nat /\ Len(s) \in Nat
      BY <1>1
    <3>2. QED
      BY <2>2, <2>3, <3>1
  <2>5. QED
    BY <1>2, <2>1, <2>4 DEF SameName
<1>6. ASSUME SameName(t, s) PROVE Fills(s, field)
  <2>1. Len(s) = n /\ \A i \in 1 .. n : tolower(field[i]) = tolower(s[i])
    BY <1>2, <1>6 DEF SameName
  <2>2. ASSUME NEW i \in 1 .. n PROVE s[i] \notin Blank
    <3>1. i \in 1 .. Len(field) /\ i \in 1 .. Len(s)
      BY <1>1, <2>1
    <3>2. field[i] \in Nat /\ s[i] \in Nat /\ tolower(field[i]) = tolower(s[i]) /\ field[i] \notin Blank
      BY <1>3, <1>4, <2>1, <3>1 DEF EndsAt
    <3>3. QED
      BY <3>2, CaseKeeps
  <2>3. QED
    BY <1>1, <2>1, <2>2 DEF Fills, EndsAt
<1>7. QED
  BY <1>5, <1>6 DEF t

\* Whole strings are compared when the first is shorter than the limit.
LEMMA ComparesNames ==
  ASSUME NEW s \in Seq(Nat \ {0}), NEW t \in Seq(Nat \ {0}), NEW n \in Nat, Len(s) < n
  PROVE  istrncmp_equal(s, t, n) <=> SameName(s, t)
<1> DEFINE at(u, i) == IF i <= Len(u) THEN tolower(u[i]) ELSE 0
<1>1. Len(s) \in Nat /\ Len(t) \in Nat /\ Least(n, Len(s)+1) = Len(s)+1
  BY DEF Least
<1>2. \A i \in 1 .. Len(s) : s[i] \in Nat \ {0} /\ tolower(s[i]) # 0
  <2>1. \A i \in 1 .. Len(s) : s[i] \in Nat \ {0}
    OBVIOUS
  <2>2. QED
    BY <2>1 DEF tolower
<1>3. \A i \in 1 .. Len(t) : t[i] \in Nat \ {0} /\ tolower(t[i]) # 0
  <2>1. \A i \in 1 .. Len(t) : t[i] \in Nat \ {0}
    OBVIOUS
  <2>2. QED
    BY <2>1 DEF tolower
<1>4. istrncmp_equal(s, t, n) <=> \A i \in 1 .. Len(s)+1 : at(s, i) = at(t, i)
  BY <1>1 DEF istrncmp_equal
<1>5. ASSUME SameName(s, t) PROVE \A i \in 1 .. Len(s)+1 : at(s, i) = at(t, i)
  BY <1>1, <1>5 DEF SameName
<1>6. ASSUME \A i \in 1 .. Len(s)+1 : at(s, i) = at(t, i) PROVE SameName(s, t)
  <2>1. ~(Len(t) < Len(s))
    <3> SUFFICES ASSUME Len(t) < Len(s) PROVE FALSE
      OBVIOUS
    <3>1. Len(t)+1 \in 1 .. Len(s)+1 /\ Len(t)+1 \in 1 .. Len(s) /\ ~(Len(t)+1 <= Len(t))
      BY <1>1
    <3>2. tolower(s[Len(t)+1]) = 0
      BY <1>6, <3>1
    <3>3. QED
      BY <1>2, <3>1, <3>2
  <2>2. ~(Len(s) < Len(t))
    <3> SUFFICES ASSUME Len(s) < Len(t) PROVE FALSE
      OBVIOUS
    <3>1. Len(s)+1 \in 1 .. Len(s)+1 /\ Len(s)+1 \in 1 .. Len(t) /\ ~(Len(s)+1 <= Len(s))
      BY <1>1
    <3>2. tolower(t[Len(s)+1]) = 0
      BY <1>6, <3>1
    <3>3. QED
      BY <1>3, <3>1, <3>2
  <2>3. Len(s) = Len(t)
    BY <1>1, <2>1, <2>2
  <2>4. \A i \in 1 .. Len(s) : tolower(s[i]) = tolower(t[i])
    BY <1>1, <1>6, <2>3
  <2>5. QED
    BY <2>3, <2>4 DEF SameName
<1>7. QED
  BY <1>4, <1>5, <1>6

\* A name with a dot is the two parts around it.
LEMMA DottedName ==
  ASSUME NEW b \in Seq(Nat), NEW e \in Seq(Nat), NEW s \in Seq(Nat)
  PROVE  SameName(b \o <<46>> \o e, s) <=>
           \E i \in DOMAIN s : /\ s[i] = 46
                               /\ SameName(b, SubSeq(s, 1, i-1))
                               /\ SameName(e, SubSeq(s, i+1, Len(s)))
<1> DEFINE t == b \o <<46>> \o e
<1>1. Len(b) \in Nat /\ Len(e) \in Nat /\ Len(s) \in Nat /\ DOMAIN s = 1 .. Len(s)
  OBVIOUS
<1>2. /\ Len(t) = Len(b) + 1 + Len(e)
      /\ \A i \in 1 .. Len(b) : t[i] = b[i]
      /\ t[Len(b) + 1] = 46
      /\ \A i \in 1 .. Len(e) : t[Len(b) + 1 + i] = e[i]
  BY <1>1
<1> HIDE DEF t
<1>3. ASSUME NEW i \in 1 .. Len(s)
      PROVE  /\ Len(SubSeq(s, 1, i-1)) = i-1 /\ \A j \in 1 .. i-1 : SubSeq(s, 1, i-1)[j] = s[j]
             /\ Len(SubSeq(s, i+1, Len(s))) = Len(s) - i
             /\ \A j \in 1 .. Len(s) - i : SubSeq(s, i+1, Len(s))[j] = s[i+j]
  <2>1. Len(SubSeq(s, 1, i-1)) = i-1 /\ \A j \in 1 .. i-1 : SubSeq(s, 1, i-1)[j] = s[j]
    BY <1>1
  <2>2. Len(SubSeq(s, i+1, Len(s))) = Len(s) - i
    <3>1. i+1 \in Int /\ \A j \in i+1 .. Len(s) : s[j] \in Nat
      OBVIOUS
    <3>2. Len(SubSeq(s, i+1, Len(s))) = IF i+1 <= Len(s) THEN Len(s) - (i+1) + 1 ELSE 0
      BY <1>1, <3>1, SubSeqProperties
    <3>3. (IF i+1 <= Len(s) THEN Len(s) - (i+1) + 1 ELSE 0) = Len(s) - i
      <4> DEFINE l == Len(s)
      <4>1. l \in Nat /\ i \in 1 .. l
        OBVIOUS
      <4> HIDE DEF l
      <4>2. (IF i+1 <= l THEN l - (i+1) + 1 ELSE 0) = l - i
        BY <4>1
      <4>3. QED
        BY <4>2 DEF l
    <3>4. QED
      BY ONLY <3>2, <3>3
  <2>3. ASSUME NEW j \in 1 .. Len(s) - i PROVE SubSeq(s, i+1, Len(s))[j] = s[i+j]
    BY <1>1
  <2>4. QED
    BY <2>1, <2>2, <2>3
<1>4. ASSUME SameName(t, s)
      PROVE  \E i \in DOMAIN s : /\ s[i] = 46
                                 /\ SameName(b, SubSeq(s, 1, i-1))
                                 /\ SameName(e, SubSeq(s, i+1, Len(s)))
  <2> DEFINE i == Len(b) + 1
  <2>1. Len(s) = Len(b) + 1 + Len(e) /\ \A j \in 1 .. Len(s) : tolower(t[j]) = tolower(s[j])
    BY <1>2, <1>4 DEF SameName
  <2>2. i \in 1 .. Len(s) /\ s[i] \in Nat /\ 46 \in Nat
    BY <1>1, <2>1
  <2>3. s[i] = 46
    <3>1. tolower(46) = tolower(s[i])
      BY <1>2, <2>1, <2>2
    <3>2. QED
      BY <2>2, <3>1, CaseKeeps
  <2>4. i-1 = Len(b) /\ Len(s) - i = Len(e)
    BY <1>1, <2>1
  <2>5. SameName(b, SubSeq(s, 1, i-1))
    <3> DEFINE u == SubSeq(s, 1, i-1)
    <3>1. Len(u) = Len(b) /\ \A j \in 1 .. Len(b) : u[j] = s[j]
      BY <1>3, <2>2, <2>4
    <3> HIDE DEF u
    <3>2. \A j \in 1 .. Len(b) : j \in 1 .. Len(s)
      BY <1>1, <2>1
    <3>3. SameName(b, u)
      BY <1>2, <2>1, <3>1, <3>2 DEF SameName
    <3>4. QED
      BY <3>3 DEF u
  <2>6. SameName(e, SubSeq(s, i+1, Len(s)))
    <3> DEFINE u == SubSeq(s, i+1, Len(s))
    <3>1. Len(u) = Len(e) /\ \A j \in 1 .. Len(e) : u[j] = s[i+j]
      BY <1>3, <2>2, <2>4
    <3> HIDE DEF u
    <3>2. \A j \in 1 .. Len(e) : i+j \in 1 .. Len(s) /\ i+j = Len(b) + 1 + j
      BY <1>1, <2>1
    <3>3. SameName(e, u)
      BY <1>2, <2>1, <3>1, <3>2 DEF SameName
    <3>4. QED
      BY <3>3 DEF u
  <2> HIDE DEF i
  <2>7. QED
    BY <1>1, <2>2, <2>3, <2>5, <2>6
<1>5. ASSUME NEW i \in DOMAIN s, s[i] = 46, SameName(b, SubSeq(s, 1, i-1)),
             SameName(e, SubSeq(s, i+1, Len(s)))
      PROVE  SameName(t, s)
  <2> DEFINE u == SubSeq(s, 1, i-1)
             v == SubSeq(s, i+1, Len(s))
  <2>1. i \in 1 .. Len(s)
    BY <1>1
  <2>2. /\ Len(u) = i-1 /\ \A j \in 1 .. i-1 : u[j] = s[j]
        /\ Len(v) = Len(s) - i /\ \A j \in 1 .. Len(s) - i : v[j] = s[i+j]
    BY <1>3, <2>1
  <2>3. SameName(b, u) /\ SameName(e, v)
    BY <1>5
  <2> HIDE DEF u, v
  <2>4. Len(b) = i-1 /\ Len(e) = Len(s) - i /\ Len(s) = Len(t)
    BY <1>1, <1>2, <2>1, <2>2, <2>3 DEF SameName
  <2>5. ASSUME NEW j \in 1 .. Len(s) PROVE tolower(t[j]) = tolower(s[j])
    <3>1. CASE j < i
      <4>1. j \in 1 .. Len(b) /\ j \in 1 .. i-1
        BY <2>1, <2>4, <3>1
      <4>2. QED
        BY <1>2, <2>2, <2>3, <4>1 DEF SameName
    <3>2. CASE j = i
      <4>1. j = Len(b) + 1
        BY <2>1, <2>4, <3>2
      <4>2. t[j] = 46 /\ s[j] = 46
        BY <1>2, <1>5, <3>2, <4>1
      <4>3. QED
        BY <4>2
    <3>3. CASE i < j
      <4>1. j-i \in 1 .. Len(e) /\ j-i \in 1 .. Len(s) - i /\ Len(b) + 1 + (j-i) = j /\ i + (j-i) = j
        BY <1>1, <2>1, <2>4, <3>3, SMTT(60)
      <4>2. t[j] = e[j-i] /\ s[j] = v[j-i]
        <5>1. t[Len(b) + 1 + (j-i)] = e[j-i] /\ v[j-i] = s[i + (j-i)]
          BY <1>2, <2>2, <4>1
        <5>2. QED
          BY <4>1, <5>1
      <4>3. QED
        BY <2>3, <4>1, <4>2 DEF SameName
    <3>4. QED
      BY <2>1, <3>1, <3>2, <3>3
  <2>6. QED
    BY <2>4, <2>5 DEF SameName
<1>6. QED
  BY <1>4, <1>5 DEF t

\* An entry has a name that fits the buffer and is a name of its fields.
LEMMA MatchesByName ==
  ASSUME SoundVolume, NEW at, NEW name \in Seq(Nat \ {0})
  PROVE  Matches(ItemOf(at), name) <=>
           ItemOf(at).kind \in {"file", "directory"} /\ Named(ItemOf(at), name)
<1> DEFINE x == ItemOf(at)
<1>1. CASE at \notin DOMAIN ItemAt
  BY <1>1 DEF ItemOf, Empty, Matches
<1>2. CASE at \in DOMAIN ItemAt
  <2> DEFINE base == x.base
             ext == x.ext
  <2>1. base \in Seq(Nat) /\ ext \in Seq(Nat) /\ ext # <<>>
        /\ Len(base) + Len(ext) + 1 < MaxPath
    BY <1>2 DEF SoundVolume, ItemOf
  <2>2. Padded(base) /\ Padded(ext) /\ MaxPath \in Nat
    BY <1>2, DirectoryAssumption DEF ItemOf
  <2> HIDE DEF base, ext
  <2>3. Len(base) \in Nat /\ Len(ext) \in Nat \ {0}
    BY <2>1
  <2>4. PICK n : EndsAt(base, n) /\ fat16_to_proper_string(base, MaxPath) = SubSeq(base, 1, n)
    <3>1. base \in Seq(Nat) /\ Padded(base) /\ Len(base) < MaxPath
      BY <2>1, <2>2, <2>3
    <3>2. QED
      BY <2>2, <3>1, FieldEnds
  <2> DEFINE b == SubSeq(base, 1, n)
             room == MaxPath - Len(b)
  <2>5. /\ n \in 0 .. Len(base) /\ Len(b) = n /\ b \in Seq(Nat)
        /\ \A i \in 1 .. n : b[i] = base[i] /\ b[i] \notin Blank
    BY <2>1, <2>3, <2>4 DEF EndsAt
  <2>6. room - 1 \in Nat /\ room > 1 /\ Len(ext) < room - 1
    BY <2>1, <2>2, <2>3, <2>5
  <2> HIDE DEF room, b
  <2>7. PICK m : EndsAt(ext, m) /\ fat16_to_proper_string(ext, room - 1) = SubSeq(ext, 1, m)
    <3>1. ext \in Seq(Nat) /\ Padded(ext)
      BY <2>1, <2>2
    <3>2. QED
      BY <2>6, <3>1, FieldEnds
  <2> DEFINE e == SubSeq(ext, 1, m)
             full == fat16_get_full_relative_filename(x)
  <2>8. /\ m \in 0 .. Len(ext) /\ Len(e) = m /\ e \in Seq(Nat)
        /\ \A i \in 1 .. m : e[i] = ext[i] /\ e[i] \notin Blank
    BY <2>1, <2>3, <2>7 DEF EndsAt
  <2>9. full = IF ext[1] \notin Blank THEN b \o <<46>> \o e ELSE b
    BY <2>4, <2>6, <2>7 DEF fat16_get_full_relative_filename, base, ext, room, b
  <2> HIDE DEF e
  <2>10. ext[1] \in Blank <=> m = 0
    BY <2>3, <2>7 DEF EndsAt
  <2>11. b \in Seq(Nat \ {0}) /\ e \in Seq(Nat \ {0}) /\ 46 \in Nat \ {0}
    <3>1. \A i \in 1 .. Len(b) : b[i] \in Nat \ {0}
      BY <2>5 DEF Blank
    <3>2. \A i \in 1 .. Len(e) : e[i] \in Nat \ {0}
      BY <2>8 DEF Blank
    <3>3. QED
      BY <2>5, <2>8, <3>1, <3>2
  <2>12. full \in Seq(Nat \ {0}) /\ Len(full) < MaxPath
    <3>1. b \o <<46>> \o e \in Seq(Nat \ {0}) /\ Len(b \o <<46>> \o e) = n + 1 + m
      <4>1. <<46>> \in Seq(Nat \ {0}) /\ Len(<<46>>) = 1
        OBVIOUS
      <4>2. b \o <<46>> \in Seq(Nat \ {0}) /\ Len(b \o <<46>>) = Len(b) + 1
        BY <2>11, <4>1, ConcatProperties
      <4>3. /\ (b \o <<46>>) \o e \in Seq(Nat \ {0})
            /\ Len((b \o <<46>>) \o e) = Len(b \o <<46>>) + Len(e)
        BY <2>11, <4>2, ConcatProperties
      <4>4. QED
        BY <2>5, <2>8, <4>2, <4>3
    <3>2. n + 1 + m < MaxPath /\ n < MaxPath
      BY <2>1, <2>2, <2>3, <2>5, <2>8
    <3>3. QED
      BY <2>5, <2>9, <2>11, <3>1, <3>2
  <2>13. Matches(x, name) <=> x.kind \in {"file", "directory"} /\ SameName(full, name)
    <3>1. istrncmp_equal(full, name, MaxPath) <=> SameName(full, name)
      BY <2>2, <2>12, ComparesNames
    <3>2. QED
      BY <3>1 DEF Matches
  <2> HIDE DEF full, x
  <2>14. base \in Seq(Nat) /\ ext \in Seq(Nat) /\ <<>> \in Seq(Nat) /\ name \in Seq(Nat)
    <3>1. name \in Seq(Nat)
      OBVIOUS
    <3>2. QED
      BY <2>1, <3>1
  <2>15. ASSUME NEW s \in Seq(Nat) PROVE Fills(s, base) <=> SameName(b, s)
    BY <2>4, <2>14, FillsIsSame DEF b
  <2>16. ASSUME NEW s \in Seq(Nat) PROVE Fills(s, ext) <=> SameName(e, s)
    BY <2>7, <2>14, FillsIsSame DEF e
  <2>17. Fills(<<>>, ext) <=> m = 0
    <3>1. Fills(<<>>, ext) <=> SameName(e, <<>>)
      BY <2>14, <2>16
    <3>2. SameName(e, <<>>) <=> m = 0
      BY <2>8 DEF SameName
    <3>3. QED
      BY <3>1, <3>2
  <2>18. Named(x, name) <=> SameName(full, name)
    <3>1. CASE m = 0
      BY <2>9, <2>10, <2>14, <2>15, <2>17, <3>1 DEF Named, base, ext
    <3>2. CASE m # 0
      <4>1. SameName(full, name) <=>
              \E i \in DOMAIN name : /\ name[i] = 46
                                     /\ SameName(b, SubSeq(name, 1, i-1))
                                     /\ SameName(e, SubSeq(name, i+1, Len(name)))
        BY <2>5, <2>8, <2>9, <2>10, <2>14, <3>2, DottedName
      <4>2. ASSUME NEW i \in DOMAIN name
            PROVE  /\ Fills(SubSeq(name, 1, i-1), base) <=> SameName(b, SubSeq(name, 1, i-1))
                   /\ Fills(SubSeq(name, i+1, Len(name)), ext)
                        <=> SameName(e, SubSeq(name, i+1, Len(name)))
        <5>1. SubSeq(name, 1, i-1) \in Seq(Nat) /\ SubSeq(name, i+1, Len(name)) \in Seq(Nat)
          BY <2>14, SMTT(60)
        <5>2. QED
          BY <2>15, <2>16, <5>1
      <4>3. Named(x, name) <=>
              \E i \in DOMAIN name : /\ name[i] = 46
                                     /\ Fills(SubSeq(name, 1, i-1), base)
                                     /\ Fills(SubSeq(name, i+1, Len(name)), ext)
        BY <2>17, <3>2 DEF Named, base, ext
      <4>4. QED
        BY <4>1, <4>2, <4>3
    <3>3. QED
      BY <3>1, <3>2
  <2>19. QED
    BY <2>13, <2>18 DEF x
<1>3. QED
  BY <1>1, <1>2

-----------------------------------------------------------------------------
(* The chain of a directory, as the driver follows it and as the volume    *)
(* has it.                                                                 *)

\* The clusters that a chain may have without coming back to one.
Longest == Cardinality(Clusters)

\* The positions along the longest chain are ints.
LEMMA LongestType ==
  ASSUME SoundVolume
  PROVE  Longest \in Nat /\ 2 * ((Longest + 1) * ClusterSize) < IntRange
BY FS_CardinalityType DEF SoundVolume, Longest

\* The function behind Chain.
Hops(c) ==
  CHOOSE link : link = [k \in 0 .. Longest |->
    IF k = 0 THEN c
    ELSE LET last == link[k-1] IN IF last \in Clusters THEN Fat[last] ELSE last]

\* Each cluster of a chain is the link of the one before it.
LEMMA ChainHops ==
  ASSUME SoundVolume, NEW c \in DOMAIN Fat
  PROVE  /\ Len(Chain(c)) = Longest + 1
         /\ Chain(c)[1] = c
         /\ \A k \in 1 .. Longest :
              Chain(c)[k+1] = IF Chain(c)[k] \in Clusters THEN Fat[Chain(c)[k]] ELSE Chain(c)[k]
<1> DEFINE step == [x \in Nat |-> IF x \in Clusters THEN Fat[x] ELSE x]
           H == Hops(c)
<1>1. Longest \in Nat /\ DOMAIN Fat \subseteq Nat /\ \A x \in Clusters : Fat[x] \in Nat
  BY LongestType DEF SoundVolume, SoundFat, Clusters
<1>2. step \in [Nat -> Nat] /\ c \in Nat
  BY <1>1
<1>3. PICK g \in [Nat -> Nat] : g[0] = c /\ \A n \in Nat : g[n+1] = step[g[n]]
  <2> DEFINE S == Nat
  <2>1. c \in S /\ step \in [S -> S]
    BY <1>2
  <2> HIDE DEF step, S
  <2>2. \E g \in [Nat -> S] : g[0] = c /\ \A n \in Nat : g[n+1] = step[g[n]]
    BY <2>1, Iterates, SMTT(60)
  <2>3. QED
    BY <2>2 DEF S
<1> DEFINE h == [k \in 0 .. Longest |-> g[k]]
<1>4. h = [k \in 0 .. Longest |->
             IF k = 0 THEN c
             ELSE LET last == h[k-1] IN IF last \in Clusters THEN Fat[last] ELSE last]
  <2>1. ASSUME NEW k \in 0 .. Longest, k # 0
        PROVE  h[k] = LET last == h[k-1] IN IF last \in Clusters THEN Fat[last] ELSE last
    <3>1. k-1 \in Nat /\ (k-1)+1 = k /\ k-1 \in 0 .. Longest /\ k \in Nat
      BY <1>1, <2>1
    <3>2. g[k] = step[g[k-1]] /\ g[k-1] \in Nat
      BY <1>3, <3>1
    <3>3. QED
      BY <3>1, <3>2
  <2>2. h[0] = c
    BY <1>1, <1>3
  <2>3. QED
    BY <2>1, <2>2
<1> HIDE DEF h
<1>5. H = [k \in 0 .. Longest |->
             IF k = 0 THEN c
             ELSE LET last == H[k-1] IN IF last \in Clusters THEN Fat[last] ELSE last]
  BY <1>4, ZenonT(60) DEF Hops
<1>6. Chain(c) = [k \in 1 .. Longest + 1 |-> H[k-1]]
  BY DEF Chain, Hops, Longest
<1> HIDE DEF H
<1>7. Len(Chain(c)) = Longest + 1 /\ \A k \in 1 .. Longest + 1 : Chain(c)[k] = H[k-1]
  BY <1>1, <1>6
<1>8. Chain(c)[1] = c
  BY <1>1, <1>5, <1>7
<1>9. ASSUME NEW k \in 1 .. Longest
      PROVE  Chain(c)[k+1] = IF Chain(c)[k] \in Clusters THEN Fat[Chain(c)[k]] ELSE Chain(c)[k]
  <2>1. k \in 0 .. Longest /\ k # 0 /\ k \in 1 .. Longest + 1 /\ k+1 \in 1 .. Longest + 1
        /\ (k+1)-1 = k
    BY <1>1
  <2>2. Chain(c)[k+1] = H[k] /\ Chain(c)[k] = H[k-1]
    BY <1>7, <2>1
  <2>3. H[k] = IF H[k-1] \in Clusters THEN Fat[H[k-1]] ELSE H[k-1]
    BY <1>5, <2>1
  <2>4. QED
    BY <2>2, <2>3
<1>10. QED
  BY <1>7, <1>8, <1>9

\* The first n clusters of a chain are clusters of the volume, and no more.
Inside(c, n) ==
  /\ n \in 0 .. Len(Chain(c))
  /\ \A k \in 1 .. n : Chain(c)[k] \in Clusters
  /\ n < Len(Chain(c)) => Chain(c)[n+1] \notin Clusters

\* There is such an n.
LEMMA SomeInside ==
  ASSUME SoundVolume, NEW c \in DOMAIN Fat
  PROVE  \E n \in 0 .. Len(Chain(c)) : Inside(c, n)
<1> DEFINE l == Len(Chain(c))
           Out == {k \in 1 .. l : Chain(c)[k] \notin Clusters}
<1>1. l \in Nat
  BY ChainHops, LongestType
<1> HIDE DEF l
<1>2. CASE Out = {}
  <2>1. Inside(c, l)
    BY <1>1, <1>2 DEF Inside, l
  <2>2. QED
    BY <1>1, <2>1 DEF l
<1>3. CASE Out # {}
  <2>1. PICK k \in Out : \A j \in Out : k <= j
    <3>1. Out \in SUBSET Nat
      OBVIOUS
    <3>2. QED
      BY <1>3, <3>1, Smallest
  <2>2. k-1 \in 0 .. l /\ (k-1)+1 = k /\ \A j \in 1 .. k-1 : j \in 1 .. l /\ ~(k <= j)
    BY <1>1, <2>1
  <2>3. Inside(c, k-1)
    BY <2>1, <2>2 DEF Inside, l
  <2>4. QED
    BY <2>2, <2>3 DEF l
<1>4. QED
  BY <1>2, <1>3

\* As long as the chain stays inside it is what the driver follows, and where
\* it leaves to the end of the chain the driver finds no more clusters.
LEMMA InsideIsLinks ==
  ASSUME SoundVolume, NEW c \in DOMAIN Fat, NEW n, Inside(c, n)
  PROVE  /\ n \in 0 .. Longest + 1
         /\ \A k \in 1 .. n : /\ Chain(c)[k] = Links(Fat, c)[k-1]
                              /\ Links(Fat, c)[k-1] # EIO
         /\ c # 0 /\ Last(Chain(c)) \notin Clusters \cup {1} =>
              n \in 1 .. Longest /\ Links(Fat, c)[n] = EIO
<1> DEFINE C == Chain(c)
           L == Links(Fat, c)
<1>1. /\ Longest \in Nat /\ n \in 0 .. Longest + 1 /\ Len(C) = Longest + 1 /\ C[1] = c
      /\ \A k \in 1 .. n : C[k] \in Clusters
      /\ n < Longest + 1 => C[n+1] \notin Clusters
      /\ \A k \in 1 .. Longest : C[k+1] = IF C[k] \in Clusters THEN Fat[C[k]] ELSE C[k]
  BY LongestType, ChainHops DEF Inside
<1>2. /\ SoundFat(Fat) /\ L[0] = c
      /\ \A k \in Nat : L[k+1] = IF L[k] = EIO \/ EndsChain(Fat[L[k]]) THEN EIO ELSE Fat[L[k]]
  BY LinksFollow DEF SoundVolume
<1>3. \A x \in DOMAIN Fat : x \in Nat /\ x < RESERVED /\ (x \in Clusters <=> x >= 2)
  BY DEF SoundVolume, SoundFat, Clusters
<1>4. \A x \in Clusters : x \in DOMAIN Fat /\ x # EIO /\ ~EndsChain(x) /\ x # 0 /\ x # 1
  BY <1>3 DEF Clusters, EIO, EndsChain, UNUSED, RESERVED
<1> HIDE DEF C, L
<1>5. \A k \in 1 .. n : C[k] = L[k-1]
  <2> DEFINE Wrong == {k \in 1 .. n : C[k] # L[k-1]}
  <2> SUFFICES ASSUME Wrong # {} PROVE FALSE
    OBVIOUS
  <2>1. PICK k \in Wrong : \A j \in Wrong : k <= j
    <3>1. Wrong \in SUBSET Nat
      OBVIOUS
    <3>2. QED
      BY <3>1, Smallest
  <2>2. k \in 1 .. n /\ k # 1
    <3>1. C[1] = L[1-1]
      <4>1. C[1] = c /\ 1-1 = 0
        BY <1>1
      <4>2. L[0] = c
        BY <1>2
      <4>3. QED
        BY <4>1, <4>2
    <3>2. k \in 1 .. n /\ C[k] # L[k-1]
      BY <2>1
    <3>3. QED
      BY <3>1, <3>2
  <2>3. /\ k-1 \in 1 .. n /\ k-1 \in 1 .. Longest /\ (k-1)+1 = k /\ ~(k <= k-1)
        /\ (k-1)-1 \in Nat /\ ((k-1)-1)+1 = k-1
    BY <1>1, <2>2
  <2>4. C[k-1] = L[(k-1)-1]
    BY <2>1, <2>3
  <2>5. C[k] = Fat[C[k-1]] /\ C[k] \in Clusters /\ C[k-1] \in Clusters
    BY <1>1, <2>2, <2>3
  <2>6. L[k-1] = Fat[C[k-1]]
    BY <1>2, <1>4, <2>3, <2>4, <2>5
  <2>7. QED
    BY <2>1, <2>5, <2>6
<1>6. \A k \in 1 .. n : L[k-1] # EIO
  BY <1>1, <1>4, <1>5
<1>7. ASSUME c # 0, Last(Chain(c)) \notin Clusters \cup {1}
      PROVE  n \in 1 .. Longest /\ L[n] = EIO
  <2>1. C[Longest + 1] \notin Clusters \cup {1}
    BY <1>1, <1>7 DEF Last, C
  <2>2. n \in 0 .. Longest
    BY <1>1, <2>1
  <2>3. \A k \in n+1 .. Longest + 1 : C[k] = C[n+1]
    <3> DEFINE Wrong == {k \in n+1 .. Longest + 1 : C[k] # C[n+1]}
    <3> SUFFICES ASSUME Wrong # {} PROVE FALSE
      OBVIOUS
    <3>1. PICK k \in Wrong : \A j \in Wrong : k <= j
      <4>1. Wrong \in SUBSET Nat
        BY <1>1
      <4>2. QED
        BY <4>1, Smallest
    <3>2. k \in n+1 .. Longest + 1 /\ k # n+1
      BY <3>1
    <3>3. k-1 \in n+1 .. Longest + 1 /\ k-1 \in 1 .. Longest /\ (k-1)+1 = k /\ ~(k <= k-1)
      BY <1>1, <3>2
    <3>4. C[k-1] = C[n+1]
      BY <3>1, <3>3
    <3>5. C[k] = C[k-1]
      BY <1>1, <2>2, <3>3, <3>4
    <3>6. QED
      BY <3>1, <3>4, <3>5
  <2>4. C[n+1] \notin Clusters /\ C[n+1] # 1
    BY <1>1, <2>1, <2>2, <2>3
  <2>5. n # 0
    <3> SUFFICES ASSUME n = 0 PROVE FALSE
      OBVIOUS
    <3>1. C[1] = c /\ c \notin Clusters /\ c # 1
      BY <1>1, <2>4
    <3>2. QED
      BY <1>3, <1>7, <3>1
  <2>6. n \in 1 .. Longest /\ n-1 \in Nat /\ (n-1)+1 = n /\ n \in 1 .. n
    BY <1>1, <2>2, <2>5
  <2>7. C[n] \in Clusters /\ C[n] = L[n-1] /\ C[n+1] = Fat[C[n]]
    BY <1>1, <1>5, <2>6
  <2>8. EndsChain(Fat[C[n]])
    <3>1. Fat[C[n]] \in DOMAIN Fat \/ EndsChain(Fat[C[n]])
      BY <1>2, <1>4, <2>7 DEF SoundFat
    <3>2. Fat[C[n]] \in DOMAIN Fat => Fat[C[n]] = 0
      BY <1>3, <2>4, <2>7
    <3>3. QED
      BY <3>1, <3>2 DEF EndsChain, UNUSED
  <2>9. QED
    BY <1>2, <2>6, <2>7, <2>8
<1>8. QED
  BY <1>1, <1>5, <1>6, <1>7 DEF C, L

-----------------------------------------------------------------------------
\* A cluster is a whole number of items.
LEMMA ItemsPerCluster ==
  /\ ItemSize \in Nat \ {0}
  /\ PerCluster \in Nat \ {0} /\ ClusterSize = PerCluster * ItemSize
<1> USE VolumeAssumption, DirectoryAssumption
<1> DEFINE q == SectorSize \div ItemSize
<1>1. q \in Nat /\ SectorSize = ItemSize * q
  OBVIOUS
<1> HIDE DEF q
<1>2. q # 0
  BY <1>1
<1> DEFINE p == SectorsPerCluster * q
<1>3. p \in Nat \ {0} /\ ClusterSize = p * ItemSize
  BY <1>1, <1>2 DEF ClusterSize
<1> HIDE DEF p
<1>4. (p * ItemSize + 0) \div ItemSize = p
  BY <1>3, DivMod
<1>5. p * ItemSize + 0 = ClusterSize
  BY <1>3
<1>6. PerCluster = p
  BY <1>4, <1>5 DEF PerCluster
<1>7. QED
  BY <1>3, <1>6

\* Where the item with the number k lies.
LEMMA ItemInCluster ==
  ASSUME NEW k \in Nat
  PROVE  /\ k \div PerCluster \in Nat /\ k % PerCluster \in 0 .. PerCluster-1
         /\ k = (k \div PerCluster) * PerCluster + (k % PerCluster)
         /\ k * ItemSize \in Nat
         /\ (k * ItemSize) \div ClusterSize = k \div PerCluster
         /\ (k * ItemSize) % ClusterSize = (k % PerCluster) * ItemSize
         /\ (k \div PerCluster) * ClusterSize <= k * ItemSize
         /\ k * ItemSize + ItemSize <= ((k \div PerCluster) + 1) * ClusterSize
<1> DEFINE q == k \div PerCluster
           r == k % PerCluster
           P == PerCluster
           I == ItemSize
<1>1. I \in Nat \ {0} /\ P \in Nat \ {0} /\ ClusterSize = P * I
  BY ItemsPerCluster
<1>2. q \in Nat /\ r \in 0 .. P-1 /\ k = q * P + r
  BY <1>1
<1> HIDE DEF q, r, P, I
<1>3. k * I = q * (P * I) + r * I
  BY <1>1, <1>2
<1>4. r * I \in 0 .. (P * I)-1 /\ r * I + I <= P * I
  <2>1. PICK e \in Nat : P = r + 1 + e
    <3>1. P - r - 1 \in Nat /\ P = r + 1 + (P - r - 1)
      BY <1>1, <1>2
    <3>2. QED
      BY <3>1
  <2>2. P * I = r * I + I + e * I
    BY <1>1, <1>2, <2>1
  <2>3. r * I \in Nat /\ e * I \in Nat
    BY <1>1, <1>2, <2>1
  <2>4. QED
    BY <1>1, <2>2, <2>3
<1>5. P * I \in Nat \ {0}
  BY <1>1
<1> DEFINE C == P * I
           x == r * I
<1>6. C \in Nat \ {0} /\ x \in 0 .. C-1 /\ x + I <= C /\ k * I = q * C + x /\ k * I \in Nat
  BY <1>1, <1>3, <1>4, <1>5
<1> HIDE DEF C, x
<1>7. (q * C + x) \div C = q /\ (q * C + x) % C = x
  BY <1>2, <1>6, DivMod
<1>8. q * C <= k * I /\ k * I + I <= (q + 1) * C
  BY <1>1, <1>2, <1>6
<1>9. QED
  BY <1>1, <1>2, <1>6, <1>7, <1>8 DEF C, x, q, r, P, I

\* The driver reads the item with the number k of a directory.
ReadsItem(c, k) == fat16_read_internal(Fat, c, k * ItemSize, ItemSize)

\* It reads it where its cluster lies, or fails where the chain has ended.
LEMMA ReadsItems ==
  ASSUME SoundVolume, NEW c \in DOMAIN Fat, NEW k \in Nat, k \div PerCluster <= Longest
  PROVE  IF Links(Fat, c)[k \div PerCluster] = EIO
         THEN ReadsItem(c, k).res # 0
         ELSE /\ ReadsItem(c, k).res = 0
              /\ ReadsItem(c, k).out[1]
                   = Start(Links(Fat, c)[k \div PerCluster]) + (k % PerCluster) * ItemSize
<1> DEFINE q == k \div PerCluster
           offset == k * ItemSize
           size == (Longest + 1) * ClusterSize
           it == [first |-> c, filesize |-> size]
           L == Links(Fat, c)
           s == BytesOf(Fat, it)
<1>1. Longest \in Nat /\ 2 * size < IntRange /\ ClusterSize \in Nat \ {0} /\ ItemSize \in Nat \ {0}
  BY LongestType, ClusterSizeType, ItemsPerCluster
<1>2. /\ q \in Nat /\ offset \in Nat
      /\ offset \div ClusterSize = q
      /\ offset % ClusterSize = (k % PerCluster) * ItemSize
      /\ q * ClusterSize <= offset /\ offset + ItemSize <= (q + 1) * ClusterSize
  BY ItemInCluster
<1> HIDE DEF q, offset
<1>3. q <= Longest
  BY DEF q
<1>4. \A a, b \in Nat : a <= b => a * ClusterSize <= b * ClusterSize /\ a * ClusterSize \in Nat
  BY <1>1
<1>5. size \in Nat /\ offset + ItemSize <= size
  <2>1. (q + 1) * ClusterSize <= size /\ (q + 1) * ClusterSize \in Nat
    BY <1>1, <1>2, <1>3, <1>4
  <2>2. size \in Nat
    BY <1>1
  <2> HIDE DEF size
  <2>3. QED
    BY <1>1, <1>2, <2>1, <2>2
<1>6. SoundFat(Fat) /\ it.first = c /\ it.filesize = size
  BY DEF SoundVolume
<1>7. PICK n \in Nat : ChainEnds(Fat, it, n)
  <2> HIDE DEF it, size
  <2>1. QED
    BY <1>5, <1>6, ChainFollows
<1>8. ReadsItem(c, k) = Promised(s, offset, ItemSize, 0)
  <2> HIDE DEF it, size
  <2>1. fat16_read_internal(Fat, it.first, offset, ItemSize) = Promised(BytesOf(Fat, it), offset, ItemSize, 0)
    BY <1>1, <1>2, <1>5, <1>6, ReadDelivers
  <2>2. QED
    BY <1>6, <2>1 DEF ReadsItem, offset
<1>9. /\ Len(s) = Least(size, n * ClusterSize)
      /\ \A i \in 1 .. Least(size, n * ClusterSize) :
           s[i] = Start(L[(i-1) \div ClusterSize]) + ((i-1) % ClusterSize)
  <2> HIDE DEF it, size
  <2>1. QED
    BY <1>5, <1>6, <1>7, ContentIs
<1>10. /\ \A j \in 0 .. n-1 : L[j] # EIO
       /\ n <= Longest => L[n] = EIO
  <2>1. /\ ChainOf(Fat, it) \in [1 .. n -> DOMAIN Fat]
        /\ \A i \in 1 .. n : ChainOf(Fat, it)[i] = L[i-1]
        /\ n < Needs(size) => L[n] = EIO
    BY <1>6, <1>7 DEF ChainEnds
  <2>2. ASSUME NEW j \in 0 .. n-1 PROVE L[j] # EIO
    <3>1. j+1 \in 1 .. n /\ (j+1)-1 = j
      BY <1>7
    <3>2. L[j] \in DOMAIN Fat
      BY <2>1, <3>1
    <3>3. QED
      BY <1>6, <3>2 DEF SoundFat, EIO
  <2>3. ASSUME n <= Longest PROVE n < Needs(size)
    <3>1. Needs(size) \in Nat /\ size <= Needs(size) * ClusterSize
      <4> HIDE DEF size
      <4>1. Needs(size) \in Nat
        BY <1>1, <1>5, NeedsEnough
      <4>2. QED
        BY <1>5, <4>1, NeedsEnough
    <3>2. ~(Needs(size) <= n)
      <4> SUFFICES ASSUME Needs(size) <= n PROVE FALSE
        OBVIOUS
      <4>1. Needs(size) * ClusterSize <= n * ClusterSize /\ n * ClusterSize <= Longest * ClusterSize
            /\ Longest * ClusterSize \in Nat /\ Needs(size) * ClusterSize \in Nat
            /\ n * ClusterSize \in Nat
        BY <1>1, <1>4, <2>3, <3>1
      <4>2. size = Longest * ClusterSize + ClusterSize
        BY <1>1
      <4>3. QED
        BY <1>1, <3>1, <4>1, <4>2
    <3>3. QED
      BY <3>1, <3>2
  <2>4. QED
    BY <2>1, <2>2, <2>3
<1> HIDE DEF it, size, s, L
<1>11. CASE L[q] = EIO
  <2>1. n <= q
    BY <1>2, <1>10, <1>11
  <2>2. n * ClusterSize <= q * ClusterSize /\ n * ClusterSize \in Nat /\ q * ClusterSize \in Nat
    BY <1>2, <1>4, <2>1
  <2>3. Len(s) <= n * ClusterSize
    BY <1>5, <1>9, <2>2 DEF Least
  <2>4. ~(offset + ItemSize <= Len(s))
    <3>1. Len(s) \in Nat
      BY <1>5, <1>9, <2>2 DEF Least
    <3>2. QED
      BY <1>1, <1>2, <2>2, <2>3, <3>1
  <2>5. ReadsItem(c, k).res = EIO
    BY <1>1, <1>8, <2>4 DEF Promised
  <2>6. QED
    BY <1>11, <2>5 DEF EIO, q, L
<1>12. CASE L[q] # EIO
  <2>1. ~(n <= q)
    <3> SUFFICES ASSUME n <= q PROVE FALSE
      OBVIOUS
    <3>1. L[n] = EIO
      BY <1>1, <1>2, <1>3, <1>10
    <3>2. L[q] = EIO
      BY <1>2, <1>6, <3>1, LinksEnd DEF L
    <3>3. QED
      BY <1>12, <3>2
  <2>2. (q + 1) * ClusterSize <= n * ClusterSize /\ (q + 1) * ClusterSize \in Nat
        /\ n * ClusterSize \in Nat
    <3>1. q + 1 \in Nat /\ q + 1 <= n /\ n <= n
      BY <1>2, <2>1
    <3>2. QED
      BY <1>4, <3>1
  <2>3. offset + ItemSize <= Len(s) /\ offset + 1 \in 1 .. Len(s)
    <3>1. offset + ItemSize <= n * ClusterSize
      BY <1>1, <1>2, <2>2
    <3>2. Len(s) = size \/ Len(s) = n * ClusterSize
      BY <1>9 DEF Least
    <3>3. Len(s) \in Nat /\ offset + ItemSize <= Len(s)
      BY <1>5, <2>2, <3>1, <3>2
    <3>4. QED
      BY <1>1, <1>2, <3>3
  <2>4. ReadsItem(c, k) = [res |-> 0, out |-> Part(s, offset + 0, offset + ItemSize)]
    BY <1>8, <2>3 DEF Promised
  <2>5. Part(s, offset + 0, offset + ItemSize)[1] = s[offset + 1]
    <3>1. 1 \in 1 .. (offset + ItemSize) - (offset + 0) /\ offset + 0 + 1 = offset + 1
      BY <1>1, <1>2
    <3>2. QED
      BY <3>1 DEF Part
  <2>6. s[offset + 1] = Start(L[q]) + (k % PerCluster) * ItemSize
    <3>1. (offset + 1) - 1 = offset
      BY <1>2
    <3>2. offset + 1 \in 1 .. Least(size, n * ClusterSize)
      BY <1>9, <2>3
    <3>3. QED
      BY <1>2, <1>9, <3>1, <3>2
  <2>7. QED
    BY <1>12, <2>4, <2>5, <2>6 DEF q, L
<1>13. QED
  BY <1>11, <1>12

-----------------------------------------------------------------------------
(* The count of the items of a directory.                                  *)

MaxItems == IntRange \div ItemSize

\* The function behind CountOf, its turn and its answer.
CountTurn(start, h, k) ==
  LET offset == Int32(k * ItemSize)
      r == fat16_read_internal(Fat, start, offset, ItemSize)
  IN  IF k = MaxItems THEN CountsForever
      ELSE IF r.res # 0 THEN CountFails
      ELSE IF r.res = 0 /\ ItemOf(r.out[1]).kind = "empty" THEN Counted(offset)
      ELSE h[k + 1]

Counting(start) == CHOOSE h : h = [k \in 0 .. MaxItems |-> CountTurn(start, h, k)]

\* The count ends at the item with the number k.
EndsCount(start, k) ==
  LET r == fat16_read_internal(Fat, start, Int32(k * ItemSize), ItemSize)
  IN  r.res # 0 \/ ItemOf(r.out[1]).kind = "empty"

CountAt(start, k) ==
  LET r == fat16_read_internal(Fat, start, Int32(k * ItemSize), ItemSize)
  IN  IF r.res # 0 THEN CountFails ELSE Counted(Int32(k * ItemSize))

\* A turn of the count is one of three.
LEMMA TurnCounts ==
  ASSUME NEW start, NEW h, NEW k
  PROVE  CountTurn(start, h, k) = IF k = MaxItems THEN CountsForever
                                  ELSE IF EndsCount(start, k) THEN CountAt(start, k)
                                  ELSE h[k + 1]
BY DEF CountTurn, EndsCount, CountAt

\* The equation of the count has a solution: what the first item that ends it
\* says, if there is one.
LEMMA CountSolves ==
  ASSUME NEW start, SoundVolume
  PROVE  /\ MaxItems \in Nat
         /\ Counting(start) = [k \in 0 .. MaxItems |-> CountTurn(start, Counting(start), k)]
<1> DEFINE M == MaxItems
           Ends(k) == {j \in k .. M-1 : EndsCount(start, j)}
           First(k) == CHOOSE j \in Ends(k) : \A i \in Ends(k) : j <= i
           g == [k \in 0 .. M |-> IF Ends(k) = {} THEN CountsForever ELSE CountAt(start, First(k))]
<1>1. M \in Nat
  BY VolumeAssumption, DirectoryAssumption DEF MaxItems
<1> HIDE DEF M
<1>2. ASSUME NEW k \in 0 .. M
      PROVE  g[k] = IF k = M THEN CountsForever
                    ELSE IF EndsCount(start, k) THEN CountAt(start, k)
                    ELSE g[k + 1]
  <2>1. CASE k = M
    BY <1>1, <2>1
  <2>2. CASE k # M /\ EndsCount(start, k)
    <3>1. k \in Ends(k) /\ \A i \in Ends(k) : k <= i /\ i \in Int
      BY <1>1, <2>2
    <3>2. ASSUME NEW j \in Ends(k), \A i \in Ends(k) : j <= i PROVE j = k
      BY <3>1, <3>2
    <3> HIDE DEF Ends
    <3>3. First(k) = k
      BY <3>1, <3>2
    <3>4. QED
      BY <2>2, <3>1, <3>3
  <2>3. CASE k # M /\ ~EndsCount(start, k)
    <3>1. Ends(k) = Ends(k+1) /\ k+1 \in 0 .. M
      BY <1>1, <2>3
    <3> HIDE DEF Ends
    <3>2. First(k) = First(k+1)
      BY <3>1
    <3>3. QED
      BY <2>3, <3>1, <3>2
  <2>4. QED
    BY <2>1, <2>2, <2>3
<1>3. g = [k \in 0 .. M |-> CountTurn(start, g, k)]
  <2>1. \A k \in 0 .. M : g[k] = CountTurn(start, g, k)
    <3> HIDE DEF g
    <3>1. QED
      BY <1>2, TurnCounts DEF M
  <2> DEFINE G(k) == IF Ends(k) = {} THEN CountsForever ELSE CountAt(start, First(k))
  <2>2. g = [k \in 0 .. M |-> G(k)]
    OBVIOUS
  <2> HIDE DEF G
  <2>3. \A k \in 0 .. M : g[k] = G(k)
    BY <2>2
  <2> HIDE DEF g
  <2>4. QED
    BY <2>1, <2>2, <2>3
<1> HIDE DEF g
<1>4. QED
  BY <1>1, <1>3 DEF Counting, M

\* The count is decided by the first item that ends it.
LEMMA CountEndsAt ==
  ASSUME SoundVolume, NEW c \in DOMAIN Fat, NEW m \in Nat, m < MaxItems, EndsCount(c, m),
         \A k \in 0 .. m-1 : ~EndsCount(c, k)
  PROVE  fat16_get_total_items[c] = CountAt(c, m)
<1> DEFINE h == Counting(c)
           M == MaxItems
<1>1. M \in Nat /\ h = [k \in 0 .. M |-> CountTurn(c, h, k)]
  BY CountSolves
<1>2. fat16_get_total_items[c] = h[0]
  BY DEF fat16_get_total_items, CountOf, Counting, CountTurn, MaxItems
<1> HIDE DEF h, M
<1>3. \A k \in 0 .. m : h[k] = IF k = m THEN CountAt(c, k) ELSE h[k+1]
  <2>1. \A k \in 0 .. M : h[k] = CountTurn(c, h, k)
    BY <1>1
  <2>2. \A k \in 0 .. m : k \in 0 .. M /\ k # M /\ (k # m => k \in 0 .. m-1)
    BY <1>1 DEF M
  <2>3. QED
    BY <2>1, <2>2, TurnCounts DEF M
<1> DEFINE Wrong == {j \in 0 .. m : h[m-j] # CountAt(c, m)}
<1>4. Wrong = {}
  <2> SUFFICES ASSUME Wrong # {} PROVE FALSE
    OBVIOUS
  <2>1. PICK j \in Wrong : \A i \in Wrong : j <= i
    <3>1. Wrong \in SUBSET Nat
      OBVIOUS
    <3>2. QED
      BY <3>1, Smallest
  <2>2. j \in 0 .. m /\ m-j \in 0 .. m /\ h[m-j] # CountAt(c, m)
    BY <2>1
  <2>3. m-j # m
    BY <1>3, <2>2
  <2>4. h[m-j] = h[(m-j)+1]
    BY <1>3, <2>2, <2>3
  <2>5. j-1 \in 0 .. m /\ ~(j <= j-1) /\ m-(j-1) = (m-j)+1
    BY <2>2, <2>3
  <2>6. h[m-(j-1)] = CountAt(c, m)
    BY <2>1, <2>5
  <2>7. QED
    BY <2>2, <2>4, <2>5, <2>6
<1>5. m \in 0 .. m /\ m-m = 0
  OBVIOUS
<1>6. h[0] = CountAt(c, m)
  BY <1>4, <1>5
<1>7. QED
  BY <1>2, <1>6

-----------------------------------------------------------------------------
\* What lies in the directory at c, of which n clusters can be read.
ListedIs(c, n) ==
  /\ Inside(c, n)
  /\ Len(Listed(c)) = n * PerCluster /\ DOMAIN Listed(c) = 1 .. n * PerCluster
  /\ \A i \in 1 .. n * PerCluster :
       Listed(c)[i] = ItemOf(Start(Links(Fat, c)[(i-1) \div PerCluster])
                             + ((i-1) % PerCluster) * ItemSize)

\* The clusters of the first n * PerCluster items are the first n.
LEMMA DivBelow ==
  ASSUME NEW n \in Nat, NEW i \in 1 .. n * PerCluster
  PROVE  (i-1) \div PerCluster \in 0 .. n-1
<1> DEFINE q == (i-1) \div PerCluster
           r == (i-1) % PerCluster
           P == PerCluster
<1>1. i-1 \in Nat /\ P \in Nat \ {0} /\ n * P \in Nat
  BY ItemsPerCluster
<1>2. q \in Nat /\ r \in 0 .. P-1 /\ i-1 = q * P + r /\ i-1 < n * P
  BY <1>1, ItemInCluster
<1> HIDE DEF q, r, P
<1>3. ~(n <= q)
  <2> SUFFICES ASSUME n <= q PROVE FALSE
    OBVIOUS
  <2>1. n * P <= q * P
    BY <1>1, <1>2
  <2>2. QED
    BY <1>1, <1>2, <2>1
<1>4. QED
  BY <1>2, <1>3 DEF q

\* Listed reads the directory along the links that the driver follows.
LEMMA ListedLies ==
  ASSUME SoundVolume, NEW c \in DOMAIN Fat
  PROVE  \E n : ListedIs(c, n)
<1> DEFINE chain == Chain(c)
           good(n) == /\ \A k \in 1 .. n : chain[k] \in Clusters
                      /\ n < Len(chain) => chain[n+1] \notin Clusters
           n == CHOOSE n \in 0 .. Len(chain) : good(n)
<1>1. \E m \in 0 .. Len(chain) : good(m)
  BY SomeInside DEF Inside
<1>2. Inside(c, n)
  <2>1. n \in 0 .. Len(chain) /\ good(n)
    <3> HIDE DEF good, chain
    <3>1. QED
      BY <1>1
  <2> HIDE DEF n
  <2>2. QED
    BY <2>1 DEF Inside
<1> DEFINE T == n * PerCluster
<1>3. Listed(c) = [i \in 1 .. T |-> ItemOf(Start(chain[((i-1) \div PerCluster) + 1])
                                           + ((i-1) % PerCluster) * ItemSize)]
  BY DEF Listed, Start
<1> HIDE DEF n
<1>4. n \in Nat /\ \A k \in 1 .. n : Chain(c)[k] = Links(Fat, c)[k-1]
  <2>1. n \in 0 .. Longest + 1 /\ Longest \in Nat
    BY <1>2, InsideIsLinks, LongestType
  <2>2. QED
    BY <1>2, <2>1, InsideIsLinks
<1>5. T \in Nat
  BY <1>4, ItemsPerCluster
<1>6. ASSUME NEW i \in 1 .. T
      PROVE  chain[((i-1) \div PerCluster) + 1] = Links(Fat, c)[(i-1) \div PerCluster]
  <2> DEFINE q == (i-1) \div PerCluster
  <2>1. q \in 0 .. n-1
    BY <1>4, DivBelow
  <2> HIDE DEF q
  <2>2. q+1 \in 1 .. n /\ (q+1)-1 = q
    BY <1>4, <2>1
  <2>3. chain[q+1] = Links(Fat, c)[q]
    BY <1>4, <2>2
  <2>4. QED
    BY <2>3 DEF q
<1> HIDE DEF T, chain
<1>7. Len(Listed(c)) = T /\ DOMAIN Listed(c) = 1 .. T
  BY <1>3, <1>5
<1>8. \A i \in 1 .. T : Listed(c)[i] = ItemOf(Start(Links(Fat, c)[(i-1) \div PerCluster])
                                              + ((i-1) % PerCluster) * ItemSize)
  BY <1>3, <1>6
<1>9. ListedIs(c, n)
  BY <1>2, <1>7, <1>8 DEF ListedIs, T
<1>10. QED
  BY <1>9

-----------------------------------------------------------------------------
(* What is listed in a directory is what the driver reads of it.           *)

\* The offsets of the items that the count may look at are ints.
LEMMA ItemOffset ==
  ASSUME SoundVolume, NEW k \in Nat, k <= (Longest + 1) * PerCluster
  PROVE  /\ k * ItemSize \in Nat /\ Int32(k * ItemSize) = k * ItemSize
         /\ k < MaxItems
         /\ (k * ItemSize) \div ItemSize = k
<1> DEFINE T == (Longest + 1) * PerCluster
           R == IntRange
           I == ItemSize
           q == MaxItems
           x == k * I
<1>1. I \in Nat \ {0} /\ PerCluster \in Nat \ {0} /\ ClusterSize = PerCluster * I /\ Longest \in Nat
      /\ R \in Nat
  BY ItemsPerCluster, LongestType, VolumeAssumption
<1>2. T \in Nat /\ (Longest + 1) * ClusterSize = T * I
  BY <1>1
<1> HIDE DEF T
<1>3. 2 * (T * I) < R
  BY <1>2, LongestType DEF R
<1>4. x \in Nat /\ x <= T * I /\ T * I \in Nat
  <2>1. k <= T
    BY DEF T
  <2>2. QED
    BY <1>1, <1>2, <2>1
<1>5. 2 * x < R
  <2> DEFINE z == T * I
  <2> HIDE DEF z, x
  <2>1. x \in Nat /\ z \in Nat /\ x <= z /\ 2 * z < R
    BY <1>3, <1>4 DEF z
  <2>2. QED
    BY <1>1, <2>1
<1>6. Int32(x) = x
  BY <1>4, <1>5, IntIsExact DEF R
<1>7. (x + 0) \div I = k
  BY <1>1, DivMod
<1>8. q \in Nat /\ R < q * I + I
  <2> DEFINE r == R % I
             d == R \div I
  <2>1. d \in Nat /\ r \in 0 .. I-1 /\ R = I * d + r
    BY <1>1
  <2> HIDE DEF d, r
  <2>2. q = d
    BY DEF MaxItems, d, R, I
  <2> HIDE DEF q
  <2>3. QED
    BY <1>1, <2>1, <2>2
<1> HIDE DEF q
<1>9. k < q \/ k = 0
  <2> SUFFICES ASSUME q <= k, k # 0 PROVE FALSE
    BY <1>8
  <2>1. q * I <= k * I /\ I <= k * I /\ q * I \in Nat
    BY <1>1, <1>8
  <2>2. QED
    BY <1>1, <1>4, <1>5, <1>8, <2>1
<1>10. q # 0
  <2> SUFFICES ASSUME q = 0 PROVE FALSE
    OBVIOUS
  <2>1. R < I
    BY <1>1, <1>8
  <2>2. I <= T * I
    <3>1. 1 <= T
      BY <1>1 DEF T
    <3>2. QED
      BY <1>1, <1>2, <3>1
  <2>3. QED
    BY <1>1, <1>3, <1>4, <2>1, <2>2
<1>11. k < q
  BY <1>8, <1>9, <1>10
<1>12. QED
  BY <1>4, <1>6, <1>7, <1>11 DEF q, x, I

\* What is listed of a directory is what the driver reads of it.
LEMMA ListedIsRead ==
  ASSUME SoundVolume, NEW c \in DOMAIN Fat, NEW n, ListedIs(c, n), NEW k \in Nat,
         k < n * PerCluster
  PROVE  /\ k+1 \in 1 .. n * PerCluster
         /\ k <= (Longest + 1) * PerCluster
         /\ EndsCount(c, k) <=> Listed(c)[k+1].kind = "empty"
         /\ EndsCount(c, k) => CountAt(c, k) = Counted(k * ItemSize)
         /\ ItemOf(ReadsItem(c, k).out[1]) = Listed(c)[k+1]
<1> DEFINE L == Links(Fat, c)
           q == k \div PerCluster
<1>1. /\ n \in 0 .. Longest + 1 /\ Longest \in Nat
      /\ \A j \in 1 .. n : L[j-1] # EIO
  BY InsideIsLinks, LongestType DEF ListedIs
<1>2. /\ k+1 \in 1 .. n * PerCluster /\ (k+1)-1 = k
      /\ n * PerCluster <= (Longest + 1) * PerCluster
  <2>1. n \in Nat /\ n <= Longest + 1 /\ Longest + 1 \in Nat /\ PerCluster \in Nat
    BY <1>1, ItemsPerCluster
  <2>2. n * PerCluster \in Nat /\ n * PerCluster <= (Longest + 1) * PerCluster
    BY <2>1
  <2>3. QED
    BY <2>2
<1>3. q \in 0 .. n-1
  BY <1>1, <1>2, DivBelow
<1> HIDE DEF q, L
<1>4. q+1 \in 1 .. n /\ (q+1)-1 = q /\ q <= Longest
  BY <1>1, <1>3
<1>5. L[q] # EIO
  BY <1>1, <1>4
<1>6. /\ ReadsItem(c, k).res = 0
      /\ ReadsItem(c, k).out[1] = Start(L[q]) + (k % PerCluster) * ItemSize
  BY <1>4, <1>5, ReadsItems DEF q, L
<1>7. Listed(c)[k+1] = ItemOf(Start(L[q]) + (k % PerCluster) * ItemSize)
  BY <1>2 DEF ListedIs, q, L
<1>8. k <= (Longest + 1) * PerCluster
  <2>1. n * PerCluster \in Int /\ (Longest + 1) * PerCluster \in Int
    BY <1>1, ItemsPerCluster
  <2> HIDE DEF q
  <2>2. QED
    BY <1>2, <2>1
<1>9. Int32(k * ItemSize) = k * ItemSize
  BY <1>8, ItemOffset
<1>10. QED
  BY <1>2, <1>6, <1>7, <1>8, <1>9 DEF EndsCount, CountAt, ReadsItem

\* A directory is counted up to its first empty item and its items are those
\* in front of it; one without an empty item, whose chain ends, is not read.
LEMMA DirectoryIsRead ==
  ASSUME SoundVolume, NEW c \in DOMAIN Fat
  PROVE  /\ Sort[c] \in {"directory", "nothing", "unknown"}
         /\ Sort[c] = "directory" =>
              \E m \in Nat :
                /\ m+1 \in DOMAIN Listed(c) /\ Listed(c)[m+1].kind = "empty"
                /\ \A i \in 1 .. m : i \in DOMAIN Listed(c) /\ Listed(c)[i].kind # "empty"
                /\ fat16_get_total_items[c] = Counted(m * ItemSize)
                /\ Items[c] = [i \in 1 .. m |-> Listed(c)[i]]
         /\ Sort[c] = "nothing" => fat16_get_total_items[c] = CountFails
<1> DEFINE X == Listed(c)
<1>1. PICK n : ListedIs(c, n)
  BY ListedLies
<1>2. /\ n \in 0 .. Longest + 1 /\ Longest \in Nat
      /\ c # 0 /\ Last(Chain(c)) \notin Clusters \cup {1} =>
           n \in 1 .. Longest /\ Links(Fat, c)[n] = EIO
  BY <1>1, InsideIsLinks, LongestType DEF ListedIs
<1> DEFINE T == n * PerCluster
<1>3. T \in Nat /\ DOMAIN X = 1 .. T /\ Len(X) = T
  BY <1>1, <1>2, ItemsPerCluster DEF ListedIs
<1> DEFINE some == \E e \in Range(X) : e.kind = "empty"
<1>4. Sort[c] = IF some THEN "directory"
                ELSE IF c = 0 \/ Last(Chain(c)) \in Clusters \cup {1} THEN "unknown"
                ELSE "nothing"
  BY DEF Sort
<1>5. some <=> \E i \in 1 .. T : X[i].kind = "empty"
  BY <1>3 DEF Range
<1>6. ASSUME NEW k \in Nat, k < T
      PROVE  /\ k+1 \in 1 .. T
             /\ k <= (Longest + 1) * PerCluster
             /\ EndsCount(c, k) <=> X[k+1].kind = "empty"
             /\ EndsCount(c, k) => CountAt(c, k) = Counted(k * ItemSize)
             /\ ItemOf(ReadsItem(c, k).out[1]) = X[k+1]
  BY <1>1, <1>6, ListedIsRead
<1> HIDE DEF X, T, some
<1>7. ASSUME some
      PROVE  \E m \in Nat :
                /\ m+1 \in DOMAIN X /\ X[m+1].kind = "empty"
                /\ \A i \in 1 .. m : i \in DOMAIN X /\ X[i].kind # "empty"
                /\ fat16_get_total_items[c] = Counted(m * ItemSize)
                /\ Items[c] = [i \in 1 .. m |-> X[i]]
  <2> DEFINE E == {i \in 1 .. T : X[i].kind = "empty"}
  <2>1. PICK i \in E : \A j \in E : i <= j
    <3>1. E \in SUBSET Nat /\ E # {}
      BY <1>5, <1>7
    <3>2. QED
      BY <3>1, Smallest
  <2> DEFINE m == i-1
  <2>2. m \in Nat /\ m < T /\ m+1 = i /\ X[m+1].kind = "empty"
        /\ \A j \in 1 .. m : j \in 1 .. T /\ X[j].kind # "empty"
    BY <1>3, <2>1
  <2> HIDE DEF m
  <2>3. EndsCount(c, m) /\ CountAt(c, m) = Counted(m * ItemSize)
        /\ m <= (Longest + 1) * PerCluster
    BY <1>6, <2>2
  <2>4. \A k \in 0 .. m-1 : ~EndsCount(c, k)
    <3> SUFFICES ASSUME NEW k \in 0 .. m-1 PROVE ~EndsCount(c, k)
      OBVIOUS
    <3>1. k \in Nat /\ k < T /\ k+1 \in 1 .. m
      BY <1>3, <2>2
    <3>2. QED
      BY <1>6, <2>2, <3>1
  <2>5. m < MaxItems /\ (m * ItemSize) \div ItemSize = m
    BY <2>2, <2>3, ItemOffset
  <2>6. fat16_get_total_items[c] = Counted(m * ItemSize)
    BY <2>2, <2>3, <2>4, <2>5, CountEndsAt
  <2>7. Items[c] = [k \in 1 .. m |->
                      ItemOf(fat16_read_internal(Fat, c, (k-1) * ItemSize, ItemSize).out[1])]
    <3>1. fat16_get_total_items[c].offset \div ItemSize = m
      BY <2>5, <2>6 DEF Counted
    <3>2. QED
      BY <3>1 DEF Items
  <2>8. Items[c] = [k \in 1 .. m |-> X[k]]
    <3>1. ASSUME NEW k \in 1 .. m
          PROVE  ItemOf(fat16_read_internal(Fat, c, (k-1) * ItemSize, ItemSize).out[1]) = X[k]
      <4>1. k-1 \in Nat /\ k-1 < T /\ (k-1)+1 = k
        BY <1>3, <2>2
      <4>2. QED
        BY <1>6, <4>1 DEF ReadsItem
    <3>2. QED
      BY <2>7, <3>1
  <2>9. QED
    BY <1>3, <2>1, <2>2, <2>6, <2>8
<1>8. ASSUME ~some, c # 0, Last(Chain(c)) \notin Clusters \cup {1}
      PROVE  fat16_get_total_items[c] = CountFails
  <2>1. n \in 1 .. Longest /\ Links(Fat, c)[n] = EIO
    BY <1>2, <1>8
  <2>2. T \div PerCluster = n /\ T <= (Longest + 1) * PerCluster
    <3>1. (n * PerCluster + 0) \div PerCluster = n
      BY <2>1, ItemsPerCluster, DivMod
    <3>2. n * PerCluster + 0 = T
      BY <1>3 DEF T
    <3>3. n * PerCluster <= (Longest + 1) * PerCluster
      <4>1. n \in Nat /\ Longest + 1 \in Nat /\ PerCluster \in Nat /\ n <= Longest + 1
        BY <1>2, <2>1, ItemsPerCluster
      <4>2. QED
        BY <4>1
    <3>4. QED
      BY <3>1, <3>2, <3>3 DEF T
  <2>3. ReadsItem(c, T).res # 0
    BY <1>2, <1>3, <2>1, <2>2, ReadsItems
  <2>4. Int32(T * ItemSize) = T * ItemSize /\ T < MaxItems
    BY <1>3, <2>2, ItemOffset
  <2>5. EndsCount(c, T) /\ CountAt(c, T) = CountFails
    BY <2>3, <2>4 DEF EndsCount, CountAt, ReadsItem
  <2>6. \A k \in 0 .. T-1 : ~EndsCount(c, k)
    <3> SUFFICES ASSUME NEW k \in 0 .. T-1 PROVE ~EndsCount(c, k)
      OBVIOUS
    <3>1. k \in Nat /\ k < T
      BY <1>3
    <3>2. QED
      BY <1>5, <1>6, <1>8, <3>1
  <2>7. QED
    BY <1>3, <2>4, <2>5, <2>6, CountEndsAt
<1>9. QED
  BY <1>4, <1>7, <1>8 DEF X

-----------------------------------------------------------------------------
(* What a name finds in a directory.                                       *)

\* items are what is in front of the first empty item of all.
InFront(items, all) ==
  \E m, n \in Nat :
    /\ m <= n /\ DOMAIN all = 1 .. n
    /\ items = [i \in 1 .. m |-> all[i]]
    /\ \A i \in 1 .. m : all[i].kind # "empty"
    /\ m < n => all[m+1].kind = "empty"
    /\ \A i \in 1 .. n : \E at : all[i] = ItemOf(at)

\* The driver reads the root directory up to its first empty item...
LEMMA RootInFront == InFront(RootItems, RootListed)
<1> DEFINE stops(n) == /\ \A k \in 0 .. n-1 : ItemOf(RootPos + k * ItemSize).kind # "empty"
                       /\ n < RootEntries => ItemOf(RootPos + n * ItemSize).kind = "empty"
           m == RootTotal
<1>1. RootEntries \in Nat /\ ItemSize \in Nat
  BY DirectoryAssumption
<1>2. \E n \in 0 .. RootEntries : stops(n)
  <2> DEFINE E == {k \in 0 .. RootEntries-1 : ItemOf(RootPos + k * ItemSize).kind = "empty"}
  <2>1. CASE E = {}
    <3>1. \A k \in 0 .. RootEntries-1 : ItemOf(RootPos + k * ItemSize).kind # "empty"
      BY <2>1
    <3>2. stops(RootEntries)
      BY <1>1, <3>1
    <3>3. QED
      BY <1>1, <3>2
  <2>2. CASE E # {}
    <3>1. E \in SUBSET Nat
      OBVIOUS
    <3>2. PICK k \in E : \A j \in E : k <= j
      BY <2>2, <3>1, Smallest
    <3>3. k \in 0 .. RootEntries /\ \A j \in 0 .. k-1 : j \in 0 .. RootEntries-1 /\ ~(k <= j)
      BY <1>1, <3>2
    <3>4. stops(k)
      BY <3>2, <3>3
    <3>5. QED
      BY <3>3, <3>4
  <2>3. QED
    BY <2>1, <2>2
<1>3. m \in 0 .. RootEntries /\ stops(m)
  BY <1>2 DEF RootTotal, FullItems
<1>4. /\ m \in Nat /\ m <= RootEntries
      /\ DOMAIN RootListed = 1 .. RootEntries
      /\ \A i \in 1 .. RootEntries : RootListed[i] = ItemOf(RootPos + (i-1) * ItemSize)
  BY <1>1, <1>3 DEF RootListed
<1>5. RootItems = [i \in 1 .. m |-> RootListed[i]]
  BY <1>1, <1>4 DEF RootItems
<1> HIDE DEF m
<1>6. \A i \in 1 .. m : RootListed[i].kind # "empty"
  <2> SUFFICES ASSUME NEW i \in 1 .. m PROVE RootListed[i].kind # "empty"
    OBVIOUS
  <2>1. i-1 \in 0 .. m-1 /\ i \in 1 .. RootEntries
    BY <1>1, <1>4
  <2>2. QED
    BY <1>3, <1>4, <2>1
<1>7. m < RootEntries => RootListed[m+1].kind = "empty"
  <2> SUFFICES ASSUME m < RootEntries PROVE RootListed[m+1].kind = "empty"
    OBVIOUS
  <2>1. m+1 \in 1 .. RootEntries /\ (m+1)-1 = m
    BY <1>1, <1>4
  <2>2. RootListed[m+1] = ItemOf(RootPos + ((m+1)-1) * ItemSize)
    BY <1>4, <2>1
  <2>3. QED
    BY <1>3, <2>1, <2>2
<1>8. \A i \in 1 .. RootEntries : \E at : RootListed[i] = ItemOf(at)
  BY <1>4
<1>9. QED
  BY <1>1, <1>4, <1>5, <1>6, <1>7, <1>8 DEF InFront

\* ... and any other one whose first empty item it can reach.
LEMMA DirectoryInFront ==
  ASSUME SoundVolume, NEW c \in DOMAIN Fat, Sort[c] = "directory"
  PROVE  InFront(Items[c], Listed(c)) /\ fat16_get_total_items[c].why = "counted"
         /\ ~(fat16_get_total_items[c].offset < 0)
<1>1. PICK m \in Nat :
        /\ m+1 \in DOMAIN Listed(c) /\ Listed(c)[m+1].kind = "empty"
        /\ \A i \in 1 .. m : i \in DOMAIN Listed(c) /\ Listed(c)[i].kind # "empty"
        /\ fat16_get_total_items[c] = Counted(m * ItemSize)
        /\ Items[c] = [i \in 1 .. m |-> Listed(c)[i]]
  BY DirectoryIsRead
<1>2. PICK n : ListedIs(c, n)
  BY ListedLies
<1> DEFINE T == n * PerCluster
<1>3. T \in Nat /\ DOMAIN Listed(c) = 1 .. T /\ \A i \in 1 .. T : \E at : Listed(c)[i] = ItemOf(at)
  <2>1. n \in 0 .. Longest + 1 /\ Longest \in Nat
    BY <1>2, InsideIsLinks, LongestType DEF ListedIs
  <2>2. n \in Nat
    BY <2>1
  <2>3. T \in Nat
    BY <2>2, ItemsPerCluster
  <2>4. QED
    BY <1>2, <2>3 DEF ListedIs
<1> HIDE DEF T
<1>4. m <= T
  BY <1>1, <1>3
<1>5. InFront(Items[c], Listed(c))
  BY <1>1, <1>3, <1>4 DEF InFront
<1>6. m * ItemSize \in Nat
  BY <1>1, ItemsPerCluster
<1>7. QED
  BY <1>1, <1>5, <1>6 DEF Counted

\* An entry has these four fields.
IsEntry(e) == e = [kind |-> e.kind, base |-> e.base, ext |-> e.ext, cluster |-> e.cluster]

\* What a name finds among the items in front of the empty one is what it
\* finds by the layout of the volume.
LEMMA FirstFound ==
  ASSUME SoundVolume, NEW items, NEW all, InFront(items, all), NEW name \in Seq(Nat \ {0})
  PROVE  /\ IsEntry(Found(all, name))
         /\ IF \E i \in DOMAIN items : IsFirstMatch(items, name, i)
            THEN LET e == items[CHOOSE i \in DOMAIN items : IsFirstMatch(items, name, i)]
                 IN  /\ Found(all, name) = e
                     /\ e.kind \in {"file", "directory"} /\ e.cluster \in DOMAIN Fat
            ELSE Found(all, name).kind = "empty"
<1> DEFINE Stops(e) == e.kind = "empty" \/ (e.kind \in {"file", "directory"} /\ Named(e, name))
           First(i) == Stops(all[i]) /\ \A j \in 1 .. i-1 : ~Stops(all[j])
           Hit(i) == IsFirstMatch(items, name, i)
<1>1. PICK m \in Nat, n \in Nat :
        /\ m <= n /\ DOMAIN all = 1 .. n
        /\ items = [i \in 1 .. m |-> all[i]]
        /\ \A i \in 1 .. m : all[i].kind # "empty"
        /\ m < n => all[m+1].kind = "empty"
        /\ \A i \in 1 .. n : \E at : all[i] = ItemOf(at)
  BY DEF InFront
<1>2. /\ DOMAIN items = 1 .. m
      /\ \A i \in 1 .. m : items[i] = all[i] /\ i \in 1 .. n
  BY <1>1
<1>3. \A at : IsEntry(ItemOf(at)) /\ (ItemOf(at).kind # "empty" => ItemOf(at).cluster \in DOMAIN Fat)
  BY DEF SoundVolume, ItemOf, IsEntry, Empty
<1>4. \A i \in 1 .. n : /\ IsEntry(all[i])
                        /\ all[i].kind # "empty" => all[i].cluster \in DOMAIN Fat
  BY <1>1, <1>3
<1>5. \A i \in 1 .. m : Matches(items[i], name) <=> Stops(all[i])
  <2> SUFFICES ASSUME NEW i \in 1 .. m PROVE Matches(items[i], name) <=> Stops(all[i])
    OBVIOUS
  <2>1. PICK at : all[i] = ItemOf(at)
    BY <1>1, <1>2
  <2>2. Matches(ItemOf(at), name) <=>
          ItemOf(at).kind \in {"file", "directory"} /\ Named(ItemOf(at), name)
    BY MatchesByName
  <2>3. QED
    BY <1>1, <1>2, <2>1, <2>2
<1>6. Found(all, name) = IF \E i \in 1 .. n : First(i)
                         THEN all[CHOOSE i \in 1 .. n : First(i)] ELSE Empty
  BY <1>1 DEF Found
<1> HIDE DEF Stops
<1>7. \A i \in 1 .. n : \A j \in 1 .. n : First(i) /\ First(j) => i = j
  <2> SUFFICES ASSUME NEW i \in 1 .. n, NEW j \in 1 .. n, First(i), First(j) PROVE i = j
    OBVIOUS
  <2>1. ~(i < j)
    <3> SUFFICES ASSUME i < j PROVE FALSE
      OBVIOUS
    <3>1. i \in 1 .. j-1
      OBVIOUS
    <3>2. QED
      BY <3>1
  <2>2. ~(j < i)
    <3> SUFFICES ASSUME j < i PROVE FALSE
      OBVIOUS
    <3>1. j \in 1 .. i-1
      OBVIOUS
    <3>2. QED
      BY <3>1
  <2>3. QED
    BY <2>1, <2>2
<1>8. \A i \in 1 .. m : Hit(i) <=> First(i)
  <2> SUFFICES ASSUME NEW i \in 1 .. m PROVE Hit(i) <=> First(i)
    OBVIOUS
  <2>1. \A j \in 1 .. i-1 : j \in 1 .. m
    OBVIOUS
  <2>2. QED
    BY <1>5, <2>1 DEF IsFirstMatch
<1>9. CASE \E i \in 1 .. m : Hit(i)
  <2> DEFINE k == CHOOSE i \in DOMAIN items : Hit(i)
  <2>1. k \in 1 .. m /\ Hit(k)
    BY <1>2, <1>9
  <2>2. k \in 1 .. n /\ First(k)
    BY <1>2, <1>8, <2>1
  <2> HIDE DEF k, First
  <2>3. (CHOOSE i \in 1 .. n : First(i)) = k
    BY <1>7, <2>2
  <2>4. Found(all, name) = all[k]
    BY <1>6, <2>2, <2>3
  <2>5. all[k] = items[k] /\ items[k].kind \in {"file", "directory"}
    BY <1>2, <2>1 DEF IsFirstMatch, Matches
  <2>6. IsEntry(all[k]) /\ all[k].cluster \in DOMAIN Fat
    BY <1>4, <2>2, <2>5
  <2>7. QED
    BY <1>2, <1>9, <2>4, <2>5, <2>6 DEF k
<1>10. CASE ~ \E i \in 1 .. m : Hit(i)
  <2>1. \A i \in 1 .. m : ~Stops(all[i])
    <3> DEFINE S == {i \in 1 .. m : Stops(all[i])}
    <3> SUFFICES ASSUME S # {} PROVE FALSE
      OBVIOUS
    <3>1. PICK i \in S : \A j \in S : i <= j
      <4>1. S \in SUBSET Nat
        OBVIOUS
      <4>2. QED
        BY <4>1, Smallest
    <3>2. i \in 1 .. m /\ \A j \in 1 .. i-1 : j \in 1 .. m /\ ~(i <= j)
      BY <3>1
    <3>3. First(i)
      BY <3>1, <3>2
    <3>4. QED
      BY <1>8, <1>10, <3>2, <3>3
  <2>2. CASE m < n
    <3>1. m+1 \in 1 .. n /\ all[m+1].kind = "empty" /\ (m+1)-1 = m
      BY <1>1, <2>2
    <3>2. First(m+1)
      BY <2>1, <3>1 DEF Stops
    <3> HIDE DEF First
    <3>3. (CHOOSE i \in 1 .. n : First(i)) = m+1
      BY <1>7, <3>1, <3>2
    <3>4. Found(all, name) = all[m+1]
      BY <1>6, <3>1, <3>2, <3>3
    <3>5. QED
      BY <1>2, <1>4, <1>10, <3>1, <3>4
  <2>3. CASE ~(m < n)
    <3>1. m = n
      BY <1>1, <2>3
    <3>2. ~ \E i \in 1 .. n : First(i)
      BY <2>1, <3>1
    <3> HIDE DEF First
    <3>3. Found(all, name) = Empty
      BY <1>6, <3>2
    <3>4. QED
      BY <1>2, <1>10, <3>3 DEF Empty, IsEntry
  <2>4. QED
    BY <2>2, <2>3
<1>11. QED
  BY <1>9, <1>10

-----------------------------------------------------------------------------
\* What is there at an entry, as the item that a lookup makes of it.
Agrees(it, e) ==
  /\ e.kind \in {"file", "directory"} => it.type = e.kind /\ it.cluster = e.cluster
  /\ e.kind = "nothing" => it = NoItem

\* An entry that a path may lead to.
Led(e) ==
  /\ IsEntry(e) /\ e.kind \in {"file", "directory", "nothing", "unknown"}
  /\ e.kind = "directory" => e.cluster \in DOMAIN Fat /\ Sort[e.cluster] = "directory"

\* A lookup that has not run out of memory agrees with the entry e.
Brought(r, e) ==
  /\ Led(e)
  /\ r.item = NoItem \/ r.item.type \in {"file", "directory"}
  /\ r.why = "starved" => r.item = NoItem
  /\ r.why # "starved" => Agrees(r.item, e)
  /\ r.why \in {"endless", "lost"} => e.kind = "unknown"

\* A new item has the type and the cluster of its entry, or there is a reason
\* why there is none.
LEMMA NewItemIs ==
  ASSUME NEW u, NEW e, e.kind \in {"file", "directory"}
  PROVE  LET r == fat16_new_fat_item(u, e)
             total == fat16_get_total_items[e.cluster]
         IN  \/ r.item = NoItem /\ r.why = "starved"
             \/ /\ r.item = NoItem /\ r.why = total.why
                /\ e.kind = "directory" /\ total.why # "counted"
             \/ /\ r.item.type = e.kind /\ r.item.cluster = e.cluster /\ r.why = "made"
                /\ e.kind = "directory" => total.why = "counted"
<1> DEFINE f == Taken(u)
           it == [NoItem EXCEPT !.type = e.kind, !.cluster = e.cluster, !.item = f]
           v == Hold(u, f, "item")
           total == fat16_get_total_items[e.cluster]
           r == fat16_new_fat_item(u, e)
           filled == IF e.kind = "directory" THEN fat16_load_fat_directory(v, it)
                     ELSE fat16_clone_directory_item(v, it)
<1>1. it = [type |-> e.kind, cluster |-> e.cluster, item |-> f, object |-> NULL, items |-> NULL]
  BY FilledItem
<1>2. r = IF f = NULL THEN Not(u, "starved")
          ELSE IF filled.item = NoItem THEN Not(Freed(filled.use, {f}), filled.why)
          ELSE filled
  BY DEF fat16_new_fat_item
<1>3. NoItem.type = "none"
  BY DEF NoItem
<1> HIDE DEF it, v, f
<1>4. it.cluster = e.cluster
  BY <1>1
<1>5. ASSUME NEW o, NEW i
      PROVE  /\ [it EXCEPT !.object = o].type = e.kind
             /\ [it EXCEPT !.object = o].cluster = e.cluster
             /\ [it EXCEPT !.object = o, !.items = i].type = e.kind
             /\ [it EXCEPT !.object = o, !.items = i].cluster = e.cluster
  BY <1>1
<1>6. \/ filled.item = NoItem /\ filled.why = "starved"
      \/ /\ filled.item = NoItem /\ filled.why = total.why
         /\ e.kind = "directory" /\ total.why # "counted"
      \/ /\ filled.item.type = e.kind /\ filled.item.cluster = e.cluster /\ filled.why = "made"
         /\ e.kind = "directory" => total.why = "counted"
  <2>1. CASE e.kind = "directory"
    <3>1. filled = fat16_load_fat_directory(v, it)
      BY <2>1
    <3> HIDE DEF filled
    <3>2. QED
      BY <1>4, <1>5, <2>1, <3>1 DEF fat16_load_fat_directory, Made, Not
  <2>2. CASE e.kind = "file"
    <3>1. filled = fat16_clone_directory_item(v, it)
      BY <2>2
    <3> HIDE DEF filled
    <3>2. QED
      BY <1>4, <1>5, <2>2, <3>1 DEF fat16_clone_directory_item, Made, Not
  <2>3. QED
    BY <2>1, <2>2
<1> HIDE DEF filled, r, total
<1>7. filled.item.type = e.kind => filled.item # NoItem
  BY <1>3
<1>8. \/ r.item = NoItem /\ r.why = "starved"
      \/ (r.item = NoItem /\ r.why = filled.why /\ filled.item = NoItem)
      \/ (r = filled /\ filled.item # NoItem)
  BY <1>2 DEF Not
<1>9. QED
  BY <1>6, <1>7, <1>8 DEF r, total

\* A lookup brings what the name finds.
LEMMA LooksUp ==
  ASSUME SoundVolume, NEW u, NEW items, NEW all, InFront(items, all), NEW name \in Seq(Nat \ {0})
  PROVE  Brought(fat16_find_item_in_directory(u, items, name), Read(Found(all, name)))
<1> DEFINE x == Found(all, name)
           e == Read(x)
           r == fat16_find_item_in_directory(u, items, name)
           some == \E i \in DOMAIN items : IsFirstMatch(items, name, i)
           y == items[CHOOSE i \in DOMAIN items : IsFirstMatch(items, name, i)]
<1> SUFFICES Brought(r, e)
  OBVIOUS
<1>1. some => x = y /\ y.kind \in {"file", "directory"} /\ y.cluster \in DOMAIN Fat
  BY FirstFound
<1>2. IsEntry(x) /\ (~some => x.kind = "empty")
  BY FirstFound
<1>3. r = IF some THEN fat16_new_fat_item(u, y) ELSE Not(u, "missing")
  BY DEF fat16_find_item_in_directory
<1> HIDE DEF x, some, y, r
<1> DEFINE kind == CASE x.kind = "directory" -> Sort[x.cluster]
                     [] x.kind = "empty"     -> "nothing"
                     [] OTHER                -> x.kind
<1>4. e = [x EXCEPT !.kind = kind]
  BY DEF Read
<1> HIDE DEF kind, e
<1>5. /\ IsEntry(e) /\ e.kind = kind /\ e.cluster = x.cluster
  BY <1>2, <1>4 DEF IsEntry
<1>6. NoItem.type = "none"
  BY DEF NoItem
<1>7. CASE ~some
  BY <1>2, <1>3, <1>5, <1>7 DEF Not, Brought, Led, Agrees, kind
<1>8. CASE some /\ x.kind = "file"
  <2>1. kind = "file"
    BY <1>8 DEF kind
  <2>2. \/ r.item = NoItem /\ r.why = "starved"
        \/ r.item.type = "file" /\ r.item.cluster = x.cluster /\ r.why = "made"
    BY <1>1, <1>2, <1>3, <1>8, NewItemIs
  <2>3. QED
    BY <1>5, <1>6, <2>1, <2>2 DEF Brought, Led, Agrees
<1>9. CASE some /\ x.kind = "directory"
  <2> DEFINE c == x.cluster
             total == fat16_get_total_items[c]
  <2>1. kind = Sort[c] /\ c \in DOMAIN Fat
    BY <1>1, <1>2, <1>9 DEF kind
  <2>2. \/ r.item = NoItem /\ r.why = "starved"
        \/ r.item = NoItem /\ r.why = total.why /\ total.why # "counted"
        \/ r.item.type = "directory" /\ r.item.cluster = c /\ r.why = "made" /\ total.why = "counted"
    BY <1>1, <1>2, <1>3, <1>9, NewItemIs
  <2>3. /\ Sort[c] \in {"directory", "nothing", "unknown"}
        /\ Sort[c] = "directory" => total.why = "counted"
        /\ Sort[c] = "nothing" => total = CountFails
    BY <2>1, DirectoryIsRead, DirectoryInFront
  <2> HIDE DEF total, c
  <2>4. Sort[c] = "nothing" => total.why = "unreadable"
    BY <2>3 DEF CountFails
  <2>5. QED
    BY <1>5, <1>6, <2>1, <2>2, <2>3, <2>4 DEF Brought, Led, Agrees, c
<1>10. QED
  BY <1>1, <1>2, <1>7, <1>8, <1>9

-----------------------------------------------------------------------------
(* The walk along a path.                                                  *)

\* Where the name k of a path leads from what is above it.
Under(p, k, above) ==
  CASE above.kind = "directory" ->
         Read(Found(IF k = 1 THEN RootListed ELSE Listed(above.cluster), p[k]))
    [] above.kind = "unknown" -> above
    [] OTHER -> [above EXCEPT !.kind = "nothing"]

RootEntry == [Empty EXCEPT !.kind = "directory"]

LedTo(p, n, g) ==
  g = [k \in 0 .. n |-> IF k = 0 THEN RootEntry ELSE Under(p, k, g[k-1])]

\* Leads follows a path name by name.
LEMMA LeadsStep ==
  ASSUME NEW p \in Paths
  PROVE  /\ Len(p) \in Nat /\ Len(p) >= 1
         /\ Leads[p][0] = RootEntry
         /\ \A k \in 1 .. Len(p) : Leads[p][k] = Under(p, k, Leads[p][k-1])
<1> DEFINE l == Len(p)
           some(n) == \E g : LedTo(p, n, g)
           Wrong == {n \in 0 .. l : ~some(n)}
<1>1. l \in Nat /\ l >= 1
  BY PathsAssumption
<1> HIDE DEF l
<1>2. Wrong = {}
  <2> SUFFICES ASSUME Wrong # {} PROVE FALSE
    OBVIOUS
  <2>1. PICK n \in Wrong : \A m \in Wrong : n <= m
    <3>1. Wrong \in SUBSET Nat
      BY <1>1
    <3> HIDE DEF some
    <3>2. QED
      BY <3>1, Smallest
  <2>2. n \in 0 .. l /\ ~some(n)
    BY <2>1
  <2>3. CASE n = 0
    <3>1. LedTo(p, 0, [k \in 0 .. 0 |-> RootEntry])
      BY DEF LedTo
    <3>2. QED
      BY <2>2, <2>3, <3>1
  <2>4. CASE n # 0
    <3>1. n-1 \in 0 .. l /\ ~(n <= n-1) /\ n \in Nat
      BY <1>1, <2>2, <2>4
    <3>2. some(n-1)
      <4> HIDE DEF some
      <4>1. QED
        BY <2>1, <3>1
    <3>3. PICK g : LedTo(p, n-1, g)
      BY <3>2
    <3> DEFINE h == [k \in 0 .. n |-> IF k < n THEN g[k] ELSE Under(p, n, g[n-1])]
    <3>4. /\ h[0] = RootEntry
          /\ \A k \in 0 .. n : k # 0 => h[k] = Under(p, k, h[k-1])
      <4>1. /\ \A k \in 0 .. n-1 : h[k] = g[k]
            /\ h[n] = Under(p, n, g[n-1])
        BY <3>1
      <4>2. \A k \in 0 .. n-1 : g[k] = IF k = 0 THEN RootEntry ELSE Under(p, k, g[k-1])
        BY <3>3 DEF LedTo
      <4> HIDE DEF h
      <4>3. h[0] = RootEntry
        BY <2>4, <3>1, <4>1, <4>2
      <4>4. ASSUME NEW k \in 0 .. n, k # 0 PROVE h[k] = Under(p, k, h[k-1])
        <5>1. k-1 \in 0 .. n-1 /\ h[k-1] = g[k-1]
          BY <3>1, <4>1, <4>4
        <5>2. CASE k = n
          BY <4>1, <5>1, <5>2
        <5>3. CASE k # n
          <6>1. k \in 0 .. n-1
            BY <3>1, <5>3
          <6>2. QED
            BY <4>1, <4>2, <4>4, <5>1, <6>1
        <5>4. QED
          BY <5>2, <5>3
      <4>5. QED
        BY <4>3, <4>4
    <3>5. h = [k \in 0 .. n |-> h[k]]
      OBVIOUS
    <3> HIDE DEF h
    <3>6. h = [k \in 0 .. n |-> IF k = 0 THEN RootEntry ELSE Under(p, k, h[k-1])]
      BY <3>4, <3>5
    <3>7. QED
      BY <2>2, <3>6 DEF LedTo
  <2>5. QED
    BY <2>3, <2>4
<1>3. some(l)
  <2>1. l \in 0 .. l
    BY <1>1
  <2> HIDE DEF some
  <2>2. QED
    BY <1>2, <2>1
<1> DEFINE G == CHOOSE g : LedTo(p, l, g)
<1>4. Leads[p] = G
  BY DEF Leads, LedTo, Under, RootEntry, l
<1>5. LedTo(p, l, G)
  BY <1>3
<1> HIDE DEF G
<1>6. G[0] = RootEntry /\ \A k \in 1 .. l : G[k] = Under(p, k, G[k-1])
  <2>1. \A k \in 1 .. l : k \in 0 .. l /\ k # 0
    BY <1>1
  <2>2. 0 \in 0 .. l
    BY <1>1
  <2>3. \A k \in 0 .. l : G[k] = IF k = 0 THEN RootEntry ELSE Under(p, k, G[k-1])
    BY <1>5 DEF LedTo
  <2>4. QED
    BY <2>1, <2>2, <2>3
<1>7. QED
  BY <1>1, <1>4, <1>6 DEF l

\* The entries that a path leads to, and the lookups that find them.
LEMMA LeadsOn ==
  ASSUME SoundVolume, NEW p \in Paths, NEW k \in 1 .. Len(p), NEW u
  PROVE  LET above == Leads[p][k-1]
             entry == Leads[p][k]
         IN  /\ p[k] \in Seq(Nat \ {0})
             /\ k = 1 => above.kind = "directory"
             /\ k = 1 => Brought(fat16_find_item_in_directory(u, RootItems, p[1]), entry)
             /\ \A it : k # 1 /\ above.kind = "directory" /\ it.cluster = above.cluster
                          /\ above.cluster \in DOMAIN Fat /\ Sort[above.cluster] = "directory"
                        => Brought(FindIn(u, it, p[k]), entry)
             /\ above.kind = "unknown" => entry = above
             /\ above.kind \in {"file", "nothing"} => entry = [above EXCEPT !.kind = "nothing"]
<1> DEFINE above == Leads[p][k-1]
           entry == Leads[p][k]
<1>1. p[k] \in Seq(Nat \ {0})
  BY DEF SoundVolume
<1>2. entry = Under(p, k, above)
  BY LeadsStep
<1>3. k = 1 => above = RootEntry
  BY LeadsStep
<1>4. RootEntry.kind = "directory"
  BY DEF RootEntry, Empty
<1> HIDE DEF above, entry
<1>5. k = 1 => Brought(fat16_find_item_in_directory(u, RootItems, p[1]), entry)
  <2> SUFFICES ASSUME k = 1 PROVE Brought(fat16_find_item_in_directory(u, RootItems, p[1]), entry)
    OBVIOUS
  <2>1. entry = Read(Found(RootListed, p[1]))
    BY <1>2, <1>3, <1>4 DEF Under
  <2>2. QED
    BY <1>1, <2>1, RootInFront, LooksUp
<1>6. ASSUME NEW it, k # 1, above.kind = "directory", it.cluster = above.cluster,
             above.cluster \in DOMAIN Fat, Sort[above.cluster] = "directory"
      PROVE  Brought(FindIn(u, it, p[k]), entry)
  <2> DEFINE c == above.cluster
  <2>1. entry = Read(Found(Listed(c), p[k]))
    BY <1>2, <1>6 DEF Under
  <2>2. InFront(Items[c], Listed(c)) /\ ~(fat16_get_total_items[c].offset < 0)
    BY <1>6, DirectoryInFront
  <2>3. FindIn(u, it, p[k]) = fat16_find_item_in_directory(u, Items[c], p[k])
    BY <1>6, <2>2 DEF FindIn
  <2>4. QED
    BY <1>1, <2>1, <2>2, <2>3, LooksUp
<1>7. above.kind = "unknown" => entry = above
  BY <1>2 DEF Under
<1>8. above.kind \in {"file", "nothing"} => entry = [above EXCEPT !.kind = "nothing"]
  BY <1>2 DEF Under
<1>9. QED
  BY <1>1, <1>3, <1>4, <1>5, <1>6, <1>7, <1>8 DEF above, entry

\* A path leads to files and directories of the volume, or nowhere.
LEMMA LeadsLed ==
  ASSUME SoundVolume, NEW p \in Paths
  PROVE  \A k \in 1 .. Len(p) : Led(Leads[p][k])
<1> DEFINE Wrong == {k \in 1 .. Len(p) : ~Led(Leads[p][k])}
<1> SUFFICES ASSUME Wrong # {} PROVE FALSE
  OBVIOUS
<1>1. Len(p) \in Nat
  BY LeadsStep
<1>2. PICK k \in Wrong : \A j \in Wrong : k <= j
  <2>1. Wrong \in SUBSET Nat
    BY <1>1
  <2>2. QED
    BY <2>1, Smallest
<1>3. k \in 1 .. Len(p) /\ ~Led(Leads[p][k])
  BY <1>2
<1> DEFINE above == Leads[p][k-1]
           entry == Leads[p][k]
           nobody == [cluster |-> above.cluster]
<1>4. /\ k = 1 => Brought(fat16_find_item_in_directory(0, RootItems, p[1]), entry)
      /\ k # 1 /\ above.kind = "directory" /\ nobody.cluster = above.cluster
           /\ above.cluster \in DOMAIN Fat /\ Sort[above.cluster] = "directory"
         => Brought(FindIn(0, nobody, p[k]), entry)
      /\ above.kind = "unknown" => entry = above
      /\ above.kind \in {"file", "nothing"} => entry = [above EXCEPT !.kind = "nothing"]
  BY <1>3, LeadsOn
<1>5. nobody.cluster = above.cluster
  OBVIOUS
<1>6. k # 1
  BY <1>3, <1>4 DEF Brought
<1>7. Led(above)
  <2>1. k-1 \in 1 .. Len(p) /\ ~(k <= k-1)
    BY <1>1, <1>3, <1>6
  <2>2. QED
    BY <1>2, <2>1
<1> HIDE DEF above, entry, nobody
<1>8. CASE above.kind = "directory"
  BY <1>3, <1>4, <1>5, <1>6, <1>7, <1>8 DEF Led, Brought, entry
<1>9. CASE above.kind = "unknown"
  BY <1>3, <1>4, <1>7, <1>9 DEF entry
<1>10. CASE above.kind \in {"file", "nothing"}
  <2>1. entry = [above EXCEPT !.kind = "nothing"]
    BY <1>4, <1>10
  <2>2. above = [kind |-> above.kind, base |-> above.base, ext |-> above.ext,
                 cluster |-> above.cluster]
    BY <1>7 DEF Led, IsEntry
  <2>3. entry = [kind |-> "nothing", base |-> above.base, ext |-> above.ext,
                 cluster |-> above.cluster]
    BY <2>1, <2>2
  <2>4. Led(entry)
    BY <2>3 DEF Led, IsEntry
  <2>5. QED
    BY <1>3, <2>4 DEF entry
<1>11. QED
  BY <1>7, <1>8, <1>9, <1>10 DEF Led

\* Behind what is unknown everything is, and below what is no directory there
\* is nothing.
LEMMA LeadsBelow ==
  ASSUME SoundVolume, NEW p \in Paths, NEW j \in 1 .. Len(p)
  PROVE  \A k \in j .. Len(p) :
           /\ Leads[p][j].kind = "unknown" => Leads[p][k].kind = "unknown"
           /\ k # j /\ Leads[p][j].kind \in {"file", "nothing"} => Leads[p][k].kind = "nothing"
<1> DEFINE good(k) ==
             /\ Leads[p][j].kind = "unknown" => Leads[p][k].kind = "unknown"
             /\ k # j /\ Leads[p][j].kind \in {"file", "nothing"} => Leads[p][k].kind = "nothing"
           Wrong == {k \in j .. Len(p) : ~good(k)}
<1> SUFFICES ASSUME Wrong # {} PROVE FALSE
  OBVIOUS
<1>1. Len(p) \in Nat
  BY LeadsStep
<1>2. PICK k \in Wrong : \A i \in Wrong : k <= i
  <2>1. Wrong \in SUBSET Nat
    BY <1>1
  <2> HIDE DEF good
  <2>2. QED
    BY <2>1, Smallest
<1>3. k \in j .. Len(p) /\ ~good(k)
  BY <1>2
<1>4. k # j
  BY <1>3
<1>5. k-1 \in j .. Len(p) /\ k-1 \in 1 .. Len(p) /\ k \in 1 .. Len(p) /\ ~(k <= k-1)
  BY <1>1, <1>3, <1>4
<1>6. good(k-1)
  <2> HIDE DEF good
  <2>1. QED
    BY <1>2, <1>5
<1> DEFINE above == Leads[p][k-1]
           entry == Leads[p][k]
<1>7. /\ above.kind = "unknown" => entry = above
      /\ above.kind \in {"file", "nothing"} => entry = [above EXCEPT !.kind = "nothing"]
  BY <1>5, LeadsOn
<1>8. IsEntry(above)
  BY <1>5, LeadsLed DEF Led
<1> HIDE DEF above, entry
<1>9. above.kind \in {"file", "nothing"} => entry.kind = "nothing"
  <2> SUFFICES ASSUME above.kind \in {"file", "nothing"} PROVE entry.kind = "nothing"
    OBVIOUS
  <2>1. entry = [above EXCEPT !.kind = "nothing"]
    BY <1>7
  <2>2. above = [kind |-> above.kind, base |-> above.base, ext |-> above.ext,
                 cluster |-> above.cluster]
    BY <1>8 DEF IsEntry
  <2>3. QED
    BY <2>1, <2>2
<1>10. above.kind = "unknown" => entry.kind = "unknown"
  BY <1>7
<1>11. good(k)
  BY <1>6, <1>9, <1>10 DEF above, entry
<1>12. QED
  BY <1>3, <1>11

-----------------------------------------------------------------------------
\* The layout of the volume leaves unknown where the path leads.
Blurred(p) == Leaf(p).kind = "unknown"

\* The walk has come to what the names looked up so far lead to.
OnTrack ==
  /\ Agrees(current, Leads[path][next-1])
  /\ current = NoItem => next >= 3
  /\ \A j \in 1 .. next-2 : Leads[path][j].kind = "directory"

Arrived == Agrees(current, Leaf(path)) /\ (readNull <=> MissingInside(path))

Astray == (starved /\ current = NoItem) \/ Blurred(path)

WalkInv ==
  /\ readNull \in BOOLEAN /\ starved \in BOOLEAN
  /\ pc # "idle" => path \in Paths
  /\ pc = "first" => ~readNull /\ ~starved
  /\ pc = "loop" => next \in 2 .. Len(path)+1 /\ ~readNull /\ (Astray \/ OnTrack)
  /\ pc = "found" => Astray \/ Arrived
  /\ StuckOnlyWhenDamaged
  /\ AnswersByTree
  /\ ReadsNullPastMissing

\* Before the first call there is nothing to answer.
LEMMA WalkInit == Init => WalkInv
BY DEF Init, WalkInv, StuckOnlyWhenDamaged, AnswersByTree, ReadsNullPastMissing, Opened

\* No name in the middle is missing when the walk ends at its first name, at
\* a file, or at the end of the path.
LEMMA TrackIsClear ==
  ASSUME SoundVolume, NEW p \in Paths, NEW n \in 2 .. Len(p)+1,
         \A j \in 1 .. n-2 : Leads[p][j].kind = "directory",
         n <= Len(p) => Leads[p][n-1].kind \in {"file", "nothing"},
         n \in 3 .. Len(p) => Leads[p][n-1].kind = "file"
  PROVE  ~MissingInside(p)
<1> SUFFICES ASSUME NEW k \in 2 .. Len(p)-1, Leads[p][k-1].kind = "directory",
                    Leads[p][k].kind = "nothing"
             PROVE  FALSE
  BY DEF MissingInside
<1>1. Len(p) \in Nat
  BY LeadsStep
<1>2. ~(k <= n-2)
  <2> SUFFICES ASSUME k <= n-2 PROVE FALSE
    OBVIOUS
  <2>1. k \in 1 .. n-2
    BY <1>1
  <2>2. QED
    BY <2>1
<1>3. n <= Len(p) /\ n-1 \in 1 .. Len(p) /\ k >= n-1
  BY <1>1, <1>2
<1>4. k # n-1
  <2> SUFFICES ASSUME k = n-1 PROVE FALSE
    OBVIOUS
  <2>1. n \in 3 .. Len(p)
    BY <1>1, <1>3
  <2>2. QED
    BY <2>1
<1>5. k-1 = n-1 \/ (k-1 \in n-1 .. Len(p) /\ k-1 # n-1)
  BY <1>1, <1>3, <1>4
<1>6. Leads[p][n-1].kind \in {"file", "nothing"}
  BY <1>3
<1>7. k-1 # n-1 => Leads[p][k-1].kind = "nothing"
  BY <1>3, <1>5, <1>6, LeadsBelow
<1>8. QED
  BY <1>5, <1>6, <1>7

\* An item in the hands of a call is none, a file or a directory.
LEMMA CurrentIs ==
  ASSUME IInv
  PROVE  /\ current = NoItem \/ current.type \in {"file", "directory"}
         /\ NoItem.type = "none"
BY DEF IInv, Accounted, Sound, IntactIn, Call, NoItem

\* The type of an item says what kind of entry it agrees with.
LEMMA AgreesIs ==
  ASSUME NEW e, Led(e), NEW it, Agrees(it, e)
  PROVE  /\ it = NoItem => e.kind \in {"nothing", "unknown"}
         /\ it.type = "file" => e.kind \in {"file", "unknown"}
         /\ it.type = "directory" => e.kind \in {"directory", "unknown"}
         /\ e.kind # "nothing" \/ it = NoItem
<1>1. NoItem.type = "none"
  BY DEF NoItem
<1>2. QED
  BY <1>1 DEF Led, Agrees

\* Every step of a call stays on the track, or has lost it for a reason.
LEMMA WalkStep ==
  ASSUME SoundVolume, IInv, WalkInv, [Next]_vars
  PROVE  WalkInv'
<1>1. /\ readNull \in BOOLEAN /\ starved \in BOOLEAN
      /\ pc # "idle" => path \in Paths
      /\ pc = "first" => ~readNull /\ ~starved
      /\ pc = "loop" => next \in 2 .. Len(path)+1 /\ ~readNull /\ (Astray \/ OnTrack)
      /\ pc = "found" => Astray \/ Arrived
      /\ StuckOnlyWhenDamaged /\ AnswersByTree /\ ReadsNullPastMissing
  BY DEF WalkInv
<1>2. /\ current = NoItem \/ current.type \in {"file", "directory"}
      /\ NoItem.type = "none"
  BY CurrentIs
<1>3. ASSUME NEW p \in Paths
      PROVE  /\ Len(p) \in Nat /\ Len(p) >= 1
             /\ \A k \in 1 .. Len(p) : Led(Leads[p][k])
             /\ Leaf(p) = Leads[p][Len(p)]
             /\ \A j \in 1 .. Len(p) : Leads[p][j].kind = "unknown" => Blurred(p)
             /\ \A j \in 1 .. Len(p) :
                  Leads[p][j].kind \in {"file", "nothing"} /\ j # Len(p) => Leaf(p).kind = "nothing"
  <2>1. Len(p) \in Nat /\ Len(p) >= 1
    BY LeadsStep
  <2>2. \A k \in 1 .. Len(p) : Led(Leads[p][k])
    BY LeadsLed
  <2>3. Leaf(p) = Leads[p][Len(p)]
    BY DEF Leaf
  <2>4. ASSUME NEW j \in 1 .. Len(p)
        PROVE  /\ Leads[p][j].kind = "unknown" => Blurred(p)
               /\ Leads[p][j].kind \in {"file", "nothing"} /\ j # Len(p) => Leaf(p).kind = "nothing"
    <3>1. Len(p) \in j .. Len(p)
      BY <2>1
    <3>2. QED
      BY <2>3, <3>1, LeadsBelow DEF Blurred
  <2>5. QED
    BY <2>1, <2>2, <2>3, <2>4
<1>4. ASSUME NEW p \in Paths, NEW mode \in {"FILE_MODE_READ", "FILE_MODE_WRITE"},
             fat16_open(p, mode)
      PROVE  WalkInv'
  <2>1. CASE pc' = "first"
    <3>1. path' \in Paths /\ readNull' = FALSE /\ starved' = FALSE
      BY <1>4, <2>1 DEF fat16_open
    <3>2. QED
      BY <2>1, <3>1 DEF WalkInv, StuckOnlyWhenDamaged, AnswersByTree, ReadsNullPastMissing, Opened
  <2>2. CASE pc' # "first"
    <3>1. /\ pc' = "idle" /\ readNull' = FALSE /\ starved' \in BOOLEAN
          /\ ret' = ERDONLY \/ (ret' = ENOMEM /\ starved')
      BY <1>1, <1>4, <2>2 DEF fat16_open
    <3>2. QED
      BY <3>1 DEF WalkInv, StuckOnlyWhenDamaged, AnswersByTree, ReadsNullPastMissing, Opened
  <2>3. QED
    BY <2>1, <2>2
<1>5. CASE FindInRoot
  <2> DEFINE r == fat16_find_item_in_directory(use, RootItems, path[1])
             e == Leads[path][1]
  <2>1. /\ pc = "first" /\ path \in Paths /\ path' = path /\ next' = 2
        /\ current' = r.item /\ starved' = (starved \/ r.why = "starved")
        /\ pc' = CASE r.why = "endless" -> "counting" [] r.why = "lost" -> "lost"
                   [] OTHER -> IF r.item = NoItem THEN "found" ELSE "loop"
        /\ readNull' = readNull /\ ~readNull /\ ~starved
    BY <1>1, <1>5 DEF FindInRoot, GoesOn
  <2>2. Len(path) \in Nat /\ 1 \in 1 .. Len(path)
    BY <1>3, <2>1
  <2>3. Brought(r, e) /\ Led(e)
    <3>1. Brought(r, e)
      BY <2>1, <2>2, LeadsOn
    <3>2. QED
      BY <3>1 DEF Brought
  <2> HIDE DEF r
  <2>4. e.kind = "unknown" => Blurred(path)
    BY <1>3, <2>1, <2>2
  <2> HIDE DEF e
  <2>5. CASE r.why \in {"endless", "lost"}
    <3>1. Blurred(path) /\ pc' \in {"counting", "lost"}
      BY <2>1, <2>3, <2>4, <2>5 DEF Brought
    <3>2. QED
      BY <1>1, <2>1, <3>1
         DEF WalkInv, StuckOnlyWhenDamaged, AnswersByTree, ReadsNullPastMissing, Opened, Blurred
  <2>6. CASE r.why \notin {"endless", "lost"} /\ r.item # NoItem
    <3>1. pc' = "loop" /\ Agrees(current', e)
      BY <2>1, <2>3, <2>6 DEF Brought
    <3>2. OnTrack'
      BY <2>1, <2>6, <3>1 DEF OnTrack, e
    <3>3. next' \in 2 .. Len(path')+1
      BY <2>1, <2>2
    <3>4. QED
      BY <1>1, <2>1, <3>1, <3>2, <3>3
         DEF WalkInv, StuckOnlyWhenDamaged, AnswersByTree, ReadsNullPastMissing, Opened
  <2>7. CASE r.why \notin {"endless", "lost"} /\ r.item = NoItem
    <3>1. pc' = "found" /\ current' = NoItem /\ (starved' \/ Agrees(NoItem, e))
      BY <2>1, <2>3, <2>7 DEF Brought
    <3>2. ASSUME ~starved', ~Blurred(path) PROVE Arrived'
      <4>1. e.kind = "nothing"
        BY <2>3, <2>4, <3>1, <3>2, AgreesIs
      <4>2. Leaf(path).kind = "nothing"
        BY <1>3, <2>1, <2>2, <4>1 DEF e
      <4>3. Agrees(NoItem, Leaf(path))
        BY <4>2 DEF Agrees
      <4>4. ~MissingInside(path)
        <5>1. 2 \in 2 .. Len(path)+1 /\ ~(2 \in 3 .. Len(path)) /\ 2-1 = 1 /\ 1 .. 2-2 = {}
          BY <2>2
        <5>2. QED
          BY <2>1, <4>1, <5>1, TrackIsClear DEF e
      <4>5. QED
        BY <2>1, <3>1, <4>3, <4>4 DEF Arrived
    <3>3. (Astray \/ Arrived)'
      BY <2>1, <3>1, <3>2 DEF Astray
    <3>4. QED
      BY <1>1, <2>1, <3>1, <3>3
         DEF WalkInv, StuckOnlyWhenDamaged, AnswersByTree, ReadsNullPastMissing, Opened
  <2>8. QED
    BY <2>5, <2>6, <2>7
<1>6. CASE Descend
  <2> DEFINE r == FindIn(use, current, path[next])
             e == Leads[path][next]
             above == Leads[path][next-1]
  <2>1. /\ pc = "loop" /\ path \in Paths /\ path' = path /\ next' = next + 1
        /\ next <= Len(path) /\ current.type = "directory"
        /\ current' = r.item /\ starved' = (starved \/ r.why = "starved")
        /\ pc' = CASE r.why = "endless" -> "counting" [] r.why = "lost" -> "lost"
                   [] OTHER -> "loop"
        /\ readNull' = readNull /\ ~readNull
    BY <1>1, <1>6 DEF Descend, GoesOn, MoreParts
  <2>2. Len(path) \in Nat /\ next \in 2 .. Len(path) /\ next-1 \in 1 .. Len(path)
        /\ next \in 1 .. Len(path) /\ next' \in 2 .. Len(path')+1
    BY <1>1, <1>3, <2>1
  <2> HIDE DEF r, e
  <2>3. CASE Blurred(path)
    BY <1>1, <2>1, <2>2, <2>3
       DEF WalkInv, StuckOnlyWhenDamaged, AnswersByTree, ReadsNullPastMissing, Opened, Blurred, Astray
  <2>4. CASE ~Blurred(path)
    <3>1. OnTrack
      BY <1>1, <1>2, <2>1, <2>4 DEF Astray
    <3>2. Led(above) /\ Agrees(current, above)
      BY <1>3, <2>1, <2>2, <3>1 DEF OnTrack
    <3>3. above.kind = "directory"
      <4>1. above.kind # "unknown"
        BY <1>3, <2>1, <2>2, <2>4
      <4>2. QED
        BY <2>1, <3>2, <4>1, AgreesIs
    <3>4. current.cluster = above.cluster /\ above.cluster \in DOMAIN Fat
          /\ Sort[above.cluster] = "directory"
      BY <3>2, <3>3 DEF Led, Agrees
    <3>5. Brought(r, e)
      <4>1. \A it : next # 1 /\ above.kind = "directory" /\ it.cluster = above.cluster
                    /\ above.cluster \in DOMAIN Fat /\ Sort[above.cluster] = "directory"
                    => Brought(FindIn(use, it, path[next]), Leads[path][next])
        BY <2>1, <2>2, LeadsOn
      <4>2. next # 1
        BY <2>2
      <4> HIDE DEF above
      <4>3. QED
        BY <3>3, <3>4, <4>1, <4>2 DEF r, e
    <3>6. e.kind # "unknown"
      BY <1>3, <2>1, <2>2, <2>4 DEF e
    <3>7. pc' = "loop"
      BY <2>1, <3>5, <3>6 DEF Brought
    <3>8. (Astray \/ OnTrack)'
      <4>1. CASE r.why = "starved"
        BY <2>1, <3>5, <4>1 DEF Brought, Astray
      <4>2. CASE r.why # "starved"
        <5>1. Agrees(current', e)
          BY <2>1, <3>5, <4>2 DEF Brought
        <5>2. \A j \in 1 .. next'-2 : Leads[path][j].kind = "directory"
          <6> SUFFICES ASSUME NEW j \in 1 .. next'-2 PROVE Leads[path][j].kind = "directory"
            OBVIOUS
          <6>1. j \in 1 .. next-2 \/ j = next-1
            BY <2>1, <2>2
          <6>2. QED
            BY <3>1, <3>3, <6>1 DEF OnTrack
        <5>3. next'-1 = next /\ next' >= 3
          BY <2>1, <2>2
        <5>4. QED
          BY <2>1, <5>1, <5>2, <5>3 DEF OnTrack, e
      <4>3. QED
        BY <4>1, <4>2
    <3>9. QED
      BY <1>1, <2>1, <2>2, <3>7, <3>8
         DEF WalkInv, StuckOnlyWhenDamaged, AnswersByTree, ReadsNullPastMissing, Opened
  <2>5. QED
    BY <2>3, <2>4
<1>7. CASE NotADirectory \/ EndOfPath
  <2> DEFINE above == Leads[path][next-1]
  <2>1. /\ pc = "loop" /\ path \in Paths /\ path' = path /\ pc' = "found"
        /\ readNull' = readNull /\ ~readNull /\ starved' = starved
        /\ next \in 2 .. Len(path)+1
        /\ \/ next <= Len(path) /\ current.type = "file" /\ current' = NoItem
           \/ ~(next <= Len(path)) /\ current' = current
    BY <1>1, <1>7 DEF NotADirectory, EndOfPath, MoreParts
  <2>2. Len(path) \in Nat /\ next-1 \in 1 .. Len(path)
    BY <1>3, <2>1
  <2>3. ASSUME ~Blurred(path), OnTrack PROVE Arrived'
    <3>1. Led(above) /\ Agrees(current, above) /\ above.kind # "unknown"
          /\ \A j \in 1 .. next-2 : Leads[path][j].kind = "directory"
      BY <1>3, <2>1, <2>2, <2>3 DEF OnTrack
    <3>2. next <= Len(path) => above.kind = "file"
      BY <2>1, <3>1, AgreesIs
    <3>3. ~MissingInside(path)
      BY <2>1, <2>2, <3>1, <3>2, TrackIsClear
    <3>4. Agrees(current', Leaf(path))
      <4>1. CASE next <= Len(path)
        <5>1. next-1 # Len(path)
          BY <2>1, <2>2, <4>1
        <5>2. Leaf(path).kind = "nothing"
          BY <1>3, <2>1, <2>2, <3>2, <4>1, <5>1
        <5>3. QED
          BY <2>1, <4>1, <5>2 DEF Agrees
      <4>2. CASE ~(next <= Len(path))
        <5>1. next-1 = Len(path)
          BY <2>1, <2>2, <4>2
        <5>2. QED
          BY <1>3, <2>1, <3>1, <4>2, <5>1
      <4>3. QED
        BY <4>1, <4>2
    <3>5. QED
      BY <2>1, <3>3, <3>4 DEF Arrived
  <2>4. ASSUME starved, current = NoItem PROVE current' = NoItem
    BY <1>2, <2>1, <2>4
  <2>5. (Astray \/ Arrived)'
    BY <1>1, <2>1, <2>3, <2>4 DEF Astray
  <2>6. QED
    BY <1>1, <2>1, <2>5
       DEF WalkInv, StuckOnlyWhenDamaged, AnswersByTree, ReadsNullPastMissing, Opened
<1>8. CASE ReadsNull
  <2> DEFINE above == Leads[path][next-1]
  <2>1. /\ pc = "loop" /\ path \in Paths /\ path' = path /\ pc' \in {"found", "lost"}
        /\ readNull' = TRUE /\ starved' = starved /\ current = NoItem /\ current' = current
        /\ next \in 2 .. Len(path)+1 /\ next <= Len(path)
    BY <1>1, <1>8 DEF ReadsNull, MoreParts
  <2>2. Len(path) \in Nat /\ next-1 \in 1 .. Len(path) /\ next-1 # Len(path)
    BY <1>3, <2>1
  <2>3. ASSUME ~Blurred(path), OnTrack PROVE Arrived'
    <3>1. Led(above) /\ Agrees(current, above) /\ above.kind # "unknown" /\ next >= 3
          /\ \A j \in 1 .. next-2 : Leads[path][j].kind = "directory"
      BY <1>3, <2>1, <2>2, <2>3 DEF OnTrack
    <3>2. above.kind = "nothing"
      BY <2>1, <3>1, AgreesIs
    <3>3. MissingInside(path)
      <4>1. next-1 \in 2 .. Len(path)-1 /\ next-2 \in 1 .. next-2 /\ (next-1)-1 = next-2
        BY <2>1, <2>2, <3>1
      <4>2. Leads[path][(next-1)-1].kind = "directory"
        BY <3>1, <4>1
      <4>3. QED
        BY <3>2, <4>1, <4>2 DEF MissingInside
    <3>4. Leaf(path).kind = "nothing"
      BY <1>3, <2>1, <2>2, <3>2
    <3>5. Agrees(current', Leaf(path))
      BY <2>1, <3>4 DEF Agrees
    <3>6. QED
      BY <2>1, <3>3, <3>5 DEF Arrived
  <2>4. (Astray \/ Arrived)'
    BY <1>1, <2>1, <2>3 DEF Astray
  <2>5. QED
    BY <1>1, <2>1, <2>4
       DEF WalkInv, StuckOnlyWhenDamaged, AnswersByTree, ReadsNullPastMissing, Opened
<1>9. CASE Finish
  <2> DEFINE e == Leaf(path)
  <2>1. /\ pc = "found" /\ pc' = "idle" /\ path \in Paths /\ path' = path
        /\ readNull' = readNull /\ starved' = starved
        /\ \/ /\ current.type = "file" /\ ret' = desc
              /\ files' = files \cup {[desc |-> desc, item |-> current]}
           \/ /\ current.type # "file"
              /\ ret' = IF current = NoItem THEN EIO ELSE EINVARG
    BY <1>1, <1>9 DEF Finish
  <2>2. Led(e)
    <3>1. Len(path) \in 1 .. Len(path)
      BY <1>3, <2>1
    <3>2. QED
      BY <1>3, <2>1, <3>1
  <2>3. CASE starved /\ current = NoItem
    <3>1. ret' = EIO /\ starved'
      BY <1>2, <2>1, <2>3
    <3>2. QED
      BY <1>1, <2>1, <3>1
         DEF WalkInv, StuckOnlyWhenDamaged, AnswersByTree, ReadsNullPastMissing, Opened
  <2>4. CASE Blurred(path)
    BY <1>1, <2>1, <2>4
       DEF WalkInv, StuckOnlyWhenDamaged, AnswersByTree, ReadsNullPastMissing, Opened, Blurred
  <2>5. CASE Arrived
    <3>1. Agrees(current, e) /\ (readNull <=> MissingInside(path))
      BY <2>5 DEF Arrived
    <3>2. AnswersByTree'
      <4>1. CASE e.kind = "file"
        <5> DEFINE g == [desc |-> desc, item |-> current]
        <5>1. current.type = "file" /\ current.cluster = e.cluster
          BY <3>1, <4>1 DEF Agrees
        <5>2. g \in files' /\ ret' = desc
          BY <2>1, <5>1
        <5>3. g.desc = ret' /\ g.item.cluster = e.cluster
          BY <5>1, <5>2
        <5> HIDE DEF g
        <5>4. \E f \in files' : f.desc = ret' /\ f.item.cluster = e.cluster
          BY <5>2, <5>3
        <5>5. QED
          BY <2>1, <4>1, <5>4 DEF AnswersByTree
      <4>2. CASE e.kind = "directory"
        <5>1. current.type = "directory" /\ current # NoItem
          BY <1>2, <3>1, <4>2 DEF Agrees
        <5>2. ret' = EINVARG
          BY <2>1, <5>1
        <5>3. QED
          BY <2>1, <4>2, <5>2 DEF AnswersByTree
      <4>3. CASE e.kind = "nothing"
        <5>1. current = NoItem
          BY <3>1, <4>3 DEF Agrees
        <5>2. ret' = EIO
          BY <1>2, <2>1, <5>1
        <5>3. QED
          BY <2>1, <4>3, <5>2 DEF AnswersByTree
      <4>4. CASE e.kind = "unknown"
        BY <2>1, <4>4 DEF AnswersByTree
      <4>5. QED
        BY <2>2, <4>1, <4>2, <4>3, <4>4 DEF Led
    <3>3. ReadsNullPastMissing'
      BY <2>1, <3>1 DEF ReadsNullPastMissing
    <3>4. QED
      BY <1>1, <2>1, <3>2, <3>3 DEF WalkInv, StuckOnlyWhenDamaged
  <2>6. QED
    BY <1>1, <2>1, <2>3, <2>4, <2>5 DEF Astray
<1>10. ASSUME NEW f \in files, fat16_close(f) PROVE WalkInv'
  <2>1. pc' = "idle" /\ path' = <<>> /\ readNull' = readNull /\ starved' = starved
    BY <1>10 DEF fat16_close
  <2>2. QED
    BY <1>1, <2>1
       DEF WalkInv, StuckOnlyWhenDamaged, AnswersByTree, ReadsNullPastMissing, Opened
<1>11. CASE UNCHANGED vars
  BY <1>1, <1>11
     DEF vars, WalkInv, StuckOnlyWhenDamaged, AnswersByTree, ReadsNullPastMissing, Opened, Astray,
         OnTrack, Arrived
<1>12. QED
  BY <1>4, <1>5, <1>6, <1>7, <1>8, <1>9, <1>10, <1>11 DEF Next

\* So the walk stays on its track for ever.
LEMMA WalkInvariant ==
  ASSUME SoundVolume
  PROVE  Spec => []WalkInv
<1> DEFINE I == IInv /\ WalkInv
<1>1. Init => I
  BY OpenInit, WalkInit
<1>2. I /\ [Next]_vars => I'
  BY OpenStep, WalkStep
<1>3. I => WalkInv
  OBVIOUS
<1> HIDE DEF I
<1>4. QED
  BY <1>1, <1>2, <1>3, PTL DEF Spec

(* fopen answers a descriptor of the file that the path leads to by the    *)
(* layout of the volume, or the error that says what it leads to instead:  *)
(* for every sound volume, every path and every size of the heap.          *)
THEOREM OpenAnswersByTree ==
  ASSUME SoundVolume
  PROVE  Spec => []AnswersByTree
<1>1. WalkInv => AnswersByTree
  BY DEF WalkInv
<1>2. QED
  BY <1>1, WalkInvariant, PTL

(* It takes memory at address 0 for an item exactly when a name in the     *)
(* middle of the path leads nowhere.                                       *)
THEOREM OpenReadsNullPastMissing ==
  ASSUME SoundVolume
  PROVE  Spec => []ReadsNullPastMissing
<1>1. WalkInv => ReadsNullPastMissing
  BY DEF WalkInv
<1>2. QED
  BY <1>1, WalkInvariant, PTL

(* It does not return only where a chain of clusters is damaged, or behind *)
(* a name that leads nowhere.                                              *)
THEOREM OpenStuckOnlyWhenDamaged ==
  ASSUME SoundVolume
  PROVE  Spec => []StuckOnlyWhenDamaged
<1>1. WalkInv => StuckOnlyWhenDamaged
  BY DEF WalkInv
<1>2. QED
  BY <1>1, WalkInvariant, PTL
=============================================================================
