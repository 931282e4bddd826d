-------------------------- MODULE FileTableProofs --------------------------
(***************************************************************************)
(* The descriptor table is sound for every number of descriptors and every *)
(* size of the heap, with or without a filesystem, whatever calls fail:    *)
(* no slot dangles, no descriptor is lost, and the number of an open file  *)
(* leads to that file.                                                     *)
(***************************************************************************)
EXTENDS FileTable, TLAPS

(* The history variable agrees with the table: an occupied slot holds the  *)
(* file that fopen returned its number for, and an open number has its     *)
(* slot occupied unless a kzalloc has failed.                              *)
HeldAgrees ==
  /\ \A s \in Slots : table[s] # NULL => held[s+1] = private[table[s]]
  /\ ~starved => \A fd \in Fds : held[fd] # NULL => table[fd-1] # NULL

IInv == TypeOK /\ TableSound /\ NoLostDescriptor /\ HeldAgrees

\* Everything that IInv speaks of stays as it is.
Same == UNCHANGED <<table, index, private, held>>

LEMMA TableInit == Init => IInv
<1> SUFFICES ASSUME Init PROVE IInv
  OBVIOUS
<1> USE FileTableAssumption DEF Init, Slots, Fds, Heap, NULL
<1>1. TypeOK
  <2>1. use \in [Heap -> Uses]
    BY DEF Uses
  <2>2. /\ table \in [Slots -> Heap \cup {NULL}]
        /\ index \in [Heap -> 0 .. MaxDescriptors]
        /\ private \in [Heap -> Heap \cup {NULL}]
        /\ held \in [Fds -> Heap \cup {NULL}]
    OBVIOUS
  <2>3. ret \in ENOMEM .. MaxDescriptors /\ target \in Heap \cup {NULL}
    BY DEF ENOMEM
  <2>4. stuck \in BOOLEAN /\ starved \in BOOLEAN
    OBVIOUS
  <2>5. QED
    BY <2>1, <2>2, <2>3, <2>4 DEF TypeOK
<1>2. TableSound /\ NoLostDescriptor /\ HeldAgrees
  BY DEF TableSound, NoLostDescriptor, HeldAgrees
<1>3. QED
  BY <1>1, <1>2 DEF IInv

\* The part of the state that the proofs below speak of but do not argue
\* about.
RestTyped ==
  /\ stuck \in BOOLEAN /\ starved \in BOOLEAN
  /\ ret \in ENOMEM .. MaxDescriptors
  /\ target \in Heap \cup {NULL}

(* Free blocks become something other than descriptors and nothing else    *)
(* happens: every fopen that returns 0.                                    *)
LEMMA TurnedAwayKeeps ==
  ASSUME IInv, RestTyped', starved => starved',
         use' \in [Heap -> Uses],
         \A b \in Heap : use'[b] = use[b] \/ (use[b] = "free" /\ use'[b] # "desc"),
         UNCHANGED <<table, index, private, held>>
  PROVE  IInv'
<1> USE DEF IInv, NULL, Heap
<1>1. TypeOK'
  BY DEF TypeOK, RestTyped
<1>2. TableSound'
  BY DEF TableSound, TypeOK
<1>3. NoLostDescriptor'
  BY DEF NoLostDescriptor
<1>4. HeldAgrees'
  BY DEF HeldAgrees, TypeOK
<1>5. QED
  BY <1>1, <1>2, <1>3, <1>4

(* A file f and a descriptor d, both in blocks that were free, go into a   *)
(* slot that was empty.                                                    *)
LEMMA FilledKeeps ==
  ASSUME IInv, RestTyped', starved' = starved,
         NEW s \in Slots, NEW f \in Heap, NEW d \in Heap, f # d,
         table[s] = NULL, use[f] = "free", use[d] = "free",
         use' \in [Heap -> Uses], use'[f] = "file", use'[d] = "desc",
         \A b \in Heap \ {d} : use'[b] = use[b] \/ (use[b] = "free" /\ use'[b] # "desc"),
         table' = [table EXCEPT ![s] = d],
         index' = [index EXCEPT ![d] = s + 1],
         private' = [private EXCEPT ![d] = f],
         held' = [held EXCEPT ![s + 1] = f]
  PROVE  IInv'
<1> USE FileTableAssumption DEF IInv, NULL, Heap, Slots, Fds
<1>1. \A t \in Slots \ {s} : table'[t] = table[t]
  BY DEF TypeOK
<1>2. table'[s] = d /\ index'[d] = s+1 /\ private'[d] = f /\ held'[s+1] = f
  BY DEF TypeOK
<1>3. ASSUME NEW t \in Slots \ {s}, table[t] # NULL
      PROVE  /\ table[t] \in Heap /\ table[t] # d /\ table[t] # f
             /\ index'[table[t]] = index[table[t]]
             /\ private'[table[t]] = private[table[t]]
             /\ private[table[t]] \in Heap /\ private[table[t]] # f /\ private[table[t]] # d
             /\ use'[table[t]] = "desc" /\ use'[private[table[t]]] = "file"
  BY <1>3, SMTT(60) DEF TypeOK, TableSound
<1>4. TypeOK'
  BY SMTT(60) DEF TypeOK, RestTyped
<1>5. TableSound'
  <2> SUFFICES ASSUME NEW t \in Slots, table'[t] # NULL
               PROVE  /\ use'[table'[t]] = "desc"
                      /\ index'[table'[t]] = t + 1
                      /\ private'[table'[t]] # NULL
                      /\ use'[private'[table'[t]]] = "file"
                      /\ \A r \in Slots \ {t} : table'[r] # NULL =>
                           table'[r] # table'[t] /\ private'[table'[r]] # private'[table'[t]]
    BY DEF TableSound
  <2>1. CASE t = s
    BY <1>1, <1>2, <1>3, <2>1
  <2>2. CASE t # s
    BY <1>1, <1>2, <1>3, <2>2, SMTT(60) DEF TableSound
  <2>3. QED
    BY <2>1, <2>2
<1>6. NoLostDescriptor'
  <2> SUFFICES ASSUME NEW b \in Heap, use'[b] = "desc"
               PROVE  \E t \in Slots : table'[t] = b
    BY DEF NoLostDescriptor
  <2>1. CASE b = d
    BY <1>2, <2>1
  <2>2. CASE b # d
    <3>1. PICK t \in Slots : table[t] = b
      BY <2>2 DEF NoLostDescriptor
    <3>2. t # s
      BY <3>1
    <3>3. QED
      BY <1>1, <3>1, <3>2
  <2>3. QED
    BY <2>1, <2>2
<1>7. HeldAgrees'
  <2>1. \A fd \in Fds : fd # s+1 => held'[fd] = held[fd]
    BY DEF TypeOK
  <2>2. ASSUME NEW t \in Slots, table'[t] # NULL PROVE held'[t+1] = private'[table'[t]]
    <3>1. CASE t = s
      BY <1>2, <3>1
    <3>2. CASE t # s
      <4>1. table[t] # NULL /\ table'[t] = table[t]
        BY <1>1, <2>2, <3>2
      <4>2. held'[t+1] = held[t+1]
        BY <2>1, <3>2
      <4>3. QED
        BY <1>3, <3>2, <4>1, <4>2 DEF HeldAgrees
    <3>3. QED
      BY <3>1, <3>2
  <2>3. ASSUME ~starved', NEW fd \in Fds, held'[fd] # NULL PROVE table'[fd-1] # NULL
    <3>1. CASE fd = s+1
      BY <1>2, <3>1
    <3>2. CASE fd # s+1
      BY <1>1, <2>1, <2>3, <3>2 DEF HeldAgrees
    <3>3. QED
      BY <3>1, <3>2
  <2>4. QED
    BY <2>2, <2>3 DEF HeldAgrees
<1>8. QED
  BY <1>4, <1>5, <1>6, <1>7

(* The same without a descriptor, because kzalloc failed: the slot stays   *)
(* empty and the number is not usable, which starved records.              *)
LEMMA PhantomKeeps ==
  ASSUME IInv, RestTyped', starved',
         NEW s \in Slots, NEW f \in Heap, table[s] = NULL,
         use' \in [Heap -> Uses],
         \A b \in Heap : use'[b] = use[b] \/ (use[b] = "free" /\ use'[b] # "desc"),
         UNCHANGED <<table, index, private>>,
         held' = [held EXCEPT ![s + 1] = f]
  PROVE  IInv'
<1> USE FileTableAssumption DEF IInv, NULL, Heap, Slots, Fds
<1>1. TypeOK'
  BY DEF TypeOK, RestTyped
<1>2. TableSound'
  BY SMTT(60) DEF TableSound, TypeOK
<1>3. NoLostDescriptor'
  BY DEF NoLostDescriptor
<1>4. HeldAgrees'
  BY DEF HeldAgrees, TypeOK
<1>5. QED
  BY <1>1, <1>2, <1>3, <1>4

-----------------------------------------------------------------------------
\* kzalloc fails or takes a free block for the use it is asked for.
LEMMA HoldTakesFree ==
  ASSUME NEW u \in [Heap -> Uses], NEW b \in Heap \cup {NULL}, NEW what \in Uses,
         kzalloc(u, b)
  PROVE  /\ Hold(u, b, what) \in [Heap -> Uses]
         /\ b # NULL => b \in Heap /\ u[b] = "free" /\ Hold(u, b, what)[b] = what
         /\ \A x \in Heap : x # b => Hold(u, b, what)[x] = u[x]
BY DEF kzalloc, Hold, NULL, Heap

LEMMA FopenKeeps ==
  ASSUME IInv, NEW path \in Paths, NEW mode_str \in Modes, fopen(path, mode_str)
  PROVE  IInv'
<1> USE FileTableAssumption DEF IInv
<1>1. /\ NULL \notin Heap
      /\ {"path", "file", "desc"} \subseteq Uses
  BY DEF NULL, Heap, Uses
<1>2. RestTyped'
  <2>1. stuck' \in BOOLEAN
    BY DEF fopen, TypeOK
  <2>2. starved' \in BOOLEAN
    BY ZenonT(60) DEF fopen, TurnedAway, FillsTable, TypeOK
  <2>3. ret' = 0 \/ \E s \in Slots : ret' = s + 1
    BY DEF fopen, TurnedAway, FillsTable
  <2>4. ret' \in ENOMEM .. MaxDescriptors
    BY <2>3 DEF Slots, ENOMEM
  <2>5. target' \in Heap \cup {NULL}
    BY DEF fopen
  <2>6. QED
    BY <2>1, <2>2, <2>4, <2>5 DEF RestTyped
<1>3. ASSUME NEW u \in [Heap -> Uses], NEW starves \in BOOLEAN, TurnedAway(u, starves),
             \A b \in Heap : u[b] = use[b] \/ (use[b] = "free" /\ u[b] # "desc")
      PROVE  IInv'
  BY <1>2, <1>3, TurnedAwayKeeps DEF TurnedAway
<1>4. ASSUME NEW p \in Heap, kzalloc(use, p),
             NEW f \in Heap, kzalloc(Hold(use, p, "path"), f),
             FillsTable(f, Hold(Hold(use, p, "path"), f, "file"))
      PROVE  IInv'
  <2> DEFINE up == Hold(use, p, "path")
             uf == Hold(up, f, "file")
  <2>1. /\ up \in [Heap -> Uses] /\ use[p] = "free" /\ up[p] = "path"
        /\ \A x \in Heap : x # p => up[x] = use[x]
    BY <1>1, <1>4, HoldTakesFree, SMTT(60) DEF TypeOK
  <2>2. /\ uf \in [Heap -> Uses] /\ up[f] = "free" /\ uf[f] = "file"
        /\ \A x \in Heap : x # f => uf[x] = up[x]
    BY <1>1, <1>4, <2>1, HoldTakesFree
  <2>3. f # p /\ use[f] = "free"
    BY <2>1, <2>2
  <2> HIDE DEF up, uf
  <2>4. \A b \in Heap : uf[b] = use[b] \/ (use[b] = "free" /\ uf[b] # "desc")
    BY <2>1, <2>2, <2>3
  <2>5. CASE /\ \A s \in Slots : table[s] # NULL
             /\ use' = uf
             /\ ret' = 0
             /\ UNCHANGED <<table, index, private, held, starved>>
    BY <1>2, <2>2, <2>4, <2>5, TurnedAwayKeeps
  <2>6. ASSUME NEW s \in Slots, NEW d \in Heap \cup {NULL},
               FirstFree(s),
               kzalloc(uf, d),
               use' = Hold(uf, d, "desc"),
               table' = [table EXCEPT ![s] = d],
               index' = IF d = NULL THEN index ELSE [index EXCEPT ![d] = s + 1],
               private' = IF d = NULL THEN private ELSE [private EXCEPT ![d] = f],
               held' = [held EXCEPT ![s + 1] = f],
               starved' = (starved \/ d = NULL)
        PROVE  IInv'
    <3>1. table[s] = NULL
      BY <2>6 DEF FirstFree
    <3>2. CASE d = NULL
      <4>1. use' = uf /\ table' = table /\ UNCHANGED <<index, private>> /\ starved'
        BY <2>6, <3>1, <3>2 DEF Hold, TypeOK
      <4>2. QED
        BY <1>2, <2>2, <2>4, <2>6, <3>1, <4>1, PhantomKeeps
    <3>3. CASE d # NULL
      <4>1. /\ d \in Heap /\ uf[d] = "free" /\ use' \in [Heap -> Uses] /\ use'[d] = "desc"
            /\ \A x \in Heap : x # d => use'[x] = uf[x]
        BY <1>1, <2>2, <2>6, <3>3, HoldTakesFree
      <4>2. d # f /\ use[d] = "free" /\ use'[f] = "file"
        BY <2>2, <2>4, <4>1, <2>1, <2>3
      <4>3. /\ index' = [index EXCEPT ![d] = s + 1]
            /\ private' = [private EXCEPT ![d] = f]
            /\ starved' = starved
        BY <2>6, <3>3 DEF TypeOK
      <4>4. \A b \in Heap \ {d} : use'[b] = use[b] \/ (use[b] = "free" /\ use'[b] # "desc")
        BY <2>4, <4>1
      <4>5. QED
        BY <1>2, <2>3, <2>6, <3>1, <4>1, <4>2, <4>3, <4>4, FilledKeeps
    <3>4. QED
      BY <3>2, <3>3
  <2>7. QED
    BY <1>4, <2>5, <2>6 DEF FillsTable, up, uf
<1>5. ASSUME NEW p \in Heap, kzalloc(use, p), NEW starves \in BOOLEAN,
             TurnedAway(Hold(use, p, "path"), starves)
      PROVE  IInv'
  <2>1. /\ Hold(use, p, "path") \in [Heap -> Uses] /\ use[p] = "free"
        /\ Hold(use, p, "path")[p] = "path"
        /\ \A x \in Heap : x # p => Hold(use, p, "path")[x] = use[x]
    BY <1>1, <1>5, HoldTakesFree DEF TypeOK
  <2>2. QED
    BY <1>3, <1>5, <2>1
<1>6. ASSUME NEW starves \in BOOLEAN, TurnedAway(use, starves) PROVE IInv'
  BY <1>3, <1>6 DEF TypeOK
<1>7. QED
  BY <1>4, <1>5, <1>6 DEF fopen

LEMMA DispatchKeeps ==
  ASSUME IInv, NEW c, NEW fd \in 0 .. MaxDescriptors + 1,
         NEW error \in {EIO, EINVARG, ENOMEM}, Dispatches(c, fd, error)
  PROVE  IInv'
<1> USE FileTableAssumption DEF IInv, Heap, NULL
<1>1. RestTyped'
  BY DEF RestTyped, Dispatches, file_get_descriptor, TypeOK, Slots, EIO, EINVARG, ENOMEM
<1>2. UNCHANGED <<use, table, index, private, held, starved>>
  BY DEF Dispatches
<1>3. QED
  BY <1>1, <1>2, TurnedAwayKeeps DEF TypeOK

LEMMA RejectKeeps ==
  ASSUME IInv, NEW c, Rejects(c, EINVARG)
  PROVE  IInv'
<1> USE FileTableAssumption DEF IInv, Heap, NULL
<1>1. RestTyped'
  BY DEF RestTyped, Rejects, TypeOK, EINVARG, ENOMEM
<1>2. QED
  BY <1>1, TurnedAwayKeeps DEF Rejects, TypeOK

LEMMA FcloseKeeps ==
  ASSUME IInv, NEW fd \in 0 .. MaxDescriptors + 1, fclose(fd)
  PROVE  IInv'
<1> USE FileTableAssumption DEF IInv, Heap, NULL
<1>1. RestTyped'
  BY DEF RestTyped, fclose, file_get_descriptor, TypeOK, Slots, EIO, ENOMEM
<1>2. CASE file_get_descriptor(fd) = NULL
  <2>1. UNCHANGED <<use, table, index, private, held, starved>>
    BY <1>2 DEF fclose
  <2>2. QED
    BY <1>1, <2>1, TurnedAwayKeeps DEF TypeOK
<1>3. CASE file_get_descriptor(fd) # NULL
  <2> DEFINE s == fd - 1
             d == table[s]
             f == private[d]
  <2>1. /\ fd \in Fds /\ s \in Slots /\ fd = s + 1 /\ file_get_descriptor(fd) = d /\ d # NULL
    BY <1>3 DEF file_get_descriptor, Fds, Slots
  <2>2. /\ d \in Heap /\ f \in Heap /\ use[d] = "desc" /\ use[f] = "file"
        /\ index[d] = fd
    BY <2>1 DEF TypeOK, TableSound
  <2>3. /\ use' = [use EXCEPT ![f] = "free", ![d] = "free"]
        /\ table' = [table EXCEPT ![s] = NULL]
        /\ index' = [index EXCEPT ![d] = 0]
        /\ private' = [private EXCEPT ![d] = NULL]
        /\ held' = [held EXCEPT ![fd] = NULL]
        /\ starved' = starved
    BY <1>3, <2>1, <2>2 DEF fclose, close_and_free
  <2> HIDE DEF s, d, f
  <2>4. /\ table'[s] = NULL /\ \A t \in Slots \ {s} : table'[t] = table[t]
        /\ held'[fd] = NULL /\ \A g \in Fds \ {fd} : held'[g] = held[g]
        /\ use'[d] = "free" /\ \A b \in Heap \ {d, f} : use'[b] = use[b]
        /\ \A b \in Heap \ {d} : index'[b] = index[b] /\ private'[b] = private[b]
    BY <2>1, <2>2, <2>3 DEF TypeOK
  <2>5. ASSUME NEW t \in Slots, t # s, table[t] # NULL
        PROVE  /\ table[t] \in Heap \ {d, f}
               /\ private[table[t]] \in Heap \ {d, f}
    BY <2>1, <2>2, <2>5 DEF TypeOK, TableSound, d, f
  <2>6. TypeOK'
    BY <1>1, <2>1, <2>2, <2>3, SMTT(60) DEF TypeOK, RestTyped, Uses
  <2>7. TableSound'
    BY <2>4, <2>5 DEF TableSound
  <2>8. NoLostDescriptor'
    <3> SUFFICES ASSUME NEW b \in Heap, use'[b] = "desc"
                 PROVE  \E t \in Slots : table'[t] = b
      BY DEF NoLostDescriptor
    <3>1. b # d /\ b # f /\ use[b] = "desc"
      BY <2>2, <2>3, <2>4 DEF TypeOK
    <3>2. PICK t \in Slots : table[t] = b
      BY <3>1 DEF NoLostDescriptor
    <3>3. QED
      BY <2>4, <3>1, <3>2 DEF d
  <2>9. HeldAgrees'
    <3>1. ASSUME NEW t \in Slots, table'[t] # NULL PROVE held'[t+1] = private'[table'[t]]
      BY <2>1, <2>4, <2>5, <3>1 DEF HeldAgrees, Slots, Fds
    <3>2. ASSUME ~starved', NEW g \in Fds, held'[g] # NULL PROVE table'[g-1] # NULL
      BY <2>1, <2>3, <2>4, <3>2 DEF HeldAgrees, Slots, Fds
    <3>3. QED
      BY <3>1, <3>2 DEF HeldAgrees
  <2>10. QED
    BY <2>6, <2>7, <2>8, <2>9
<1>4. QED
  BY <1>2, <1>3

LEMMA TableStep == IInv /\ [Next]_vars => IInv'
<1> SUFFICES ASSUME IInv, [Next]_vars PROVE IInv'
  OBVIOUS
<1>1. ASSUME NEW path \in Paths, NEW mode_str \in Modes, fopen(path, mode_str)
      PROVE  IInv'
  BY <1>1, FopenKeeps
<1>2. ASSUME NEW fd \in 0 .. MaxDescriptors + 1, fread(fd) \/ fseek(fd) \/ fstat(fd)
      PROVE  IInv'
  BY <1>2, DispatchKeeps, RejectKeeps DEF fread, fseek, fstat
<1>3. ASSUME NEW fd \in 0 .. MaxDescriptors + 1, fclose(fd) PROVE IInv'
  BY <1>3, FcloseKeeps
<1>4. CASE UNCHANGED vars
  BY <1>4 DEF vars, IInv, TypeOK, TableSound, NoLostDescriptor, HeldAgrees
<1>5. QED
  BY <1>1, <1>2, <1>3, <1>4 DEF Next

LEMMA TableInvariant == Spec => []IInv
BY TableInit, TableStep, PTL DEF Spec

(* Every variable of the descriptor table keeps its type.                  *)
THEOREM TableTypeCorrect == Spec => []TypeOK
BY TableInvariant, PTL DEF IInv

(* For every number of descriptors and every heap, no slot of              *)
(* file_descriptors dangles and no file belongs to two of them.            *)
THEOREM TableIsSound == Spec => []TableSound
BY TableInvariant, PTL DEF IInv

(* No descriptor is allocated without a slot that refers to it.            *)
THEOREM DescriptorsAreKept == Spec => []NoLostDescriptor
BY TableInvariant, PTL DEF IInv

(* While the heap has served every request, a number that fopen returned,  *)
(* the last one of the table apart, leads to the file it was returned for. *)
THEOREM HandlesLeadToFiles == Spec => []HandlesWork
<1>1. IInv => HandlesWork
  <2> SUFFICES ASSUME IInv, ~starved, NEW fd \in 1 .. MaxDescriptors-1, held[fd] # NULL
               PROVE  Works(fd)
    BY DEF HandlesWork
  <2> USE FileTableAssumption DEF IInv
  <2>1. fd \in Fds /\ fd-1 \in Slots /\ (fd-1)+1 = fd
    BY DEF Fds, Slots
  <2>2. table[fd-1] # NULL
    BY <2>1 DEF HeldAgrees
  <2>3. file_get_descriptor(fd) = table[fd-1]
    BY <2>1 DEF file_get_descriptor
  <2>4. held[fd] = private[table[fd-1]]
    BY <2>1, <2>2 DEF HeldAgrees
  <2>5. use[held[fd]] = "file"
    BY <2>1, <2>2, <2>4 DEF TableSound
  <2>6. QED
    BY <2>2, <2>3, <2>4, <2>5 DEF Works
<1>2. QED
  BY <1>1, TableInvariant, PTL

\* What a number with a descriptor leads to.
LEMMA DescriptorReaches ==
  ASSUME IInv, NEW fd \in 0 .. MaxDescriptors + 1, file_get_descriptor(fd) # NULL
  PROVE  LET f == private[file_get_descriptor(fd)] IN use[f] = "file" /\ f = held[fd]
<1> USE FileTableAssumption DEF IInv
<1>1. fd-1 \in Slots /\ (fd-1)+1 = fd /\ file_get_descriptor(fd) = table[fd-1]
  BY DEF file_get_descriptor, Slots
<1>2. QED
  BY <1>1 DEF TableSound, HeldAgrees

(* No call, whatever number it is made with, reaches a closed file or one  *)
(* that was opened under another number.                                   *)
THEOREM CallsStayOnOwnFile == Spec => CallsReachOwnFile
<1>1. IInv /\ [Next]_vars =>
        [target' # NULL => use[target'] = "file" /\ target' = held[call'[2]]]_vars
  <2> SUFFICES ASSUME IInv, Next, target' # NULL
               PROVE  use[target'] = "file" /\ target' = held[call'[2]]
    OBVIOUS
  <2>1. ASSUME NEW path \in Paths, NEW mode_str \in Modes, fopen(path, mode_str)
        PROVE  FALSE
    BY <2>1 DEF fopen
  <2>2. ASSUME NEW fd \in 0 .. MaxDescriptors + 1, fread(fd) \/ fseek(fd) \/ fstat(fd)
        PROVE  use[target'] = "file" /\ target' = held[call'[2]]
    <3>1. PICK c \in {"fread", "fseek", "fstat"}, error \in {EIO, EINVARG, ENOMEM} :
            Dispatches(<<c, fd>>, fd, error)
      BY <2>2 DEF fread, fseek, fstat, Rejects
    <3>2. /\ call'[2] = fd /\ file_get_descriptor(fd) # NULL
          /\ target' = private[file_get_descriptor(fd)]
      BY <3>1 DEF Dispatches
    <3>3. QED
      BY <3>2, DescriptorReaches
  <2>3. ASSUME NEW fd \in 0 .. MaxDescriptors + 1, fclose(fd)
        PROVE  use[target'] = "file" /\ target' = held[call'[2]]
    <3>1. /\ call'[2] = fd /\ file_get_descriptor(fd) # NULL
          /\ target' = private[file_get_descriptor(fd)]
      BY <2>3 DEF fclose
    <3>2. QED
      BY <3>1, DescriptorReaches
  <2>4. QED
    BY <2>1, <2>2, <2>3 DEF Next
<1>2. QED
  BY <1>1, TableInvariant, PTL DEF Spec, CallsReachOwnFile

-----------------------------------------------------------------------------
\* A file stays open without a descriptor though room was left for one.
LosesFile(f) ==
  /\ (use[f] = "file" => Owned(f)) /\ use'[f] = "file" /\ ~Owned(f)'
  /\ \E s \in Slots : table[s] = NULL
  /\ \E b \in Heap : use'[b] = "free"

\* A file that was open before the step has lost its slot in it.
LEMMA LostWhenOpened ==
  ASSUME NEW f \in Heap, LosesFile(f), UNCHANGED <<table, private>>
  PROVE  use[f] # "file"
BY DEF LosesFile, Owned

\* The end of fopen, with a table that is not full, gives the file a slot.
LEMMA OpenedIsOwned ==
  ASSUME IInv, NEW p \in Heap, kzalloc(use, p),
         NEW g \in Heap, kzalloc(Hold(use, p, "path"), g),
         FillsTable(g, Hold(Hold(use, p, "path"), g, "file")),
         NEW f \in Heap, LosesFile(f)
  PROVE  FALSE
<1> DEFINE up == Hold(use, p, "path")
           uf == Hold(up, g, "file")
<1> USE FileTableAssumption DEF IInv
<1>1. NULL \notin Heap /\ {"path", "file", "desc"} \subseteq Uses
  BY DEF NULL, Heap, Uses
<1>2. /\ up \in [Heap -> Uses] /\ use[p] = "free" /\ up[p] = "path"
      /\ \A x \in Heap : x # p => up[x] = use[x]
  <2>1. use \in [Heap -> Uses] /\ p \in Heap \cup {NULL} /\ p # NULL /\ "path" \in Uses
    BY <1>1 DEF TypeOK
  <2>2. kzalloc(use, p)
    OBVIOUS
  <2>3. QED
    BY ONLY <2>1, <2>2, HoldTakesFree
<1>3. /\ uf \in [Heap -> Uses] /\ up[g] = "free" /\ uf[g] = "file"
      /\ \A x \in Heap : x # g => uf[x] = up[x]
  BY <1>1, <1>2, HoldTakesFree, SMTT(60)
<1> HIDE DEF up
<1>4. PICK s \in Slots, d \in Heap \cup {NULL} :
        /\ FirstFree(s)
        /\ kzalloc(uf, d)
        /\ use' = Hold(uf, d, "desc")
        /\ table' = [table EXCEPT ![s] = d]
        /\ private' = IF d = NULL THEN private ELSE [private EXCEPT ![d] = g]
  BY DEF FillsTable, LosesFile, up
<1> HIDE DEF uf
<1>5. d # NULL
  <2>1. ASSUME d = NULL PROVE use' = uf /\ \A b \in Heap : uf[b] # "free"
    BY <1>1, <1>4, <2>1 DEF kzalloc, Hold
  <2>2. QED
    BY <2>1 DEF LosesFile
<1>6. /\ d \in Heap /\ uf[d] = "free" /\ use'[d] = "desc"
      /\ \A x \in Heap : x # d => use'[x] = uf[x]
  BY <1>1, <1>3, <1>4, <1>5, HoldTakesFree
<1>7. table'[s] = d /\ private'[d] = g /\ table[s] = NULL
  BY <1>4, <1>5, <1>6 DEF TypeOK, FirstFree
<1>8. f # g
  BY <1>5, <1>7 DEF LosesFile, Owned
<1>9. use[f] = "file"
  <2>1. f # d /\ f # p
    BY <1>2, <1>3, <1>6, <1>8 DEF LosesFile
  <2>2. QED
    BY <1>2, <1>3, <1>6, <1>8, <2>1 DEF LosesFile
<1>10. PICK t \in Slots : table[t] # NULL /\ private[table[t]] = f
  BY <1>9 DEF LosesFile, Owned
<1>11. table[t] \in Heap /\ use[table[t]] = "desc"
  BY <1>10 DEF TypeOK, TableSound
<1>12. table[t] # d
  BY <1>2, <1>3, <1>6, <1>11
<1>13. t # s /\ table'[t] = table[t] /\ private'[table[t]] = f
  BY <1>4, <1>5, <1>7, <1>10, <1>11, <1>12 DEF TypeOK
<1>14. QED
  BY <1>10, <1>13 DEF LosesFile, Owned

\* fclose takes no descriptor but that of its file.
LEMMA CloseKeepsOthers ==
  ASSUME IInv, NEW fd \in 0 .. MaxDescriptors + 1, fclose(fd), NEW f \in Heap, LosesFile(f)
  PROVE  FALSE
<1> USE FileTableAssumption DEF IInv
<1> DEFINE d == file_get_descriptor(fd)
<1>1. CASE d = NULL
  BY <1>1 DEF fclose, LosesFile, Owned
<1>2. CASE d # NULL
  <2>1. fd-1 \in Slots /\ (fd-1)+1 = fd /\ d = table[fd-1]
    BY <1>2 DEF file_get_descriptor, Slots
  <2>2. /\ d \in Heap /\ index[d] = fd /\ private[d] \in Heap /\ use[d] = "desc"
    BY <1>2, <2>1 DEF TypeOK, TableSound
  <2> HIDE DEF d
  <2>3. /\ use' = [use EXCEPT ![private[d]] = "free", ![d] = "free"]
        /\ table' = [table EXCEPT ![fd-1] = NULL]
        /\ private' = [private EXCEPT ![d] = NULL]
    BY <1>2, <2>2 DEF fclose, close_and_free, d
  <2>4. f # d /\ f # private[d] /\ use[f] = "file"
    BY <2>2, <2>3 DEF TypeOK, LosesFile
  <2>5. PICK t \in Slots : table[t] # NULL /\ private[table[t]] = f
    BY <2>4 DEF LosesFile, Owned
  <2>6. table[t] # d /\ table[t] \in Heap
    BY <2>4, <2>5 DEF TypeOK
  <2>7. t # fd-1 /\ table'[t] = table[t] /\ private'[table[t]] = f
    BY <2>1, <2>3, <2>5, <2>6 DEF TypeOK
  <2>8. QED
    BY <2>5, <2>7 DEF LosesFile, Owned
<1>3. QED
  BY <1>1, <1>2

(* For every table and every heap, a file is left open without a           *)
(* descriptor only by an fopen that finds every slot taken or leaves no    *)
(* block free; fclose leaves none.                                         *)
THEOREM FilesLostOnlyWhenFull == Spec => FileLostOnlyWhenFull
<1> DEFINE Kept == \A f \in Heap :
             (use[f] = "file" => Owned(f)) /\ use'[f] = "file" /\ ~Owned(f)' =>
               \/ \A s \in Slots : table[s] # NULL
               \/ \A b \in Heap : use'[b] # "free"
<1>1. IInv /\ [Next]_vars => [Kept]_vars
  <2> SUFFICES ASSUME IInv, Next, NEW f \in Heap, LosesFile(f) PROVE FALSE
    BY DEF LosesFile
  <2>1. ASSUME NEW path \in Paths, NEW mode_str \in Modes, fopen(path, mode_str)
        PROVE  FALSE
    <3>1. ASSUME NEW starves \in BOOLEAN, NEW u, TurnedAway(u, starves),
                 u = use \/ \E p \in Heap : u = Hold(use, p, "path")
          PROVE  FALSE
      <4>1. use[f] # "file"
        BY <3>1, LostWhenOpened DEF TurnedAway
      <4>2. u[f] # "file"
        BY <3>1, <4>1 DEF Hold, IInv, TypeOK
      <4>3. QED
        BY <3>1, <4>2 DEF TurnedAway, LosesFile
    <3>2. ASSUME NEW p \in Heap, kzalloc(use, p), NEW g \in Heap,
                 kzalloc(Hold(use, p, "path"), g),
                 FillsTable(g, Hold(Hold(use, p, "path"), g, "file"))
          PROVE  FALSE
      BY <3>2, OpenedIsOwned
    <3>3. QED
      BY <2>1, <3>1, <3>2 DEF fopen
  <2>2. ASSUME NEW fd \in 0 .. MaxDescriptors + 1, fread(fd) \/ fseek(fd) \/ fstat(fd)
        PROVE  FALSE
    <3>1. UNCHANGED <<use, table, private>>
      BY <2>2 DEF fread, fseek, fstat, Rejects, Dispatches
    <3>2. QED
      BY <3>1, LostWhenOpened DEF LosesFile
  <2>3. ASSUME NEW fd \in 0 .. MaxDescriptors + 1, fclose(fd)
        PROVE  FALSE
    BY <2>3, CloseKeepsOthers
  <2>4. QED
    BY <2>1, <2>2, <2>3 DEF Next
<1>2. QED
  BY <1>1, TableInvariant, PTL DEF Spec, FileLostOnlyWhenFull
=============================================================================
