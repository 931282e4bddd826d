---------------------------- MODULE MountProofs ----------------------------
(***************************************************************************)
(* A mount leaves all or nothing in the heap, and the disk never refers to *)
(* private data that was freed: for every size of the heap, whatever is in *)
(* it before, whichever allocations and reads fail.                        *)
(***************************************************************************)
EXTENDS Mount, FiniteSetTheorems, WellFoundedInduction, TLAPS

Objects == {"private", "stream", "root"}

\* The blocks hold what the boot takes them for, and no others hold its
\* objects.
HeldBlocks ==
  /\ private # NULL => use[private] = "private"
  /\ root # NULL => use[root] = "root"
  /\ stream # NULL => use[stream] = "stream"
  /\ \A k \in 1 .. 3 : streams[k] # NULL => use[streams[k]] = "stream" /\ streams[k] # stream
  /\ \A j, k \in 1 .. 3 : j # k /\ streams[k] # NULL => streams[j] # streams[k]
  /\ \A b \in Heap : use[b] \in Objects =>
       b \in {private, root, stream, streams[1], streams[2], streams[3]}

Unbound == fs_private = NULL /\ filesystem = "none"
Bound   == fs_private = private /\ filesystem = "fat16"

Streaming == \A k \in 1 .. 3 : streams[k] # NULL

\* How far the boot is, and what it holds on to.
Progress ==
  /\ pc \in {"boot", "disk", "private"} =>
       Unbound /\ private = NULL /\ streams = NoStreams /\ stream = NULL /\ root = NULL
  /\ pc = "streams" =>
       Unbound /\ private # NULL /\ streams = NoStreams /\ stream = NULL /\ root = NULL
  /\ pc = "stream" => Bound /\ private # NULL /\ Streaming /\ stream = NULL /\ root = NULL
  /\ pc \in {"header", "root"} =>
       Bound /\ private # NULL /\ Streaming /\ stream # NULL /\ root = NULL
  /\ pc = "out" => \/ res < 0 /\ (Unbound \/ (Bound /\ private # NULL))
                   \/ /\ res = 0 /\ Bound /\ private # NULL /\ Streaming
                      /\ stream # NULL /\ root # NULL

\* What is left when the boot is past the mount.
Left ==
  \/ Unbound /\ \A b \in Heap : use[b] \notin Objects
  \/ /\ Bound /\ private # NULL /\ Streaming /\ root # NULL
     /\ use[private] = "private" /\ use[root] = "root"
     /\ \A k \in 1 .. 3 : use[streams[k]] = "stream"
     /\ \A j, k \in 1 .. 3 : j # k => streams[j] # streams[k]
     /\ \A b \in Heap : use[b] \in Objects =>
          b \in {private, root, streams[1], streams[2], streams[3]}

\* A mount fails for a reason.
Reasons ==
  /\ pc # "boot" /\ CallsFsInit => filesystems # NoFilesystems
  /\ (pc = "out" /\ res < 0) \/ (pc = "done" /\ CallsFsInit /\ filesystem = "none") =>
       volume # "fat16" \/ readFailed \/ starved

IInv == TypeOK /\ (IF pc = "done" THEN Left ELSE HeldBlocks /\ Progress) /\ Reasons

-----------------------------------------------------------------------------
(* Every set of naturals that is not empty has a smallest element.         *)
LEMMA Smallest ==
  ASSUME NEW S \in SUBSET Nat, S # {}
  PROVE  \E x \in S : \A y \in S : x <= y
<1> DEFINE Less == OpToRel(<, Nat)
<1>1. IsWellFoundedOn(Less, Nat)
  BY NatLessThanWellFounded
<1>2. \A x, y \in Nat : <<x, y>> \in Less <=> x < y
  BY DEF OpToRel
<1> HIDE DEF Less
<1>3. PICK x \in S : \A y \in S : ~ (<<y, x>> \in Less)
  BY <1>1, WFMin
<1>4. ASSUME NEW y \in S PROVE x <= y
  <2>1. x \in Nat /\ y \in Nat
    OBVIOUS
  <2>2. ~ (y < x)
    BY <1>2, <1>3, <2>1
  <2>3. QED
    BY <2>1, <2>2
<1>5. QED
  BY <1>4

(* kzalloc returns a free block, or NULL.                                  *)
LEMMA TakenIsFree ==
  ASSUME NEW u
  PROVE  \/ Taken(u) = NULL
         \/ Taken(u) \in Heap /\ Taken(u) # NULL /\ u[Taken(u)] = "free"
<1> USE BlockHeapAssumption DEF NULL, Heap
<1> DEFINE F == {b \in Heap : u[b] = "free"}
<1>1. \E b \in Heap \cup {NULL} : kzalloc(u, b)
  <2>1. CASE F = {}
    BY <2>1 DEF kzalloc
  <2>2. CASE F # {}
    <3>1. F \in SUBSET Nat
      OBVIOUS
    <3>2. PICK b \in F : \A y \in F : b <= y
      BY <2>2, <3>1, Smallest
    <3>3. kzalloc(u, b)
      BY <3>2 DEF kzalloc
    <3>4. QED
      BY <3>2, <3>3
  <2>3. QED
    BY <2>1, <2>2
<1>2. kzalloc(u, Taken(u)) /\ Taken(u) \in Heap \cup {NULL}
  BY <1>1 DEF Taken
<1>3. QED
  BY <1>2 DEF kzalloc

LEMMA MountInit == Init => IInv
<1> SUFFICES ASSUME Init PROVE IInv
  OBVIOUS
<1>1. TypeOK
  <2>1. use \in [Heap -> {"free", "other", "private", "stream", "root"}]
    BY DEF Init
  <2>2. streams \in [1 .. 3 -> Heap \cup {NULL}]
    BY DEF Init, NoStreams
  <2>3. filesystems \in [1 .. MaxFilesystems -> {"none", "fat16"}]
    BY DEF Init, NoFilesystems
  <2>4. QED
    BY <2>1, <2>2, <2>3 DEF Init, TypeOK
<1>2. HeldBlocks /\ Progress
  BY DEF Init, HeldBlocks, Progress, NoStreams, Unbound, Objects
<1>3. QED
  BY <1>1, <1>2 DEF Init, IInv, Reasons

(* fs_int registers the filesystem in the first slot.                      *)
LEMMA Registers ==
  /\ fs_insert_filesystem(NoFilesystems, "fat16") # NoFilesystems
  /\ fs_insert_filesystem(NoFilesystems, "fat16") \in [1 .. MaxFilesystems -> {"none", "fat16"}]
<1> USE MountAssumption
<1> DEFINE i == fs_get_free_filesystem(NoFilesystems)
<1>1. i \in 1 .. MaxFilesystems
  <2>1. 1 \in DOMAIN NoFilesystems /\ NoFilesystems[1] = "none"
    BY DEF NoFilesystems
  <2>2. \E j \in DOMAIN NoFilesystems :
          NoFilesystems[j] = "none" /\ \A k \in 1 .. j-1 : NoFilesystems[k] # "none"
    BY <2>1
  <2>3. i \in DOMAIN NoFilesystems
    BY <2>2 DEF fs_get_free_filesystem
  <2>4. QED
    BY <2>3 DEF NoFilesystems
<1> HIDE DEF i
<1>2. fs_insert_filesystem(NoFilesystems, "fat16") = [NoFilesystems EXCEPT ![i] = "fat16"]
  BY DEF fs_insert_filesystem, i
<1>3. QED
  BY <1>1, <1>2 DEF NoFilesystems

LEMMA MountStep == IInv /\ [Next]_vars => IInv'
<1> SUFFICES ASSUME IInv, [Next]_vars PROVE IInv'
  OBVIOUS
<1> USE BlockHeapAssumption, MountAssumption DEF EIO, ENOMEM, EFSNOTUS, Objects
<1>1. CASE kheap_and_filesystems
  <2>1. TypeOK'
    BY <1>1, Registers DEF IInv, TypeOK, kheap_and_filesystems
  <2>2. HeldBlocks' /\ Progress'
    BY <1>1 DEF IInv, kheap_and_filesystems, HeldBlocks, Progress, Unbound
  <2>3. Reasons'
    BY <1>1, Registers DEF kheap_and_filesystems, Reasons
  <2>4. QED
    BY <1>1, <2>1, <2>2, <2>3 DEF IInv, kheap_and_filesystems
<1>2. CASE disk_search_and_init
  <2>1. TypeOK'
    BY <1>2 DEF IInv, TypeOK, disk_search_and_init
  <2>2. HeldBlocks' /\ Progress'
    BY <1>2 DEF IInv, disk_search_and_init, HeldBlocks, Progress, Unbound
  <2>3. pc' = "done" => Left'
    BY <1>2 DEF IInv, disk_search_and_init, HeldBlocks, Progress, Unbound, Left, NoStreams, NULL, Heap
  <2>4. Reasons'
    BY <1>2 DEF IInv, disk_search_and_init, Reasons
  <2>5. QED
    BY <2>1, <2>2, <2>3, <2>4 DEF IInv
<1>3. CASE NewPrivate
  <2>1. \/ Taken(use) = NULL
        \/ Taken(use) \in Heap /\ Taken(use) # NULL /\ use[Taken(use)] = "free"
    BY TakenIsFree
  <2>2. CASE Taken(use) = NULL
    <3>1. /\ use' = use /\ res' = ENOMEM /\ pc' = "out" /\ starved' = TRUE
      BY <1>3, <2>2 DEF NewPrivate, Fails, Hold
    <3>2. TypeOK'
      BY <1>3, <2>2, <3>1 DEF IInv, TypeOK, NewPrivate
    <3>3. HeldBlocks'
      BY <1>3, <2>2, <3>1 DEF IInv, NewPrivate, HeldBlocks, Progress
    <3>4. Progress'
      <4>1. Unbound'
        BY <1>3, <2>2 DEF IInv, NewPrivate, Progress, Unbound, Bound
      <4>2. res' < 0
        BY <3>1
      <4>3. QED
        BY <3>1, <4>1, <4>2 DEF Progress, Unbound
    <3>5. QED
      BY <1>3, <3>1, <3>2, <3>3, <3>4 DEF IInv, NewPrivate, Reasons
  <2>3. CASE Taken(use) # NULL
    BY <1>3, <2>1, <2>3
       DEF IInv, TypeOK, NewPrivate, Fails, Hold, HeldBlocks, Progress, Unbound, NoStreams, NULL, Reasons
  <2>4. QED
    BY <2>2, <2>3
<1>4. CASE InitPrivate
  <2> DEFINE u1 == Hold(use, Taken(use), "stream")
             u2 == Hold(u1, Taken(u1), "stream")
             made == <<Taken(use), Taken(u1), Taken(u2)>>
  <2>1. /\ TypeOK /\ HeldBlocks /\ Unbound /\ private # NULL /\ streams = NoStreams
        /\ stream = NULL /\ root = NULL
    BY <1>4 DEF IInv, InitPrivate, Progress
  <2>2. /\ Taken(use) = NULL \/ (Taken(use) \in Heap /\ use[Taken(use)] = "free")
        /\ Taken(u1) = NULL \/ (Taken(u1) \in Heap /\ u1[Taken(u1)] = "free")
        /\ Taken(u2) = NULL \/ (Taken(u2) \in Heap /\ u2[Taken(u2)] = "free")
    <3> HIDE DEF u1, u2
    <3>1. Taken(u1) = NULL \/ (Taken(u1) \in Heap /\ u1[Taken(u1)] = "free")
      BY TakenIsFree
    <3>2. Taken(u2) = NULL \/ (Taken(u2) \in Heap /\ u2[Taken(u2)] = "free")
      BY TakenIsFree
    <3>3. Taken(use) = NULL \/ (Taken(use) \in Heap /\ use[Taken(use)] = "free")
      BY TakenIsFree
    <3>4. QED
      BY <3>1, <3>2, <3>3
  <2>3. /\ use' = Hold(u2, Taken(u2), "stream") /\ streams' = made
        /\ UNCHANGED <<volume, filesystems, private, stream, root, readFailed>>
    BY <1>4 DEF InitPrivate
  <2>4. \/ pc' = "out" /\ res' = ENOMEM /\ starved' = TRUE /\ Unbound'
        \/ pc' = "stream" /\ UNCHANGED <<res, starved>> /\ Bound' /\ Streaming'
    BY <1>4, <2>1 DEF InitPrivate, Fails, Unbound, Bound, Streaming
  <2>5. TypeOK'
    <3>1. use' \in [Heap -> {"free", "other", "private", "stream", "root"}]
      BY <2>1, <2>3 DEF TypeOK, Hold
    <3>2. streams' \in [1 .. 3 -> Heap \cup {NULL}]
      BY <2>2, <2>3
    <3>3. QED
      BY <2>1, <2>3, <2>4, <3>1, <3>2, ZenonT(60) DEF TypeOK, Unbound, Bound
  <2>6. HeldBlocks'
    <3>1. \A b \in Heap : use'[b] = IF b # NULL /\ b \in {made[1], made[2], made[3]}
                                    THEN "stream" ELSE use[b]
      BY <2>1, <2>3 DEF TypeOK, Hold
    <3>2. \A j, k \in 1 .. 3 : j # k /\ made[k] # NULL => made[j] # made[k]
      <4>1. made[1] # NULL => u1[made[1]] = "stream" /\ u2[made[1]] = "stream"
        BY <2>1, <2>2 DEF TypeOK, Hold
      <4>2. made[2] # NULL => u2[made[2]] = "stream"
        BY <2>1, <2>2 DEF TypeOK, Hold
      <4>3. QED
        BY <2>2, <4>1, <4>2
    <3>3. \A k \in 1 .. 3 : made[k] # NULL => made[k] \in Heap /\ use[made[k]] = "free"
      BY <2>1, <2>2 DEF TypeOK, Hold
    <3>4. private \in Heap /\ use[private] = "private"
      BY <2>1 DEF TypeOK, HeldBlocks
    <3> HIDE DEF made
    <3>5. QED
      BY <2>1, <2>3, <3>1, <3>2, <3>3, <3>4 DEF HeldBlocks, NoStreams
  <2>7. Progress'
    BY <2>1, <2>3, <2>4 DEF Progress
  <2>8. Reasons'
    BY <1>4, <2>3, <2>4 DEF IInv, Reasons, InitPrivate
  <2>9. QED
    BY <2>4, <2>5, <2>6, <2>7, <2>8 DEF IInv
<1>5. CASE NewStream
  <2>1. \/ Taken(use) = NULL
        \/ Taken(use) \in Heap /\ Taken(use) # NULL /\ use[Taken(use)] = "free"
    BY TakenIsFree
  <2>2. CASE Taken(use) = NULL
    <3>1. /\ use' = use /\ res' = ENOMEM /\ pc' = "out" /\ starved' = TRUE
      BY <1>5, <2>2 DEF NewStream, Fails, Hold
    <3>2. TypeOK'
      BY <1>5, <2>2, <3>1 DEF IInv, TypeOK, NewStream
    <3>3. HeldBlocks'
      BY <1>5, <2>2, <3>1 DEF IInv, NewStream, HeldBlocks, Progress
    <3>4. Progress'
      <4>1. (Bound /\ private # NULL)'
        BY <1>5, <2>2 DEF IInv, NewStream, Progress, Unbound, Bound
      <4>2. QED
        BY <3>1, <4>1 DEF Progress
    <3>5. QED
      BY <1>5, <3>1, <3>2, <3>3, <3>4 DEF IInv, NewStream, Reasons
  <2>3. CASE Taken(use) # NULL
    BY <1>5, <2>1, <2>3
       DEF IInv, TypeOK, NewStream, Fails, Hold, HeldBlocks, Progress, Bound, Streaming, NULL, Reasons
  <2>4. QED
    BY <2>2, <2>3
<1>6. CASE ReadHeader
  <2>1. TypeOK'
    BY <1>6 DEF IInv, TypeOK, ReadHeader, Fails
  <2>2. HeldBlocks'
    BY <1>6 DEF IInv, ReadHeader, HeldBlocks
  <2>3. /\ (pc' = "out" /\ res' < 0) \/ pc' = "root"
        /\ Bound' /\ (private # NULL /\ Streaming /\ stream # NULL /\ root = NULL)'
    BY <1>6 DEF IInv, ReadHeader, Fails, Progress, Bound, Streaming
  <2>4. Progress'
    BY <2>3 DEF Progress
  <2>5. Reasons'
    BY <1>6 DEF IInv, TypeOK, ReadHeader, Fails, Reasons
  <2>6. QED
    BY <2>1, <2>2, <2>3, <2>4, <2>5 DEF IInv
<1>7. CASE fat16_get_root_directory
  <2>1. /\ TypeOK /\ HeldBlocks /\ Bound /\ private # NULL /\ Streaming
        /\ stream # NULL /\ root = NULL
    BY <1>7 DEF IInv, fat16_get_root_directory, Progress
  <2>2. \/ Taken(use) = NULL
        \/ Taken(use) \in Heap /\ Taken(use) # NULL /\ use[Taken(use)] = "free"
    BY TakenIsFree
  <2>3. /\ pc' = "out" /\ UNCHANGED <<volume, filesystems, private, streams, stream,
                                       fs_private, filesystem>>
        /\ \/ /\ res' = EIO /\ (readFailed' = TRUE \/ starved' = TRUE)
              /\ use' = use /\ root' = NULL
           \/ /\ res' = 0 /\ Taken(use) # NULL
              /\ use' = [use EXCEPT ![Taken(use)] = "root"] /\ root' = Taken(use)
    <3>1. Taken(use) # NULL => Freed(Hold(use, Taken(use), "root"), {Taken(use)}) = use
      BY <2>1, <2>2 DEF TypeOK, Freed, Hold
    <3>2. QED
      BY <1>7, <2>1, <3>1 DEF fat16_get_root_directory, Fails, Hold
  <2>4. TypeOK'
    <3>1. readFailed' \in BOOLEAN /\ starved' \in BOOLEAN
      BY <1>7, <2>1 DEF fat16_get_root_directory, TypeOK
    <3>2. QED
      BY <2>1, <2>2, <2>3, <3>1 DEF TypeOK
  <2>5. HeldBlocks'
    <3>1. CASE use' = use /\ root' = NULL
      BY <2>1, <2>3, <3>1 DEF HeldBlocks
    <3>2. CASE /\ Taken(use) # NULL
               /\ use' = [use EXCEPT ![Taken(use)] = "root"] /\ root' = Taken(use)
      <4>1. \A b \in Heap : use'[b] = IF b = Taken(use) THEN "root" ELSE use[b]
        BY <2>1, <3>2 DEF TypeOK
      <4>2. Taken(use) \in Heap /\ use[Taken(use)] = "free"
        BY <2>2, <3>2
      <4>3. {private, stream} \subseteq Heap /\ \A k \in 1 .. 3 : streams[k] \in Heap
        BY <2>1 DEF TypeOK, Streaming
      <4> DEFINE new == Taken(use)
      <4> HIDE DEF new
      <4>4. /\ new \in Heap /\ use[new] = "free" /\ use'[new] = "root" /\ root' = new
            /\ \A b \in Heap : b # new => use'[b] = use[b]
        BY <3>2, <4>1, <4>2 DEF new
      <4>5. /\ use[private] = "private" /\ use[stream] = "stream"
            /\ \A k \in 1 .. 3 : use[streams[k]] = "stream" /\ streams[k] # stream
            /\ \A j, k \in 1 .. 3 : j # k => streams[j] # streams[k]
        BY <2>1 DEF HeldBlocks, Streaming
      <4>6. \A b \in Heap : use[b] \in Objects =>
              b \in {private, stream, streams[1], streams[2], streams[3]}
        BY <2>1 DEF HeldBlocks, NULL, Heap
      <4>7. /\ use'[private] = "private" /\ use'[stream] = "stream"
            /\ \A k \in 1 .. 3 : use'[streams[k]] = "stream"
        BY <4>3, <4>4, <4>5
      <4>8. QED
        BY <2>3, <4>4, <4>5, <4>6, <4>7 DEF HeldBlocks
    <3>3. QED
      BY <2>3, <3>1, <3>2
  <2>6. Progress'
    BY <2>1, <2>3 DEF Progress, Bound, Streaming
  <2>7. Reasons'
    BY <1>7, <2>3 DEF IInv, Reasons, fat16_get_root_directory
  <2>8. QED
    BY <2>3, <2>4, <2>5, <2>6, <2>7 DEF IInv
<1>8. CASE Out
  <2>1. TypeOK /\ HeldBlocks /\ pc = "out" /\ pc' = "done" /\ Progress
    BY <1>8 DEF IInv, Out
  <2>2. TypeOK'
    BY <1>8, <2>1 DEF Out, TypeOK, Freed
  <2>3. CASE res < 0
    <3>1. Unbound'
      BY <1>8, <2>3 DEF Out, Unbound
    <3>2. \A b \in Heap : use'[b] \notin Objects
      BY <1>8, <2>1, <2>3 DEF Out, Freed, HeldBlocks
    <3>3. Left'
      BY <3>1, <3>2 DEF Left
    <3>4. Reasons'
      BY <1>8, <2>1, <2>3 DEF IInv, TypeOK, Reasons, Out
    <3>5. QED
      BY <2>1, <2>2, <3>3, <3>4 DEF IInv
  <2>4. CASE ~(res < 0)
    <3>1. Bound /\ private # NULL /\ Streaming /\ stream # NULL /\ root # NULL
      BY <2>1, <2>4 DEF Progress
    <3>2. /\ use' = Freed(use, {stream})
          /\ UNCHANGED <<private, root, streams, stream, fs_private, filesystem>>
      BY <1>8, <2>4 DEF Out
    <3>3. {private, root} \subseteq Heap /\ \A k \in 1 .. 3 : streams[k] \in Heap
      BY <2>1, <3>1 DEF TypeOK, Streaming
    <3>4. Left'
      BY <2>1, <3>1, <3>2, <3>3 DEF HeldBlocks, Left, Bound, Streaming, Freed
    <3>5. Reasons'
      BY <1>8, <2>1, <3>1, <3>2 DEF IInv, Reasons, Out, Bound
    <3>6. QED
      BY <2>1, <2>2, <3>4, <3>5 DEF IInv
  <2>5. QED
    BY <2>3, <2>4
<1>9. CASE UNCHANGED vars
  BY <1>9 DEF vars, IInv, TypeOK, HeldBlocks, Progress, Unbound, Bound, Streaming, Left, Reasons
<1>10. QED
  BY <1>1, <1>2, <1>3, <1>4, <1>5, <1>6, <1>7, <1>8, <1>9 DEF Next
-----------------------------------------------------------------------------
LEMMA MountInvariant == Spec => []IInv
<1>1. QED
  BY MountInit, MountStep, PTL DEF Spec

(* Every variable keeps its type, for every heap and every registry.       *)
THEOREM MountTypeCorrect == Spec => []TypeOK
<1>1. IInv => TypeOK
  BY DEF IInv
<1>2. QED
  BY <1>1, MountInvariant, PTL

(* A mount leaves five blocks or none, whichever of its steps failed and   *)
(* however full the heap was.                                              *)
THEOREM MountAllOrNothing == Spec => []AllOrNothing
<1>1. ASSUME IInv, pc = "done", filesystem # "none" PROVE Cardinality(Kept) = 5
  <2>1. Left /\ TypeOK /\ Bound
    BY <1>1 DEF IInv, Left, Unbound
  <2> DEFINE s == streams
  <2>2. /\ s[1] # s[2] /\ s[1] # s[3] /\ s[2] # s[3]
        /\ private \notin {s[1], s[2], s[3], root} /\ root \notin {s[1], s[2], s[3]}
    BY <1>1, <2>1 DEF Left, Unbound
  <2>3. Kept = {s[1], s[2], s[3], root, private}
    BY DEF Kept
  <2> HIDE DEF s
  <2>4. Cardinality({s[1]}) = 1 /\ IsFiniteSet({s[1]})
    BY FS_Singleton
  <2>5. Cardinality({s[1], s[2]}) = 2 /\ IsFiniteSet({s[1], s[2]})
    <3>1. {s[1], s[2]} = {s[1]} \cup {s[2]}
      OBVIOUS
    <3>2. QED
      BY <2>2, <2>4, <3>1, FS_AddElement
  <2>6. Cardinality({s[1], s[2], s[3]}) = 3 /\ IsFiniteSet({s[1], s[2], s[3]})
    <3>1. {s[1], s[2], s[3]} = {s[1], s[2]} \cup {s[3]}
      OBVIOUS
    <3>2. QED
      BY <2>2, <2>5, <3>1, FS_AddElement, SMTT(60)
  <2>7. Cardinality({s[1], s[2], s[3], root}) = 4 /\ IsFiniteSet({s[1], s[2], s[3], root})
    <3>1. {s[1], s[2], s[3], root} = {s[1], s[2], s[3]} \cup {root}
      OBVIOUS
    <3>2. QED
      BY <2>2, <2>6, <3>1, FS_AddElement, SMTT(60)
  <2>8. Kept = {s[1], s[2], s[3], root} \cup {private}
    BY <2>3
  <2>9. QED
    BY <2>2, <2>7, <2>8, FS_AddElement
<1>2. ASSUME IInv, pc = "done", filesystem # "none"
      PROVE  /\ fs_private = private /\ use[private] = "private" /\ use[root] = "root"
             /\ \A k \in 1 .. 3 : use[streams[k]] = "stream"
             /\ {b \in Heap : use[b] \notin {"free", "other"}} = Kept
  <2>1. Left /\ TypeOK /\ Bound /\ private # NULL /\ root # NULL /\ Streaming
    BY <1>2 DEF IInv, Left, Unbound
  <2>2. private \in Heap /\ root \in Heap /\ \A k \in 1 .. 3 : streams[k] \in Heap
    BY <2>1 DEF TypeOK, Streaming
  <2>3. \A b \in Heap : use[b] \notin {"free", "other"} <=> use[b] \in Objects
    BY <2>1 DEF TypeOK, Objects
  <2>4. Kept = {private, root, streams[1], streams[2], streams[3]}
    BY DEF Kept
  <2>5. QED
    BY <1>2, <2>1, <2>2, <2>3, <2>4 DEF Left, Bound, Unbound, Objects
<1>3. ASSUME IInv, pc = "done", filesystem = "none"
      PROVE  fs_private = NULL /\ {b \in Heap : use[b] \notin {"free", "other"}} = {}
  BY <1>3 DEF IInv, TypeOK, Left, Unbound, Bound, Objects
<1>4. IInv => AllOrNothing
  BY <1>1, <1>2, <1>3 DEF AllOrNothing
<1>5. QED
  BY <1>4, MountInvariant, PTL

(* The disk refers to private data exactly while it has a filesystem, and  *)
(* never to data that was freed.                                           *)
THEOREM MountNoDanglingDisk == Spec => []NoDanglingDisk
<1>1. IInv => NoDanglingDisk
  <2> SUFFICES ASSUME IInv PROVE NoDanglingDisk
    OBVIOUS
  <2>1. CASE pc = "done"
    BY <2>1 DEF IInv, Left, Unbound, Bound, NoDanglingDisk
  <2>2. CASE pc # "done"
    <3>1. HeldBlocks /\ (Unbound \/ (Bound /\ private # NULL))
      BY <2>2 DEF IInv, TypeOK, Progress, Unbound, Bound
    <3>2. QED
      BY <3>1 DEF HeldBlocks, Unbound, Bound, NoDanglingDisk
  <2>3. QED
    BY <2>1, <2>2
<1>2. QED
  BY <1>1, MountInvariant, PTL

(* If fs_int were called, a readable FAT16 disk would have its filesystem  *)
(* after the boot, given memory for it: kernel_main as it is written lacks *)
(* the call.                                                               *)
THEOREM MountMountsFat16 == CallsFsInit => (Spec => []MountsFat16)
<1> SUFFICES ASSUME CallsFsInit PROVE Spec => []MountsFat16
  OBVIOUS
<1>1. IInv => MountsFat16
  BY DEF IInv, TypeOK, Reasons, MountsFat16
<1>2. QED
  BY <1>1, MountInvariant, PTL
=============================================================================
