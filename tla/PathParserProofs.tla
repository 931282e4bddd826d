-------------------------- MODULE PathParserProofs --------------------------
(***************************************************************************)
(* The path parser is correct for every set of paths, every limit of their *)
(* length and every heap: its list is the names of the path, made of       *)
(* separate blocks, a parse loses no more than a root or a string, and a   *)
(* name runs out of its block only in a path that strlen has given up on.  *)
(***************************************************************************)
EXTENDS PathParser, FiniteSetTheorems, SequenceTheorems, WellFoundedInduction, TLAPS

Records == [block : Heap, str : Heap, name : Seq(STRING)]

Count(s) == Cardinality(Slashes(s))

\* The parser stands behind the slash before the next name, or it has read
\* the last name up to the end of the path.
Reading ==
  /\ at >= 4
  /\ IF path[at-1] = "/"
     THEN Rank(path, at-1) = Len(parts) + 1
     ELSE at = Len(path) + 1 /\ Len(parts) = Count(path) /\ parts # <<>>

\* The list is the first names of the path, and each fits in its block.
Listed ==
  /\ Len(parts) <= Count(path)
  /\ \A k \in 1 .. Len(parts) : /\ parts[k].name = Names(path)[k] /\ parts[k].name # <<>>
                             /\ Len(parts[k].name) < BlockSize

\* There are no more names, or the next one is empty.
Ended(s, n) == n = Count(s) \/ (n < Count(s) /\ Names(s)[n+1] = <<>>)

Lost == {b \in Parsed : b \notin Reachable}

PathInv ==
  /\ parts \in Seq(Records) /\ Listed
  /\ root = NULL => parts = <<>>
  /\ pc = "start" => root = NULL /\ at = 1 /\ Parsed = {} /\ ~starved
  /\ pc = "parts" => Accepted(path) /\ root # NULL /\ Lost = {} /\ Reading /\ ~starved
  /\ pc = "done" /\ parts = <<>> => root = NULL
  /\ pc = "done" /\ ~starved => IF Accepted(path) THEN Ended(path, Len(parts)) ELSE root = NULL
  /\ pc = "freed" => root = NULL
  /\ pc = "overrun" => Unmeasured(path)

IInv == TypeOK /\ ListSound /\ LosesLittle /\ PathInv

-----------------------------------------------------------------------------
(* Slashes and names of a path.                                            *)
LEMMA Smallest ==
  ASSUME NEW S \in SUBSET Nat, S # {}
  PROVE  \E x \in S : \A y \in S : x <= y
<1> DEFINE Less == OpToRel(<, Nat)
<1>1. IsWellFoundedOn(Less, Nat)
  BY NatLessThanWellFounded
<1>2. \A x, y \in Nat : <<x, y>> \in Less <=> x < y
  BY DEF OpToRel
<1> HIDE DEF Less
<1>3. PICK x \in S : \A y \in S : ~ (<<y, x>> \in Less)
  BY <1>1, WFMin
<1>4. ASSUME NEW y \in S PROVE x <= y
  <2>1. x \in Nat /\ y \in Nat
    OBVIOUS
  <2>2. ~ (y < x)
    BY <1>2, <1>3, <2>1
  <2>3. QED
    BY <2>1, <2>2
<1>5. QED
  BY <1>4

\* A name ends at the first slash or at the end of the path.
LEMMA NameEnds ==
  ASSUME NEW s \in Seq(STRING), NEW k \in 1 .. Len(s) + 1
  PROVE  /\ EndOfName(s, k) \in k .. Len(s) + 1
         /\ EndOfName(s, k) = Len(s) + 1 \/ s[EndOfName(s, k)] = "/"
         /\ \A m \in k .. EndOfName(s, k) - 1 : s[m] # "/"
<1> DEFINE E == {n \in k .. Len(s) + 1 : n = Len(s) + 1 \/ s[n] = "/"}
<1>1. Len(s) \in Nat
  OBVIOUS
<1>2. E \in SUBSET Nat /\ Len(s) + 1 \in E
  BY <1>1
<1>3. PICK n \in E : \A m \in E : n <= m
  BY <1>2, Smallest
<1>4. \A m \in k .. n-1 : s[m] # "/"
  BY <1>1, <1>3
<1>5. QED
  BY <1>3, <1>4 DEF EndOfName

LEMMA SlashesFinite ==
  ASSUME NEW s \in Seq(STRING)
  PROVE  /\ Len(s) \in Nat /\ IsFiniteSet(Slashes(s)) /\ Count(s) \in Nat
         /\ \A k : /\ IsFiniteSet({j \in Slashes(s) : j <= k})
                   /\ Rank(s, k) \in 0 .. Count(s)
<1>1. Len(s) \in Nat
  OBVIOUS
<1>2. IsFiniteSet(3 .. Len(s)) /\ Slashes(s) \in SUBSET (3 .. Len(s))
  BY <1>1, FS_Interval DEF Slashes
<1>3. IsFiniteSet(Slashes(s)) /\ Count(s) \in Nat
  BY <1>2, FS_Subset, FS_CardinalityType DEF Count
<1>4. ASSUME NEW k
      PROVE  IsFiniteSet({j \in Slashes(s) : j <= k}) /\ Rank(s, k) \in 0 .. Count(s)
  <2>1. {j \in Slashes(s) : j <= k} \in SUBSET Slashes(s)
    OBVIOUS
  <2>2. IsFiniteSet({j \in Slashes(s) : j <= k}) /\ Rank(s, k) <= Count(s)
    BY <1>3, <2>1, FS_Subset DEF Rank, Count
  <2>3. Rank(s, k) \in Nat
    BY <2>2, FS_CardinalityType DEF Rank
  <2>4. QED
    BY <1>3, <2>2, <2>3
<1>5. QED
  BY <1>1, <1>3, <1>4

\* No two slashes have the same rank.
LEMMA RankUnique ==
  ASSUME NEW s \in Seq(STRING), NEW j \in Slashes(s), NEW k \in Slashes(s),
         Rank(s, j) = Rank(s, k)
  PROVE  j = k
<1>1. \A x, y \in Slashes(s) : x < y => Rank(s, x) # Rank(s, y)
  <2> SUFFICES ASSUME NEW x \in Slashes(s), NEW y \in Slashes(s), x < y,
                      Rank(s, x) = Rank(s, y)
               PROVE  FALSE
    OBVIOUS
  <2> DEFINE A == {i \in Slashes(s) : i <= x}
             B == {i \in Slashes(s) : i <= y}
  <2>1. x \in Int /\ y \in Int /\ Slashes(s) \subseteq Int
    BY SlashesFinite DEF Slashes
  <2>2. A \in SUBSET B /\ y \in B /\ y \notin A
    BY <2>1
  <2>3. IsFiniteSet(B) /\ Cardinality(A) = Cardinality(B)
    BY SlashesFinite DEF Rank
  <2> HIDE DEF A, B
  <2>4. QED
    BY <2>2, <2>3, FS_Subset
<1>2. j \in Int /\ k \in Int
  BY SlashesFinite DEF Slashes
<1>3. QED
  BY <1>1, <1>2

\* The rank of the first slash, of the next one and of the last one.
LEMMA FirstSlash ==
  ASSUME NEW s \in Seq(STRING), 3 \in Slashes(s)
  PROVE  Rank(s, 3) = 1
<1>1. {j \in Slashes(s) : j <= 3} = {3}
  BY SlashesFinite DEF Slashes
<1>2. QED
  BY <1>1, FS_Singleton DEF Rank

LEMMA NextSlash ==
  ASSUME NEW s \in Seq(STRING), NEW k \in Slashes(s), NEW e \in Slashes(s), k < e,
         \A m \in k+1 .. e-1 : s[m] # "/"
  PROVE  Rank(s, e) = Rank(s, k) + 1
<1> DEFINE A == {i \in Slashes(s) : i <= k}
<1>1. Slashes(s) \subseteq Int /\ e \notin A
  BY SlashesFinite DEF Slashes
<1>2. {i \in Slashes(s) : i <= e} = A \cup {e}
  BY <1>1 DEF Slashes
<1>3. IsFiniteSet(A)
  BY SlashesFinite
<1>4. Cardinality(A \cup {e}) = Cardinality(A) + 1
  BY <1>1, <1>3, FS_AddElement
<1>5. QED
  BY <1>2, <1>4 DEF Rank

LEMMA LastSlash ==
  ASSUME NEW s \in Seq(STRING), NEW k \in Slashes(s),
         \A m \in k+1 .. Len(s) : s[m] # "/"
  PROVE  Rank(s, k) = Count(s)
<1>1. {i \in Slashes(s) : i <= k} = Slashes(s)
  BY SlashesFinite DEF Slashes
<1>2. QED
  BY <1>1 DEF Rank, Count

\* What the parser reads behind a slash is the name of the slash's rank.
LEMMA NameRead ==
  ASSUME NEW s \in Seq(STRING), NEW k \in 4 .. Len(s) + 1, s[k-1] = "/"
  PROVE  /\ Rank(s, k-1) \in 1 .. Count(s)
         /\ Names(s)[Rank(s, k-1)] = SubSeq(s, k, EndOfName(s, k) - 1)
         /\ IF EndOfName(s, k) <= Len(s)
            THEN s[EndOfName(s, k)] = "/" /\ Rank(s, EndOfName(s, k)) = Rank(s, k-1) + 1
            ELSE Rank(s, k-1) = Count(s)
<1> DEFINE e == EndOfName(s, k)
           r == Rank(s, k-1)
<1>1. /\ Len(s) \in Nat /\ k \in Nat /\ k-1 \in Slashes(s)
      /\ e \in k .. Len(s) + 1 /\ (e = Len(s) + 1 \/ s[e] = "/")
      /\ \A m \in k .. e-1 : s[m] # "/"
  BY NameEnds, SlashesFinite DEF Slashes
<1>2. r \in 1 .. Count(s)
  <2>1. r \in 0 .. Count(s) /\ IsFiniteSet({j \in Slashes(s) : j <= k-1})
    BY SlashesFinite
  <2>2. k-1 \in {j \in Slashes(s) : j <= k-1}
    BY <1>1
  <2>3. r # 0
    BY <2>1, <2>2, FS_EmptySet DEF Rank
  <2>4. QED
    BY <2>1, <2>3, SlashesFinite
<1>3. Slash(s, r) = k-1
  <2>1. \A j \in Slashes(s) : Rank(s, j) = r => j = k-1
    BY <1>1, RankUnique
  <2>2. QED
    BY <1>1, <2>1 DEF Slash
<1> HIDE DEF e
<1>4. CASE e <= Len(s)
  <2>1. s[e] = "/" /\ e \in Slashes(s)
    BY <1>1, <1>4 DEF Slashes
  <2>2. Rank(s, e) = r + 1
    <3>1. k-1 < e /\ (k-1) + 1 = k
      BY <1>1
    <3>2. QED
      BY <1>1, <2>1, <3>1, NextSlash
  <2> HIDE DEF r
  <2>3. r + 1 <= Count(s)
    <3>1. Rank(s, e) \in 0 .. Count(s)
      BY SlashesFinite
    <3>2. QED
      BY <2>2, <3>1, SlashesFinite
  <2>4. Slash(s, r+1) = e
    <3>1. \A j \in Slashes(s) : Rank(s, j) = r+1 => j = e
      BY <2>1, <2>2, RankUnique
    <3>2. QED
      BY <2>1, <2>2, <3>1 DEF Slash
  <2>5. r < Count(s)
    BY <1>2, <2>3, SlashesFinite
  <2>6. Names(s)[r] = SubSeq(s, k, e - 1)
    BY <1>1, <1>2, <1>3, <2>4, <2>5 DEF Names, NameEnd, Count
  <2>7. QED
    BY <1>2, <1>4, <2>1, <2>2, <2>6 DEF e, r
<1>5. CASE ~(e <= Len(s))
  <2>1. e = Len(s) + 1
    BY <1>1, <1>5
  <2>2. r = Count(s)
    <3>1. \A m \in (k-1) + 1 .. Len(s) : s[m] # "/"
      BY <1>1, <2>1
    <3>2. QED
      BY <1>1, <3>1, LastSlash
  <2> HIDE DEF r
  <2>3. Names(s)[r] = SubSeq(s, k, e - 1)
    BY <1>1, <1>2, <1>3, <2>1, <2>2 DEF Names, NameEnd, Count
  <2>4. QED
    BY <1>2, <1>5, <2>2, <2>3 DEF e, r
<1>6. QED
  BY <1>4, <1>5

-----------------------------------------------------------------------------
(* The names up to the first empty one, and the property that a list of    *)
(* the first names has.                                                    *)
NameSet(s) == {Names(s)[n] : n \in 1 .. Count(s)}

LEMMA NamesSequence ==
  ASSUME NEW s \in Seq(STRING)
  PROVE  Names(s) \in Seq(NameSet(s)) /\ Len(Names(s)) = Count(s)
<1>1. Count(s) \in Nat
  BY SlashesFinite
<1>2. DOMAIN Names(s) = 1 .. Count(s) /\ Names(s) = [n \in 1 .. Count(s) |-> Names(s)[n]]
  BY DEF Names, Count
<1>3. Names(s) \in [1 .. Count(s) -> NameSet(s)]
  BY <1>2 DEF NameSet
<1>4. QED
  BY <1>1, <1>3

LEMMA NamesBefore ==
  ASSUME NEW s \in Seq(STRING), NEW n \in 0 .. Count(s),
         \A k \in 1 .. n : Names(s)[k] # <<>>
  PROVE  /\ NamesBeforeEmpty(s) \in Seq(NameSet(s))
         /\ n <= Len(NamesBeforeEmpty(s))
         /\ \A k \in 1 .. n : NamesBeforeEmpty(s)[k] = Names(s)[k]
         /\ Ended(s, n) => Len(NamesBeforeEmpty(s)) = n
<1> DEFINE P(m) == /\ \A k \in 1 .. m : Names(s)[k] # <<>>
                   /\ m < Len(Names(s)) => Names(s)[m+1] = <<>>
           m == CHOOSE x \in 0 .. Len(Names(s)) : P(x)
           M == {x \in 0 .. Len(Names(s)) : x < Len(Names(s)) => Names(s)[x+1] = <<>>}
<1>1. Names(s) \in Seq(NameSet(s)) /\ Len(Names(s)) = Count(s) /\ Count(s) \in Nat
  BY NamesSequence, SlashesFinite
<1>2. \E x \in 0 .. Len(Names(s)) : P(x)
  <2>1. M \in SUBSET Nat /\ Len(Names(s)) \in M
    BY <1>1
  <2>2. PICK x \in M : \A y \in M : x <= y
    BY <2>1, Smallest
  <2>3. ASSUME NEW k \in 1 .. x PROVE Names(s)[k] # <<>>
    <3>1. k-1 \notin M /\ k-1 \in 0 .. Len(Names(s)) /\ (k-1) + 1 = k
      BY <1>1, <2>2
    <3>2. QED
      BY <3>1
  <2>4. QED
    BY <2>2, <2>3
<1>3. m \in 0 .. Len(Names(s)) /\ P(m)
  BY <1>2
<1>4. NamesBeforeEmpty(s) = SubSeq(Names(s), 1, m)
  BY DEF NamesBeforeEmpty
<1> HIDE DEF m
<1>5. n <= m
  <2>1. ASSUME m < n PROVE FALSE
    <3>1. Names(s)[m+1] = <<>> /\ m+1 \in 1 .. n
      BY <1>1, <1>3, <2>1
    <3>2. QED
      BY <3>1
  <2>2. QED
    BY <1>1, <1>3, <2>1
<1>6. /\ NamesBeforeEmpty(s) \in Seq(NameSet(s)) /\ Len(NamesBeforeEmpty(s)) = m
      /\ \A k \in 1 .. m : NamesBeforeEmpty(s)[k] = Names(s)[k]
  <2>1. \A i \in 1 .. m : Names(s)[i] \in NameSet(s)
    BY <1>1, <1>3, ElementOfSeq
  <2>2. m \in Int /\ 1 \in Int
    BY <1>1, <1>3
  <2>3. /\ SubSeq(Names(s), 1, m) \in Seq(NameSet(s))
        /\ Len(SubSeq(Names(s), 1, m)) = IF 1 <= m THEN m-1+1 ELSE 0
        /\ \A i \in 1 .. m-1+1 : SubSeq(Names(s), 1, m)[i] = Names(s)[1+i-1]
    BY <2>1, <2>2, SubSeqProperties
  <2>4. QED
    BY <1>1, <1>3, <1>4, <2>3
<1>7. Ended(s, n) => m = n
  <2> SUFFICES ASSUME Ended(s, n), n < m PROVE FALSE
    BY <1>1, <1>3, <1>5
  <2>1. n < Count(s) /\ n+1 \in 1 .. m
    BY <1>1, <1>3
  <2>2. Names(s)[n+1] = <<>>
    BY <2>1 DEF Ended
  <2>3. QED
    BY <1>3, <2>1, <2>2
<1>8. QED
  BY <1>1, <1>3, <1>5, <1>6, <1>7

LEMMA AcceptedPaths ==
  ASSUME NEW s \in Seq(STRING)
  PROVE  Accepted(s) <=> (Len(s) <= MaxPath \/ Len(s) > RealisticStrlen) /\ HasPrefix(s)
<1>1. Len(s) \in Nat
  OBVIOUS
<1>2. CASE Len(s) > RealisticStrlen
  BY <1>1, <1>2, PathParserAssumption
     DEF Accepted, strlen, strnlen, ENOMEM, pathparser_path_valid_format, HasPrefix
<1>3. CASE ~(Len(s) > RealisticStrlen)
  BY <1>1, <1>3, PathParserAssumption
     DEF Accepted, strlen, strnlen, ENOMEM, pathparser_path_valid_format, HasPrefix
<1>4. QED
  BY <1>2, <1>3

LEMMA PathListed ==
  ASSUME IInv
  PROVE  NamesListed
<1> DEFINE n == Len(parts)
           B == NamesBeforeEmpty(path)
<1>1. /\ path \in Seq(STRING) /\ parts \in Seq(Records) /\ n \in 0 .. Count(path)
      /\ \A k \in 1 .. n : Names(path)[k] # <<>>
  <2>1. path \in Seq(STRING) /\ parts \in Seq(Records) /\ Listed
    BY PathParserAssumption DEF IInv, TypeOK, PathInv
  <2>2. n \in Nat /\ Count(path) \in Nat
    BY <2>1, SlashesFinite
  <2>3. QED
    BY <2>1, <2>2 DEF Listed
<1>2. /\ B \in Seq(NameSet(path)) /\ n <= Len(B)
      /\ \A k \in 1 .. n : B[k] = Names(path)[k]
      /\ Ended(path, n) => Len(B) = n
  BY <1>1, NamesBefore
<1>3. /\ Parts \in Seq(NameSet(path)) /\ Len(Parts) = n
      /\ \A k \in 1 .. n : Parts[k] = B[k]
  <2>1. DOMAIN parts = 1 .. n
    BY <1>1
  <2>2. Parts = [k \in 1 .. n |-> parts[k].name]
    BY <2>1 DEF Parts
  <2>3. \A k \in 1 .. n : parts[k].name = Names(path)[k] /\ Names(path)[k] \in NameSet(path)
    BY <1>1, SlashesFinite DEF IInv, PathInv, Listed, NameSet
  <2>4. Parts \in [1 .. n -> NameSet(path)]
    BY <2>2, <2>3
  <2>5. QED
    BY <1>1, <1>2, <2>2, <2>3, <2>4
<1> HIDE DEF B
<1>4. IsPrefix(Parts, B)
  <2>1. Len(B) \in Nat /\ n \in Nat
    BY <1>1, <1>2
  <2>2. /\ \A i \in 1 .. n : Parts[i] \in NameSet(path) /\ B[i] \in NameSet(path)
        /\ n \in Int /\ 1 \in Int
    BY <1>2, <1>3, <2>1, ElementOfSeq
  <2> HIDE DEF n
  <2>3. /\ SubSeq(Parts, 1, n) \in Seq(NameSet(path))
        /\ Len(SubSeq(Parts, 1, n)) = IF 1 <= n THEN n-1+1 ELSE 0
        /\ \A i \in 1 .. n-1+1 : SubSeq(Parts, 1, n)[i] = Parts[1+i-1]
    BY <2>2, SubSeqProperties
  <2>4. /\ SubSeq(B, 1, n) \in Seq(NameSet(path))
        /\ Len(SubSeq(B, 1, n)) = IF 1 <= n THEN n-1+1 ELSE 0
        /\ \A i \in 1 .. n-1+1 : SubSeq(B, 1, n)[i] = B[1+i-1]
    BY <2>2, SubSeqProperties
  <2>5. /\ Len(SubSeq(Parts, 1, n)) = Len(SubSeq(B, 1, n))
        /\ \A i \in 1 .. Len(SubSeq(Parts, 1, n)) : SubSeq(Parts, 1, n)[i] = SubSeq(B, 1, n)[i]
    <3>1. Len(SubSeq(Parts, 1, n)) = n /\ Len(SubSeq(B, 1, n)) = n
      BY <2>1, <2>3, <2>4
    <3>2. ASSUME NEW i \in 1 .. n PROVE SubSeq(Parts, 1, n)[i] = SubSeq(B, 1, n)[i]
      <4>1. i \in 1 .. n-1+1 /\ 1+i-1 = i
        BY <2>1
      <4>2. QED
        BY <1>3, <2>3, <2>4, <4>1
    <3>3. QED
      BY <3>1, <3>2
  <2>6. SubSeq(Parts, 1, n) = SubSeq(B, 1, n)
    BY <2>3, <2>4, <2>5, SeqEqual
  <2>7. QED
    BY <1>2, <1>3, <2>6 DEF IsPrefix
<1>5. ASSUME pc = "done", ~starved
      PROVE  IF (Len(path) <= MaxPath \/ Len(path) > RealisticStrlen) /\ HasPrefix(path) /\ B # <<>>
             THEN root # NULL /\ Parts = B
             ELSE root = NULL
  <2>1. CASE Accepted(path)
    <3>1. Len(B) = n
      BY <1>2, <1>5, <2>1 DEF IInv, PathInv
    <3>2. Parts = B
      BY <1>2, <1>3, <3>1, SeqEqual
    <3>3. B = <<>> <=> parts = <<>>
      BY <1>1, <1>2, <3>1
    <3>4. B = <<>> <=> root = NULL
      BY <1>5, <3>3 DEF IInv, PathInv
    <3>5. QED
      BY <1>1, <2>1, <3>2, <3>4, AcceptedPaths
  <2>2. CASE ~Accepted(path)
    BY <1>1, <1>5, <2>2, AcceptedPaths DEF IInv, PathInv
  <2>3. QED
    BY <2>1, <2>2
<1>6. QED
  BY <1>4, <1>5 DEF NamesListed, B

-----------------------------------------------------------------------------
(* The blocks of the list.                                                 *)
LEMMA ReachableBlocks ==
  ASSUME TypeOK, parts \in Seq(Records)
  PROVE  /\ Len(parts) \in Nat
         /\ \A k \in 1 .. Len(parts) : parts[k] \in Records
         /\ \A x : x \in Reachable <=>
              root # NULL /\ (x = root \/ \E k \in 1 .. Len(parts) : x \in {parts[k].block, parts[k].str})
<1>1. DOMAIN parts = 1 .. Len(parts) /\ Len(parts) \in Nat
  OBVIOUS
<1>2. QED
  BY <1>1, ElementOfSeq DEF Reachable

\* Each of them is in use.
LEMMA ReachableUsed ==
  ASSUME IInv, pc # "overrun"
  PROVE  /\ \A x \in Reachable : x \in Heap /\ use[x] # "free"
         /\ root # NULL => root \in Reachable /\ use[root] = "root"
         /\ \A k \in 1 .. Len(parts) : /\ parts[k].block \in Heap /\ use[parts[k].block] = "part"
                                      /\ parts[k].str \in Heap /\ use[parts[k].str] = "string"
<1>1. /\ TypeOK /\ parts \in Seq(Records) /\ DOMAIN parts = 1 .. Len(parts)
      /\ ListSound /\ Len(parts) \in Nat
  BY DEF IInv, PathInv
<1>2. \A k \in 1 .. Len(parts) : /\ parts[k].block \in Heap /\ use[parts[k].block] = "part"
                                 /\ parts[k].str \in Heap /\ use[parts[k].str] = "string"
  BY <1>1 DEF TypeOK, ListSound
<1>3. root # NULL => root \in Heap /\ use[root] = "root"
  BY <1>1 DEF TypeOK, ListSound
<1>4. QED
  BY <1>1, <1>2, <1>3, ReachableBlocks

LEMMA AtMostOne ==
  ASSUME NEW x, NEW S \in SUBSET {x}
  PROVE  IsFiniteSet(S) /\ Cardinality(S) <= 1
<1>1. IsFiniteSet({x}) /\ Cardinality({x}) = 1
  BY FS_Singleton
<1>2. QED
  BY <1>1, FS_Subset

\* A step after which at most one root and one string are lost.
LEMMA FewLost ==
  ASSUME \A b \in Lost' : \/ use'[b] = "root" /\ pc' = "done" /\ root' = NULL
                          \/ use'[b] = "string" /\ starved',
         \A x, y \in Lost' : use'[x] = use'[y] => x = y
  PROVE  LosesLittle'
<1>1. ASSUME NEW k PROVE Cardinality({b \in Lost' : use'[b] = k}) <= 1
  <2>1. PICK x : {b \in Lost' : use'[b] = k} \in SUBSET {x}
    <3>1. CASE {b \in Lost' : use'[b] = k} = {}
      BY <3>1
    <3>2. CASE {b \in Lost' : use'[b] = k} # {}
      BY <3>2
    <3>3. QED
      BY <3>1, <3>2
  <2>2. QED
    BY <2>1, AtMostOne
<1>2. QED
  BY <1>1 DEF LosesLittle, Lost

-----------------------------------------------------------------------------
(* The steps.                                                              *)
LEMMA PathInit == Init => IInv
<1> SUFFICES ASSUME Init PROVE IInv
  OBVIOUS
<1>1. /\ pc = "start" /\ path \in PathStrings /\ path \in Seq(STRING) /\ at = 1 /\ root = NULL
      /\ parts = <<>> /\ starved = FALSE /\ use \in [Heap -> {"free", "other"}]
  BY PathParserAssumption DEF Init
<1>2. TypeOK
  <2>1. 1 \in 1 .. Len(path) + 1 /\ DOMAIN parts = {}
    BY <1>1
  <2>2. use \in [Heap -> {"free", "other", "root", "string", "part"}]
    BY <1>1
  <2>3. QED
    BY <1>1, <2>1, <2>2 DEF TypeOK
<1>3. ListSound
  BY <1>1 DEF ListSound
<1>4. LosesLittle
  BY <1>1 DEF LosesLittle
<1>5. Parsed = {}
  BY <1>1 DEF Parsed
<1>6. Listed /\ parts \in Seq(Records)
  <2>1. Count(path) \in Nat
    BY <1>1, SlashesFinite
  <2>2. QED
    BY <1>1, <2>1 DEF Listed
<1>7. QED
  BY <1>1, <1>2, <1>3, <1>4, <1>5, <1>6 DEF IInv, PathInv

\* A parse that ends without a block for its root.
LEMMA RefusedStep ==
  ASSUME IInv, pc = "start", pc' = "done", starved' \in BOOLEAN,
         UNCHANGED <<use, path, at, root, parts>>,
         Accepted(path) => starved'
  PROVE  IInv'
<1>1. TypeOK /\ root = NULL /\ parts = <<>> /\ Parsed = {} /\ Listed /\ parts \in Seq(Records)
  BY DEF IInv, PathInv
<1>2. TypeOK'
  BY <1>1 DEF TypeOK
<1>3. ListSound'
  BY <1>1 DEF ListSound
<1>4. Parsed' = {} /\ Lost' = {}
  BY <1>1 DEF Parsed, Lost
<1>5. LosesLittle'
  BY <1>4, FewLost
<1>6. Listed'
  BY <1>1 DEF Listed
<1>7. Accepted(path') = Accepted(path)
  OBVIOUS
<1>8. QED
  BY <1>1, <1>2, <1>3, <1>5, <1>6, <1>7 DEF IInv, PathInv

LEMMA RootStep ==
  ASSUME IInv, pc = "start", pc' = "parts", Accepted(path), UNCHANGED <<path, parts, starved>>,
         NEW b \in Heap, kzalloc(use, b), use' = Hold(use, b, "root"), root' = b, at' = 4, ~starved
  PROVE  IInv'
<1>1. /\ TypeOK /\ root = NULL /\ parts = <<>> /\ Parsed = {} /\ Listed /\ parts \in Seq(Records)
      /\ path \in Seq(STRING)
  BY PathParserAssumption DEF IInv, PathInv, TypeOK
<1>2. b \in Heap /\ b # NULL /\ use[b] = "free" /\ use' = [use EXCEPT ![b] = "root"]
  BY BlockHeapAssumption DEF Heap, NULL, kzalloc, Hold
<1>3. use' \in [Heap -> {"free", "other", "root", "string", "part"}] /\ use'[b] = "root"
  BY <1>1, <1>2 DEF TypeOK
<1>4. HasPrefix(path) /\ Len(path) \in Nat
  BY <1>1, AcceptedPaths
<1>5. TypeOK'
  <2>1. 4 \in 1 .. Len(path) + 1
    BY <1>4 DEF HasPrefix
  <2>2. QED
    BY <1>1, <1>2, <1>3, <2>1 DEF TypeOK
<1>6. Reachable' = {b}
  BY <1>1, <1>2 DEF Reachable
<1>7. ListSound'
  <2>1. Cardinality(Reachable') = 1
    BY <1>6, FS_Singleton
  <2>2. Len(parts') = 0
    BY <1>1
  <2>3. QED
    BY <1>1, <1>3, <2>1, <2>2 DEF ListSound
<1>8. Lost' = {}
  <2>1. \A x \in Heap : x # b => use'[x] = use[x]
    BY <1>1, <1>2 DEF TypeOK
  <2>2. QED
    BY <1>1, <1>6, <2>1 DEF Lost, Parsed
<1>9. LosesLittle'
  BY DEF LosesLittle
<1>10. Reading'
  <2>1. 3 \in Slashes(path) /\ path[3] = "/"
    BY <1>4 DEF HasPrefix, Slashes
  <2>2. Rank(path, 3) = 1
    BY <1>1, <2>1, FirstSlash
  <2>3. at' >= 4 /\ at' - 1 = 3 /\ Len(parts') + 1 = 1 /\ path' = path
    BY <1>1
  <2>4. QED
    BY <2>1, <2>2, <2>3 DEF Reading
<1>11. Listed'
  BY <1>1 DEF Listed
<1>12. QED
  BY <1>1, <1>2, <1>5, <1>7, <1>8, <1>9, <1>10, <1>11 DEF IInv, PathInv

\* The parser stays inside the path.
LEMMA StaysInside ==
  ASSUME NEW s \in Seq(STRING), NEW k \in 1 .. Len(s) + 1
  PROVE  /\ AfterName(s, k) \in 1 .. Len(s) + 1
         /\ Len(s) \in Nat
         /\ SubSeq(s, k, EndOfName(s, k) - 1) \in Seq(STRING)
         /\ SubSeq(s, k, EndOfName(s, k) - 1) # <<>> => EndOfName(s, k) > k
<1> DEFINE e == EndOfName(s, k)
<1>1. e \in k .. Len(s) + 1 /\ Len(s) \in Nat
  BY NameEnds
<1> HIDE DEF e
<1>2. \A i \in k .. e - 1 : s[i] \in STRING
  BY <1>1, ElementOfSeq
<1>3. SubSeq(s, k, e-1) \in Seq(STRING)
  BY <1>1, <1>2, SubSeqProperties
<1>4. e = k => SubSeq(s, k, e-1) = <<>>
  BY <1>1, SubSeqEmpty
<1>5. QED
  BY <1>1, <1>3, <1>4 DEF AfterName, e


\* A part that ends the list.  A string may have been left behind.
LEMMA EndStep ==
  ASSUME IInv, pc = "parts", EndOfList, path' = path, at' = AfterName(path, at),
         starved' \in BOOLEAN, ~starved' => Ended(path, Len(parts)),
         NEW s \in Heap,
         \/ use' = use
         \/ use[s] = "free" /\ use' = [use EXCEPT ![s] = "string"] /\ starved'
  PROVE  IInv'
<1>1. /\ TypeOK /\ ListSound /\ Listed /\ parts \in Seq(Records) /\ path \in Seq(STRING)
      /\ Accepted(path) /\ root # NULL /\ Lost = {} /\ at \in 1 .. Len(path) + 1
  BY PathParserAssumption DEF IInv, PathInv, TypeOK
<1>2. /\ pc' = "done" /\ parts' = parts
      /\ root' = IF parts = <<>> THEN NULL ELSE root
  BY DEF EndOfList
<1>3. use \in [Heap -> {"free", "other", "root", "string", "part"}]
  BY <1>1 DEF TypeOK
<1>4. /\ use' \in [Heap -> {"free", "other", "root", "string", "part"}]
      /\ \A x \in Heap : use[x] # "free" => use'[x] = use[x]
      /\ \A x \in Heap : use'[x] # use[x] => x = s /\ use'[x] = "string" /\ starved'
  BY <1>3
<1>5. /\ \A x \in Reachable : x \in Heap /\ use[x] # "free"
      /\ use[root] = "root" /\ root \in Heap
      /\ \A k \in 1 .. Len(parts) : /\ parts[k].block \in Heap /\ use[parts[k].block] = "part"
                                   /\ parts[k].str \in Heap /\ use[parts[k].str] = "string"
  BY <1>1, ReachableUsed
<1>6. DOMAIN parts = 1 .. Len(parts) /\ Len(parts) \in Nat
  BY <1>1
<1>7. TypeOK'
  <2>1. at' \in 1 .. Len(path) + 1
    BY <1>1, StaysInside
  <2>2. root' \in Heap \cup {NULL}
    BY <1>2, <1>5
  <2>3. QED
    BY <1>1, <1>2, <1>4, <1>5, <1>6, <2>1, <2>2 DEF TypeOK
<1>8. root' # NULL => root' = root /\ Reachable' = Reachable
  BY <1>1, <1>2 DEF Reachable
<1>9. ListSound'
  BY <1>1, <1>2, <1>4, <1>5, <1>6, <1>8 DEF ListSound
<1>10. ASSUME NEW b \in Lost'
       PROVE  \/ b = root /\ use'[b] = "root" /\ pc' = "done" /\ root' = NULL
              \/ b = s /\ use'[b] = "string" /\ starved'
  <2>1. b \in Heap /\ use'[b] \in {"root", "string", "part"} /\ b \notin Reachable'
    BY DEF Lost, Parsed
  <2>2. CASE use'[b] # use[b]
    BY <1>4, <2>1, <2>2
  <2>3. CASE use'[b] = use[b]
    <3>1. b \in Reachable
      BY <1>1, <2>1, <2>3 DEF Lost, Parsed
    <3>2. root' = NULL /\ parts = <<>>
      <4>1. ~(root' # NULL)
        BY <1>8, <2>1, <3>1
      <4>2. QED
        BY <1>1, <1>2, <4>1
    <3>3. b = root
      BY <1>1, <3>1, <3>2 DEF Reachable
    <3>4. QED
      BY <1>2, <1>5, <2>3, <3>2, <3>3
  <2>4. QED
    BY <2>2, <2>3
<1>11. LosesLittle'
  BY <1>10, FewLost
<1>12. Listed'
  BY <1>1, <1>2 DEF Listed
<1>13. root' = NULL <=> parts' = <<>>
  BY <1>1, <1>2
<1>14. Accepted(path') /\ (~starved' => Ended(path', Len(parts')))
  BY <1>1, <1>2
<1>15. QED
  BY <1>1, <1>2, <1>7, <1>9, <1>11, <1>12, <1>13, <1>14 DEF IInv, PathInv

\* The next name, and where the parser stands behind it.
LEMMA NameStep ==
  ASSUME IInv, pc = "parts"
  PROVE  LET name == SubSeq(path, at, EndOfName(path, at) - 1) IN
         /\ name \in Seq(STRING)
         /\ name = <<>> => Ended(path, Len(parts))
         /\ name # <<>> =>
              /\ Len(parts) + 1 <= Count(path) /\ Names(path)[Len(parts) + 1] = name
              /\ AfterName(path, at) >= 4
              /\ IF path[AfterName(path, at) - 1] = "/"
                 THEN Rank(path, AfterName(path, at) - 1) = Len(parts) + 2
                 ELSE AfterName(path, at) = Len(path) + 1 /\ Len(parts) + 1 = Count(path)
<1> DEFINE e == EndOfName(path, at)
           name == SubSeq(path, at, e - 1)
           n == Len(parts)
<1>1. /\ path \in Seq(STRING) /\ at \in 4 .. Len(path) + 1 /\ Len(path) \in Nat
      /\ n \in Nat /\ Count(path) \in Nat /\ n <= Count(path)
      /\ IF path[at-1] = "/"
         THEN Rank(path, at-1) = n + 1
         ELSE at = Len(path) + 1 /\ n = Count(path) /\ parts # <<>>
  <2>1. path \in Seq(STRING) /\ at \in 1 .. Len(path) + 1 /\ Reading /\ Listed /\ parts \in Seq(Records)
    BY PathParserAssumption DEF IInv, PathInv, TypeOK
  <2>2. QED
    BY <2>1, SlashesFinite DEF Reading, Listed
<1>2. /\ e \in at .. Len(path) + 1 /\ (e = Len(path) + 1 \/ path[e] = "/")
      /\ \A m \in at .. e-1 : path[m] # "/"
  BY <1>1, NameEnds
<1>3. name \in Seq(STRING) /\ (name # <<>> => e > at)
  BY <1>1, StaysInside
<1>4. CASE path[at-1] = "/"
  <2>1. /\ n + 1 \in 1 .. Count(path) /\ Names(path)[n + 1] = name
        /\ IF e <= Len(path)
           THEN path[e] = "/" /\ Rank(path, e) = n + 1 + 1
           ELSE n + 1 = Count(path)
    BY <1>1, <1>4, NameRead
  <2> HIDE DEF e, name, n
  <2>2. AfterName(path, at) = IF e <= Len(path) THEN e + 1 ELSE e
    BY DEF AfterName, e
  <2>3. name = <<>> => Ended(path, n)
    BY <1>1, <2>1 DEF Ended
  <2>4. ASSUME name # <<>>
        PROVE  /\ AfterName(path, at) >= 4
               /\ IF path[AfterName(path, at) - 1] = "/"
                  THEN Rank(path, AfterName(path, at) - 1) = n + 2
                  ELSE AfterName(path, at) = Len(path) + 1 /\ n + 1 = Count(path)
    <3>1. CASE e <= Len(path)
      <4>1. AfterName(path, at) - 1 = e /\ AfterName(path, at) >= 4
        BY <1>1, <1>2, <2>2, <3>1
      <4>2. path[e] = "/" /\ Rank(path, e) = n + 2
        BY <1>1, <2>1, <3>1
      <4>3. QED
        BY <4>1, <4>2
    <3>2. CASE ~(e <= Len(path))
      <4>1. /\ e = Len(path) + 1 /\ AfterName(path, at) = Len(path) + 1
            /\ AfterName(path, at) - 1 \in at .. e-1 /\ n + 1 = Count(path)
        BY <1>1, <1>2, <1>3, <2>1, <2>2, <2>4, <3>2
      <4>2. path[AfterName(path, at) - 1] # "/"
        BY <1>2, <4>1
      <4>3. QED
        BY <1>1, <4>1, <4>2
    <3>3. QED
      BY <3>1, <3>2
  <2>5. QED
    BY <1>1, <1>3, <2>1, <2>3, <2>4 DEF e, name, n
<1>5. CASE path[at-1] # "/"
  <2>1. at = Len(path) + 1 /\ n = Count(path)
    BY <1>1, <1>5
  <2>2. name = <<>>
    BY <1>1, <1>2, <1>3, <2>1
  <2>3. QED
    BY <1>3, <2>1, <2>2 DEF Ended
<1>6. QED
  BY <1>4, <1>5


\* A part is appended to the list.
LEMMA AppendStep ==
  ASSUME IInv, pc = "parts", NEW name \in Seq(STRING), name # <<>>,
         name = SubSeq(path, at, EndOfName(path, at) - 1), Len(name) < BlockSize,
         NEW str \in Heap, use[str] = "free", NEW b \in Heap, use[b] = "free", b # str,
         use' = [[use EXCEPT ![str] = "string"] EXCEPT ![b] = "part"],
         parts' = Append(parts, Part(b, str, name)),
         at' = AfterName(path, at), UNCHANGED <<path, pc, root, starved>>
  PROVE  IInv'
<1> DEFINE n == Len(parts)
<1>1. /\ TypeOK /\ ListSound /\ Listed /\ parts \in Seq(Records) /\ path \in Seq(STRING)
      /\ Accepted(path) /\ root # NULL /\ Lost = {} /\ at \in 1 .. Len(path) + 1 /\ ~starved
      /\ n \in Nat
  BY PathParserAssumption DEF IInv, PathInv, TypeOK
<1>2. /\ parts' \in Seq(Records) /\ Len(parts') = n + 1 /\ DOMAIN parts' = 1 .. n + 1
      /\ \A k \in 1 .. n : parts'[k] = parts[k]
      /\ parts'[n+1].block = b /\ parts'[n+1].str = str /\ parts'[n+1].name = name
  <2>1. Part(b, str, name) \in Records
    BY DEF Part, Records
  <2>2. /\ parts' \in Seq(Records) /\ Len(parts') = n + 1
        /\ \A k \in 1 .. n : parts'[k] = parts[k]
        /\ parts'[n+1] = Part(b, str, name)
    BY <1>1, <2>1, AppendProperties
  <2>3. QED
    BY <1>1, <2>2, SMTT(60) DEF Part
<1>3. use \in [Heap -> {"free", "other", "root", "string", "part"}]
  BY <1>1 DEF TypeOK
<1>4. /\ use' \in [Heap -> {"free", "other", "root", "string", "part"}]
      /\ use'[b] = "part" /\ use'[str] = "string"
      /\ \A x \in Heap : x # b /\ x # str => use'[x] = use[x]
      /\ \A x \in Heap : use[x] # "free" => use'[x] = use[x]
  BY <1>3
<1>5. /\ \A x \in Reachable : x \in Heap /\ use[x] # "free"
      /\ use[root] = "root" /\ root \in Heap
      /\ \A k \in 1 .. n : /\ parts[k].block \in Heap /\ use[parts[k].block] = "part"
                           /\ parts[k].str \in Heap /\ use[parts[k].str] = "string"
  BY <1>1, ReachableUsed
<1>6. \A k \in 1 .. n + 1 : k = n + 1 \/ k \in 1 .. n
  BY <1>1
<1> HIDE DEF n
<1>7. TypeOK'
  <2>1. at' \in 1 .. Len(path) + 1
    BY <1>1, StaysInside
  <2>2. \A k \in DOMAIN parts' : parts'[k].block \in Heap /\ parts'[k].str \in Heap
    BY <1>2, <1>5, <1>6
  <2>3. QED
    BY <1>1, <1>4, <2>1, <2>2 DEF TypeOK
<1>8. Reachable' = (Reachable \cup {str}) \cup {b}
  <2>1. \A x : x \in Reachable' <=> x = root \/ \E k \in 1 .. n + 1 : x \in {parts'[k].block, parts'[k].str}
    BY <1>1, <1>2, ZenonT(60) DEF Reachable
  <2>2. \A x : x \in Reachable <=> x = root \/ \E k \in 1 .. n : x \in {parts[k].block, parts[k].str}
    BY <1>1, ReachableBlocks DEF n
  <2>3. \A x : (\E k \in 1 .. n + 1 : x \in {parts'[k].block, parts'[k].str})
               <=> (\E k \in 1 .. n : x \in {parts[k].block, parts[k].str}) \/ x = str \/ x = b
    <3>1. n + 1 \in 1 .. n + 1 /\ \A k \in 1 .. n : k \in 1 .. n + 1
      BY <1>1
    <3>2. QED
      BY <1>2, <1>6, <3>1
  <2>4. \A x : x \in Reachable' <=> x \in Reachable \/ x = str \/ x = b
    BY <2>1, <2>2, <2>3
  <2>5. QED
    BY <2>4
<1>9. ListSound'
  <2>1. \A k \in 1 .. n + 1 : use'[parts'[k].block] = "part" /\ use'[parts'[k].str] = "string"
    BY <1>2, <1>4, <1>5, <1>6
  <2>2. Cardinality(Reachable) = 1 + 2 * n /\ str \notin Reachable /\ b \notin Reachable \cup {str}
    BY <1>1, <1>5 DEF ListSound, n
  <2>3. IsFiniteSet(Reachable)
    <3>1. IsFiniteSet(Heap)
      BY FS_Interval, BlockHeapAssumption DEF Heap
    <3>2. QED
      BY <1>5, <3>1, FS_Subset
  <2>4. IsFiniteSet(Reachable \cup {str}) /\ Cardinality(Reachable \cup {str}) = 2 + 2 * n
    <3>1. IsFiniteSet(Reachable \cup {str}) /\ Cardinality(Reachable \cup {str}) = Cardinality(Reachable) + 1
      BY <2>2, <2>3, FS_AddElement
    <3>2. QED
      BY <1>1, <2>2, <3>1
  <2>5. Cardinality(Reachable') = 3 + 2 * n
    <3>1. Cardinality(Reachable') = Cardinality(Reachable \cup {str}) + 1
      BY <1>8, <2>2, <2>4, FS_AddElement
    <3>2. QED
      BY <1>1, <2>4, <3>1
  <2>6. 1 + 2 * Len(parts') = 3 + 2 * n
    BY <1>1, <1>2 DEF n
  <2>7. use'[root'] = "root"
    BY <1>4, <1>5
  <2>8. QED
    BY <1>2, <2>1, <2>5, <2>6, <2>7 DEF ListSound
<1>10. Lost' = {}
  <2>1. \A x \in Heap : use[x] \in {"root", "string", "part"} => x \in Reachable
    BY <1>1 DEF Lost, Parsed
  <2>2. QED
    BY <1>4, <1>8, <2>1 DEF Lost, Parsed
<1>11. LosesLittle'
  BY DEF LosesLittle
<1>12. /\ n + 1 <= Count(path) /\ Names(path)[n + 1] = name
       /\ AfterName(path, at) >= 4
       /\ IF path[AfterName(path, at) - 1] = "/"
          THEN Rank(path, AfterName(path, at) - 1) = n + 2
          ELSE AfterName(path, at) = Len(path) + 1 /\ n + 1 = Count(path)
  BY NameStep DEF n
<1>13. Listed'
  <2>1. \A k \in 1 .. n + 1 : /\ parts'[k].name = Names(path)[k] /\ parts'[k].name # <<>>
                               /\ Len(parts'[k].name) < BlockSize
    BY <1>1, <1>2, <1>6, <1>12 DEF Listed, n
  <2>2. QED
    BY <1>2, <1>12, <2>1 DEF Listed
<1>14. parts' # <<>>
  BY <1>1, <1>2, SMTT(60) DEF n
<1>15. Reading'
  <2>1. path' = path /\ at' = AfterName(path, at) /\ Len(parts') + 1 = n + 2
    BY <1>1, <1>2 DEF n
  <2>2. QED
    BY <1>2, <1>12, <1>14, <2>1 DEF Reading
<1>16. Accepted(path)' /\ pc' = "parts" /\ root' # NULL /\ ~starved'
  BY <1>1
<1>17. QED
  BY <1>1, <1>2, <1>7, <1>9, <1>10, <1>11, <1>13, <1>14, <1>15, <1>16 DEF IInv, PathInv

\* A name that is too long for its block is one of the path's names before
\* the first empty one, and the path is longer than any that was measured.
LEMMA LongName ==
  ASSUME IInv, pc = "parts",
         Len(SubSeq(path, at, EndOfName(path, at) - 1)) >= BlockSize
  PROVE  Unmeasured(path)
<1> DEFINE name == SubSeq(path, at, EndOfName(path, at) - 1)
           n == Len(parts)
           B == NamesBeforeEmpty(path)
<1>1. /\ path \in Seq(STRING) /\ parts \in Seq(Records) /\ Listed /\ Accepted(path)
      /\ at \in 4 .. Len(path) + 1 /\ Len(path) \in Nat /\ n \in Nat
  <2>1. path \in Seq(STRING) /\ at \in 1 .. Len(path) + 1 /\ Reading /\ Accepted(path)
        /\ Listed /\ parts \in Seq(Records)
    BY PathParserAssumption DEF IInv, PathInv, TypeOK
  <2>2. QED
    BY <2>1 DEF Reading
<1>2. name \in Seq(STRING) /\ name # <<>>
  <2>1. name \in Seq(STRING) /\ Len(name) >= BlockSize
    BY <1>1, StaysInside
  <2> HIDE DEF name
  <2>2. name = <<>> => Len(name) = 0
    OBVIOUS
  <2>3. BlockSize \in Nat /\ BlockSize > 0
    BY PathParserAssumption
  <2>4. QED
    BY <2>1, <2>2, <2>3
<1>3. n + 1 \in 0 .. Count(path) /\ Names(path)[n + 1] = name
  BY <1>1, <1>2, NameStep, SlashesFinite
<1>4. \A k \in 1 .. n + 1 : Names(path)[k] # <<>>
  <2>1. \A k \in 1 .. n + 1 : k = n + 1 \/ k \in 1 .. n
    BY <1>1
  <2>2. QED
    BY <1>1, <1>2, <1>3, <2>1 DEF Listed
<1>5. n + 1 \in DOMAIN B /\ B[n + 1] = name
  <2>1. B \in Seq(NameSet(path)) /\ n + 1 <= Len(B) /\ \A k \in 1 .. n + 1 : B[k] = Names(path)[k]
    BY <1>1, <1>3, <1>4, NamesBefore
  <2> HIDE DEF B, n
  <2>2. QED
    BY <1>1, <1>3, <2>1
<1>6. Len(path) > RealisticStrlen /\ HasPrefix(path)
  <2>1. (Len(path) <= MaxPath \/ Len(path) > RealisticStrlen) /\ HasPrefix(path)
    BY <1>1, AcceptedPaths
  <2>2. Len(name) <= Len(path) - 3
    <3> DEFINE e == EndOfName(path, at)
    <3>1. e \in at .. Len(path) + 1
      BY <1>1, NameEnds
    <3>2. Len(SubSeq(path, at, e - 1)) = IF at <= e - 1 THEN e - 1 - at + 1 ELSE 0
      <4> HIDE DEF e
      <4>1. \A i \in at .. e - 1 : path[i] \in STRING
        BY <1>1, <3>1, ElementOfSeq
      <4>2. QED
        BY <1>1, <3>1, <4>1, SubSeqProperties
    <3> HIDE DEF e
    <3>3. Len(SubSeq(path, at, e - 1)) <= Len(path) - 3
      BY <1>1, <2>1, <3>1, <3>2 DEF HasPrefix
    <3>4. QED
      BY <3>3 DEF e
  <2>3. QED
    BY <1>1, <1>2, <2>1, <2>2, PathParserAssumption
<1>7. QED
  BY <1>5, <1>6 DEF Unmeasured

\* A name runs out of its block.
LEMMA OverrunStep ==
  ASSUME IInv, pc = "parts", NEW str \in Heap \cup {NULL}, kzalloc(use, str), Overrun(str),
         Len(SubSeq(path, at, EndOfName(path, at) - 1)) > Room(str),
         at' = AfterName(path, at), path' = path
  PROVE  IInv'
<1>1. /\ TypeOK /\ Listed /\ parts \in Seq(Records) /\ path \in Seq(STRING)
      /\ root # NULL /\ at \in 1 .. Len(path) + 1
  BY PathParserAssumption DEF IInv, PathInv, TypeOK
<1>2. /\ pc' = "overrun" /\ UNCHANGED <<root, parts, starved>>
      /\ use' = Hold(use, str, "string")
  BY DEF Overrun
<1>3. Len(SubSeq(path, at, EndOfName(path, at) - 1)) >= BlockSize
  <2> DEFINE length == Len(SubSeq(path, at, EndOfName(path, at) - 1))
  <2>1. length \in Nat
    <3>1. SubSeq(path, at, EndOfName(path, at) - 1) \in Seq(STRING)
      BY <1>1, StaysInside
    <3>2. QED
      BY <3>1
  <2>2. length > Room(str)
    OBVIOUS
  <2> HIDE DEF length
  <2>3. length >= BlockSize
    BY <2>1, <2>2, PathParserAssumption DEF Room
  <2>4. QED
    BY <2>3 DEF length
<1>4. TypeOK'
  <2>1. use' \in [Heap -> {"free", "other", "root", "string", "part"}]
    BY <1>1, <1>2 DEF TypeOK, Hold
  <2>2. at' \in 1 .. Len(path) + 1
    BY <1>1, StaysInside
  <2>3. QED
    BY <1>1, <1>2, <2>1, <2>2 DEF TypeOK
<1>5. ListSound' /\ LosesLittle'
  BY <1>2 DEF ListSound, LosesLittle
<1>6. Unmeasured(path')
  BY <1>3, LongName
<1>7. Listed'
  BY <1>1, <1>2 DEF Listed
<1>8. QED
  BY <1>1, <1>2, <1>4, <1>5, <1>6, <1>7 DEF IInv, PathInv

LEMMA FreeStep == IInv /\ pathparser_free_root => IInv'
<1> SUFFICES ASSUME IInv, pathparser_free_root PROVE IInv'
  OBVIOUS
<1>1. /\ TypeOK /\ ListSound /\ LosesLittle /\ Listed /\ path \in Seq(STRING)
      /\ at \in 1 .. Len(path) + 1
  BY PathParserAssumption DEF IInv, PathInv, TypeOK
<1>2. /\ pc = "done" /\ pc' = "freed" /\ root # NULL /\ root' = NULL /\ parts' = <<>>
      /\ use' = Freed(use, Reachable) /\ UNCHANGED <<path, at, starved>>
  BY DEF pathparser_free_root
<1>3. use \in [Heap -> {"free", "other", "root", "string", "part"}]
  BY <1>1 DEF TypeOK
<1>4. /\ use' \in [Heap -> {"free", "other", "root", "string", "part"}]
      /\ \A x \in Heap : use'[x] = IF x \in Reachable THEN "free" ELSE use[x]
  BY <1>2, <1>3 DEF Freed
<1>5. DOMAIN parts' = {} /\ parts' \in Seq(Records) /\ Len(parts') = 0
  BY <1>2
<1>6. TypeOK'
  BY <1>1, <1>2, <1>4, <1>5 DEF TypeOK
<1>7. ListSound'
  BY <1>2, <1>5 DEF ListSound
<1>8. Reachable' = {} /\ Lost' = Lost
  <2>1. Reachable' = {}
    BY <1>2 DEF Reachable
  <2>2. QED
    BY <1>4, <2>1 DEF Lost, Parsed
<1>9. \A b \in Lost : b \in Heap /\ b \notin Reachable /\ use'[b] = use[b]
  BY <1>4 DEF Lost, Parsed
<1>10. LosesLittle'
  <2>1. \A b \in Lost : use[b] = "string" /\ starved
    BY <1>1, <1>2 DEF LosesLittle, Lost
  <2>2. {b \in Lost' : use'[b] = "root"} = {}
    BY <1>8, <1>9, <2>1
  <2>3. {b \in Lost' : use'[b] = "string"} = {b \in Lost : use[b] = "string"}
    BY <1>8, <1>9
  <2>4. Cardinality({b \in Lost : use[b] = "string"}) <= 1
    BY <1>1, <1>2 DEF LosesLittle, Lost
  <2>5. \A k \in {"root", "string"} : Cardinality({b \in Lost' : use'[b] = k}) <= 1
    BY <2>2, <2>3, <2>4, FS_EmptySet
  <2>6. \A b \in Lost' : use'[b] = "string" /\ starved'
    BY <1>2, <1>8, <1>9, <2>1
  <2>7. QED
    BY <2>5, <2>6 DEF LosesLittle, Lost
<1>11. Listed'
  <2>1. Count(path') \in Nat
    BY <1>1, <1>2, SlashesFinite
  <2>2. QED
    BY <1>5, <2>1 DEF Listed
<1>12. QED
  BY <1>2, <1>5, <1>6, <1>7, <1>10, <1>11 DEF IInv, PathInv

LEMMA StartStep == IInv /\ Start => IInv'
<1> SUFFICES ASSUME IInv, Start PROVE IInv'
  OBVIOUS
<1>1. pc = "start" /\ UNCHANGED <<path, parts>> /\ starved \in BOOLEAN
  BY DEF Start, IInv, TypeOK
<1>2. CASE ~Accepted(path) /\ pc' = "done" /\ UNCHANGED <<use, at, root, starved>>
  BY <1>1, <1>2, RefusedStep
<1>3. CASE Accepted(path) /\ starved' = TRUE /\ pc' = "done" /\ UNCHANGED <<use, at, root>>
  BY <1>1, <1>3, RefusedStep
<1>4. ASSUME NEW b \in Heap, Accepted(path), kzalloc(use, b), use' = Hold(use, b, "root"),
             root' = b, at' = 4, pc' = "parts", UNCHANGED starved
      PROVE  IInv'
  <2>1. ~starved
    BY <1>1 DEF IInv, PathInv
  <2>2. QED
    BY <1>1, <1>4, <2>1, RootStep
<1>5. QED
  BY <1>2, <1>3, <1>4 DEF Start

LEMMA NextPartStep == IInv /\ NextPart => IInv'
<1> SUFFICES ASSUME IInv, NextPart PROVE IInv'
  OBVIOUS
<1> DEFINE name == SubSeq(path, at, EndOfName(path, at) - 1)
<1>1. /\ pc = "parts" /\ at' = AfterName(path, at) /\ path' = path
      /\ use \in [Heap -> {"free", "other", "root", "string", "part"}] /\ starved = FALSE
      /\ root # NULL /\ root \in Heap
  BY DEF NextPart, IInv, PathInv, TypeOK
<1>2. name \in Seq(STRING) /\ (name = <<>> => Ended(path, Len(parts)))
  BY <1>1, NameStep
<1> HIDE DEF name
<1>3. ASSUME EndOfList, starved' = TRUE, use' = use PROVE IInv'
  BY <1>1, <1>3, EndStep
<1>4. ASSUME NEW str \in Heap, kzalloc(use, str)
      PROVE  use[str] = "free" /\ Hold(use, str, "string") = [use EXCEPT ![str] = "string"]
  BY <1>4, BlockHeapAssumption DEF kzalloc, Hold, Heap, NULL
<1>5. ASSUME NEW str \in Heap, kzalloc(use, str), name = <<>>, EmptyName(str) PROVE IInv'
  <2>1. use' = use
    <3>1. use' = Freed([use EXCEPT ![str] = "string"], {str}) /\ use[str] = "free"
      BY <1>4, <1>5 DEF EmptyName
    <3>2. QED
      BY <1>1, <3>1 DEF Freed
  <2>2. EndOfList /\ starved' = starved
    BY <1>5 DEF EmptyName
  <2>3. QED
    BY <1>1, <1>2, <1>5, <2>1, <2>2, EndStep
<1>6. ASSUME NEW str \in Heap, kzalloc(use, str), EndOfList, starved' = TRUE,
             use' = Hold(use, str, "string")
      PROVE  IInv'
  BY <1>1, <1>4, <1>6, EndStep
<1>7. ASSUME NEW str \in Heap, kzalloc(use, str), Len(name) <= Room(str), name # <<>>,
             NEW b \in Heap, kzalloc(Hold(use, str, "string"), b),
             use' = Hold(Hold(use, str, "string"), b, "part"),
             parts' = Append(parts, Part(b, str, name)), UNCHANGED <<pc, root, starved>>
      PROVE  IInv'
  <2>1. use[str] = "free" /\ Hold(use, str, "string") = [use EXCEPT ![str] = "string"]
    BY <1>4, <1>7
  <2>2. b # NULL /\ [use EXCEPT ![str] = "string"][b] = "free"
    <3>1. kzalloc([use EXCEPT ![str] = "string"], b) /\ b \in Heap
      BY <1>7, <2>1
    <3>2. b # NULL
      BY <3>1, BlockHeapAssumption DEF Heap, NULL
    <3>3. QED
      BY <3>1, <3>2 DEF kzalloc
  <2>3. b # str /\ use[b] = "free"
    BY <1>1, <2>2
  <2>4. use' = [[use EXCEPT ![str] = "string"] EXCEPT ![b] = "part"]
    BY <1>7, <2>1, <2>2 DEF Hold
  <2>5. Len(name) < BlockSize
    BY <1>2, <1>7, BlockHeapAssumption, PathParserAssumption DEF Room, Heap, NULL
  <2>6. QED
    BY <1>1, <1>2, <1>7, <2>1, <2>3, <2>4, <2>5, AppendStep DEF name
<1>8. ASSUME NEW str \in Heap \cup {NULL}, kzalloc(use, str), Len(name) > Room(str), Overrun(str)
      PROVE  IInv'
  BY <1>1, <1>8, OverrunStep DEF name
<1>9. \/ \E str \in Heap \cup {NULL} : kzalloc(use, str) /\ Len(name) > Room(str) /\ Overrun(str)
      \/ kzalloc(use, NULL) /\ EndOfList /\ starved' = TRUE /\ use' = use
      \/ \E str \in Heap :
           /\ kzalloc(use, str) /\ Len(name) <= Room(str)
           /\ \/ name = <<>> /\ EmptyName(str)
              \/ /\ EndOfList /\ starved' = TRUE /\ use' = Hold(use, str, "string")
              \/ /\ name # <<>>
                 /\ \E b \in Heap :
                      /\ kzalloc(Hold(use, str, "string"), b)
                      /\ use' = Hold(Hold(use, str, "string"), b, "part")
                      /\ parts' = Append(parts, Part(b, str, name))
                 /\ UNCHANGED <<pc, root, starved>>
  BY DEF NextPart, name
<1>10. QED
  BY <1>3, <1>5, <1>6, <1>7, <1>8, <1>9

LEMMA PathStep == IInv /\ [Next]_vars => IInv'
<1> SUFFICES ASSUME IInv, [Next]_vars PROVE IInv'
  OBVIOUS
<1>1. CASE Start
  BY <1>1, StartStep
<1>2. CASE NextPart
  BY <1>2, NextPartStep
<1>3. CASE pathparser_free_root
  BY <1>3, FreeStep
<1>4. CASE UNCHANGED vars
  <2>1. /\ use' = use /\ pc' = pc /\ path' = path /\ at' = at /\ root' = root
        /\ parts' = parts /\ starved' = starved
    BY <1>4 DEF vars
  <2>2. Reachable' = Reachable /\ Parsed' = Parsed
    BY <2>1 DEF Reachable, Parsed
  <2>3. Lost' = Lost
    BY <2>2 DEF Lost
  <2>4. TypeOK' /\ ListSound' /\ LosesLittle'
    BY <2>1, <2>2 DEF IInv, TypeOK, ListSound, LosesLittle
  <2>5. PathInv'
    BY <2>1, <2>2, <2>3 DEF IInv, PathInv, Listed, Reading
  <2>6. QED
    BY <2>4, <2>5 DEF IInv
<1>5. QED
  BY <1>1, <1>2, <1>3, <1>4 DEF Next

LEMMA PathAlways == Spec => []IInv
BY PathInit, PathStep, PTL DEF Spec

-----------------------------------------------------------------------------
(* Every variable of a parse has its type; the position that is read never *)
(* leaves the path (pathparser_get_path_part).                             *)
THEOREM PathTypeCorrect == Spec => []TypeOK
<1>1. IInv => TypeOK
  BY DEF IInv
<1>2. QED
  BY <1>1, PathAlways, PTL

(* The list consists of separate heap blocks that are in use for what the  *)
(* list takes them for, so that pathparser_free_root frees each of them    *)
(* once and nothing else.                                                  *)
THEOREM PathListSound == Spec => []ListSound
<1>1. IInv => ListSound
  BY DEF IInv
<1>2. QED
  BY <1>1, PathAlways, PTL

(* Whatever allocations fail, a parse loses at most the root of a path     *)
(* without names and one string (pathparser_parse, _free_root).            *)
THEOREM PathLosesLittle == Spec => []LosesLittle
<1>1. IInv => LosesLittle
  BY DEF IInv
<1>2. QED
  BY <1>1, PathAlways, PTL

(* A name runs out of its block only in a path that strlen has given up    *)
(* on, and with no refused memory such a path is not parsed to its end     *)
(* (pathparser_get_path_part, pathparser_parse).                           *)
LEMMA PathOverrun ==
  ASSUME IInv
  PROVE  OverrunsWhenUnmeasured
<1>1. pc = "overrun" => Unmeasured(path)
  BY DEF IInv, PathInv
<1>2. ASSUME pc = "done", ~starved, Unmeasured(path) PROVE FALSE
  <2> DEFINE B == NamesBeforeEmpty(path)
  <2>1. PICK n \in DOMAIN B : Len(B[n]) >= BlockSize
    BY <1>2 DEF Unmeasured
  <2>2. B # <<>>
    BY <2>1
  <2>3. Parts = B
    BY <1>2, <2>2, PathListed DEF NamesListed, Unmeasured
  <2> HIDE DEF B
  <2>4. DOMAIN Parts = DOMAIN parts /\ parts \in Seq(Records) /\ Listed
    BY DEF Parts, IInv, PathInv
  <2>5. n \in 1 .. Len(parts) /\ Parts[n] = parts[n].name
    BY <2>1, <2>3, <2>4 DEF Parts
  <2>6. Len(B[n]) < BlockSize
    BY <2>3, <2>4, <2>5 DEF Listed
  <2>7. Len(B[n]) \in Nat
    <3>1. parts[n] \in Records
      BY <2>4, <2>5, ElementOfSeq
    <3>2. QED
      BY <2>3, <2>5, <3>1 DEF Records
  <2>8. QED
    BY <2>1, <2>6, <2>7, PathParserAssumption
<1>3. QED
  BY <1>1, <1>2 DEF OverrunsWhenUnmeasured

(* For paths and lists of every length: the list is the first names of the *)
(* path, and all of them up to an empty one when no allocation failed;     *)
(* exactly the paths without a drive, without a name or of a length        *)
(* between the limits are refused.  Only in paths that strlen has given up *)
(* on does a name run out of its block, and nothing is said of the list    *)
(* then.                                                                   *)
THEOREM PathListsTheNames == Spec => []ListsTheNames
<1>1. IInv => ListsTheNames
  BY PathListed, PathOverrun DEF ListsTheNames
<1>2. QED
  BY <1>1, PathAlways, PTL
=============================================================================
