----------------------------- MODULE Allocator -----------------------------
(***************************************************************************)
(* What the kernel heap promises its callers, without a block table: an    *)
(* allocator that hands out runs of consecutive blocks by their addresses. *)
(*                                                                         *)
(* A request for size bytes is granted any run of blocks long enough to    *)
(* hold them, provided no outstanding allocation owns one of its blocks;   *)
(* it is refused only when there is no such run (or size is 0).  Giving    *)
(* back an address that starts an outstanding allocation returns all of    *)
(* its blocks and no other; any other address is ignored.                  *)
(***************************************************************************)
EXTENDS Integers

CONSTANTS Total,        \* number of blocks
          BlockSize,    \* bytes in a block
          Base,         \* address of the first block
          Addresses     \* the words: addresses, and sizes of requests

VARIABLES owned,        \* owned[b]: the blocks of the allocation that starts at b
          call,         \* the last call and its argument
          answer        \* the address it returned, or Refused

avars == <<owned, call, answer>>

Blocks  == 0 .. Total-1
Refused == 0

Address(b) == Base + b * BlockSize

Free(i) == \A b \in Blocks : i \notin owned[b]

\* n blocks hold size bytes and n-1 blocks do not, in exact arithmetic.
Needs(n, size) == (n-1) * BlockSize < size /\ size <= n * BlockSize

Room(s, n) == s + n <= Total /\ \A i \in s .. s+n-1 : Free(i)

Init ==
  /\ owned = [b \in Blocks |-> {}]
  /\ call = <<"none">>
  /\ answer = Refused

Grant(size) ==
  \E s \in Blocks, n \in 1 .. Total :
    /\ size > 0 /\ Needs(n, size)
    /\ Room(s, n)
    /\ owned' = [owned EXCEPT ![s] = s .. s+n-1]
    /\ call' = <<"kmalloc", size>>
    /\ answer' = Address(s)

Refuse(size) ==
  /\ \A s \in Blocks, n \in 1 .. Total : Needs(n, size) => ~Room(s, n)
  /\ call' = <<"kmalloc", size>>
  /\ answer' = Refused
  /\ UNCHANGED owned

Release(ptr) ==
  /\ owned' = [b \in Blocks |-> IF ptr = Address(b) THEN {} ELSE owned[b]]
  /\ call' = <<"kfree", ptr>>
  /\ answer' = Refused

Next == \E a \in Addresses : Grant(a) \/ Refuse(a) \/ Release(a)

Spec == Init /\ [][Next]_avars
=============================================================================
