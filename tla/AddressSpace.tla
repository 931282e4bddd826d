---------------------------- MODULE AddressSpace ----------------------------
(***************************************************************************)
(* What paging.c promises to a kernel that maps pages with it, without     *)
(* directories and tables: one map from pages to frames, which is the      *)
(* identity when paging is switched on.  paging_set changes it at the page *)
(* of its address, to the frame it is given, and nowhere else; an address  *)
(* inside a page changes nothing.  A page that was set while the processor *)
(* remembered it is stale: an access to it may reach the frame of an       *)
(* earlier map until the processor forgets it.  The promise ends with the  *)
(* call that maps a page of the tables themselves elsewhere.               *)
(***************************************************************************)
EXTENDS Integers

CONSTANTS Pages, PageSize

VARIABLES
  map,          \* map[p]: the frame of page p
  own,          \* the pages that hold the tables
  remembered,   \* pages that the processor may remember the frame of
  stale,        \* those among them that have another frame by now
  call,         \* the last paging_set with its address and frame, or the last
                \* access with its page and the frame it reached
  sound         \* paging is on and the promise holds

vars == <<map, own, remembered, stale, call, sound>>

Identity == [p \in Pages |-> p]

Init == ~sound /\ call = <<"none">>

SwitchOn == ~sound /\ sound' /\ map' = Identity /\ stale' = {} /\ call' = call

\* The pages that paging_set changes for an address: one, or none.
Changed(va) == {p \in Pages : va = p * PageSize}

Set(va, f) ==
  /\ call' = <<"set", va, f>>
  /\ map' = [p \in Pages |-> IF p \in Changed(va) THEN f ELSE map[p]]
  /\ remembered' \subseteq remembered \cup own
  /\ stale' \subseteq stale \cup (Changed(va) \cap remembered')
  /\ UNCHANGED own

Access(p, f) ==
  /\ call' = <<"access", p, f>>
  /\ p \notin stale => f = map[p]
  /\ remembered' = remembered \cup {p}
  /\ UNCHANGED <<map, own, stale>>

Forget ==
  /\ remembered' \subseteq remembered
  /\ stale' = stale \cap remembered'
  /\ UNCHANGED <<map, own, call>>

Next ==
  \/ SwitchOn
  \/ ~sound /\ ~sound'
  \/ /\ sound
     /\ \E p \in Pages, offset \in 0 .. PageSize-1, f \in Pages :
          /\ Set(p * PageSize + offset, f)
          /\ sound' <=> Changed(p * PageSize + offset) \cap own \subseteq {f}
  \/ /\ sound /\ sound'
     /\ Forget \/ \E p \in Pages, f \in Pages : Access(p, f)

Spec == Init /\ [][Next]_vars
=============================================================================
