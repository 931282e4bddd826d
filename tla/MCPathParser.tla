---------------------------- MODULE MCPathParser ----------------------------
(* Paths with every tail of up to seven slashes and letters, prefixes with *)
(* and without a drive, and heaps of seven blocks of which any may be in   *)
(* use already.  Three letters after the prefix reach the limit of a path, *)
(* six that of strlen and that of a block: only a path that strlen gives   *)
(* up on has a name that is too long for its block.                        *)
EXTENDS PathParser

Tails == UNION {[1 .. n -> {"a", "/"}] : n \in 0 .. 7}

MCPathStrings ==
  {<<"0", ":", "/">> \o t : t \in Tails}
    \cup {<<>>, <<"0", ":">>, <<"a", ":", "/", "a">>, <<"0", "/", "/", "a">>, <<"0", ":", "a", "a">>}
=============================================================================
