----------------------------- MODULE MCFatFile -----------------------------
(* One open file on a volume of three clusters with two sectors of two    *)
(* bytes each.  The FATs: chains in order and out of order, chains that    *)
(* end early in each of the four ways, and a chain that runs in a circle.  *)
EXTENDS FatFile, TLC

Fat(a, b, c) == 2 :> a @@ 3 :> b @@ 4 :> c

MCFats == {Fat(3, 4, EOC), Fat(4, EOC + 7, 3), Fat(EOC, 4, 2), Fat(BAD, 2, 3),
           Fat(3, UNUSED, RESERVED), Fat(4, EOC, 2)}

MCOffsets == {-3, 1, 9, 13}

ASSUME MCPlainVolume == PlainVolume
=============================================================================
