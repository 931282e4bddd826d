---------------------------- MODULE MCFileTable ----------------------------
(* Three descriptors, of which the last one has a number that              *)
(* file_get_descriptor refuses, and a heap that can fill the table or run  *)
(* out before it is full, depending on how many paths have been parsed.    *)
EXTENDS FileTable
=============================================================================
