----------------------------- MODULE MCTerminal -----------------------------
(* Lines of three cells, so that texts wrap in every way, and a row number *)
(* that overflows after nine rows.                                         *)
EXTENDS Terminal

Boot == <<"shown", "newline", "shown", "tab", "shown", "shown">>
Message == <<"shown", "shown", "shown", "shown", "newline", "shown">>
Nothing == <<>>
=============================================================================
