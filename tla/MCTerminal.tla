----------------------------- MODULE MCTerminal -----------------------------
(* Terminal for TLC: the bounds are in the .cfg files. *)
EXTENDS Terminal

=============================================================================
