------------------------------ MODULE MCSession ------------------------------
(* Session for TLC: the bounds are in the .cfg files. *)
EXTENDS Session

=============================================================================
