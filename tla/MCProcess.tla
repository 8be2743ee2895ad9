------------------------------ MODULE MCProcess ------------------------------
(* Process for TLC: the bounds are in the .cfg files. *)
EXTENDS Process

=============================================================================
