----------------------------- MODULE MCPageAlloc -----------------------------
(* PageAlloc for TLC: the bounds are in the .cfg files. *)
EXTENDS PageAlloc

=============================================================================
