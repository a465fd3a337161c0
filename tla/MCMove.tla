------------------------------- MODULE MCMove -------------------------------
(* Moves and machines as model values.                                     *)
EXTENDS Move

=============================================================================
