---------------------------- MODULE MCContainer ----------------------------
(***************************************************************************)
(* Two hands write files of up to two blocks: enough for a key torn        *)
(* between two identities, a size that changes while it is read and a      *)
(* database whose count moves.                                             *)
(***************************************************************************)
EXTENDS Container

MCHands == {0, 1}
=============================================================================
