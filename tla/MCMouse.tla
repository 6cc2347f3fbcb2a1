------------------------------- MODULE MCMouse -------------------------------
(***************************************************************************)
(* Instances of Mouse for TLC.                                             *)
(***************************************************************************)
EXTENDS Mouse

(* To either side, to an edge of the screen and beyond it, and not at all. *)
MCMoves == {-4, -1, 0, 1}
=============================================================================
