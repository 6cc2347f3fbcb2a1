-------------------------------- MODULE MCWm --------------------------------
(***************************************************************************)
(* Instances of Wm for TLC.                                                *)
(***************************************************************************)
EXTENDS Wm

(* Two windows whose title bars overlap in one column. *)
MCWindows == << [x |-> 0, y |-> 1, width |-> 2], [x |-> 1, y |-> 1, width |-> 2] >>
=============================================================================
