----------------------------- MODULE MCKeyboard -----------------------------
(* Values of the constants of Keyboard for TLC.                            *)
EXTENDS Keyboard

\* Both shift keys, caps lock, and the keys the two tables treat differently.
SomeKeys == {"left shift", "right shift", "caps lock", "letter", "arrow"}
=============================================================================
