----------------------------- MODULE MCTerminal -----------------------------
(* Values of the constants of Terminal for TLC.                            *)
EXTENDS Terminal

CONSTANTS a, b

\* Nothing, a line, and a character that is taken back.
Printing == {<<>>, <<"\n", Shell>>, <<Shell, Backspace>>}
=============================================================================
