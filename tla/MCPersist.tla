----------------------------- MODULE MCPersist -----------------------------
(* Values of the constants of Persist for TLC.                             *)
EXTENDS Persist

\* One name fills its place in the table, the other does not.
Long == <<"l", "ong">>
Short == <<"s">>
ShortOnly == {Short}
TwoModules == <<[name |-> Long, data |-> <<<<Long, "old">>>>, buffer |-> TRUE],
                [name |-> Short, data |-> <<<<Short, "old">>, <<Short, "old">>>>, buffer |-> TRUE]>>
=============================================================================
