------------------------------- MODULE MCHeap -------------------------------
(* Values of the constants of Heap for TLC.                                *)
EXTENDS Heap

\* Nothing, less than a word, a block that splits, and one that leaves a
\* remainder too small to split off.
Sizes == {0, 3, 16, 33}
=============================================================================
