----------------------------- MODULE MCUserHeap -----------------------------
(* Values of the constants of Memory and UserHeap for TLC.                 *)
EXTENDS UserHeap, TLC

\* Program 1 has an image of one page, program 2 of two.
Images == 1 :> 1 @@ 2 :> 2

\* For program 2, whose break starts at 94: two pages, and
\* negative arguments that lead into the pages before the image and in two
\* calls into the identity map, and past 0 into the last page.
Steps == {4, -8, -95}
=============================================================================
