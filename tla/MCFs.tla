-------------------------------- MODULE MCFs --------------------------------
(* Values of the constants of Fs for TLC.                                  *)
EXTENDS Fs, TLC

CONSTANTS n0, n1, n2, n3, p, q, sh, a, b, long, longer, nil

Short == {a, b}
AsTyped == [s \in Short |-> s]

\* long has 31 characters; longer starts with them and has more.
ShortAndLong == {a, long, longer}
CutTo31 == [s \in ShortAndLong |-> IF s = a THEN a ELSE long]

\* Paths of up to two components, relative and absolute.
ShellPaths ==
    [absolute : BOOLEAN, components : UNION {[1..k -> {a, long, Up}] : k \in 0..2}]

\* What the programs open: files of the directory they are in.
FilePaths == [absolute : {FALSE}, components : {<<s>> : s \in Short}]

\* One boot module of one byte.
OneModule == <<[node |-> n1, name |-> a, size |-> 1]>>
NoModules == <<>>

\* The addresses that are not the root are interchangeable.
Addresses == Permutations({n1, n2, n3})
=============================================================================
