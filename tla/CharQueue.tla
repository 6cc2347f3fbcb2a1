------------------------------ MODULE CharQueue ------------------------------
(***************************************************************************)
(* What the keyboard promises its readers: a first-in first-out queue of   *)
(* characters of a fixed capacity, which drops what does not fit.          *)
(***************************************************************************)
EXTENDS Naturals, Sequences

CONSTANTS Chars, Capacity

VARIABLES queue, got    \* the characters waiting; the last one that was read

Nothing == "nothing"

Init == queue = <<>> /\ got = Nothing

Put(c) ==
    /\ queue' = IF Len(queue) < Capacity THEN Append(queue, c) ELSE queue
    /\ UNCHANGED got

Get ==
    /\ got' = IF queue = <<>> THEN Nothing ELSE Head(queue)
    /\ queue' = IF queue = <<>> THEN queue ELSE Tail(queue)

Next == Get \/ \E c \in Chars : Put(c)

Spec == Init /\ [][Next]_<<queue, got>>
=============================================================================
