----------------------------- MODULE Allocator -----------------------------
(***************************************************************************)
(* What the kernel heap promises to its callers, whatever its list of      *)
(* blocks looks like: a granted region holds at least what was asked for   *)
(* and little more, lies inside the arena and shares no byte with another  *)
(* granted region or its header; a request is refused only when no place   *)
(* for it is left.  Module Heap implements it.                             *)
(***************************************************************************)
EXTENDS Integers

CONSTANTS
    START,      \* the first address of the arena
    SIZE,       \* the size of the arena
    HDR,        \* the size of the header in front of a region
    SLACK,      \* a region may be this much larger than the rounded request
    Requests    \* the sizes asked for

VARIABLES
    arena,      \* SIZE, or 0 while there is no arena
    granted,    \* the regions in use: address |-> size
    ret         \* what the last call returned; 0 is NULL

Words(n) == 4 * ((n + 3) \div 4)

(* A region of s bytes at p with its header, clear of all granted ones. *)
Room(p, s) ==
    /\ START <= p - HDR /\ p + s <= START + arena
    /\ \A q \in DOMAIN granted : p + s <= q - HDR \/ q + granted[q] <= p - HDR

Init == arena = 0 /\ granted = <<>> /\ ret = 0

Open ==
    /\ arena = 0
    /\ arena' = SIZE
    /\ UNCHANGED <<granted, ret>>

Places == {p \in START + HDR..START + SIZE : p % 4 = 0}

Grant(n) ==
    \E p \in Places :
        /\ ret' = p
        /\ \E s \in Words(n)..Words(n) + SLACK :
              /\ Room(p, s)
              /\ granted' = [q \in DOMAIN granted \cup {p} |->
                                IF q = p THEN s ELSE granted[q]]
        /\ UNCHANGED arena

Refuse(n) ==
    /\ ret' = 0
    /\ UNCHANGED <<arena, granted>>
    /\ \A p \in Places : ~ Room(p, Words(n))

Release(p) ==
    /\ p \in DOMAIN granted
    /\ granted' = [q \in DOMAIN granted \ {p} |-> granted[q]]
    /\ UNCHANGED <<arena, ret>>

Next ==
    \/ Open
    \/ \E n \in Requests : Grant(n) \/ Refuse(n)
    \/ \E p \in DOMAIN granted : Release(p)

Spec == Init /\ [][Next]_<<arena, granted, ret>>
=============================================================================
