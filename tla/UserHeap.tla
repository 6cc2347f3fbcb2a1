------------------------------ MODULE UserHeap ------------------------------
(***************************************************************************)
(* The heap of a program, malloc and free of src/programs/stdlib.c: a list *)
(* of blocks that grows at its end by sbrk, on the frames and breaks of    *)
(* module Memory.  No other part of the library moves the break; a program *)
(* that calls sbrk itself does not use malloc here.                        *)
(*                                                                         *)
(* The list and the break are the program's own, so that malloc is one     *)
(* step, its two system calls included: sbrk(0) for the address, then sbrk *)
(* for the space.  The magic numbers, which tell free that a pointer is    *)
(* one of malloc's, are left out: only such pointers are freed.            *)
(***************************************************************************)
EXTENDS Memory

CONSTANTS
    Mallocs,        \* the programs that use malloc
    META_SIZE,      \* sizeof(block_meta_t)
    Sizes           \* what they ask for

ASSUME UserHeapAssumption ==
    /\ Mallocs \subseteq Programs /\ META_SIZE \in Nat \ {0} /\ Sizes \subseteq Nat \ {0}
    /\ \A size \in Sizes : META_SIZE + size < Space      \* size is an int

VARIABLES
    blocks,         \* the list of each program, from global_base on
    asked           \* the size each block was last asked for

allVars == <<vars, blocks, asked>>

UserInit ==
    /\ Init
    /\ blocks = [p \in Mallocs |-> <<>>] /\ asked = [p \in Mallocs |-> <<>>]
-----------------------------------------------------------------------------
(* Seeded fault: any free block is good enough. *)
FitsAnything(p, size) == {i \in DOMAIN blocks[p] : blocks[p][i].free}

(* The blocks find_free_block takes; it stops at the first. *)
Fits(p, size) == {i \in DOMAIN blocks[p] : blocks[p][i].free /\ blocks[p][i].size >= size}

(* A block that is used again keeps its size. *)
find_free_block(p, size) ==
    /\ Fits(p, size) # {}
    /\ blocks' = [blocks EXCEPT ![p][Min(Fits(p, size))].free = FALSE]
    /\ asked' = [asked EXCEPT ![p][Min(Fits(p, size))] = size]
    /\ UNCHANGED vars

(* Seeded fault: the block is linked before the result is looked at. *)
RequestUnchecked(p, size) ==
    /\ SYS_SBRK(p, META_SIZE + size)
    /\ blocks' = [blocks EXCEPT ![p] =
                     Append(@, [at |-> program_break[p], size |-> size, free |-> FALSE])]
    /\ asked' = [asked EXCEPT ![p] = Append(@, size)]

(* A block behind the last, or, if sbrk fails, none. *)
request_space(p, size) ==
    /\ SYS_SBRK(p, META_SIZE + size)
    /\ IF program_break'[p] = program_break[p] THEN UNCHANGED <<blocks, asked>>
       ELSE /\ blocks' = [blocks EXCEPT ![p] =
                             Append(@, [at |-> program_break[p], size |-> size, free |-> FALSE])]
            /\ asked' = [asked EXCEPT ![p] = Append(@, size)]

malloc(p, size) ==
    /\ Runs /\ p \in running
    /\ find_free_block(p, size) \/ (Fits(p, size) = {} /\ request_space(p, size))

free(p, i) ==
    /\ Runs /\ p \in running /\ ~blocks[p][i].free
    /\ blocks' = [blocks EXCEPT ![p][i].free = TRUE]
    /\ UNCHANGED <<vars, asked>>

UserNext ==
    \/ Loads /\ UNCHANGED <<blocks, asked>>
    \/ \E p \in Programs \ Mallocs, increment \in Increments :
          SYS_SBRK(p, increment) /\ UNCHANGED <<blocks, asked>>
    \/ \E p \in Mallocs :
          \/ \E size \in Sizes : malloc(p, size)
          \/ \E i \in DOMAIN blocks[p] : free(p, i)

UserSpec == UserInit /\ [][UserNext]_allVars
-----------------------------------------------------------------------------
(* Properties.                                                             *)

(* The blocks of a program lie one behind the other from the end of its    *)
(* image to its break, also after calls that got no frames half way, so    *)
(* that no two share a byte and (with BreakBacked) each has its pages; and *)
(* a block in use is as large as what was asked for (stdlib.c:203-210).    *)
(* A request that takes the break past the end of the address space ends   *)
(* the claim for its program.                                              *)
BlocksInBreak ==
    \A p \in (Mallocs \cap running) \ strayed :
        LET b == blocks[p]
            end(i) == IF i = 0 THEN ImageEnd(p) * PageSize
                      ELSE b[i].at + META_SIZE + b[i].size
        IN  /\ \A i \in DOMAIN b : b[i].at = end(i - 1)
            /\ end(Len(b)) = program_break[p]
            /\ \A i \in DOMAIN b : ~b[i].free => b[i].size >= asked[p][i]
=============================================================================
