-------------------------------- MODULE Heap --------------------------------
(***************************************************************************)
(* The kernel heap, src/src/mm/heap.c: a list of blocks, each a header     *)
(* followed by its data, searched first fit by kmalloc and merged by       *)
(* kfree.  Both disable interrupts, so a call is one step.                 *)
(*                                                                         *)
(* `list' is the chain of headers that starts at free_list_head (which     *)
(* holds the blocks in use too): the next field of a header is the         *)
(* neighbour in the sequence, its address is a field of its own here, so   *)
(* that adjacency in memory is a property of the code, not of the model.   *)
(* Sizes are in bytes.  The callers free only what they were given, once.  *)
(***************************************************************************)
EXTENDS Integers, Sequences, SequencesExt

CONSTANTS
    HEAP_START, HEAP_SIZE,
    HDR,        \* sizeof(alloc_header_t)
    WORD,       \* size_t counts modulo WORD
    Requests    \* bound: the sizes that are asked for

(* A request of the last three values of size_t would be rounded up to 0.  *)
ASSUME HeapAssumption ==
    /\ HEAP_START \in Nat \ {0} /\ HEAP_START % 4 = 0
    /\ HDR \in Nat \ {0} /\ HDR % 4 = 0
    /\ HEAP_SIZE \in Nat /\ HEAP_SIZE > HDR /\ HEAP_SIZE % 4 = 0
    /\ WORD \in Nat /\ WORD % 4 = 0 /\ HEAP_START + HEAP_SIZE < WORD
    /\ Requests \subseteq 0..WORD - 4

VARIABLES
    list,       \* the blocks, in the order of the next pointers
    booted,     \* init_heap has run
    ret         \* what the last kmalloc returned; 0 is NULL

vars == <<list, booted, ret>>

Block == [addr : Nat, size : Nat, is_free : BOOLEAN]
TypeOK ==
    /\ list \in Seq(Block)
    /\ booted \in BOOLEAN
    /\ ret \in Nat
-----------------------------------------------------------------------------
Init == list = <<>> /\ booted = FALSE /\ ret = 0

(* init_heap: when the frames run out the list stays empty. *)
init_heap ==
    /\ ~booted
    /\ booted' = TRUE
    /\ \E enough \in BOOLEAN :
          list' = IF enough
                  THEN <<[addr |-> HEAP_START, size |-> HEAP_SIZE - HDR, is_free |-> TRUE]>>
                  ELSE <<>>
    /\ UNCHANGED ret

Rounded(n) == (IF n % 4 # 0 THEN n + (4 - (n % 4)) ELSE n) % WORD

(* The list once block i is taken for size bytes, split when it is larger  *)
(* by more than a header and a word.                                       *)
Taken(l, i, size) ==
    IF l[i].size > size + HDR + 4
    THEN InsertAt([l EXCEPT ![i].is_free = FALSE, ![i].size = size], i + 1,
                  [addr |-> l[i].addr + HDR + size, size |-> l[i].size - size - HDR,
                   is_free |-> TRUE])
    ELSE [l EXCEPT ![i].is_free = FALSE]

(* Seeded fault: the test for room asks for the new header as well. *)
kmalloc_wants_header(n) ==
    LET size == Rounded(n)
        Fits == {i \in DOMAIN list : list[i].is_free /\ list[i].size >= size + HDR}
    IN  /\ booted
        /\ \/ /\ Fits = {}
              /\ ret' = 0
              /\ UNCHANGED list
           \/ \E i \in Fits :
                 /\ \A j \in Fits : i <= j
                 /\ list' = Taken(list, i, size)
                 /\ ret' = list[i].addr + HDR
        /\ UNCHANGED booted

(* The first free block on the list that is large enough. *)
kmalloc(n) ==
    LET size == Rounded(n)
        Fits == {i \in DOMAIN list : list[i].is_free /\ list[i].size >= size}
    IN  /\ booted
        /\ \/ /\ Fits = {}
              /\ ret' = 0
              /\ UNCHANGED list
           \/ \E i \in Fits :
                 /\ \A j \in Fits : i <= j
                 /\ list' = Taken(list, i, size)
                 /\ ret' = list[i].addr + HDR
        /\ UNCHANGED booted

(* Seeded fault: a merge does not win back the header. *)
JoinForgetsHeader(seen, b) ==
    IF seen # <<>> /\ Last(seen).is_free /\ b.is_free
    THEN [seen EXCEPT ![Len(seen)].size = @ + b.size]
    ELSE Append(seen, b)

(* The loop of heap_coalesce up to the next block b: curr is the last      *)
(* block seen; a free neighbour is merged into it and curr stays.          *)
Joined(seen, b) ==
    IF seen # <<>> /\ Last(seen).is_free /\ b.is_free
    THEN [seen EXCEPT ![Len(seen)].size = @ + b.size + HDR]
    ELSE Append(seen, b)

(* Seeded fault: the loop ends with the first merge. *)
MergesOnce(l) ==
    LET seen[k \in 0..Len(l)] ==
            IF k = 0 THEN <<>>
            ELSE LET s == seen[k - 1]
                 IN  IF IsPrefix(s, l) THEN Joined(s, l[k]) ELSE Append(s, l[k])
    IN  seen[Len(l)]

(* heap_coalesce: a run of free blocks becomes one. *)
heap_coalesce(l) ==
    LET seen[k \in 0..Len(l)] == IF k = 0 THEN <<>> ELSE Joined(seen[k - 1], l[k])
    IN  seen[Len(l)]

(* kfree(ptr), for a block in use. *)
kfree(ptr) ==
    /\ \E i \in DOMAIN list :
          /\ list[i].addr = ptr - HDR /\ ~list[i].is_free
          /\ list' = heap_coalesce([list EXCEPT ![i].is_free = TRUE])
    /\ UNCHANGED <<booted, ret>>

Next ==
    \/ init_heap
    \/ \E n \in Requests : kmalloc(n)
    \/ \E i \in DOMAIN list : kfree(list[i].addr + HDR)

Spec == Init /\ [][Next]_vars
-----------------------------------------------------------------------------
(* Properties.                                                             *)

End(b) == b.addr + HDR + b.size

(* The blocks follow each other in memory without gap or overlap, none of  *)
(* negative size, and make up the whole arena, so no byte is ever lost to  *)
(* kmalloc, and "the next on the list" in heap_coalesce is the neighbour   *)
(* in memory it is merged with.                                            *)
Tiled ==
    /\ TypeOK
    /\ list # <<>> =>
        /\ list[1].addr = HEAP_START
        /\ \A i \in 1..Len(list) - 1 : list[i + 1].addr = End(list[i])
        /\ End(Last(list)) = HEAP_START + HEAP_SIZE

(* No two free blocks stay side by side: what was freed is available in    *)
(* one piece at once.                                                      *)
NoAdjacentFree ==
    \A i \in 1..Len(list) - 1 : ~ (list[i].is_free /\ list[i + 1].is_free)

(* The heap is an allocator: its callers' regions are disjoint, large      *)
(* enough and aligned, and a request is refused only if it has no place.   *)
InUse == {i \in DOMAIN list : ~list[i].is_free}
Granted == [p \in {list[i].addr + HDR : i \in InUse} |->
               list[CHOOSE i \in InUse : list[i].addr + HDR = p].size]
ArenaSize == IF list = <<>> THEN 0 ELSE HEAP_SIZE
Alloc == INSTANCE Allocator WITH
    START <- HEAP_START, SIZE <- HEAP_SIZE, SLACK <- HDR + 4,
    arena <- ArenaSize, granted <- Granted
Implements == Alloc!Spec
=============================================================================
