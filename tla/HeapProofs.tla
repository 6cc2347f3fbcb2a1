----------------------------- MODULE HeapProofs -----------------------------
(***************************************************************************)
(* Theorems about module Heap, for any arena, header and requests:         *)
(*   - AlwaysTiled: the blocks tile the arena, each with a size aligned to *)
(*     a word;                                                             *)
(*   - FreeNeverAdjacent: after any kfree no two free blocks touch;        *)
(*   - HeapIsAllocator: Heap implements Allocator.                         *)
(* The invariant (IInv) says that the list is empty or is an Arena: its    *)
(* blocks follow one another from HEAP_START to the end, no two neighbours *)
(* are free, and sizes are aligned.  All three parts are needed: that a    *)
(* request is refused only when no place is left rests on the second.      *)
(* heap_coalesce is the fold of Joined over the list; CoalesceKeeps is     *)
(* proved by induction over the prefix already looked at.                  *)
(***************************************************************************)
EXTENDS Heap, TLAPS, SequenceTheorems, WellFoundedInduction

-----------------------------------------------------------------------------
(* Induction and recursion up to n, stated for a set and for a function,   *)
(* so that they can be used by name.                                       *)

LEMMA UpTo ==
    ASSUME NEW n \in Nat, NEW S, 0 \in S,
           \A k \in 0..n - 1 : k \in S => k + 1 \in S
    PROVE  0..n \subseteq S
PROOF
  <1> DEFINE Bad == {k \in 0..n : k \notin S}
             R == OpToRel(<, Nat)
  <1> SUFFICES ASSUME Bad # {} PROVE FALSE
    OBVIOUS
  <1>1. PICK m \in Bad : \A k \in Bad : ~ (<<k, m>> \in R)
    <2>1. IsWellFoundedOn(R, Nat)
      BY NatLessThanWellFounded
    <2>2. Bad \subseteq Nat
      OBVIOUS
    <2> QED
      BY <2>1, <2>2, WFMin
  <1>2. \A k \in Bad : ~ (k < m)
    <2>1. \A k \in Bad : <<k, m>> \in R <=> k < m
      <3>1. Bad \subseteq Nat
        OBVIOUS
      <3> HIDE DEF Bad
      <3> QED
        BY <3>1 DEF OpToRel
    <2> QED
      BY <1>1, <2>1
  <1>3. m # 0 /\ m \in 0..n
    OBVIOUS
  <1>4. m - 1 \in 0..n - 1 /\ m - 1 \in S
    BY <1>2, <1>3
  <1>5. (m - 1) + 1 \in S
    BY <1>4
  <1> QED
    BY <1>3, <1>5

LEMMA RecursionUpTo ==
    ASSUME NEW n \in Nat, NEW T, NEW base \in T, NEW step \in [1..n -> [T -> T]]
    PROVE  \E f \in [0..n -> T] :
              f[0] = base /\ \A k \in 1..n : f[k] = step[k][f[k - 1]]
PROOF
  <1> DEFINE Fits(f, m) == f[0] = base /\ \A k \in 1..m : f[k] = step[k][f[k - 1]]
             S == {m \in 0..n : \E f \in [0..m -> T] : Fits(f, m)}
  <1>1. 0 \in S
    <2>1. [k \in 0..0 |-> base] \in [0..0 -> T] /\ Fits([k \in 0..0 |-> base], 0)
      OBVIOUS
    <2>2. \E f \in [0..0 -> T] : Fits(f, 0)
      BY <2>1
    <2> HIDE DEF Fits
    <2> QED
      BY <2>2
  <1>2. ASSUME NEW m \in 0..n - 1, m \in S PROVE m + 1 \in S
    <2>1. PICK f \in [0..m -> T] : Fits(f, m)
      BY <1>2
    <2> DEFINE g == [k \in 0..m + 1 |-> IF k <= m THEN f[k] ELSE step[m + 1][f[m]]]
    <2>2. m + 1 \in 1..n /\ f[m] \in T
      OBVIOUS
    <2>3. g \in [0..m + 1 -> T]
      BY <2>2
    <2>4. g[0] = base /\ \A k \in 1..m + 1 : g[k] = step[k][g[k - 1]]
      BY <2>1
    <2> HIDE DEF g
    <2>5. Fits(g, m + 1)
      BY <2>4
    <2> HIDE DEF Fits
    <2>6. \E h \in [0..m + 1 -> T] : Fits(h, m + 1)
      BY <2>3, <2>5
    <2> QED
      BY <2>2, <2>6
  <1>3. n \in S
    <2> HIDE DEF S
    <2>1. \A m \in 0..n - 1 : m \in S => m + 1 \in S
      BY <1>2
    <2>2. 0..n \subseteq S
      BY <1>1, <2>1, UpTo, Zenon
    <2> QED
      BY <2>2
  <1> QED
    BY <1>3
-----------------------------------------------------------------------------
LEMMA Mod4 ==
    ASSUME NEW x \in Nat, NEW y \in Nat, NEW z \in Nat, x % 4 = 0, y % 4 = 0, z % 4 = 0
    PROVE  (x + y + z) % 4 = 0
PROOF
    OBVIOUS

(* What a list of blocks has to be, beside tiling the arena.               *)

Chained(l) == \A i \in 1..Len(l) - 1 : l[i + 1].addr = End(l[i])
Spaced(l) == \A i \in 1..Len(l) - 1 : ~ (l[i].is_free /\ l[i + 1].is_free)
Aligned(l) == \A i \in 1..Len(l) : l[i].size % 4 = 0
Used(l) == {l[i] : i \in {j \in 1..Len(l) : ~l[j].is_free}}

LEMMA Constants ==
    /\ HEAP_START \in Nat \ {0} /\ HEAP_START % 4 = 0
    /\ HDR \in Nat \ {0} /\ HDR % 4 = 0
    /\ HEAP_SIZE \in Nat /\ HEAP_SIZE > HDR /\ HEAP_SIZE % 4 = 0
    /\ WORD \in Nat /\ WORD % 4 = 0 /\ HEAP_START + HEAP_SIZE < WORD
    /\ Requests \subseteq 0..WORD - 4
PROOF
    BY HeapAssumption DEF HeapAssumption

-----------------------------------------------------------------------------
(* heap_coalesce.                                                          *)

LEMMA Merged ==
    ASSUME NEW c \in Block, NEW b \in Block,
           NEW d, d = [c EXCEPT !.size = @ + b.size + HDR]
    PROVE  /\ d \in Block
           /\ d.addr = c.addr /\ d.is_free = c.is_free /\ d.size = c.size + b.size + HDR
PROOF
  <1>1. c.size + b.size + HDR \in Nat
    BY Constants DEF Block
  <1> QED
    BY <1>1 DEF Block

(* One step of its loop: the blocks seen stay chained, end where the next  *)
(* block ends, have no free neighbours, and keep all that are in use.      *)
LEMMA JoinedKeeps ==
    ASSUME NEW s \in Seq(Block), s # <<>>, NEW b \in Block,
           Chained(s), Spaced(s), Aligned(s), b.addr = End(Last(s)), b.size % 4 = 0,
           NEW t, t = Joined(s, b)
    PROVE  /\ t \in Seq(Block) /\ t # <<>> /\ t[1].addr = s[1].addr
           /\ Chained(t) /\ Spaced(t) /\ Aligned(t)
           /\ End(Last(t)) = End(b) /\ Last(t).is_free = b.is_free
           /\ Used(t) = Used(s) \cup (IF b.is_free THEN {} ELSE {b})
PROOF
  <1> DEFINE n == Len(s)
  <1>1. n \in Nat \ {0} /\ \A i \in 1..n : s[i] \in Block
    BY EmptySeq, ElementOfSeq
  <1>2. CASE s[n].is_free /\ b.is_free
    <2> DEFINE c == [s[n] EXCEPT !.size = @ + b.size + HDR]
    <2>1. t = [s EXCEPT ![n] = c]
      BY <1>2 DEF Joined, Last
    <2>2. c \in Block /\ c.addr = s[n].addr /\ c.is_free /\ c.size = s[n].size + b.size + HDR
      BY <1>1, <1>2, Merged
    <2>3. /\ t \in Seq(Block) /\ Len(t) = n
          /\ \A i \in 1..n : t[i] = IF i = n THEN c ELSE s[i]
      BY <1>1, <2>1, <2>2, ExceptSeq
    <2> HIDE DEF c
    <2>4. End(c) = End(b)
      <3>1. /\ s[n].addr \in Nat /\ s[n].size \in Nat /\ b.size \in Nat /\ HDR \in Nat
            /\ b.addr = s[n].addr + HDR + s[n].size
        BY <1>1, Constants DEF End, Block, Last
      <3> QED
        BY <2>2, <3>1 DEF End
    <2>5. c.size % 4 = 0
      <3>1. /\ s[n].size \in Nat /\ b.size \in Nat /\ HDR \in Nat
            /\ s[n].size % 4 = 0 /\ HDR % 4 = 0
        BY <1>1, Constants DEF Aligned, Block
      <3>2. (s[n].size + b.size + HDR) % 4 = 0
        BY <3>1, Mod4, Zenon
      <3> QED
        BY <2>2, <3>2
    <2>6. Chained(t) /\ Spaced(t)
      <3>1. ASSUME NEW i \in 1..n - 1
            PROVE  /\ t[i] = s[i] /\ t[i + 1].addr = s[i + 1].addr
                   /\ t[i + 1].is_free => s[i + 1].is_free
        <4>1. i \in 1..n /\ i + 1 \in 1..n /\ i # n
          BY <1>1
        <4>2. t[i] = s[i] /\ t[i + 1] = IF i + 1 = n THEN c ELSE s[i + 1]
          BY <2>3, <4>1
        <4>3. CASE i + 1 = n
          BY <1>2, <2>2, <4>2, <4>3
        <4>4. CASE i + 1 # n
          BY <4>2, <4>4
        <4> QED
          BY <4>3, <4>4
      <3>2. Chained(t)
        BY <2>3, <3>1 DEF Chained
      <3>3. Spaced(t)
        BY <2>3, <3>1 DEF Spaced
      <3> QED
        BY <3>2, <3>3
    <2>7. Aligned(t)
      BY <1>1, <2>3, <2>5 DEF Aligned
    <2>8. Used(t) = Used(s)
      BY <1>1, <1>2, <2>2, <2>3 DEF Used
    <2>9. t # <<>> /\ t[1].addr = s[1].addr
      BY <1>1, <2>2, <2>3, EmptySeq
    <2>10. Last(t) = c
      BY <1>1, <2>3 DEF Last
    <2> QED
      BY <1>2, <2>2, <2>3, <2>4, <2>6, <2>7, <2>8, <2>9, <2>10
  <1>3. CASE ~ (s[n].is_free /\ b.is_free)
    <2>1. t = Append(s, b)
      BY <1>3 DEF Joined, Last
    <2>2. /\ t \in Seq(Block) /\ t # <<>> /\ Len(t) = n + 1
          /\ \A i \in 1..n : t[i] = s[i]
          /\ t[n + 1] = b
      BY <2>1, AppendProperties
    <2>3. Chained(t)
      BY <1>1, <2>2 DEF Chained, Last
    <2>4. Spaced(t)
      BY <1>1, <1>3, <2>2 DEF Spaced
    <2>5. Aligned(t)
      BY <1>1, <2>2 DEF Aligned
    <2>6. Used(t) = Used(s) \cup (IF b.is_free THEN {} ELSE {b})
      BY <1>1, <2>2 DEF Used
    <2>7. Last(t) = b /\ t[1] = s[1]
      BY <1>1, <2>2 DEF Last
    <2> QED
      BY <2>2, <2>3, <2>4, <2>5, <2>6, <2>7
  <1> QED
    BY <1>2, <1>3

LEMMA CoalesceUnfolds ==
    ASSUME NEW l \in Seq(Block)
    PROVE  \E seen \in [0..Len(l) -> Seq(Block)] :
              /\ heap_coalesce(l) = seen[Len(l)]
              /\ seen[0] = <<>>
              /\ \A k \in 1..Len(l) : seen[k] = Joined(seen[k - 1], l[k])
PROOF
  <1> DEFINE n == Len(l)
             T == Seq(Block)
             step == [k \in 1..n |-> [s \in T |-> Joined(s, l[k])]]
             Eq(f) == f = [k \in 0..n |-> IF k = 0 THEN <<>> ELSE Joined(f[k - 1], l[k])]
             seen == CHOOSE f : Eq(f)
  <1>1. n \in Nat /\ <<>> \in T /\ \A k \in 1..n : l[k] \in Block
    BY LenProperties, ElementOfSeq, EmptySeq
  <1>2. ASSUME NEW s \in T, NEW b \in Block PROVE Joined(s, b) \in T
    <2>1. CASE s # <<>> /\ Last(s).is_free /\ b.is_free
      <3>1. Len(s) \in Nat \ {0} /\ s[Len(s)] \in Block
        BY <2>1, EmptySeq, ElementOfSeq
      <3>2. [s[Len(s)] EXCEPT !.size = @ + b.size + HDR] \in Block
        BY <3>1, Merged
      <3>3. Joined(s, b) = [s EXCEPT ![Len(s)] = [s[Len(s)] EXCEPT !.size = @ + b.size + HDR]]
        BY <2>1 DEF Joined
      <3> QED
        BY <3>1, <3>2, <3>3, ExceptSeq
    <2>2. CASE ~ (s # <<>> /\ Last(s).is_free /\ b.is_free)
      BY <2>2, AppendProperties DEF Joined
    <2> QED
      BY <2>1, <2>2
  <1> HIDE DEF n, T
  <1>3. step \in [1..n -> [T -> T]]
    BY <1>1, <1>2
  <1>4. \E f \in [0..n -> T] : f[0] = <<>> /\ \A k \in 1..n : f[k] = step[k][f[k - 1]]
    <2> HIDE DEF step
    <2> QED
      BY <1>1, <1>3, RecursionUpTo
  <1>5. \E f \in [0..n -> T] : Eq(f)
    <2>1. PICK f \in [0..n -> T] : f[0] = <<>> /\ \A k \in 1..n : f[k] = step[k][f[k - 1]]
      BY <1>4
    <2>2. \A k \in 1..n : f[k - 1] \in T
      BY <1>1
    <2>3. \A k \in 1..n : f[k] = Joined(f[k - 1], l[k])
      BY <2>1, <2>2
    <2>4. Eq(f)
      BY <1>1, <2>1, <2>3
    <2> QED
      BY <2>4
  <1>6. Eq(seen)
    <2> HIDE DEF Eq
    <2> QED
      BY <1>5
  <1>7. heap_coalesce(l) = seen[n]
    BY DEF heap_coalesce, n
  <1> HIDE DEF seen
  <1>8. seen[0] = <<>> /\ \A k \in 1..n : seen[k] = Joined(seen[k - 1], l[k])
    BY <1>1, <1>6
  <1>9. seen \in [0..n -> T]
    <2> DEFINE Good == {k \in 0..n : seen[k] \in T}
    <2>1. 0 \in Good
      BY <1>1, <1>8
    <2>2. \A k \in 0..n - 1 : k \in Good => k + 1 \in Good
      <3> SUFFICES ASSUME NEW k \in 0..n - 1, seen[k] \in T
                   PROVE  seen[k + 1] \in T
        BY <1>1
      <3>1. k + 1 \in 1..n /\ (k + 1) - 1 = k
        BY <1>1
      <3>2. seen[k + 1] = Joined(seen[k], l[k + 1])
        BY <1>8, <3>1
      <3> QED
        BY <1>1, <1>2, <3>1, <3>2
    <2>3. 0..n \subseteq Good
      <3> HIDE DEF Good
      <3> QED
        BY <1>1, <2>1, <2>2, UpTo, Zenon
    <2> QED
      BY <1>6, <2>3
  <1> QED
    BY <1>7, <1>8, <1>9 DEF n, T
(* The whole of it: no two free blocks are left side by side, and what is  *)
(* in use stays as it was.                                                 *)
LEMMA CoalesceKeeps ==
    ASSUME NEW l \in Seq(Block), l # <<>>, Chained(l), Aligned(l),
           NEW m, m = heap_coalesce(l)
    PROVE  /\ m \in Seq(Block) /\ m # <<>> /\ m[1].addr = l[1].addr
           /\ Chained(m) /\ Spaced(m) /\ Aligned(m)
           /\ End(Last(m)) = End(Last(l))
           /\ Used(m) = Used(l)
PROOF
  <1> DEFINE n == Len(l)
  <1>1. n \in Nat \ {0} /\ \A k \in 1..n : l[k] \in Block
    BY EmptySeq, ElementOfSeq
  <1>2. PICK seen \in [0..n -> Seq(Block)] :
            /\ m = seen[n]
            /\ seen[0] = <<>>
            /\ \A k \in 1..n : seen[k] = Joined(seen[k - 1], l[k])
    BY CoalesceUnfolds
  <1> DEFINE Upto(k) == {l[i] : i \in {j \in 1..k : ~l[j].is_free}}
             Holds(k) == LET s == seen[k] IN
                 /\ s # <<>> /\ s[1].addr = l[1].addr
                 /\ Chained(s) /\ Spaced(s) /\ Aligned(s)
                 /\ End(Last(s)) = End(l[k])
                 /\ Used(s) = Upto(k)
             Good == {k \in 0..n - 1 : Holds(k + 1)}
  <1>3. Holds(1)
    <2>1. seen[1] = Joined(<<>>, l[1])
      <3>1. 1 \in 1..n /\ 1 - 1 = 0
        BY <1>1
      <3> QED
        BY <1>2, <3>1
    <2>2. seen[1] = Append(<<>>, l[1]) /\ <<>> \in Seq(Block) /\ l[1] \in Block
      BY <1>1, <2>1, EmptySeq DEF Joined
    <2>3. seen[1] # <<>> /\ Len(seen[1]) = 1 /\ seen[1][1] = l[1]
      <3>1. /\ seen[1] # <<>> /\ Len(seen[1]) = Len(<<>>) + 1
            /\ seen[1][Len(<<>>) + 1] = l[1]
        BY <2>2, AppendProperties
      <3> QED
        BY <3>1, EmptySeq
    <2>4. Chained(seen[1]) /\ Spaced(seen[1]) /\ Last(seen[1]) = l[1]
      BY <2>3 DEF Chained, Spaced, Last
    <2>5. Aligned(seen[1])
      BY <1>1, <2>3 DEF Aligned
    <2>6. Used(seen[1]) = Upto(1)
      BY <1>1, <2>3 DEF Used
    <2> QED
      BY <2>3, <2>4, <2>5, <2>6
  <1>4. ASSUME NEW k \in 1..n - 1, Holds(k) PROVE Holds(k + 1)
    <2> DEFINE s == seen[k]
               b == l[k + 1]
               t == seen[k + 1]
    <2>1. s \in Seq(Block) /\ b \in Block /\ t = Joined(s, b)
      <3>1. k \in 0..n /\ k + 1 \in 1..n /\ (k + 1) - 1 = k
        BY <1>1
      <3> QED
        BY <1>1, <1>2, <3>1
    <2>2. /\ s # <<>> /\ s[1].addr = l[1].addr
          /\ Chained(s) /\ Spaced(s) /\ Aligned(s)
          /\ End(Last(s)) = End(l[k])
          /\ Used(s) = Upto(k)
      BY <1>4
    <2>3. b.addr = End(l[k]) /\ b.size % 4 = 0
      BY <1>1 DEF Chained, Aligned
    <2>4. Upto(k + 1) = Upto(k) \cup (IF b.is_free THEN {} ELSE {b})
      BY <1>1
    <2> HIDE DEF s, b, t, Upto
    <2>5. /\ t # <<>> /\ t[1].addr = s[1].addr
          /\ Chained(t) /\ Spaced(t) /\ Aligned(t)
          /\ End(Last(t)) = End(b)
          /\ Used(t) = Used(s) \cup (IF b.is_free THEN {} ELSE {b})
      <3>1. b.addr = End(Last(s))
        BY <2>2, <2>3
      <3> QED
        BY <2>1, <2>2, <2>3, <3>1, JoinedKeeps
    <2> QED
      BY <2>2, <2>4, <2>5 DEF s, b, t
  <1>5. 0..n - 1 \subseteq Good
    <2>1. 0 \in Good
      BY <1>1, <1>3
    <2>2. \A k \in 0..(n - 1) - 1 : k \in Good => k + 1 \in Good
      <3> SUFFICES ASSUME NEW k \in 0..(n - 1) - 1, Holds(k + 1)
                   PROVE  k + 1 \in 0..n - 1 /\ Holds((k + 1) + 1)
        OBVIOUS
      <3>1. k + 1 \in 1..n - 1 /\ k + 1 \in 0..n - 1
        BY <1>1
      <3> HIDE DEF Holds
      <3> QED
        BY <1>4, <3>1
    <2>3. n - 1 \in Nat
      BY <1>1
    <2> HIDE DEF Good
    <2> QED
      BY <2>1, <2>2, <2>3, UpTo, Zenon
  <1>6. Holds(n)
    <2> HIDE DEF Holds
    <2>1. n - 1 \in Good /\ (n - 1) + 1 = n
      BY <1>1, <1>5
    <2> QED
      BY <2>1
  <1>7. m \in Seq(Block)
    BY <1>1, <1>2
  <1>8. Used(l) = Upto(n) /\ Last(l) = l[n]
    BY DEF Used, Last
  <1> QED
    BY <1>2, <1>6, <1>7, <1>8
-----------------------------------------------------------------------------
(* Taken.                                                                  *)

LEMMA InsertFacts ==
    ASSUME NEW l \in Seq(Block), NEW i \in 1..Len(l) + 1, NEW e \in Block
    PROVE  /\ InsertAt(l, i, e) \in Seq(Block) /\ Len(InsertAt(l, i, e)) = Len(l) + 1
           /\ \A j \in 1..Len(l) + 1 :
                 /\ j < i => InsertAt(l, i, e)[j] = l[j]
                 /\ j = i => InsertAt(l, i, e)[j] = e
                 /\ j > i => InsertAt(l, i, e)[j] = l[j - 1]
PROOF
  <1> DEFINE n == Len(l)
             a == SubSeq(l, 1, i - 1)
             b == SubSeq(l, i, n)
             m == InsertAt(l, i, e)
  <1>1. n \in Nat /\ \A k \in 1..n : l[k] \in Block
    BY LenProperties, ElementOfSeq
  <1>2. a \in Seq(Block) /\ Len(a) = i - 1 /\ \A k \in 1..i - 1 : a[k] = l[k]
    <2>1. 1 \in Int /\ i - 1 \in Int /\ \A k \in 1..i - 1 : l[k] \in Block
      BY <1>1
    <2>2. /\ a \in Seq(Block) /\ Len(a) = IF 1 <= i - 1 THEN (i - 1) - 1 + 1 ELSE 0
          /\ \A k \in 1..(i - 1) - 1 + 1 : a[k] = l[1 + k - 1]
      BY <2>1, SubSeqProperties
    <2> QED
      BY <1>1, <2>2
  <1>3. b \in Seq(Block) /\ Len(b) = n - i + 1 /\ \A k \in 1..n - i + 1 : b[k] = l[i + k - 1]
    <2>1. i \in Int /\ n \in Int /\ \A k \in i..n : l[k] \in Block
      BY <1>1
    <2>2. /\ b \in Seq(Block) /\ Len(b) = IF i <= n THEN n - i + 1 ELSE 0
          /\ \A k \in 1..n - i + 1 : b[k] = l[i + k - 1]
      BY <2>1, SubSeqProperties
    <2> QED
      BY <1>1, <2>2
  <1>4. <<e>> \in Seq(Block) /\ Len(<<e>>) = 1 /\ <<e>>[1] = e
    OBVIOUS
  <1> DEFINE ae == a \o <<e>>
  <1>5. m = ae \o b
    BY DEF InsertAt
  <1> HIDE DEF a, b, n, m
  <1>6. ae \in Seq(Block) /\ Len(ae) = i /\ \A k \in 1..i : ae[k] = IF k < i THEN l[k] ELSE e
    <2>1. /\ ae \in Seq(Block) /\ Len(ae) = Len(a) + Len(<<e>>)
          /\ \A k \in 1..Len(a) + Len(<<e>>) :
                ae[k] = IF k <= Len(a) THEN a[k] ELSE <<e>>[k - Len(a)]
      BY <1>2, <1>4, ConcatProperties
    <2> HIDE DEF ae
    <2> QED
      BY <1>1, <1>2, <1>4, <2>1
  <1> HIDE DEF ae
  <1>7. /\ m \in Seq(Block) /\ Len(m) = Len(ae) + Len(b)
        /\ \A k \in 1..Len(ae) + Len(b) :
              m[k] = IF k <= Len(ae) THEN ae[k] ELSE b[k - Len(ae)]
    <2>1. b \in Seq(Block) /\ ae \in Seq(Block)
      BY <1>3, <1>6
    <2> QED
      BY <1>5, <2>1, ConcatProperties
  <1>8. Len(m) = n + 1
    BY <1>1, <1>3, <1>6, <1>7 DEF n
  <1>9. ASSUME NEW j \in 1..n + 1
        PROVE  /\ j < i => m[j] = l[j]
               /\ j = i => m[j] = e
               /\ j > i => m[j] = l[j - 1]
    <2>1. m[j] = IF j <= i THEN ae[j] ELSE b[j - i]
      BY <1>1, <1>3, <1>6, <1>7
    <2>2. j > i => j - i \in 1..n - i + 1 /\ i + (j - i) - 1 = j - 1
      BY <1>1
    <2> QED
      BY <1>1, <1>3, <1>6, <2>1, <2>2
  <1> QED
    BY <1>7, <1>8, <1>9 DEF n, m
(* The list while it is not empty: it tiles the arena, no two free blocks  *)
(* are neighbours and the sizes are multiples of a word.                   *)
Arena(l) ==
    /\ l \in Seq(Block) /\ l # <<>>
    /\ l[1].addr = HEAP_START /\ Chained(l) /\ End(Last(l)) = HEAP_START + HEAP_SIZE
    /\ Spaced(l) /\ Aligned(l)

LEMMA TakenBlock ==
    ASSUME NEW b \in Block
    PROVE  /\ [b EXCEPT !.is_free = FALSE] \in Block
           /\ [b EXCEPT !.is_free = FALSE].addr = b.addr
           /\ [b EXCEPT !.is_free = FALSE].size = b.size
           /\ ~[b EXCEPT !.is_free = FALSE].is_free
PROOF
    BY DEF Block

LEMMA SizedBlock ==
    ASSUME NEW b \in Block, NEW s \in Nat
    PROVE  /\ [b EXCEPT !.size = s] \in Block
           /\ [b EXCEPT !.size = s].addr = b.addr
           /\ [b EXCEPT !.size = s].size = s
           /\ [b EXCEPT !.size = s].is_free = b.is_free
PROOF
    BY DEF Block

(* A block that is taken is split so that both parts fill its place. *)
LEMMA TakenKeeps ==
    ASSUME NEW l, Arena(l), NEW i \in 1..Len(l), l[i].is_free,
           NEW size \in Nat, size % 4 = 0, l[i].size >= size,
           NEW m, m = Taken(l, i, size)
    PROVE  /\ Arena(m)
           /\ \E c \in Block :
                 /\ c.addr = l[i].addr /\ ~c.is_free
                 /\ c.size \in size..size + HDR + 4 /\ c.size <= l[i].size
                 /\ Used(m) = Used(l) \cup {c}
PROOF
  <1> DEFINE n == Len(l)
             b == l[i]
  <1>1. /\ l \in Seq(Block) /\ n \in Nat \ {0}
        /\ \A k \in 1..n : l[k] \in Block
    BY EmptySeq, ElementOfSeq DEF Arena
  <1>2. \A k \in 1..n : l[k].addr \in Nat /\ l[k].size \in Nat /\ l[k].is_free \in BOOLEAN
    BY <1>1 DEF Block
  <1>3. HDR \in Nat \ {0} /\ HDR % 4 = 0
    BY Constants
  <1>4. /\ l[1].addr = HEAP_START /\ l[n].addr + HDR + l[n].size = HEAP_START + HEAP_SIZE
        /\ \A k \in 1..n - 1 : l[k + 1].addr = l[k].addr + HDR + l[k].size
        /\ \A k \in 1..n - 1 : ~ (l[k].is_free /\ l[k + 1].is_free)
        /\ \A k \in 1..n : l[k].size % 4 = 0
    BY DEF Arena, Chained, Spaced, Aligned, End, Last
  <1>5. CASE b.size > size + HDR + 4
    <2> DEFINE c == [[b EXCEPT !.is_free = FALSE] EXCEPT !.size = size]
               r == [addr |-> b.addr + HDR + size, size |-> b.size - size - HDR, is_free |-> TRUE]
               k == [l EXCEPT ![i] = c]
    <2>1. /\ c \in Block /\ c.addr = b.addr /\ c.size = size /\ ~c.is_free
          /\ r \in Block /\ r.addr = b.addr + HDR + size /\ r.size = b.size - size - HDR /\ r.is_free
      <3>1. b.addr + HDR + size \in Nat /\ b.size - size - HDR \in Nat
        <4>1. ASSUME NEW x \in Nat, NEW y \in Nat, NEW h \in Nat, NEW s \in Nat, y > s + h + 4
              PROVE  x + h + s \in Nat /\ y - s - h \in Nat
          BY <4>1
        <4>2. b.addr \in Nat /\ b.size \in Nat /\ HDR \in Nat
          BY <1>2, <1>3
        <4> QED
          BY <1>5, <4>1, <4>2, Zenon
      <3>2. r \in Block /\ r.addr = b.addr + HDR + size /\ r.size = b.size - size - HDR /\ r.is_free
        BY <3>1 DEF Block
      <3>3. c \in Block /\ c.addr = b.addr /\ c.size = size /\ ~c.is_free
        <4> DEFINE d == [b EXCEPT !.is_free = FALSE]
        <4>1. d \in Block /\ d.addr = b.addr /\ ~d.is_free
          BY <1>1, TakenBlock, Zenon
        <4> HIDE DEF d
        <4>2. LET e == [d EXCEPT !.size = size]
              IN  e \in Block /\ e.addr = d.addr /\ e.size = size /\ e.is_free = d.is_free
          BY <4>1, SizedBlock, Zenon
        <4> QED
          BY <4>1, <4>2 DEF d
      <3> QED
        BY <3>2, <3>3
    <2>2. k \in Seq(Block) /\ Len(k) = n /\ \A j \in 1..n : k[j] = IF j = i THEN c ELSE l[j]
      BY <1>1, <2>1, ExceptSeq
    <2>3. m = InsertAt(k, i + 1, r)
      <3>1. [l EXCEPT ![i].is_free = FALSE, ![i].size = size] = k
        BY <1>1, LenProperties
      <3> QED
        BY <1>5, <3>1 DEF Taken
    <2> HIDE DEF c, r, k
    <2>4. /\ m \in Seq(Block) /\ Len(m) = n + 1
          /\ \A j \in 1..n + 1 :
                /\ j < i + 1 => m[j] = k[j]
                /\ j = i + 1 => m[j] = r
                /\ j > i + 1 => m[j] = k[j - 1]
      <3> DEFINE p == i + 1
                 w == InsertAt(k, p, r)
      <3>1. p \in 1..Len(k) + 1
        BY <1>1, <2>2
      <3>2. r \in Block /\ k \in Seq(Block)
        BY <2>1, <2>2
      <3> HIDE DEF p
      <3>3. /\ w \in Seq(Block) /\ Len(w) = Len(k) + 1
            /\ \A j \in 1..Len(k) + 1 :
                  /\ j < p => w[j] = k[j]
                  /\ j = p => w[j] = r
                  /\ j > p => w[j] = k[j - 1]
        BY <3>1, <3>2, InsertFacts
      <3> HIDE DEF w
      <3> QED
        BY <2>2, <2>3, <3>3 DEF w, p
    <2>5. /\ \A j \in 1..i - 1 : m[j] = l[j]
          /\ m[i] = c /\ m[i + 1] = r
          /\ \A j \in i + 1..n : m[j + 1] = l[j]
      <3>1. \A j \in 1..i - 1 : j \in 1..n + 1 /\ j < i + 1 /\ j \in 1..n /\ j # i
        BY <1>1
      <3>2. \A j \in i + 1..n :
              j \in 1..n /\ j # i /\ j + 1 \in 1..n + 1 /\ j + 1 > i + 1
              /\ (j + 1) - 1 = j
        BY <1>1
      <3>3. i \in 1..n + 1 /\ i + 1 \in 1..n + 1 /\ i < i + 1 /\ i \in 1..n
        BY <1>1
      <3>4. \A j \in i + 1..n : m[j + 1] = l[j]
        <4> SUFFICES ASSUME NEW j \in i + 1..n PROVE m[j + 1] = l[j]
          OBVIOUS
        <4>1. m[j + 1] = k[(j + 1) - 1]
          BY <2>4, <3>2
        <4> QED
          BY <2>2, <3>2, <4>1
      <3>5. m[i] = c /\ m[i + 1] = r
        BY <2>2, <2>4, <3>3
      <3> QED
        BY <2>2, <2>4, <3>1, <3>4, <3>5
    <2>6. (b.size - size - HDR) % 4 = 0
      <3>1. ASSUME NEW x \in Int, NEW y \in Int, NEW z \in Int, x % 4 = 0, y % 4 = 0, z % 4 = 0
            PROVE  (x - y - z) % 4 = 0
        BY <3>1
      <3>2. b.size \in Int /\ size \in Int /\ HDR \in Int /\ b.size % 4 = 0
        BY <1>2, <1>3, <1>4
      <3> QED
        BY <1>3, <3>1, <3>2, Zenon
    <2>14. r.addr + HDR + r.size = b.addr + HDR + b.size
      <3>1. ASSUME NEW x \in Int, NEW y \in Int, NEW z \in Int, NEW h \in Int
            PROVE  (x + h + z) + h + (y - z - h) = x + h + y
        OBVIOUS
      <3>2. b.addr \in Int /\ b.size \in Int /\ size \in Int /\ HDR \in Int
        BY <1>2, <1>3
      <3>3. (b.addr + HDR + size) + HDR + (b.size - size - HDR) = b.addr + HDR + b.size
        BY <3>1, <3>2
      <3> QED
        BY <2>1, <3>3
    <2>7. m # <<>> /\ m[1].addr = HEAP_START
      <3>1. i = 1 \/ 1 \in 1..i - 1
        BY <1>1
      <3> QED
        BY <1>1, <1>4, <2>1, <2>4, <2>5, <3>1, EmptySeq
    <2>8. ASSUME NEW j \in 1..n
          PROVE  m[j + 1].addr = End(m[j]) /\ ~ (m[j].is_free /\ m[j + 1].is_free)
      <3>1. CASE j < i - 1
        <4>1. j \in 1..i - 1 /\ j + 1 \in 1..i - 1 /\ j \in 1..n - 1
          BY <1>1, <3>1
        <4> QED
          BY <1>4, <2>5, <4>1 DEF End
      <3>2. CASE j = i - 1
        <4>1. j \in 1..i - 1 /\ j + 1 = i /\ j \in 1..n - 1
          BY <1>1, <3>2
        <4> QED
          BY <1>4, <2>1, <2>5, <4>1 DEF End
      <3>3. CASE j = i
        <4>1. c.addr + HDR + c.size = r.addr
          BY <1>2, <1>3, <2>1
        <4> QED
          BY <2>1, <2>5, <3>3, <4>1 DEF End
      <3>4. CASE j = i + 1
        <4>1. i \in 1..n - 1 /\ i + 1 \in i + 1..n
          BY <1>1, <3>4
        <4>2. m[j + 1] = l[i + 1]
          BY <2>5, <3>4, <4>1
        <4>3. l[i + 1].addr = b.addr + HDR + b.size /\ ~ l[i + 1].is_free
          BY <1>4, <4>1
        <4>4. r.addr + HDR + r.size = b.addr + HDR + b.size
          BY <2>14
        <4> QED
          BY <2>5, <3>4, <4>2, <4>3, <4>4 DEF End
      <3>5. CASE j > i + 1
        <4>1. j \in i + 1..n /\ j - 1 \in i + 1..n /\ (j - 1) + 1 = j /\ j - 1 \in 1..n - 1
          BY <1>1, <3>5
        <4>2. m[j + 1] = l[j] /\ m[j] = l[j - 1]
          BY <2>5, <4>1
        <4>3. l[j].addr = l[j - 1].addr + HDR + l[j - 1].size /\ ~ (l[j - 1].is_free /\ l[j].is_free)
          BY <1>4, <4>1
        <4> QED
          BY <4>2, <4>3 DEF End
      <3> QED
        BY <1>1, <3>1, <3>2, <3>3, <3>4, <3>5
    <2>9. Chained(m) /\ Spaced(m)
      <3>1. 1..Len(m) - 1 = 1..n
        BY <1>1, <2>4
      <3> QED
        BY <2>8, <3>1, Zenon DEF Chained, Spaced
    <2>10. Aligned(m) /\ End(Last(m)) = HEAP_START + HEAP_SIZE
      <3>1. ASSUME NEW j \in 1..n + 1 PROVE m[j].size % 4 = 0
        <4>1. CASE j \in 1..i - 1
          BY <1>1, <1>4, <2>5, <4>1
        <4>2. CASE j = i
          BY <2>1, <2>5, <4>2
        <4>3. CASE j = i + 1
          BY <2>1, <2>5, <2>6, <4>3
        <4>4. CASE j > i + 1
          <5>1. j - 1 \in i + 1..n /\ (j - 1) + 1 = j /\ j - 1 \in 1..n
            BY <1>1, <4>4
          <5>2. m[j] = l[j - 1]
            BY <2>5, <5>1
          <5> QED
            BY <1>4, <5>1, <5>2
        <4> QED
          BY <1>1, <4>1, <4>2, <4>3, <4>4
      <3>2. CASE i = n
        <4>1. r.addr + HDR + r.size = b.addr + HDR + b.size
          BY <2>14
        <4> QED
          BY <1>4, <2>4, <2>5, <3>1, <3>2, <4>1 DEF End, Last, Aligned
      <3>3. CASE i # n
        <4>1. n \in i + 1..n
          BY <1>1, <3>3
        <4>2. m[n + 1] = l[n]
          BY <2>5, <4>1
        <4> QED
          BY <1>4, <2>4, <3>1, <4>2 DEF End, Last, Aligned
      <3> QED
        BY <3>2, <3>3
    <2>11. Used(m) = Used(l) \cup {c}
      <3>1. ASSUME NEW j \in 1..n + 1, ~m[j].is_free PROVE m[j] \in Used(l) \cup {c}
        <4>1. CASE j \in 1..i - 1
          BY <1>1, <2>5, <3>1, <4>1 DEF Used
        <4>2. CASE j = i
          BY <2>5, <4>2
        <4>3. CASE j > i + 1
          <5>1. j - 1 \in i + 1..n /\ (j - 1) + 1 = j /\ j - 1 \in 1..n
            BY <1>1, <4>3
          <5>2. m[j] = l[j - 1]
            BY <2>5, <5>1
          <5> QED
            BY <3>1, <5>1, <5>2 DEF Used
        <4> QED
          BY <1>1, <2>1, <2>5, <3>1, <4>1, <4>2, <4>3
      <3>2. ASSUME NEW j \in 1..n, ~l[j].is_free PROVE l[j] \in Used(m)
        <4>1. CASE j \in 1..i - 1
          <5>1. j \in 1..n + 1 /\ m[j] = l[j]
            BY <1>1, <2>5, <4>1
          <5> QED
            BY <2>4, <3>2, <5>1 DEF Used
        <4>2. CASE j \in i + 1..n
          <5>1. j + 1 \in 1..n + 1 /\ m[j + 1] = l[j]
            BY <1>1, <2>5, <4>2
          <5> QED
            BY <2>4, <3>2, <5>1 DEF Used
        <4> QED
          BY <1>1, <3>2, <4>1, <4>2
      <3>3. c \in Used(m)
        <4>1. i \in 1..n + 1
          BY <1>1
        <4> QED
          BY <2>1, <2>4, <2>5, <4>1 DEF Used
      <3>4. \A x : x \in Used(m) <=> \E j \in 1..n + 1 : ~m[j].is_free /\ x = m[j]
        BY <2>4 DEF Used
      <3>5. \A x : x \in Used(l) <=> \E j \in 1..n : ~l[j].is_free /\ x = l[j]
        BY DEF Used
      <3> QED
        BY <3>1, <3>2, <3>3, <3>4, <3>5
    <2>12. Arena(m)
      BY <2>4, <2>7, <2>9, <2>10 DEF Arena
    <2>13. c.size \in size..size + HDR + 4 /\ c.size <= b.size
      BY <1>2, <1>3, <2>1
    <2> QED
      BY <2>1, <2>11, <2>12, <2>13
  <1>6. CASE ~ (b.size > size + HDR + 4)
    <2> DEFINE c == [b EXCEPT !.is_free = FALSE]
    <2>1. c \in Block /\ c.addr = b.addr /\ c.size = b.size /\ ~c.is_free
      BY <1>1, TakenBlock, Zenon
    <2>2. m = [l EXCEPT ![i] = c]
      BY <1>1, <1>6, LenProperties DEF Taken
    <2>3. m \in Seq(Block) /\ Len(m) = n /\ \A j \in 1..n : m[j] = IF j = i THEN c ELSE l[j]
      BY <1>1, <2>1, <2>2, ExceptSeq
    <2> HIDE DEF c
    <2>4. m # <<>> /\ m[1].addr = HEAP_START
      BY <1>1, <1>2, <1>4, <2>1, <2>3, EmptySeq
    <2>5. ASSUME NEW j \in 1..n
          PROVE  /\ m[j].addr = l[j].addr /\ m[j].size = l[j].size
                 /\ m[j].is_free => l[j].is_free
      BY <2>1, <2>3
    <2>6. Chained(m) /\ Spaced(m) /\ Aligned(m) /\ End(Last(m)) = HEAP_START + HEAP_SIZE
      <3>1. \A j \in 1..n - 1 : j \in 1..n /\ j + 1 \in 1..n
        BY <1>1
      <3>2. n \in 1..n
        BY <1>1
      <3>3. Chained(m)
        BY <1>4, <2>3, <2>5, <3>1 DEF Chained, End
      <3>4. Spaced(m)
        BY <1>4, <2>3, <2>5, <3>1 DEF Spaced
      <3>5. Aligned(m)
        BY <1>4, <2>3, <2>5 DEF Aligned
      <3>6. End(Last(m)) = HEAP_START + HEAP_SIZE
        BY <1>4, <2>3, <2>5, <3>2 DEF End, Last
      <3> QED
        BY <3>3, <3>4, <3>5, <3>6
    <2>7. Used(m) = Used(l) \cup {c}
      BY <1>1, <2>1, <2>3 DEF Used
    <2>8. Arena(m)
      BY <2>3, <2>4, <2>6 DEF Arena
    <2>9. c.size \in size..size + HDR + 4 /\ c.size <= b.size
      BY <1>2, <1>3, <1>6, <2>1
    <2> QED
      BY <2>1, <2>7, <2>8, <2>9
  <1> QED
    BY <1>5, <1>6
-----------------------------------------------------------------------------
(* The invariant.                                                          *)

IInv ==
    /\ booted \in BOOLEAN /\ ret \in Nat
    /\ list = <<>> \/ Arena(list)
    /\ ~booted => list = <<>>

(* kmalloc rounds to words: the last values of size_t, which wrap round to *)
(* 0, are not asked for.                                                   *)
LEMMA RoundedUp ==
    ASSUME NEW n \in Requests
    PROVE  /\ n \in Nat /\ Rounded(n) \in Nat /\ Rounded(n) % 4 = 0
           /\ Rounded(n) = 4 * ((n + 3) \div 4)
PROOF
  <1> DEFINE r == IF n % 4 # 0 THEN n + (4 - (n % 4)) ELSE n
  <1>1. n \in 0..WORD - 4 /\ WORD \in Nat /\ WORD % 4 = 0
    BY Constants
  <1>2. r \in Nat /\ r % 4 = 0 /\ r = 4 * ((n + 3) \div 4) /\ r < WORD
    BY <1>1
  <1>3. r % WORD = r
    <2> HIDE DEF r
    <2> QED
      BY <1>1, <1>2
  <1> QED
    BY <1>1, <1>2, <1>3 DEF Rounded
LEMMA InitHolds == Init => IInv
PROOF
  <1> SUFFICES ASSUME Init PROVE IInv
    OBVIOUS
  <1>1. ret \in Nat
    BY DEF Init
  <1>2. booted \in BOOLEAN /\ list = <<>>
    BY Zenon DEF Init
  <1> QED
    BY <1>1, <1>2 DEF IInv

LEMMA InitHeapKeeps ==
    ASSUME IInv, init_heap
    PROVE  IInv'
PROOF
  <1> DEFINE b == [addr |-> HEAP_START, size |-> HEAP_SIZE - HDR, is_free |-> TRUE]
  <1>1. booted' = TRUE /\ ret' = ret /\ list' \in {<<b>>, <<>>}
    BY DEF init_heap
  <1>2. /\ HEAP_SIZE - HDR \in Nat /\ (HEAP_SIZE - HDR) % 4 = 0
        /\ HEAP_START + HDR + (HEAP_SIZE - HDR) = HEAP_START + HEAP_SIZE
    BY Constants
  <1>3. b \in Block /\ b.addr = HEAP_START /\ b.size = HEAP_SIZE - HDR
    BY <1>2, Constants DEF Block
  <1> HIDE DEF b
  <1>4. <<b>> \in Seq(Block) /\ <<b>> # <<>> /\ Len(<<b>>) = 1 /\ <<b>>[1] = b
    BY <1>3
  <1>5. Arena(<<b>>)
    BY <1>2, <1>3, <1>4 DEF Arena, Chained, Spaced, Aligned, End, Last
  <1> QED
    BY <1>1, <1>5 DEF IInv

(* What kmalloc returns, if anything, is the data of a block it took. *)
LEMMA KmallocKeeps ==
    ASSUME IInv, NEW n \in Requests, kmalloc(n)
    PROVE  /\ IInv'
           /\ \/ /\ ret' = 0 /\ UNCHANGED <<list, booted>>
                 /\ \A i \in 1..Len(list) : list[i].is_free => list[i].size < Rounded(n)
              \/ /\ Arena(list) /\ Arena(list')
                 /\ \E i \in 1..Len(list), c \in Block :
                       /\ list[i].is_free
                       /\ c.addr = list[i].addr /\ ~c.is_free
                       /\ c.size \in Rounded(n)..Rounded(n) + HDR + 4
                       /\ c.size <= list[i].size
                       /\ ret' = c.addr + HDR
                       /\ Used(list') = Used(list) \cup {c}
PROOF
  <1> DEFINE size == Rounded(n)
             Fits == {i \in DOMAIN list : list[i].is_free /\ list[i].size >= size}
  <1>1. size \in Nat /\ size % 4 = 0
    BY RoundedUp
  <1> HIDE DEF size
  <1>2. list \in Seq(Block) /\ DOMAIN list = 1..Len(list)
    BY EmptySeq, LenProperties DEF IInv, Arena
  <1>3. \A i \in 1..Len(list) : list[i] \in Block /\ list[i].size \in Nat /\ list[i].addr \in Nat
    <2>1. \A i \in 1..Len(list) : list[i] \in Block
      BY <1>2, ElementOfSeq
    <2> QED
      BY <2>1 DEF Block
  <1>4. booted /\ booted' = booted
    BY DEF kmalloc
  <1>5. CASE Fits = {} /\ ret' = 0 /\ UNCHANGED list
    <2>1. IInv'
      BY <1>4, <1>5 DEF IInv
    <2>2. \A i \in 1..Len(list) : list[i].is_free => list[i].size < size
      BY <1>1, <1>2, <1>3, <1>5
    <2> QED
      BY <1>4, <1>5, <2>1, <2>2 DEF size
  <1>6. CASE \E i \in Fits : list' = Taken(list, i, size) /\ ret' = list[i].addr + HDR
    <2>1. PICK i \in Fits : list' = Taken(list, i, size) /\ ret' = list[i].addr + HDR
      BY <1>6
    <2>2. i \in 1..Len(list) /\ list[i].is_free /\ list[i].size >= size
      BY <1>2
    <2>3. Arena(list)
      <3>1. list # <<>>
        BY <2>2, EmptySeq
      <3> QED
        BY <3>1 DEF IInv
    <2>4. /\ Arena(list')
          /\ \E c \in Block :
                /\ c.addr = list[i].addr /\ ~c.is_free
                /\ c.size \in size..size + HDR + 4 /\ c.size <= list[i].size
                /\ Used(list') = Used(list) \cup {c}
      BY <1>1, <2>1, <2>2, <2>3, TakenKeeps
    <2>5. ret' \in Nat
      BY <1>3, <2>1, <2>2, Constants
    <2>6. IInv'
      BY <1>4, <2>4, <2>5 DEF IInv
    <2> QED
      BY <2>1, <2>2, <2>3, <2>4, <2>6 DEF size
  <1> QED
    BY <1>5, <1>6 DEF kmalloc, size

LEMMA KfreeKeeps ==
    ASSUME IInv, NEW ptr, kfree(ptr)
    PROVE  /\ IInv'
           /\ Arena(list) /\ Arena(list') /\ UNCHANGED <<booted, ret>>
           /\ \E i \in 1..Len(list) :
                 /\ list[i].addr = ptr - HDR /\ ~list[i].is_free
                 /\ Used(list') = {list[j] : j \in {k \in 1..Len(list) : ~list[k].is_free /\ k # i}}
PROOF
  <1>1. list \in Seq(Block) /\ DOMAIN list = 1..Len(list)
    BY EmptySeq, LenProperties DEF IInv, Arena
  <1>2. PICK i \in 1..Len(list) :
            /\ list[i].addr = ptr - HDR /\ ~list[i].is_free
            /\ list' = heap_coalesce([list EXCEPT ![i].is_free = TRUE])
    BY <1>1 DEF kfree
  <1>3. Arena(list)
    <2>1. list # <<>>
      BY <1>1, <1>2, EmptySeq
    <2> QED
      BY <2>1 DEF IInv
  <1> DEFINE n == Len(list)
             b == list[i]
             c == [b EXCEPT !.is_free = TRUE]
             m == [list EXCEPT ![i] = c]
  <1>4. n \in Nat \ {0} /\ \A j \in 1..n : list[j] \in Block
    BY <1>1, <1>3, EmptySeq, ElementOfSeq DEF Arena
  <1>5. c \in Block /\ c.addr = b.addr /\ c.size = b.size /\ c.is_free
    <2> HIDE DEF b
    <2>1. b \in Block
      BY <1>4 DEF b
    <2> QED
      BY <2>1 DEF Block
  <1>6. [list EXCEPT ![i].is_free = TRUE] = m
    BY <1>1
  <1> HIDE DEF c
  <1>7. m \in Seq(Block) /\ Len(m) = n /\ \A j \in 1..n : m[j] = IF j = i THEN c ELSE list[j]
    BY <1>1, <1>5, ExceptSeq
  <1> HIDE DEF m
  <1>8. \A j \in 1..n : m[j].addr = list[j].addr /\ m[j].size = list[j].size
    BY <1>5, <1>7
  <1>9. m # <<>> /\ m[1].addr = HEAP_START /\ Chained(m) /\ Aligned(m)
        /\ End(Last(m)) = HEAP_START + HEAP_SIZE
    <2>1. 1 \in 1..n /\ n \in 1..n /\ \A j \in 1..n - 1 : j \in 1..n /\ j + 1 \in 1..n
      BY <1>4
    <2>2. m # <<>>
      BY <1>4, <1>7, EmptySeq
    <2>3. m[1].addr = HEAP_START /\ Aligned(m)
      BY <1>3, <1>7, <1>8, <2>1 DEF Arena, Aligned
    <2>4. Chained(m) /\ End(Last(m)) = HEAP_START + HEAP_SIZE
      BY <1>3, <1>7, <1>8, <2>1 DEF Arena, Chained, End, Last
    <2> QED
      BY <2>2, <2>3, <2>4
  <1>10. Used(m) = {list[j] : j \in {k \in 1..n : ~list[k].is_free /\ k # i}}
    BY <1>5, <1>7 DEF Used
  <1>11. /\ list' \in Seq(Block) /\ list' # <<>> /\ list'[1].addr = m[1].addr
         /\ Chained(list') /\ Spaced(list') /\ Aligned(list')
         /\ End(Last(list')) = End(Last(m))
         /\ Used(list') = Used(m)
    BY <1>2, <1>6, <1>7, <1>9, CoalesceKeeps
  <1>12. Arena(list')
    BY <1>9, <1>11 DEF Arena
  <1>13. UNCHANGED <<booted, ret>>
    BY DEF kfree
  <1>14. booted
    BY <1>3 DEF IInv, Arena
  <1>15. IInv'
    BY <1>12, <1>13, <1>14 DEF IInv
  <1> QED
    BY <1>2, <1>3, <1>10, <1>11, <1>12, <1>13, <1>15

LEMMA StepKeeps ==
    ASSUME IInv, [Next]_vars
    PROVE  IInv'
PROOF
  <1>1. CASE UNCHANGED vars
    BY <1>1 DEF vars, IInv
  <1> QED
    BY <1>1, InitHeapKeeps, KmallocKeeps, KfreeKeeps DEF Next

LEMMA Always == Spec => []IInv
PROOF
    BY InitHolds, StepKeeps, PTL DEF Spec

(* The blocks tile the arena after any history of kmalloc and kfree: no    *)
(* byte is lost, and heap_coalesce merges neighbours in memory only.       *)
THEOREM AlwaysTiled == Spec => []Tiled
PROOF
  <1>1. IInv => Tiled
    BY EmptySeq DEF IInv, Arena, Chained, Tiled, TypeOK
  <1> QED
    BY <1>1, Always, PTL

(* kfree leaves no free block beside another, whatever was freed before    *)
(* (heap.c:69-79), so no request fails for want of one more merge.         *)
THEOREM FreeNeverAdjacent == Spec => []NoAdjacentFree
PROOF
  <1>1. IInv => NoAdjacentFree
    BY EmptySeq DEF IInv, Arena, Spaced, NoAdjacentFree
  <1> QED
    BY <1>1, Always, PTL-----------------------------------------------------------------------------
(* The allocator.  The blocks of a list that tiles the arena lie in the    *)
(* order of their addresses, each at a multiple of a word and inside.      *)

LEMMA InOrder ==
    ASSUME NEW l, Arena(l)
    PROVE  \A j \in 1..Len(l) :
              /\ l[j].addr % 4 = 0 /\ HEAP_START <= l[j].addr
              /\ \A i \in 1..j - 1 : End(l[i]) <= l[j].addr
PROOF
  <1> DEFINE n == Len(l)
             Holds(j) == /\ l[j].addr % 4 = 0 /\ HEAP_START <= l[j].addr
                         /\ \A i \in 1..j - 1 : End(l[i]) <= l[j].addr
             Good == {k \in 0..n - 1 : Holds(k + 1)}
  <1>1. /\ l \in Seq(Block) /\ n \in Nat \ {0}
        /\ \A k \in 1..n : l[k] \in Block
    BY EmptySeq, ElementOfSeq DEF Arena
  <1>2. \A k \in 1..n : l[k].addr \in Nat /\ l[k].size \in Nat
    BY <1>1 DEF Block
  <1> HIDE DEF n
  <1>3. 0 \in Good
    <2>1. l[1].addr = HEAP_START
      BY DEF Arena
    <2>2. Holds(1)
      BY <2>1, Constants
    <2> QED
      BY <1>1, <2>2
  <1>4. \A k \in 0..(n - 1) - 1 : k \in Good => k + 1 \in Good
    <2> SUFFICES ASSUME NEW k \in 0..(n - 1) - 1, Holds(k + 1)
                 PROVE  k + 1 \in 0..n - 1 /\ Holds((k + 1) + 1)
      OBVIOUS
    <2> DEFINE j == k + 1
    <2>1. j \in 1..n - 1 /\ j \in 1..n /\ j + 1 \in 1..n /\ j \in 0..n - 1
      BY <1>1
    <2>2. /\ l[j].addr % 4 = 0 /\ HEAP_START <= l[j].addr
          /\ \A i \in 1..j - 1 : End(l[i]) <= l[j].addr
      OBVIOUS
    <2> HIDE DEF j
    <2>3. l[j + 1].addr = End(l[j]) /\ l[j].size % 4 = 0
      BY <2>1 DEF Arena, Chained, Aligned, n
    <2>4. /\ l[j].addr \in Nat /\ l[j].size \in Nat /\ HDR \in Nat /\ HDR % 4 = 0
          /\ HEAP_START \in Nat
      BY <1>2, <2>1, Constants
    <2>5. (l[j].addr + HDR + l[j].size) % 4 = 0
      BY <2>2, <2>3, <2>4, Mod4, Zenon
    <2>6. End(l[j]) % 4 = 0 /\ HEAP_START <= End(l[j]) /\ l[j].addr <= End(l[j])
      BY <2>2, <2>4, <2>5 DEF End
    <2>7. ASSUME NEW i \in 1..(j + 1) - 1 PROVE End(l[i]) <= End(l[j])
      <3>1. CASE i = j
        BY <2>4, <3>1 DEF End
      <3>2. CASE i # j
        <4>1. i \in 1..j - 1 /\ i \in 1..n
          BY <1>1, <2>1, <3>2
        <4>2. End(l[i]) \in Nat
          BY <1>2, <2>4, <4>1 DEF End
        <4> QED
          BY <2>2, <2>4, <2>6, <4>1, <4>2 DEF End
      <3> QED
        BY <3>1, <3>2
    <2>8. Holds(j + 1)
      BY <2>3, <2>6, <2>7
    <2> QED
      BY <2>1, <2>8 DEF j
  <1>5. 0..n - 1 \subseteq Good
    <2>1. n - 1 \in Nat
      BY <1>1
    <2> HIDE DEF Good
    <2> QED
      BY <1>3, <1>4, <2>1, UpTo, Zenon
  <1>6. ASSUME NEW j \in 1..n PROVE Holds(j)
    <2> HIDE DEF Holds
    <2>1. j - 1 \in Good /\ (j - 1) + 1 = j
      BY <1>1, <1>5
    <2> QED
      BY <2>1
  <1> QED
    BY <1>6 DEF n

(* All that the mapping needs of the list. *)
LEMMA ArenaFacts ==
    ASSUME NEW l, Arena(l), NEW n, n = Len(l)
    PROVE  /\ n \in Nat \ {0} /\ DOMAIN l = 1..n
           /\ \A i \in 1..n :
                 /\ l[i] \in Block /\ l[i].addr \in Nat /\ l[i].size \in Nat
                 /\ l[i].addr % 4 = 0 /\ HEAP_START <= l[i].addr
                 /\ End(l[i]) \in Nat /\ End(l[i]) = l[i].addr + HDR + l[i].size
                 /\ End(l[i]) <= HEAP_START + HEAP_SIZE
           /\ \A i, j \in 1..n : i < j => End(l[i]) <= l[j].addr
           /\ \A i, j \in 1..n : l[i].addr = l[j].addr => i = j
           /\ \A i \in 1..n - 1 : l[i + 1].addr = End(l[i])
           /\ \A i \in 1..n - 1 : ~ (l[i].is_free /\ l[i + 1].is_free)
           /\ l[1].addr = HEAP_START /\ End(l[n]) = HEAP_START + HEAP_SIZE
PROOF
  <1>1. /\ l \in Seq(Block) /\ n \in Nat \ {0} /\ DOMAIN l = 1..n
        /\ \A k \in 1..n : l[k] \in Block
    BY EmptySeq, ElementOfSeq, LenProperties DEF Arena
  <1>2. \A k \in 1..n : l[k].addr \in Nat /\ l[k].size \in Nat
    BY <1>1 DEF Block
  <1>3. \A k \in 1..n : End(l[k]) \in Nat /\ End(l[k]) = l[k].addr + HDR + l[k].size
    BY <1>2, Constants DEF End
  <1>4. \A i, j \in 1..n : i < j => End(l[i]) <= l[j].addr
    <2> SUFFICES ASSUME NEW i \in 1..n, NEW j \in 1..n, i < j
                 PROVE  End(l[i]) <= l[j].addr
      OBVIOUS
    <2>1. i \in 1..j - 1
      BY <1>1
    <2> QED
      BY <2>1, InOrder
  <1>5. /\ l[1].addr = HEAP_START /\ End(l[n]) = HEAP_START + HEAP_SIZE
        /\ \A i \in 1..n - 1 : l[i + 1].addr = End(l[i])
        /\ \A i \in 1..n - 1 : ~ (l[i].is_free /\ l[i + 1].is_free)
    BY DEF Arena, Chained, Spaced, Last
  <1>6. \A i \in 1..n : End(l[i]) <= HEAP_START + HEAP_SIZE
    <2> SUFFICES ASSUME NEW i \in 1..n, i # n PROVE End(l[i]) <= HEAP_START + HEAP_SIZE
      BY <1>3, <1>5
    <2>1. n \in 1..n /\ i < n
      BY <1>1
    <2>2. End(l[i]) <= l[n].addr
      BY <1>4, <2>1
    <2> QED
      <3>1. /\ l[n].addr \in Nat /\ l[n].size \in Nat /\ HDR \in Nat /\ End(l[i]) \in Nat
            /\ l[n].addr + HDR + l[n].size = HEAP_START + HEAP_SIZE
        BY <1>2, <1>3, <1>5, <2>1, Constants
      <3>2. l[n].addr <= l[n].addr + HDR + l[n].size
        BY <3>1
      <3> QED
        BY <2>2, <3>1, <3>2, Constants
  <1>7. \A i, j \in 1..n : l[i].addr = l[j].addr => i = j
    <2>1. ASSUME NEW i \in 1..n, NEW j \in 1..n, i < j PROVE l[i].addr < l[j].addr
      <3>1. /\ l[i].addr \in Nat /\ l[i].size \in Nat /\ l[j].addr \in Nat /\ HDR \in Nat \ {0}
            /\ l[i].addr + HDR + l[i].size <= l[j].addr
        BY <1>2, <1>3, <1>4, <2>1, Constants
      <3> QED
        BY <3>1
    <2> QED
      BY <1>1, <1>2, <2>1
  <1>8. \A i \in 1..n : l[i].addr % 4 = 0 /\ HEAP_START <= l[i].addr
    BY InOrder
  <1> QED
    BY <1>1, <1>2, <1>3, <1>4, <1>5, <1>6, <1>7, <1>8
(* The regions in use, of any list. *)
UsedAt(l) == {i \in DOMAIN l : ~l[i].is_free}
GrantedOf(l) == [p \in {l[i].addr + HDR : i \in UsedAt(l)} |->
                    l[CHOOSE i \in UsedAt(l) : l[i].addr + HDR = p].size]

LEMMA GrantedIs ==
    /\ Granted = GrantedOf(list)
    /\ Granted' = GrantedOf(list')
PROOF
    BY DEF Granted, GrantedOf, InUse, UsedAt

LEMMA GrantedFacts ==
    ASSUME NEW l, Arena(l)
    PROVE  /\ DOMAIN GrantedOf(l) = {b.addr + HDR : b \in Used(l)}
           /\ \A b \in Used(l) : GrantedOf(l)[b.addr + HDR] = b.size
PROOF
  <1> DEFINE n == Len(l)
  <1>1. /\ DOMAIN l = 1..n
        /\ \A i \in 1..n : l[i].addr \in Nat
        /\ \A i, j \in 1..n : l[i].addr = l[j].addr => i = j
    BY ArenaFacts
  <1> HIDE DEF n
  <1>2. UsedAt(l) = {i \in 1..n : ~l[i].is_free} /\ Used(l) = {l[i] : i \in UsedAt(l)}
    BY <1>1 DEF UsedAt, Used, n
  <1>3. DOMAIN GrantedOf(l) = {b.addr + HDR : b \in Used(l)}
    BY <1>2 DEF GrantedOf
  <1>4. ASSUME NEW b \in Used(l) PROVE GrantedOf(l)[b.addr + HDR] = b.size
    <2>1. PICK i \in UsedAt(l) : b = l[i]
      BY <1>2
    <2>2. \A k \in UsedAt(l) : l[k].addr + HDR = b.addr + HDR => k = i
      <3> SUFFICES ASSUME NEW k \in UsedAt(l), l[k].addr + HDR = b.addr + HDR PROVE k = i
        OBVIOUS
      <3>1. k \in 1..n /\ i \in 1..n /\ l[k].addr \in Nat /\ l[i].addr \in Nat /\ HDR \in Nat
        BY <1>1, <1>2, Constants
      <3>2. l[k].addr = l[i].addr
        BY <2>1, <3>1
      <3> QED
        BY <1>1, <3>1, <3>2
    <2> DEFINE p == b.addr + HDR
    <2>3. p \in {l[k].addr + HDR : k \in UsedAt(l)}
      BY <2>1
    <2>4. (CHOOSE k \in UsedAt(l) : l[k].addr + HDR = p) = i
      BY <2>1, <2>2
    <2> HIDE DEF p
    <2>5. GrantedOf(l)[p] = l[i].size
      BY <2>3, <2>4 DEF GrantedOf
    <2> QED
      BY <2>1, <2>5 DEF p
  <1> QED
    BY <1>3, <1>4

(* A block of a list is clear of all that is granted, but itself. *)
LEMMA BlockIsClear ==
    ASSUME Arena(list), NEW i \in 1..Len(list), list[i].is_free,
           NEW s \in Nat, s <= list[i].size
    PROVE  Alloc!Room(list[i].addr + HDR, s)
PROOF
  <1> DEFINE n == Len(list)
             a == list[i].addr
             p == a + HDR
  <1>1. /\ n \in Nat \ {0} /\ DOMAIN list = 1..n
        /\ \A j \in 1..n :
              /\ list[j].addr \in Nat /\ list[j].size \in Nat
              /\ HEAP_START <= list[j].addr
              /\ End(list[j]) = list[j].addr + HDR + list[j].size
              /\ End(list[j]) <= HEAP_START + HEAP_SIZE
        /\ \A j, k \in 1..n : j < k => End(list[j]) <= list[k].addr
    BY ArenaFacts
  <1> HIDE DEF n
  <1>2. i \in 1..n
    BY DEF n
  <1>3. /\ a \in Nat /\ list[i].size \in Nat /\ HEAP_START <= a
        /\ End(list[i]) = a + HDR + list[i].size /\ a + HDR + list[i].size <= HEAP_START + HEAP_SIZE
    BY <1>1, <1>2
  <1>4. HDR \in Nat /\ HEAP_START \in Nat /\ HEAP_SIZE \in Nat /\ ArenaSize = HEAP_SIZE
    BY Constants DEF Arena, ArenaSize
  <1> HIDE DEF a
  <1>5. p - HDR = a /\ HEAP_START <= p - HDR /\ p + s <= HEAP_START + ArenaSize
        /\ p + s <= End(list[i])
    BY <1>3, <1>4
  <1>6. ASSUME NEW q \in DOMAIN Granted
        PROVE  p + s <= q - HDR \/ q + Granted[q] <= p - HDR
    <2>1. PICK b \in Used(list) : q = b.addr + HDR /\ Granted[q] = b.size
      <3>1. /\ Granted = GrantedOf(list)
            /\ DOMAIN GrantedOf(list) = {b.addr + HDR : b \in Used(list)}
            /\ \A b \in Used(list) : GrantedOf(list)[b.addr + HDR] = b.size
        BY GrantedIs, GrantedFacts
      <3>2. PICK b \in Used(list) : q = b.addr + HDR
        BY <3>1
      <3> QED
        BY <3>1, <3>2
    <2>2. PICK j \in 1..n : b = list[j] /\ ~list[j].is_free
      BY <2>1 DEF Used, n
    <2>3. j # i /\ q - HDR = list[j].addr /\ q + Granted[q] = End(list[j])
      <3>1. list[j].addr \in Nat /\ list[j].size \in Nat
            /\ End(list[j]) = list[j].addr + HDR + list[j].size
        BY <1>1
      <3>2. (list[j].addr + HDR) - HDR = list[j].addr
        BY <1>4, <3>1
      <3>3. list[j].addr + HDR + list[j].size = End(list[j])
        BY <3>1
      <3>4. b.addr = list[j].addr /\ b.size = list[j].size
        BY <2>2
      <3>5. q = list[j].addr + HDR /\ Granted[q] = list[j].size
        BY <2>1, <3>4
      <3>6. q - HDR = list[j].addr
        <4>1. q - HDR = (list[j].addr + HDR) - HDR
          BY <3>5, Zenon
        <4> QED
          BY <3>2, <4>1
      <3>7. q + Granted[q] = (list[j].addr + HDR) + list[j].size
        BY <3>5, Zenon
      <3>8. q + Granted[q] = End(list[j])
        BY <3>3, <3>7
      <3> QED
        BY <2>2, <3>6, <3>8
    <2>4. CASE j < i
      <3>1. End(list[j]) <= a
        BY <1>1, <1>2, <2>4 DEF a
      <3> QED
        BY <1>5, <2>3, <3>1
    <2>5. CASE i < j
      <3>1. End(list[i]) <= list[j].addr
        BY <1>1, <1>2, <2>5
      <3>2. list[j].addr \in Nat /\ p + s \in Nat /\ End(list[i]) \in Nat
        BY <1>1, <1>3, <1>4
      <3> QED
        BY <1>5, <2>3, <3>1, <3>2
    <2> QED
      BY <1>1, <1>2, <2>3, <2>4, <2>5
  <1>7. \A q \in DOMAIN Granted : p + s <= q - HDR \/ q + Granted[q] <= p - HDR
    BY <1>6
  <1> HIDE DEF p
  <1>8. Alloc!Room(p, s)
    BY <1>5, <1>7 DEF Alloc!Room
  <1> QED
    BY <1>8 DEF p, a
(* No place for a region is left where kmalloc has found no block: since   *)
(* no two free blocks are neighbours, a place clear of all that is granted *)
(* lies in one free block.                                                 *)
LEMMA NoRoomLeft ==
    ASSUME list = <<>> \/ Arena(list), NEW size \in Nat,
           \A i \in 1..Len(list) : list[i].is_free => list[i].size < size,
           NEW p \in Alloc!Places
    PROVE  ~ Alloc!Room(p, size)
PROOF
  <1> SUFFICES ASSUME Alloc!Room(p, size) PROVE FALSE
    OBVIOUS
  <1> DEFINE n == Len(list)
             x == p - HDR
  <1>1. /\ HDR \in Nat \ {0} /\ HEAP_START \in Nat /\ HEAP_SIZE \in Nat /\ p \in Nat
        /\ HEAP_START + HDR <= p
    BY Constants DEF Alloc!Places
  <1>2. /\ x \in Nat /\ p = x + HDR /\ HEAP_START <= x /\ p + size <= HEAP_START + ArenaSize
        /\ \A q \in DOMAIN Granted : p + size <= q - HDR \/ q + Granted[q] <= x
    BY <1>1 DEF Alloc!Room
  <1> HIDE DEF x
  <1>3. Arena(list) /\ ArenaSize = HEAP_SIZE
    <2>1. list # <<>>
      BY <1>1, <1>2 DEF ArenaSize
    <2> QED
      BY <2>1 DEF ArenaSize
  <1>4. /\ n \in Nat \ {0}
        /\ \A j \in 1..n :
              /\ list[j].addr \in Nat /\ list[j].size \in Nat /\ End(list[j]) \in Nat
              /\ End(list[j]) = list[j].addr + HDR + list[j].size
        /\ \A j \in 1..n - 1 : list[j + 1].addr = End(list[j])
        /\ \A j \in 1..n - 1 : ~ (list[j].is_free /\ list[j + 1].is_free)
        /\ list[1].addr = HEAP_START /\ End(list[n]) = HEAP_START + HEAP_SIZE
    BY <1>3, ArenaFacts
  <1>5. ASSUME NEW j \in 1..n, ~list[j].is_free
        PROVE  p + size <= list[j].addr \/ End(list[j]) <= x
    <2>1. list[j] \in Used(list)
      BY <1>5 DEF Used
    <2>2. /\ Granted = GrantedOf(list)
          /\ DOMAIN GrantedOf(list) = {b.addr + HDR : b \in Used(list)}
          /\ \A b \in Used(list) : GrantedOf(list)[b.addr + HDR] = b.size
      BY <1>3, GrantedIs, GrantedFacts
    <2> DEFINE q == list[j].addr + HDR
    <2>3. q \in DOMAIN Granted /\ Granted[q] = list[j].size
      BY <2>1, <2>2
    <2>4. q - HDR = list[j].addr /\ q + list[j].size = End(list[j])
      BY <1>1, <1>4
    <2> HIDE DEF q
    <2>5. p + size <= q - HDR \/ q + Granted[q] <= x
      BY <1>2, <2>3
    <2> QED
      BY <2>3, <2>4, <2>5
  <1> HIDE DEF n
  <1>6. PICK i \in 1..n : list[i].addr <= x /\ x < End(list[i])
    <2>1. SUFFICES ASSUME \A i \in 1..n : list[i].addr <= x => End(list[i]) <= x
                   PROVE  FALSE
      BY <1>2, <1>4
    <2> DEFINE Good == {k \in 0..n - 1 : list[k + 1].addr <= x}
    <2>2. 0 \in Good
      BY <1>2, <1>4
    <2>3. \A k \in 0..(n - 1) - 1 : k \in Good => k + 1 \in Good
      <3> SUFFICES ASSUME NEW k \in 0..(n - 1) - 1, list[k + 1].addr <= x
                   PROVE  k + 1 \in 0..n - 1 /\ list[(k + 1) + 1].addr <= x
        OBVIOUS
      <3>1. k + 1 \in 1..n /\ k + 1 \in 1..n - 1 /\ k + 1 \in 0..n - 1
        BY <1>4
      <3>2. End(list[k + 1]) <= x
        BY <2>1, <3>1
      <3> QED
        BY <1>4, <3>1, <3>2
    <2>4. 0..n - 1 \subseteq Good
      <3>1. n - 1 \in Nat
        BY <1>4
      <3> HIDE DEF Good
      <3> QED
        BY <2>2, <2>3, <3>1, UpTo, Zenon
    <2>5. list[n].addr <= x
      <3>1. n - 1 \in 0..n - 1 /\ (n - 1) + 1 = n
        BY <1>4
      <3>2. n - 1 \in Good
        BY <2>4, <3>1, Zenon
      <3> QED
        BY <3>1, <3>2
    <2>6. End(list[n]) <= x
      BY <1>4, <2>1, <2>5
    <2> QED
      BY <1>1, <1>2, <1>3, <1>4, <2>6
  <1>7. p + size > x
    BY <1>1, <1>2
  <1>8. list[i].is_free
    <2> SUFFICES ASSUME ~ list[i].is_free PROVE FALSE
      OBVIOUS
    <2>1. p + size <= list[i].addr \/ End(list[i]) <= x
      BY <1>5
    <2>2. list[i].addr \in Nat /\ End(list[i]) \in Nat
      BY <1>4
    <2> QED
      BY <1>1, <1>2, <1>6, <1>7, <2>1, <2>2
  <1>9. list[i].size < size
    BY <1>8 DEF n
  <1>10. p + size > End(list[i])
    <2>1. list[i].addr \in Nat /\ list[i].size \in Nat /\ End(list[i]) = list[i].addr + HDR + list[i].size
      BY <1>4
    <2> QED
      BY <1>1, <1>2, <1>6, <1>9, <2>1
  <1>11. i \in 1..n - 1
    BY <1>2, <1>3, <1>4, <1>6, <1>10, <1>1
  <1>12. i + 1 \in 1..n /\ list[i + 1].addr = End(list[i]) /\ ~ list[i + 1].is_free
    BY <1>4, <1>8, <1>11
  <1>13. p + size <= End(list[i]) \/ End(list[i + 1]) <= x
    BY <1>5, <1>12
  <1>14. End(list[i + 1]) >= End(list[i])
    <2>1. /\ list[i + 1].size \in Nat /\ End(list[i]) \in Nat
          /\ End(list[i + 1]) = End(list[i]) + HDR + list[i + 1].size
      BY <1>4, <1>12
    <2> QED
      BY <1>1, <2>1
  <1>15. End(list[i]) \in Nat /\ End(list[i + 1]) \in Nat
    BY <1>4, <1>12
  <1> QED
    BY <1>1, <1>2, <1>6, <1>10, <1>13, <1>14, <1>15

(* Each call is a step of the allocator. *)
LEMMA KmallocRefines ==
    ASSUME IInv, NEW n \in Requests, kmalloc(n)
    PROVE  Alloc!Grant(n) \/ Alloc!Refuse(n)
PROOF
  <1>1. Rounded(n) \in Nat /\ Rounded(n) = Alloc!Words(n)
    BY RoundedUp DEF Alloc!Words
  <1>2. CASE /\ ret' = 0 /\ UNCHANGED <<list, booted>>
             /\ \A i \in 1..Len(list) : list[i].is_free => list[i].size < Rounded(n)
    <2>1. Granted' = Granted /\ ArenaSize' = ArenaSize
      BY <1>2 DEF Granted, InUse, ArenaSize
    <2>2. \A p \in Alloc!Places : ~ Alloc!Room(p, Rounded(n))
      BY <1>1, <1>2, NoRoomLeft DEF IInv
    <2> QED
      BY <1>1, <1>2, <2>1, <2>2 DEF Alloc!Refuse
  <1>3. ASSUME Arena(list), Arena(list'),
               NEW i \in 1..Len(list), NEW c \in Block,
               list[i].is_free,
               c.addr = list[i].addr, ~c.is_free,
               c.size \in Rounded(n)..Rounded(n) + HDR + 4,
               c.size <= list[i].size,
               ret' = c.addr + HDR,
               Used(list') = Used(list) \cup {c}
        PROVE  Alloc!Grant(n)
    <2> DEFINE p == c.addr + HDR
               s == c.size
    <2>1. c.addr \in Nat /\ s \in Nat
      BY DEF Block
    <2>2. Alloc!Room(p, s)
      BY <1>3, <2>1, BlockIsClear
    <2>3. p \in Alloc!Places
      <3>1. /\ c.addr % 4 = 0 /\ HEAP_START <= c.addr /\ list[i].addr \in Nat /\ list[i].size \in Nat
            /\ list[i].addr + HDR + list[i].size <= HEAP_START + HEAP_SIZE
        BY <1>3, ArenaFacts
      <3>2. (c.addr + HDR) % 4 = 0
        <4>1. HDR \in Nat /\ HDR % 4 = 0
          BY Constants
        <4>2. ASSUME NEW x \in Nat, NEW y \in Nat, x % 4 = 0, y % 4 = 0
              PROVE  (x + y) % 4 = 0
          BY <4>2
        <4> QED
          BY <2>1, <3>1, <4>1, <4>2, Zenon
      <3>3. c.addr + HDR \in HEAP_START + HDR..HEAP_START + HEAP_SIZE
        <4>1. c.addr + HDR + list[i].size <= HEAP_START + HEAP_SIZE
          BY <1>3, <3>1
        <4>2. HDR \in Nat /\ HEAP_START \in Nat /\ HEAP_SIZE \in Nat
          BY Constants
        <4>3. ASSUME NEW h \in Nat, NEW from \in Nat, NEW len \in Nat, NEW x \in Nat, NEW y \in Nat,
                     from <= x, x + h + y <= from + len
              PROVE  x + h \in from + h..from + len
          BY <4>3
        <4> QED
          BY <2>1, <3>1, <4>1, <4>2, <4>3, Zenon
      <3> QED
        BY <3>2, <3>3 DEF Alloc!Places
    <2>4. s \in Alloc!Words(n)..Alloc!Words(n) + (HDR + 4)
      BY <1>1, <1>3, <2>1, Constants
    <2>5. ArenaSize' = ArenaSize
      BY <1>3 DEF Arena, ArenaSize
    <2>6. Granted' = [q \in DOMAIN Granted \cup {p} |-> IF q = p THEN s ELSE Granted[q]]
      <3> DEFINE g == GrantedOf(list)
                 h == GrantedOf(list')
      <3>1. /\ DOMAIN g = {b.addr + HDR : b \in Used(list)}
            /\ \A b \in Used(list) : g[b.addr + HDR] = b.size
            /\ DOMAIN h = {b.addr + HDR : b \in Used(list')}
            /\ \A b \in Used(list') : h[b.addr + HDR] = b.size
        BY <1>3, GrantedFacts
      <3>2. h = [q \in DOMAIN h |-> h[q]]
        BY DEF GrantedOf
      <3> HIDE DEF g, h
      <3>3. DOMAIN h = DOMAIN g \cup {p}
        BY <1>3, <3>1
      <3>4. h[p] = s
        BY <1>3, <3>1
      <3>5. \A q \in DOMAIN g : h[q] = g[q]
        BY <1>3, <3>1
      <3> HIDE DEF p, s
      <3>6. h = [q \in DOMAIN g \cup {p} |-> IF q = p THEN s ELSE g[q]]
        BY <3>2, <3>3, <3>4, <3>5
      <3> QED
        BY <3>6, GrantedIs DEF g, h
    <2> HIDE DEF p, s
    <2>7. ret' = p
      BY <1>3 DEF p
    <2> QED
      BY <2>2, <2>3, <2>4, <2>5, <2>6, <2>7 DEF Alloc!Grant
  <1> QED
    BY <1>2, <1>3, KmallocKeeps
LEMMA KfreeRefines ==
    ASSUME IInv, NEW ptr, kfree(ptr)
    PROVE  \E p \in DOMAIN Granted : Alloc!Release(p)
PROOF
  <1>1. /\ Arena(list) /\ Arena(list') /\ ret' = ret
    BY KfreeKeeps
  <1>2. PICK i \in 1..Len(list) :
            /\ ~list[i].is_free
            /\ Used(list') = {list[j] : j \in {k \in 1..Len(list) : ~list[k].is_free /\ k # i}}
    BY KfreeKeeps
  <1> DEFINE n == Len(list)
             p == list[i].addr + HDR
             g == GrantedOf(list)
             h == GrantedOf(list')
  <1>3. /\ DOMAIN g = {b.addr + HDR : b \in Used(list)}
        /\ \A b \in Used(list) : g[b.addr + HDR] = b.size
        /\ DOMAIN h = {b.addr + HDR : b \in Used(list')}
        /\ \A b \in Used(list') : h[b.addr + HDR] = b.size
    BY <1>1, GrantedFacts
  <1>4. h = [q \in DOMAIN h |-> h[q]]
    BY DEF GrantedOf
  <1> HIDE DEF g, h
  <1>5. /\ \A j \in 1..n : list[j].addr \in Nat
        /\ \A j, k \in 1..n : list[j].addr = list[k].addr => j = k
    BY <1>1, ArenaFacts
  <1>6. Used(list) = Used(list') \cup {list[i]} /\ Used(list') \subseteq Used(list)
    BY <1>2 DEF Used
  <1>7. \A b \in Used(list') : b.addr + HDR # p
    <2> SUFFICES ASSUME NEW j \in 1..n, j # i, list[j].addr + HDR = list[i].addr + HDR
                 PROVE  FALSE
      BY <1>2
    <2>1. list[j].addr = list[i].addr
      BY <1>5, Constants
    <2> QED
      BY <1>5, <2>1
  <1> HIDE DEF n
  <1>8. p \in DOMAIN g /\ DOMAIN h = DOMAIN g \ {p}
    BY <1>3, <1>6, <1>7
  <1>9. \A q \in DOMAIN h : h[q] = g[q]
    BY <1>3, <1>6
  <1> HIDE DEF p
  <1>10. h = [q \in DOMAIN g \ {p} |-> g[q]]
    BY <1>4, <1>8, <1>9
  <1>11. ArenaSize' = ArenaSize
    BY <1>1 DEF Arena, ArenaSize
  <1> QED
    BY <1>1, <1>8, <1>10, <1>11, GrantedIs DEF Alloc!Release, g, h

LEMMA InitHeapRefines ==
    ASSUME IInv, init_heap
    PROVE  Alloc!Open \/ UNCHANGED <<ArenaSize, Granted, ret>>
PROOF
  <1> DEFINE b == [addr |-> HEAP_START, size |-> HEAP_SIZE - HDR, is_free |-> TRUE]
  <1>1. list = <<>> /\ ret' = ret /\ list' \in {<<b>>, <<>>}
    BY DEF init_heap, IInv
  <1>2. UsedAt(list) = {}
    BY <1>1, EmptySeq DEF UsedAt
  <1>3. UsedAt(list') = {}
    <2>1. CASE list' = <<>>
      BY <2>1, EmptySeq DEF UsedAt
    <2>2. CASE list' = <<b>>
      BY <2>2 DEF UsedAt
    <2> QED
      BY <1>1, <2>1, <2>2
  <1>4. Granted' = Granted
    BY <1>2, <1>3, GrantedIs DEF GrantedOf
  <1>5. ArenaSize = 0 /\ ArenaSize' \in {0, HEAP_SIZE}
    BY <1>1 DEF ArenaSize
  <1> QED
    BY <1>1, <1>4, <1>5 DEF Alloc!Open

(* The heap implements the allocator, for every arena, header and size of  *)
(* request: what kmalloc grants lies in the arena, is aligned, large       *)
(* enough and disjoint with its header from all that is in use, and it     *)
(* refuses a request only if the arena has no place for it.                *)
THEOREM HeapIsAllocator == Spec => Implements
PROOF
  <1>1. Init => Alloc!Init
    <2> SUFFICES ASSUME Init PROVE Alloc!Init
      OBVIOUS
    <2>1. list = <<>> /\ ret = 0
      BY DEF Init
    <2>2. UsedAt(list) = {}
      BY <2>1, EmptySeq DEF UsedAt
    <2>3. Granted = <<>>
      BY <2>2, GrantedIs DEF GrantedOf
    <2> QED
      BY <2>1, <2>3 DEF Alloc!Init, ArenaSize
  <1>2. ASSUME IInv, [Next]_vars
        PROVE  [Alloc!Next]_<<ArenaSize, Granted, ret>>
    <2>1. CASE UNCHANGED vars
      BY <2>1 DEF vars, Granted, ArenaSize, InUse
    <2>2. CASE init_heap
      BY <1>2, <2>2, InitHeapRefines DEF Alloc!Next
    <2>3. ASSUME NEW n \in Requests, kmalloc(n) PROVE Alloc!Next
      BY <1>2, <2>3, KmallocRefines DEF Alloc!Next
    <2>4. ASSUME NEW i \in DOMAIN list, kfree(list[i].addr + HDR) PROVE Alloc!Next
      BY <1>2, <2>4, KfreeRefines DEF Alloc!Next
    <2> QED
      BY <1>2, <2>1, <2>2, <2>3, <2>4 DEF Next
  <1> QED
    BY <1>1, <1>2, Always, PTL DEF Spec, Implements, Alloc!Spec
=============================================================================
