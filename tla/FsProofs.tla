------------------------------ MODULE FsProofs ------------------------------
(***************************************************************************)
(* What is proved of the file system, for any nodes, names, paths,         *)
(* programs, boot modules and sizes that satisfy FsAssumption:             *)
(*                                                                         *)
(*   FsTypeCorrect    TypeOK always holds;                                 *)
(*   AlwaysIntact     Intact, if nothing is created or nothing deleted, of *)
(*                    files no negative size was used on;                  *)
(*   AlwaysTree, CwdAlwaysLive, AlwaysFindable                             *)
(*                    Tree, CwdLive, Findable, while only the shell        *)
(*                    deletes (Findable if boot modules differ in name);   *)
(*   AlwaysSound      Sound.                                               *)
(*                                                                         *)
(* The last four rest on the invariant Shape, in section "The tree": local *)
(* facts about neighbours (Linked, Rooted, HasPred, OnePred) and three     *)
(* facts that no cycle exists (NextEnds, NextStarts, ParentEnds), stated   *)
(* over sets of nodes so that a step preserves them without induction.     *)
(* WalkUnder, WalkEnds and WalkHolds say what that makes of a list.        *)
(***************************************************************************)
EXTENDS Fs, TLAPS, FiniteSetTheorems, SequenceTheorems, WellFoundedInduction

-----------------------------------------------------------------------------
(* Induction and iteration up to n, stated for a set and for a function,   *)
(* so that they can be used by name.                                       *)

LEMMA UpTo ==
    ASSUME NEW n \in Nat, NEW S, 0 \in S,
           \A k \in 0..n - 1 : k \in S => k + 1 \in S
    PROVE  0..n \subseteq S
PROOF
  <1> DEFINE Bad == {k \in 0..n : k \notin S}
             R == OpToRel(<, Nat)
  <1> SUFFICES ASSUME Bad # {} PROVE FALSE
    OBVIOUS
  <1>1. PICK m \in Bad : \A k \in Bad : ~ (<<k, m>> \in R)
    <2>1. IsWellFoundedOn(R, Nat)
      BY NatLessThanWellFounded
    <2>2. Bad \subseteq Nat
      OBVIOUS
    <2> QED
      BY <2>1, <2>2, WFMin
  <1>2. \A k \in Bad : ~ (k < m)
    <2>1. \A k \in Bad : <<k, m>> \in R <=> k < m
      <3>1. Bad \subseteq Nat
        OBVIOUS
      <3> HIDE DEF Bad
      <3> QED
        BY <3>1 DEF OpToRel
    <2> QED
      BY <1>1, <2>1
  <1>3. m # 0 /\ m \in 0..n
    OBVIOUS
  <1>4. m - 1 \in 0..n - 1 /\ m - 1 \in S
    BY <1>2, <1>3
  <1>5. (m - 1) + 1 \in S
    BY <1>4
  <1> QED
    BY <1>3, <1>5

Iteration(f, n, base, step) == f[0] = base /\ \A k \in 1..n : f[k] = step[k][f[k - 1]]

LEMMA Iterates ==
    ASSUME NEW n \in Nat, NEW T, NEW base \in T, NEW step \in [1..n -> [T -> T]]
    PROVE  \E f \in [0..n -> T] :
              Iteration(f, n, base, step)
PROOF
  <1> DEFINE Fits(f, m) == Iteration(f, m, base, step)
             S == {m \in 0..n : \E f \in [0..m -> T] : Fits(f, m)}
  <1>1. 0 \in S
    <2>1. [k \in 0..0 |-> base] \in [0..0 -> T] /\ Fits([k \in 0..0 |-> base], 0)
      BY DEF Iteration
    <2>2. \E f \in [0..0 -> T] : Fits(f, 0)
      BY <2>1
    <2> HIDE DEF Fits
    <2> QED
      BY <2>2
  <1>2. ASSUME NEW m \in 0..n - 1, m \in S PROVE m + 1 \in S
    <2>1. PICK f \in [0..m -> T] : Fits(f, m)
      BY <1>2
    <2> DEFINE g == [k \in 0..m + 1 |-> IF k <= m THEN f[k] ELSE step[m + 1][f[m]]]
    <2>2. m + 1 \in 1..n /\ f[m] \in T /\ step[m + 1] \in [T -> T]
      OBVIOUS
    <2>3. g \in [0..m + 1 -> T]
      BY <2>2
    <2>4. g[0] = base /\ \A k \in 1..m + 1 : g[k] = step[k][g[k - 1]]
      BY <2>1 DEF Iteration
    <2> HIDE DEF g
    <2>5. Fits(g, m + 1)
      BY <2>4 DEF Iteration
    <2> HIDE DEF Fits
    <2>6. \E h \in [0..m + 1 -> T] : Fits(h, m + 1)
      BY <2>3, <2>5
    <2> QED
      BY <2>2, <2>6
  <1>3. n \in S
    <2> HIDE DEF S
    <2>1. \A m \in 0..n - 1 : m \in S => m + 1 \in S
      BY <1>2
    <2>2. 0..n \subseteq S
      BY <1>1, <2>1, UpTo, Zenon
    <2> QED
      BY <2>2
  <1> QED
    BY <1>3

-----------------------------------------------------------------------------
(* Smallest numbers.                                                       *)

LEMMA MinFacts ==
    ASSUME NEW S \in SUBSET Nat, S # {}
    PROVE  Min(S) \in S /\ \A x \in S : Min(S) <= x
PROOF
  <1> DEFINE R == OpToRel(<, Nat)
  <1>1. PICK m \in S : \A k \in S : ~ (<<k, m>> \in R)
    <2>1. IsWellFoundedOn(R, Nat)
      BY NatLessThanWellFounded
    <2> QED
      BY <2>1, WFMin
  <1>2. \A k \in S : m <= k
    <2>1. \A k \in S : <<k, m>> \in R <=> k < m
      BY DEF OpToRel
    <2>2. \A k \in S : ~ (k < m) /\ k \in Nat
      BY <1>1, <2>1
    <2> HIDE DEF R
    <2>3. m \in Nat
      BY <1>1
    <2> QED
      BY <2>2, <2>3
  <1> QED
    BY <1>2 DEF Min

LEMMA BoundedSeqIsSeq ==
    ASSUME NEW S, NEW n \in Nat, NEW s
    PROVE  s \in BoundedSeq(S, n) <=> s \in Seq(S) /\ Len(s) <= n
PROOF
  <1>1. ASSUME s \in BoundedSeq(S, n) PROVE s \in Seq(S) /\ Len(s) <= n
    <2>1. PICK m \in 0..n : s \in [1..m -> S]
      BY <1>1 DEF BoundedSeq, SeqOf
    <2>2. s \in Seq(S)
      BY <2>1, SeqDef
    <2> QED
      BY <2>1, <2>2, LenProperties
  <1>2. ASSUME s \in Seq(S), Len(s) <= n PROVE s \in BoundedSeq(S, n)
    BY <1>2, LenProperties DEF BoundedSeq, SeqOf
  <1> QED
    BY <1>1, <1>2

-----------------------------------------------------------------------------
(* What the assumptions say.                                               *)

LEMMA Constants ==
    /\ Root \in Nodes /\ NULL \notin Nodes /\ Wild \notin Nodes /\ NULL # Wild
    /\ IsFiniteSet(Nodes) /\ Cardinality(Nodes) \in Nat
    /\ Shell \notin Programs /\ Unlinkers \subseteq Programs
    /\ Fds \subseteq Nat /\ Leftovers \subseteq {NULL, Wild} /\ MaxSize \in Nat
    /\ Half \in Nat /\ MaxSize < Half
    /\ Stored \in [Names -> Names] /\ Up \notin Names
PROOF
  <1>1. /\ {MaxSize, UserBase, Half} \subseteq Nat /\ MaxSize < UserBase /\ UserBase < Half
    BY FsAssumption DEF FsAssumption
  <1>2. MaxSize \in Nat /\ Half \in Nat /\ MaxSize < Half
    BY <1>1
  <1> QED
    BY <1>2, FsAssumption, FS_CardinalityType DEF FsAssumption

-----------------------------------------------------------------------------
(* Walks along the list of a directory.                                    *)

Pointers == [Nodes -> (Nodes \ {Root}) \cup {NULL}]

(* nth is the walk from head: it stays where it stops.                     *)
Walk(nth, head) ==
    /\ nth[0] = head
    /\ \A k \in 1..Cardinality(Nodes) :
          nth[k] = IF nth[k - 1] \in live THEN next[nth[k - 1]] ELSE nth[k - 1]

LEMMA SiblingWalks ==
    ASSUME live \subseteq Nodes, children \in Pointers, next \in Pointers, NEW d \in Nodes
    PROVE  /\ Sibling(d) \in [0..Cardinality(Nodes) -> (Nodes \ {Root}) \cup {NULL}]
           /\ Walk(Sibling(d), children[d])
PROOF
  <1> DEFINE n == Cardinality(Nodes)
             T == (Nodes \ {Root}) \cup {NULL}
             onward == [x \in T |-> IF x \in live THEN next[x] ELSE x]
             step == [k \in 1..n |-> onward]
             Eq(f) == f = [k \in 0..n |-> IF k = 0 THEN children[d]
                                          ELSE IF f[k - 1] \in live THEN next[f[k - 1]] ELSE f[k - 1]]
             nth == CHOOSE f : Eq(f)
  <1>1. n \in Nat /\ children[d] \in T
    BY Constants DEF Pointers
  <1>2. step \in [1..n -> [T -> T]]
    <2>1. onward \in [T -> T]
      BY DEF Pointers
    <2> HIDE DEF onward
    <2> QED
      BY <2>1
  <1> HIDE DEF n
  <1>3. PICK f \in [0..n -> T] : Iteration(f, n, children[d], step)
    <2> HIDE DEF step, onward, T, Eq
    <2> QED
      BY <1>1, <1>2, Iterates
  <1>4. \A k \in 1..n : f[k - 1] \in T
    <2> HIDE DEF T
    <2> QED
      BY <1>1
  <1>5. \A k \in 1..n : f[k] = IF f[k - 1] \in live THEN next[f[k - 1]] ELSE f[k - 1]
    <2>1. \A k \in 1..n : f[k] = onward[f[k - 1]]
      BY <1>3 DEF Iteration
    <2> QED
      BY <1>4, <2>1
  <1>6. Eq(f)
    <2> HIDE DEF T
    <2> QED
      BY <1>3, <1>5 DEF Iteration
  <1>7. Eq(nth)
    <2> HIDE DEF Eq
    <2> QED
      BY <1>6
  <1>8. Sibling(d) = nth
    BY DEF Sibling, n
  <1> HIDE DEF nth
  <1>9. /\ DOMAIN nth = 0..n /\ nth[0] = children[d]
        /\ \A k \in 1..n : nth[k] = IF nth[k - 1] \in live THEN next[nth[k - 1]] ELSE nth[k - 1]
    BY <1>1, <1>7
  <1> DEFINE S == {k \in 0..n : nth[k] \in T}
  <1>10. 0 \in S /\ \A k \in 0..n - 1 : k \in S => k + 1 \in S
    <2>1. ASSUME NEW k \in 0..n - 1, nth[k] \in T PROVE nth[k + 1] \in T
      <3>1. k + 1 \in 1..n /\ (k + 1) - 1 = k
        BY <1>1
      <3>2. nth[k + 1] = IF nth[k] \in live THEN next[nth[k]] ELSE nth[k]
        BY <1>9, <3>1
      <3> QED
        BY <2>1, <3>2 DEF Pointers
    <2> HIDE DEF T
    <2> QED
      BY <1>1, <1>9, <2>1
  <1>11. 0..n \subseteq S
    <2> HIDE DEF S
    <2> QED
      BY <1>1, <1>10, UpTo
  <1>12. nth \in [0..n -> T]
    <2> HIDE DEF T
    <2> QED
      BY <1>7, <1>9, <1>11
  <1> QED
    BY <1>8, <1>9, <1>12 DEF Walk, n

(* What a search returns: a child with the name, the node before it, and   *)
(* no other of the name in between.                                        *)
LEMMA SearchFacts ==
    ASSUME live \subseteq Nodes, children \in Pointers, next \in Pointers, NEW d \in Nodes, NEW s,
           NEW found, found = Search(d, s)
    PROVE  /\ found.prev \in Nodes \cup {NULL}
           /\ found.node \in live \cup {NULL, Wild}
           /\ found.node \in live =>
                 /\ d \in live /\ found.node # Root /\ name[found.node] = s
                 /\ found.prev = NULL => children[d] = found.node
                 /\ found.prev # NULL => found.prev \in live /\ next[found.prev] = found.node
PROOF
  <1> DEFINE n == Cardinality(Nodes)
             nth == Sibling(d)
             stops == {k \in DOMAIN nth : nth[k] \notin live \/ name[nth[k]] = s}
             at(k) == IF nth[k] \in live \cup {NULL} THEN nth[k] ELSE Wild
             k == Min(stops)
  <1>1. /\ nth \in [0..n -> (Nodes \ {Root}) \cup {NULL}] /\ nth[0] = children[d]
        /\ \A i \in 1..n : nth[i] = IF nth[i - 1] \in live THEN next[nth[i - 1]] ELSE nth[i - 1]
    BY SiblingWalks DEF Walk
  <1>2. n \in Nat /\ NULL \notin live /\ Wild \notin live
    BY Constants
  <1>3. CASE d \notin live \/ stops = {}
    <2>1. found = [node |-> Wild, prev |-> NULL]
      BY <1>3 DEF Search
    <2> QED
      BY <1>2, <2>1
  <1>4. CASE ~ (d \notin live \/ stops = {})
    <2>1. found = [node |-> at(k), prev |-> IF k = 0 THEN NULL ELSE nth[k - 1]]
      BY <1>4 DEF Search
    <2> HIDE DEF nth, n
    <2>2. stops \in SUBSET Nat
      BY <1>1, <1>2
    <2>3. k \in stops /\ \A x \in stops : k <= x
      <3> HIDE DEF stops
      <3> QED
        BY <1>4, <2>2, MinFacts
    <2>4. k \in 0..n /\ (nth[k] \notin live \/ name[nth[k]] = s)
      BY <1>1, <2>3
    <2>5. k # 0 => k - 1 \in 0..n /\ k \in 1..n /\ nth[k - 1] \in live
      <3>1. ASSUME k # 0 PROVE k - 1 \in 0..n /\ k \in 1..n /\ ~ (k <= k - 1)
        BY <1>2, <2>4, <3>1
      <3>2. ASSUME k # 0 PROVE k - 1 \notin stops
        BY <2>3, <3>1, <3>2
      <3> QED
        BY <1>1, <3>1, <3>2
    <2> HIDE DEF k, stops
    <2>6. nth[k] \in (Nodes \ {Root}) \cup {NULL} /\ (k # 0 => nth[k - 1] \in Nodes)
      BY <1>1, <2>4, <2>5
    <2>7. k # 0 => nth[k] = next[nth[k - 1]] /\ nth[k - 1] # NULL
      BY <1>1, <1>2, <2>5
    <2> QED
      BY <1>1, <1>2, <1>4, <2>1, <2>4, <2>5, <2>6, <2>7
  <1> QED
    BY <1>3, <1>4

-----------------------------------------------------------------------------
(* Types.                                                                  *)

Descriptor == [file_node : Address, offset : -Half..Half - 1]

Locals == [dir : Nodes \cup {NULL}, node : (Nodes \ {Root}) \cup {NULL}, prev : Nodes \cup {NULL}]

(* TypeOK, and the root is on no list: it can be neither found nor         *)
(* deleted.                                                                *)
TypeInv ==
    /\ Root \in live /\ live \subseteq Nodes /\ dirs \subseteq Nodes
    /\ name \in [Nodes -> Names \cup {NULL}] /\ parent \in [Nodes -> Nodes \cup {NULL}]
    /\ children \in Pointers /\ next \in Pointers
    /\ data \in [Nodes -> BoundedSeq(Byte, MaxSize)]
    /\ started \subseteq Procs /\ cwd \in [Procs -> Nodes]
    /\ fd_table \in [Procs -> [Fds -> Descriptor]]
    /\ pc \in {"prompt", "insert", "free", "unlink"} /\ loc \in Locals
    /\ pc \in {"free", "unlink"} => loc.dir # NULL /\ loc.node # NULL
    /\ eax \in Int /\ fault \in BOOLEAN /\ misled \subseteq Nodes

LEMMA TypeImplied == TypeInv => TypeOK
PROOF
  BY DEF TypeInv, TypeOK, Descriptor, Pointers, Locals

LEMMA TypeFields ==
    ASSUME TypeInv
    PROVE  /\ Root \in live /\ live \subseteq Nodes /\ dirs \subseteq Nodes
           /\ name \in [Nodes -> Names \cup {NULL}] /\ parent \in [Nodes -> Nodes \cup {NULL}]
           /\ children \in Pointers /\ next \in Pointers
           /\ data \in [Nodes -> BoundedSeq(Byte, MaxSize)]
           /\ started \subseteq Procs /\ cwd \in [Procs -> Nodes]
           /\ fd_table \in [Procs -> [Fds -> Descriptor]]
           /\ pc \in {"prompt", "insert", "free", "unlink"}
           /\ loc.dir \in Nodes \cup {NULL} /\ loc.node \in (Nodes \ {Root}) \cup {NULL}
           /\ loc.prev \in Nodes \cup {NULL}
           /\ pc \in {"free", "unlink"} => loc.dir # NULL /\ loc.node # NULL
           /\ eax \in Int /\ fault \in BOOLEAN /\ misled \subseteq Nodes
PROOF
  <1>1. loc \in Locals =>
           /\ loc.dir \in Nodes \cup {NULL} /\ loc.node \in (Nodes \ {Root}) \cup {NULL}
           /\ loc.prev \in Nodes \cup {NULL}
    BY DEF Locals
  <1> HIDE DEF Locals
  <1> QED
    BY <1>1 DEF TypeInv

LEMMA NoLocalsTyped == NoLocals \in Locals /\ NoLocals.node = NULL
PROOF
  BY Constants DEF NoLocals, Locals

LEMMA EmptyTyped == <<>> \in BoundedSeq(Byte, MaxSize)
PROOF
  <1> DEFINE empty == <<>>
  <1>1. empty \in Seq(Byte) /\ Len(empty) = 0
    BY EmptySeq
  <1>2. Len(empty) <= MaxSize /\ MaxSize \in Nat
    BY <1>1, Constants
  <1> HIDE DEF empty
  <1>3. empty \in BoundedSeq(Byte, MaxSize)
    BY <1>1, <1>2, BoundedSeqIsSeq, Zenon
  <1> QED
    BY <1>3 DEF empty

(* A node taken off its list.                                              *)
LEMMA UnlinkedTyped ==
    ASSUME TypeInv, NEW d \in Nodes, NEW n \in live \ {Root}, NEW prev \in Nodes \cup {NULL},
           Unlinked(d, n, prev)
    PROVE  /\ Root \in live' /\ live' \subseteq Nodes
           /\ children' \in Pointers /\ next' \in Pointers
           /\ UNCHANGED <<name, dirs, parent, data>>
PROOF
  <1>1. next[n] \in (Nodes \ {Root}) \cup {NULL} /\ live \subseteq Nodes /\ Root \in live
    BY TypeFields DEF Pointers
  <1>2. children' \in Pointers /\ next' \in Pointers
    <2>1. CASE prev # NULL
      BY <1>1, <2>1, TypeFields DEF Unlinked, Pointers
    <2>2. CASE prev = NULL
      BY <1>1, <2>2, TypeFields DEF Unlinked, Pointers
    <2> QED
      BY <2>1, <2>2
  <1> QED
    BY <1>1, <1>2 DEF Unlinked

(* A node made.                                                            *)
LEMMA CreatedTyped ==
    ASSUME TypeInv, NEW n \in Nodes \ live, NEW d \in Nodes, NEW s \in Names,
           NEW directory \in BOOLEAN, Created(n, d, s, directory)
    PROVE  /\ Root \in live' /\ live' \subseteq Nodes /\ dirs' \subseteq Nodes
           /\ name' \in [Nodes -> Names \cup {NULL}] /\ parent' \in [Nodes -> Nodes \cup {NULL}]
           /\ children' \in Pointers /\ next' \in Pointers
           /\ data' \in [Nodes -> BoundedSeq(Byte, MaxSize)]
PROOF
  <1>1. <<>> \in BoundedSeq(Byte, MaxSize)
    BY EmptyTyped
  <1>2. children[d] \in (Nodes \ {Root}) \cup {NULL} /\ n # Root
    BY TypeFields DEF Pointers
  <1>3. data' \in [Nodes -> BoundedSeq(Byte, MaxSize)]
    BY <1>1, TypeFields DEF Created
  <1>4. children' \in Pointers /\ next' \in Pointers
    BY <1>2, TypeFields DEF Created, Pointers
  <1> QED
    BY <1>3, <1>4, TypeFields DEF Created

AllWritten(s) == \A i \in DOMAIN s : s[i] = "written"

(* Sums and differences of ints are ints.                                  *)
Ints == -Half..Half - 1

LEMMA Int32Facts ==
    ASSUME NEW x \in Ints, NEW y \in Ints
    PROVE  /\ Int32(x + y) \in Ints /\ Int32(x - y) \in Ints
           /\ x + y \in Ints => Int32(x + y) = x + y
           /\ x + y >= Half => Int32(x + y) < 0
           /\ x \in Int /\ y \in Int
PROOF
  <1>1. Half \in Nat
    BY Constants
  <1> QED
    BY <1>1 DEF Int32, Ints

LEMMA SizesAreInts == Sizes \subseteq Ints /\ 0..MaxSize \subseteq Ints
PROOF
  BY Constants DEF Sizes, Ints

(* The contents of a file after a write.                                   *)
LEMMA OverwrittenTyped ==
    ASSUME NEW old \in BoundedSeq(Byte, MaxSize), NEW offset \in Ints, NEW size \in Ints,
           Int32(offset + size) <= MaxSize, NEW new, new = Overwritten(old, offset, size)
    PROVE  /\ new \in BoundedSeq(Byte, MaxSize) /\ Len(new) >= Len(old)
           /\ size >= 0 /\ offset \in 0..Len(old) /\ Int32(offset + size) = offset + size =>
                  /\ Len(new) >= offset + size
                  /\ AllWritten(old) => AllWritten(new)
PROOF
  <1>1. old \in Seq(Byte) /\ Len(old) \in Nat /\ Len(old) <= MaxSize /\ DOMAIN old = 1..Len(old)
    BY Constants, BoundedSeqIsSeq, LenProperties
  <1> DEFINE end == Int32(offset + size)
             len == IF end > Len(old) THEN end ELSE Len(old)
             block == IF end > Len(old) THEN Grown(old, end) ELSE old
             part == offset + 1..offset + size
  <1>2. end \in Int /\ len \in Nat /\ len <= MaxSize /\ len >= Len(old) /\ len >= end
    <2>1. end \in Int
      BY Int32Facts, Constants DEF Ints
    <2> HIDE DEF end
    <2> QED
      BY <1>1, <2>1 DEF end
  <1>3. DOMAIN block = 1..len /\ \A i \in 1..len : block[i] = IF i <= Len(old) THEN old[i] ELSE "garbage"
    <2>1. CASE end > Len(old)
      BY <2>1 DEF Grown
    <2>2. CASE ~ (end > Len(old))
      BY <1>1, <2>2
    <2> QED
      BY <2>1, <2>2
  <1>4. new = [i \in DOMAIN block |-> IF i \in part THEN "written" ELSE block[i]]
    BY DEF Overwritten
  <1> HIDE DEF block
  <1>5. /\ DOMAIN new = 1..len
        /\ \A i \in 1..len : new[i] = IF i \in part THEN "written" ELSE block[i]
    BY <1>3, <1>4
  <1>6. \A i \in 1..len : block[i] \in Byte
    <2>1. \A i \in 1..Len(old) : old[i] \in Byte
      BY <1>1, ElementOfSeq
    <2> QED
      BY <1>1, <1>2, <1>3, <2>1 DEF Byte
  <1> HIDE DEF len
  <1>7. new \in [1..len -> Byte]
    <2>1. new = [i \in 1..len |-> IF i \in part THEN "written" ELSE block[i]]
      BY <1>3, <1>4
    <2> QED
      BY <1>6, <2>1 DEF Byte
  <1>8. new \in Seq(Byte) /\ Len(new) = len
    BY <1>2, <1>7, SeqDef, LenProperties
  <1>9. new \in BoundedSeq(Byte, MaxSize)
    BY <1>2, <1>8, Constants, BoundedSeqIsSeq
  <1>10. ASSUME offset \in 0..Len(old), size >= 0, end = offset + size, AllWritten(old), NEW i \in 1..len
         PROVE  new[i] = "written"
    <2>1. CASE i \in part
      BY <1>5, <2>1
    <2>2. CASE i \notin part
      <3>1. i <= Len(old)
        <4>1. i \in Int /\ offset \in Int /\ size \in Int
          BY <1>2, Int32Facts
        <4>2. ~ (offset + 1 <= i /\ i <= offset + size)
          BY <2>2, <4>1
        <4>3. i > offset + size \/ i <= offset
          BY <4>1, <4>2
        <4>4. len = Len(old) \/ len = offset + size
          BY <1>10 DEF len
        <4> HIDE DEF part, end
        <4> QED
          BY <1>1, <1>10, <4>1, <4>3, <4>4
      <3> QED
        BY <1>1, <1>3, <1>5, <1>10, <2>2, <3>1 DEF AllWritten
    <2> QED
      BY <2>1, <2>2
  <1>11. offset \in 0..Len(old) /\ size >= 0 /\ end = offset + size /\ AllWritten(old) => AllWritten(new)
    BY <1>5, <1>10 DEF AllWritten
  <1> QED
    BY <1>2, <1>8, <1>9, <1>11

-----------------------------------------------------------------------------
(* A path resolved from T stays in T if each of its components does.       *)

LEMMA ResolveStays ==
    ASSUME NEW p, NEW path \in Paths, NEW T, Root \in T, cwd[p] \in T,
           \A x \in T, c \in Names \cup {Up} : Component(x, c) \in T
    PROVE  fs_resolve_path(p, path) \in T
PROOF
  <1> DEFINE n == Len(path.components)
             at(k) == path.components[k]
             base == IF path.absolute THEN Root ELSE cwd[p]
             Eq(f) == f = [k \in 0..n |-> IF k = 0 THEN base ELSE Component(f[k - 1], at(k))]
             walk == CHOOSE f : Eq(f)
             step == [k \in 1..n |-> [x \in T |-> Component(x, at(k))]]
  <1>1. n \in Nat /\ \A k \in 1..n : at(k) \in Names \cup {Up}
    <2>1. path.components \in Seq(Names \cup {Up})
      BY FsAssumption DEF FsAssumption
    <2> QED
      BY <2>1, LenProperties, ElementOfSeq
  <1>2. fs_resolve_path(p, path) = walk[n]
    BY DEF fs_resolve_path
  <1> HIDE DEF n, at
  <1>3. step \in [1..n -> [T -> T]]
    BY <1>1
  <1>4. base \in T
    OBVIOUS
  <1> HIDE DEF base
  <1>5. PICK f \in [0..n -> T] : Iteration(f, n, base, step)
    <2> HIDE DEF step
    <2> QED
      BY <1>1, <1>3, <1>4, Iterates
  <1>6. \A k \in 1..n : f[k] = Component(f[k - 1], at(k))
    <2>1. \A k \in 1..n : f[k] = step[k][f[k - 1]] /\ f[k - 1] \in T
      <3> HIDE DEF step
      <3> QED
        BY <1>1, <1>5 DEF Iteration
    <2> QED
      BY <2>1
  <1>7. Eq(f)
    BY <1>5, <1>6 DEF Iteration
  <1>8. Eq(walk)
    <2> HIDE DEF Eq
    <2> QED
      BY <1>7
  <1> HIDE DEF walk
  <1>9. /\ walk[0] = base
        /\ \A k \in 1..n : walk[k] = Component(walk[k - 1], at(k))
    BY <1>1, <1>8
  <1> DEFINE S == {k \in 0..n : walk[k] \in T}
  <1>10. 0 \in S /\ \A k \in 0..n - 1 : k \in S => k + 1 \in S
    <2>1. 0 \in S
      BY <1>1, <1>4, <1>9
    <2>2. ASSUME NEW k \in 0..n - 1, k \in S PROVE k + 1 \in S
      <3>1. k + 1 \in 1..n /\ (k + 1) - 1 = k /\ walk[k] \in T
        BY <1>1, <2>2
      <3>2. walk[k + 1] = Component(walk[k], at(k + 1))
        BY <1>9, <3>1
      <3>3. walk[k + 1] \in T
        BY <1>1, <3>1, <3>2
      <3> QED
        BY <3>1, <3>3
    <2> QED
      BY <2>1, <2>2
  <1>11. 0..n \subseteq S
    <2> HIDE DEF S
    <2> QED
      BY <1>1, <1>10, UpTo
  <1> QED
    BY <1>1, <1>2, <1>11

LEMMA InitTyped == Init => TypeInv
PROOF
  <1> SUFFICES ASSUME Init PROVE TypeInv
    OBVIOUS
  <1> DEFINE loaded == {m.node : m \in Range(Modules)}
             nth == [n \in loaded |-> CHOOSE i \in DOMAIN Modules : Modules[i].node = n]
  <1>1. /\ Modules \in Seq([node : Nodes \ {Root}, name : Names, size : Nat])
        /\ \A i \in DOMAIN Modules : Modules[i].size <= MaxSize
    BY FsAssumption DEF FsAssumption
  <1>2. DOMAIN Modules = 1..Len(Modules) /\ Len(Modules) \in Nat
    BY <1>1, LenProperties
  <1>3. \A i \in DOMAIN Modules : /\ Modules[i].node \in Nodes \ {Root}
                                  /\ Modules[i].name \in Names /\ Modules[i].size \in Nat
    <2> DEFINE Module == [node : Nodes \ {Root}, name : Names, size : Nat]
    <2>1. \A x \in Module : x.node \in Nodes \ {Root} /\ x.name \in Names /\ x.size \in Nat
      OBVIOUS
    <2>2. Modules \in Seq(Module)
      BY <1>1
    <2> HIDE DEF Module
    <2>3. \A i \in DOMAIN Modules : Modules[i] \in Module
      BY <1>2, <2>2, ElementOfSeq
    <2> QED
      BY <2>1, <2>3
  <1>4. loaded = {Modules[i].node : i \in DOMAIN Modules}
    BY DEF Range
  <1>5. loaded \subseteq Nodes \ {Root}
    BY <1>3, <1>4
  <1>6. \A n \in loaded : nth[n] \in DOMAIN Modules /\ Modules[nth[n]].node = n
    BY <1>4
  <1>7. ASSUME NEW n \in loaded, n # Modules[1].node
        PROVE  nth[n] - 1 \in DOMAIN Modules
    <2>1. nth[n] \in 1..Len(Modules) /\ nth[n] # 1
      <3> HIDE DEF nth, loaded
      <3> QED
        BY <1>2, <1>6, <1>7
    <2> HIDE DEF nth
    <2> QED
      BY <1>2, <2>1
  <1>8. loaded # {} => Last(Modules).node \in Nodes \ {Root}
    <2>1. loaded # {} => Len(Modules) \in DOMAIN Modules
      BY <1>2, <1>4
    <2> QED
      BY <1>3, <2>1 DEF Last
  <1>9. ASSUME NEW i \in DOMAIN Modules, NEW s, s = [j \in 1..Modules[i].size |-> "written"]
        PROVE  s \in BoundedSeq(Byte, MaxSize)
    <2>1. Modules[i].size \in Nat /\ Modules[i].size <= MaxSize /\ "written" \in Byte
      BY <1>1, <1>3 DEF Byte
    <2>2. s \in [1..Modules[i].size -> Byte]
      BY <1>9, <2>1
    <2>3. s \in Seq(Byte) /\ Len(s) = Modules[i].size
      BY <2>1, <2>2, SeqDef, LenProperties
    <2> QED
      BY <2>1, <2>3, Constants, BoundedSeqIsSeq
  <1>10. <<>> \in BoundedSeq(Byte, MaxSize)
    BY EmptyTyped
  <1>11. live = {Root} \cup loaded /\ dirs = {Root}
    BY DEF Init
  <1>12. name = [n \in Nodes |-> IF n \in loaded THEN Stored[Modules[nth[n]].name] ELSE NULL]
    BY DEF Init
  <1>13. parent = [n \in Nodes |-> IF n \in loaded THEN Root ELSE NULL]
    BY DEF Init
  <1>14. children = [n \in Nodes |-> IF n = Root /\ loaded # {} THEN Last(Modules).node ELSE NULL]
    BY DEF Init
  <1>15. next = [n \in Nodes |-> IF n \in loaded /\ n # Modules[1].node
                                  THEN Modules[nth[n] - 1].node ELSE NULL]
    BY DEF Init
  <1>16. data = [n \in Nodes |-> IF n \in loaded
                                  THEN [i \in 1..Modules[nth[n]].size |-> "written"] ELSE <<>>]
    BY DEF Init
  <1> HIDE DEF loaded, nth
  <1>17. live \subseteq Nodes /\ Root \in live /\ dirs \subseteq Nodes
    BY <1>5, <1>11, Constants
  <1>18. name \in [Nodes -> Names \cup {NULL}] /\ parent \in [Nodes -> Nodes \cup {NULL}]
    BY <1>3, <1>6, <1>12, <1>13, Constants
  <1>19. children \in Pointers
    BY <1>8, <1>14 DEF Pointers
  <1>20. next \in Pointers
    BY <1>3, <1>6, <1>7, <1>15 DEF Pointers
  <1>21. data \in [Nodes -> BoundedSeq(Byte, MaxSize)]
    <2>1. \A n \in Nodes : data[n] \in BoundedSeq(Byte, MaxSize)
      BY <1>6, <1>9, <1>10, <1>16
    <2> QED
      BY <1>16, <2>1
  <1>22. started \subseteq Procs /\ cwd \in [Procs -> Nodes]
    BY Constants DEF Init, Procs
  <1>23. fd_table \in [Procs -> [Fds -> Descriptor]]
    BY Constants DEF Init, Closed, Descriptor, Address
  <1>24. pc = "prompt" /\ eax \in Int /\ fault \in BOOLEAN /\ loc \in Locals /\ misled \subseteq Nodes
    <2>1. pc = "prompt" /\ loc = NoLocals /\ eax = 0 /\ fault = FALSE /\ misled = {}
      BY DEF Init
    <2>2. loc \in Locals
      BY <2>1, NoLocalsTyped
    <2>3. eax \in Int
      BY <2>1
    <2> QED
      BY <2>1, <2>2, <2>3
  <1> QED
    BY <1>17, <1>18, <1>19, <1>20, <1>21, <1>22, <1>23, <1>24 DEF TypeInv

(* One step per action.                                                    *)
LEMMA MisuseTyped == TypeInv /\ Misuse => TypeInv'
PROOF
  <1> SUFFICES ASSUME TypeInv, Misuse PROVE TypeInv'
    OBVIOUS
  <1>1. UNCHANGED <<live, name, dirs, parent, children, next, data, started, cwd, fd_table, pc, loc, eax, misled>>
        /\ fault' \in BOOLEAN
    BY DEF Misuse, tree, shell
  <1> QED
    BY <1>1, TypeFields DEF TypeInv, Pointers

LEMMA CreateTyped ==
    ASSUME TypeInv, NEW s \in Names, NEW directory \in BOOLEAN, fs_mkdir_or_touch(s, directory)
    PROVE  TypeInv'
PROOF
  <1>1. CASE Misuse
    BY <1>1, MisuseTyped
  <1>2. ASSUME NEW n \in Nodes \ live, Created(n, cwd[Shell], Stored[s], directory),
               loc' = [NoLocals EXCEPT !.dir = cwd[Shell], !.node = n],
               pc' = "insert", UNCHANGED <<started, cwd, fd_table, eax, fault, misled>>
        PROVE  TypeInv'
    <2>1. cwd[Shell] \in Nodes /\ Stored[s] \in Names /\ n # Root
      BY TypeFields, Constants DEF Procs
    <2>2. loc' \in Locals
      BY <1>2, <2>1 DEF NoLocals, Locals
    <2>3. /\ Root \in live' /\ live' \subseteq Nodes /\ dirs' \subseteq Nodes
          /\ name' \in [Nodes -> Names \cup {NULL}] /\ parent' \in [Nodes -> Nodes \cup {NULL}]
          /\ children' \in Pointers /\ next' \in Pointers
          /\ data' \in [Nodes -> BoundedSeq(Byte, MaxSize)]
      BY <1>2, <2>1, CreatedTyped
    <2> QED
      BY <1>2, <2>2, <2>3, TypeFields DEF TypeInv, Pointers
  <1> QED
    BY <1>1, <1>2, Zenon DEF fs_mkdir_or_touch

LEMMA InsertTyped == TypeInv /\ fs_insert_child => TypeInv'
PROOF
  <1> SUFFICES ASSUME TypeInv, fs_insert_child PROVE TypeInv'
    OBVIOUS
  <1>1. CASE Misuse
    BY <1>1, MisuseTyped
  <1>2. CASE ~ Misuse
    <2>1. /\ children' = [children EXCEPT ![loc.dir] = loc.node]
          /\ pc' = "prompt" /\ loc' = NoLocals
          /\ UNCHANGED <<live, name, dirs, parent, next, data, started, cwd, fd_table, eax, fault, misled>>
      BY <1>2 DEF fs_insert_child
    <2>2. children' \in Pointers
      BY <2>1, TypeFields DEF Pointers
    <2> QED
      BY <2>1, <2>2, NoLocalsTyped, TypeFields DEF TypeInv, Pointers
  <1> QED
    BY <1>1, <1>2

LEMMA DeleteTyped == ASSUME TypeInv, NEW s \in Names, fs_delete(s) PROVE TypeInv'
PROOF
  <1> DEFINE found == Search(cwd[Shell], s)
  <1>1. CASE Misuse
    BY <1>1, MisuseTyped
  <1>2. CASE ~ Misuse
    <2>1. /\ Deletable(found.node) /\ pc' = "free"
          /\ loc' = [dir |-> cwd[Shell], node |-> found.node, prev |-> found.prev]
          /\ UNCHANGED <<tree, started, cwd, fd_table, eax, fault, misled>>
      BY <1>2 DEF fs_delete
    <2>2. cwd[Shell] \in Nodes
      BY TypeFields DEF Procs
    <2>3. found.prev \in Nodes \cup {NULL} /\ found.node \in live \ {Root}
      <3>1. found.node \in live
        BY <2>1 DEF Deletable
      <3> HIDE DEF found
      <3> QED
        BY <2>2, <3>1, SearchFacts, TypeFields DEF found
    <2> HIDE DEF found
    <2>4. loc' \in Locals
      BY <2>1, <2>2, <2>3, TypeFields DEF Locals
    <2> QED
      BY <2>1, <2>2, <2>3, <2>4, TypeFields, Constants DEF TypeInv, Pointers, tree
  <1> QED
    BY <1>1, <1>2

LEMMA DataTyped == TypeInv /\ fs_delete_data => TypeInv'
PROOF
  <1> SUFFICES ASSUME TypeInv, fs_delete_data PROVE TypeInv'
    OBVIOUS
  <1>1. CASE Misuse
    BY <1>1, MisuseTyped
  <1>2. CASE ~ Misuse
    <2>1. /\ pc = "free" /\ pc' = "unlink"
          /\ UNCHANGED <<live, name, dirs, parent, children, next, data, started, cwd, fd_table, loc,
                         eax, fault, misled>>
      BY <1>2 DEF fs_delete_data, tree
    <2> QED
      BY <2>1, TypeFields DEF TypeInv, Pointers
  <1> QED
    BY <1>1, <1>2

LEMMA UnlinkTyped == TypeInv /\ fs_delete_unlink => TypeInv'
PROOF
  <1> SUFFICES ASSUME TypeInv, fs_delete_unlink PROVE TypeInv'
    OBVIOUS
  <1>1. CASE Misuse
    BY <1>1, MisuseTyped
  <1>2. CASE ~ Misuse
    <2>1. /\ {loc.dir, loc.node, loc.prev} \ {NULL} \subseteq live
          /\ Unlinked(loc.dir, loc.node, loc.prev) /\ pc' = "prompt" /\ loc' = NoLocals
          /\ UNCHANGED <<started, cwd, fd_table, eax, fault, misled>>
      BY <1>2 DEF fs_delete_unlink
    <2>2. loc.node \in live \ {Root} /\ loc.prev \in Nodes \cup {NULL} /\ loc.dir \in Nodes
      BY <2>1, TypeFields DEF fs_delete_unlink
    <2>3. children' \in Pointers /\ next' \in Pointers /\ Root \in live' /\ live' \subseteq Nodes
          /\ UNCHANGED <<name, dirs, parent, data>>
      BY <2>1, <2>2, TypeFields, UnlinkedTyped
    <2> QED
      BY <2>1, <2>3, NoLocalsTyped, TypeFields DEF TypeInv, Pointers
  <1> QED
    BY <1>1, <1>2

LEMMA StartTyped == ASSUME TypeInv, NEW p \in Programs, create_process(p) PROVE TypeInv'
PROOF
  <1>1. p \in Procs /\ Shell \in Procs
    BY DEF Procs
  <1>2. PICK left \in [Fds -> Leftovers] :
           fd_table' = [fd_table EXCEPT ![p] = [f \in Fds |-> [file_node |-> left[f], offset |-> 0]]]
    BY DEF create_process
  <1>3. [f \in Fds |-> [file_node |-> left[f], offset |-> 0]] \in [Fds -> Descriptor]
    BY <1>2, Constants DEF Descriptor, Address
  <1>4. fd_table' \in [Procs -> [Fds -> Descriptor]]
    <2> HIDE DEF Descriptor
    <2> QED
      BY <1>2, <1>3, TypeFields
  <1>5. /\ started' = started \cup {p} /\ cwd' = [cwd EXCEPT ![p] = cwd[Shell]]
        /\ UNCHANGED <<live, name, dirs, parent, children, next, data, pc, loc, eax, fault, misled>>
    BY DEF create_process, tree, shell
  <1>6. started' \subseteq Procs /\ cwd' \in [Procs -> Nodes]
    BY <1>1, <1>5, TypeFields
  <1> QED
    BY <1>4, <1>5, <1>6, TypeFields DEF TypeInv, Pointers

LEMMA ChdirTyped ==
    ASSUME TypeInv, NEW p \in Procs, NEW path \in Paths, sys_chdir(p, path)
    PROVE  TypeInv'
PROOF
  <1> DEFINE d == fs_resolve_path(p, path)
  <1>1. CASE Misuse
    BY <1>1, MisuseTyped
  <1>2. CASE ~ Misuse
    <2>1. /\ UNCHANGED <<tree, started, fd_table, shell, fault, misled>>
          /\ \/ eax' = -1 /\ UNCHANGED cwd
             \/ d \in live /\ eax' = 0 /\ cwd' = [cwd EXCEPT ![p] = d]
      BY <1>2 DEF sys_chdir
    <2> HIDE DEF d
    <2>2. UNCHANGED <<live, name, dirs, parent, children, next, data, pc, loc>>
      BY <2>1 DEF tree, shell
    <2>3. cwd' \in [Procs -> Nodes] /\ eax' \in Int
      BY <2>1, TypeFields
    <2> QED
      BY <2>1, <2>2, <2>3, TypeFields DEF TypeInv, Pointers
  <1> QED
    BY <1>1, <1>2

LEMMA OpenTyped ==
    ASSUME TypeInv, NEW p \in Programs, NEW path \in Paths, SYS_OPEN(p, path)
    PROVE  TypeInv'
PROOF
  <1> DEFINE n == fs_resolve_path(p, path)
             f == Min(get_free_fd(p))
             desc == [file_node |-> n, offset |-> 0]
  <1>1. CASE Misuse
    BY <1>1, MisuseTyped
  <1>2. CASE ~ Misuse
    <2>1. /\ UNCHANGED <<tree, started, cwd, shell, fault, misled>>
          /\ \/ eax' = -1 /\ UNCHANGED fd_table
             \/ /\ n \in Nodes /\ get_free_fd(p) # {}
                /\ eax' = f /\ fd_table' = [fd_table EXCEPT ![p][f] = desc]
      BY <1>2 DEF SYS_OPEN
    <2>2. get_free_fd(p) # {} => f \in Fds
      <3>1. get_free_fd(p) \in SUBSET Nat /\ get_free_fd(p) \subseteq Fds
        BY Constants DEF get_free_fd
      <3> QED
        BY <3>1, MinFacts
    <2>3. n \in Nodes => desc \in Descriptor
      BY Constants DEF Descriptor, Address
    <2> HIDE DEF n, f, desc
    <2>4. UNCHANGED <<live, name, dirs, parent, children, next, data, pc, loc>>
      BY <2>1 DEF tree, shell
    <2>5. fd_table' \in [Procs -> [Fds -> Descriptor]] /\ eax' \in Int
      <3>1. p \in Procs /\ fd_table \in [Procs -> [Fds -> Descriptor]] /\ Fds \subseteq Nat
        BY TypeFields, Constants DEF Procs
      <3> HIDE DEF Descriptor
      <3>2. ASSUME n \in Nodes, get_free_fd(p) # {},
                   fd_table' = [fd_table EXCEPT ![p][f] = desc]
            PROVE  fd_table' \in [Procs -> [Fds -> Descriptor]]
        BY <2>2, <2>3, <3>1, <3>2
      <3>3. eax' \in Int
        <4>1. eax' = -1 \/ (get_free_fd(p) # {} /\ eax' = f)
          BY <2>1
        <4> QED
          <5>1. get_free_fd(p) # {} => f \in Nat
            BY <2>2, <3>1
          <5>2. -1 \in Int /\ Nat \subseteq Int
            OBVIOUS
          <5> QED
            BY <4>1, <5>1, <5>2
      <3> QED
        BY <2>1, <3>1, <3>2, <3>3
    <2> QED
      BY <2>1, <2>4, <2>5, TypeFields DEF TypeInv, Pointers
  <1> QED
    BY <1>1, <1>2

LEMMA CloseTyped == ASSUME TypeInv, NEW p \in Programs, NEW f \in Fds, SYS_CLOSE(p, f) PROVE TypeInv'
PROOF
  <1>1. UNCHANGED <<live, name, dirs, parent, children, next, data, pc, loc, started, cwd, eax, fault, misled>>
    BY DEF SYS_CLOSE, tree, shell
  <1>2. [fd_table[p][f] EXCEPT !.file_node = NULL] \in Descriptor
    <2>1. fd_table[p][f] \in Descriptor
      BY TypeFields DEF Procs
    <2>2. NULL \in Address
      BY DEF Address
    <2> QED
      BY <2>1, <2>2 DEF Descriptor
  <1>3. fd_table' = [fd_table EXCEPT ![p][f].file_node = NULL]
    BY DEF SYS_CLOSE
  <1>4. fd_table' \in [Procs -> [Fds -> Descriptor]]
    <2>1. fd_table \in [Procs -> [Fds -> Descriptor]]
      BY TypeFields
    <2> HIDE DEF Descriptor
    <2> QED
      BY <1>2, <1>3, <2>1
  <1> QED
    BY <1>1, <1>4, TypeFields DEF TypeInv, Pointers

(* What a read that is not refused does.                                   *)
LEMMA ReadFacts ==
    ASSUME TypeInv, NEW p \in Programs, NEW f \in Fds, NEW size \in Sizes, SYS_FREAD(p, f, size),
           ~ BadDescriptor(p, f), ~ Misuse
    PROVE  \E to_read \in Ints :
              /\ eax' = to_read /\ MovedBy(p, f, to_read)
              /\ fd_table[p][f].file_node \in live
              /\ LET len == Len(data[fd_table[p][f].file_node])
                 IN  to_read >= 0 /\ fd_table[p][f].offset \in 0..len =>
                         Int32(fd_table[p][f].offset + to_read) \in 0..len
              /\ UNCHANGED <<live, name, dirs, parent, children, next, data, pc, loc, started, cwd, fault>>
PROOF
  <1> DEFINE desc == fd_table[p][f]
             offset == desc.offset
             len == Len(data[desc.file_node])
             left == Int32(len - offset)
             to_read == IF left <= 0 THEN 0 ELSE IF size < left THEN size ELSE left
  <1>1. /\ desc.file_node \in live /\ eax' = to_read /\ MovedBy(p, f, to_read)
        /\ UNCHANGED <<tree, started, cwd, shell, fault>>
    BY DEF SYS_FREAD
  <1>2. desc \in Descriptor /\ desc.file_node \in Nodes
    BY <1>1, TypeFields, Constants DEF Procs
  <1>3. offset \in Ints
    BY <1>2 DEF Descriptor, Ints
  <1>4. data[desc.file_node] \in BoundedSeq(Byte, MaxSize)
    BY <1>2, TypeFields
  <1>5. len \in 0..MaxSize
    BY <1>4, Constants, BoundedSeqIsSeq, LenProperties
  <1>9. len \in Ints /\ size \in Ints /\ Half \in Nat /\ 0 \in Ints
    BY <1>5, SizesAreInts, Constants
  <1> HIDE DEF desc, len, offset
  <1>6. left \in Ints
    BY <1>3, <1>9, Int32Facts
  <1>10. to_read \in Ints
    BY <1>6, <1>9
  <1>8. ASSUME to_read >= 0, offset \in 0..len PROVE Int32(offset + to_read) \in 0..len
    <2>1. len - offset \in Ints /\ offset \in Int /\ len \in Int
      BY <1>3, <1>8, <1>9 DEF Ints
    <2>2. left = len - offset
      BY <2>1, <1>9 DEF Int32, Ints
    <2> HIDE DEF left
    <2>3. to_read <= left /\ to_read \in Int /\ left \in Int
      BY <1>6, <1>8, <1>9, <2>1, <2>2 DEF Ints
    <2> HIDE DEF to_read
    <2>4. offset + to_read \in 0..len
      BY <1>8, <2>1, <2>2, <2>3
    <2>5. offset + to_read \in Ints
      BY <1>9, <2>4 DEF Ints
    <2> QED
      BY <1>3, <1>10, <2>4, <2>5, Int32Facts
  <1> HIDE DEF to_read
  <1>7. UNCHANGED <<live, name, dirs, parent, children, next, data, pc, loc, started, cwd, fault>>
    BY <1>1 DEF tree, shell
  <1> QED
    BY <1>1, <1>7, <1>8, <1>10 DEF desc, len, offset

LEMMA BadDescriptorTyped ==
    ASSUME TypeInv, NEW p \in Programs, NEW f \in Fds, BadDescriptor(p, f)
    PROVE  TypeInv'
PROOF
  <1>1. CASE Misuse
    BY <1>1, MisuseTyped
  <1>2. CASE ~ Misuse
    <2>1. /\ eax' = -1
          /\ UNCHANGED <<live, name, dirs, parent, children, next, data, pc, loc, started, cwd,
                         fd_table, fault, misled>>
      BY <1>2 DEF BadDescriptor, tree, shell
    <2> QED
      BY <2>1, TypeFields DEF TypeInv, Pointers
  <1> QED
    BY <1>1, <1>2

(* A descriptor that is moved.                                             *)
LEMMA MovedTyped ==
    ASSUME TypeInv, NEW p \in Programs, NEW f \in Fds, NEW k \in Ints, MovedBy(p, f, k),
           fd_table[p][f].file_node \in live
    PROVE  fd_table' \in [Procs -> [Fds -> Descriptor]] /\ misled' \subseteq Nodes /\ misled \subseteq misled'
PROOF
  <1>1. p \in Procs /\ fd_table \in [Procs -> [Fds -> Descriptor]]
    BY TypeFields DEF Procs
  <1>2. fd_table[p][f] \in Descriptor
    BY <1>1
  <1>3. fd_table[p][f].offset \in Ints
    BY <1>2 DEF Descriptor, Ints
  <1>4. [fd_table[p][f] EXCEPT !.offset = Int32(@ + k)] \in Descriptor
    <2>1. Int32(fd_table[p][f].offset + k) \in -Half..Half - 1
      BY <1>3, Int32Facts DEF Ints
    <2> QED
      BY <1>2, <2>1 DEF Descriptor
  <1>5. fd_table' = [fd_table EXCEPT ![p][f] = [fd_table[p][f] EXCEPT !.offset = Int32(@ + k)]]
    BY DEF MovedBy
  <1>6. misled \subseteq misled' /\ misled' \subseteq Nodes
    BY TypeFields DEF MovedBy
  <1> HIDE DEF Descriptor
  <1> QED
    BY <1>1, <1>4, <1>5, <1>6

LEMMA ReadTyped ==
    ASSUME TypeInv, NEW p \in Programs, NEW f \in Fds, NEW size \in Sizes, SYS_FREAD(p, f, size)
    PROVE  TypeInv'
PROOF
  <1>1. CASE BadDescriptor(p, f)
    BY <1>1, BadDescriptorTyped
  <1>2. CASE Misuse
    BY <1>2, MisuseTyped
  <1>3. CASE ~ BadDescriptor(p, f) /\ ~ Misuse
    <2>1. PICK to_read \in Ints :
             /\ eax' = to_read /\ MovedBy(p, f, to_read)
             /\ fd_table[p][f].file_node \in live
             /\ UNCHANGED <<live, name, dirs, parent, children, next, data, pc, loc, started, cwd, fault>>
      BY <1>3, ReadFacts
    <2>2. fd_table' \in [Procs -> [Fds -> Descriptor]] /\ misled' \subseteq Nodes
      BY <2>1, MovedTyped
    <2>3. eax' \in Int
      BY <2>1 DEF Ints
    <2> QED
      BY <2>1, <2>2, <2>3, TypeFields DEF TypeInv, Pointers
  <1> QED
    BY <1>1, <1>2, <1>3

LEMMA WriteFacts ==
    ASSUME TypeInv, NEW p \in Programs, NEW f \in Fds, NEW size \in Sizes, SYS_WRITE(p, f, size),
           ~ BadDescriptor(p, f), ~ Misuse
    PROVE  LET desc == fd_table[p][f]
           IN  /\ desc.file_node \in live /\ desc.offset \in Ints /\ size \in Ints
               /\ Int32(desc.offset + size) <= MaxSize
               /\ size > 0 => desc.offset >= 0 /\ Int32(desc.offset + size) >= 0
               /\ data[desc.file_node] \in BoundedSeq(Byte, MaxSize)
               /\ data' = [data EXCEPT ![desc.file_node] = Overwritten(@, desc.offset, size)]
               /\ eax' = size /\ MovedBy(p, f, size)
               /\ UNCHANGED <<live, name, dirs, parent, children, next, pc, loc, started, cwd, fault>>
PROOF
  <1> DEFINE desc == fd_table[p][f]
             end_pos == Int32(desc.offset + size)
  <1>1. /\ desc.file_node \in live
        /\ end_pos <= MaxSize /\ ~ (size > 0 /\ (desc.offset < 0 \/ end_pos < 0))
        /\ data' = [data EXCEPT ![desc.file_node] = Overwritten(@, desc.offset, size)]
        /\ eax' = size /\ MovedBy(p, f, size)
        /\ UNCHANGED <<live, name, dirs, parent, children, next, started, cwd, shell, fault>>
    BY DEF SYS_WRITE
  <1>2. desc \in Descriptor /\ desc.file_node \in Nodes
    BY <1>1, TypeFields, Constants DEF Procs
  <1>3. desc.offset \in Ints /\ size \in Ints
    BY <1>2, SizesAreInts DEF Descriptor, Ints
  <1>4. data[desc.file_node] \in BoundedSeq(Byte, MaxSize)
    BY <1>2, TypeFields
  <1>5. size > 0 => desc.offset >= 0 /\ end_pos >= 0
    <2>1. end_pos \in Int /\ desc.offset \in Int
      BY <1>3, Int32Facts DEF Ints
    <2> HIDE DEF end_pos, desc
    <2> QED
      BY <1>1, <2>1
  <1> QED
    BY <1>1, <1>3, <1>4, <1>5 DEF shell

LEMMA WriteTyped ==
    ASSUME TypeInv, NEW p \in Programs, NEW f \in Fds, NEW size \in Sizes, SYS_WRITE(p, f, size)
    PROVE  TypeInv'
PROOF
  <1>1. CASE BadDescriptor(p, f)
    BY <1>1, BadDescriptorTyped
  <1>2. CASE Misuse
    BY <1>2, MisuseTyped
  <1>3. CASE ~ BadDescriptor(p, f) /\ ~ Misuse
    <2> DEFINE desc == fd_table[p][f]
               new == Overwritten(data[desc.file_node], desc.offset, size)
    <2>1. /\ desc.file_node \in live /\ desc.offset \in Ints /\ size \in Ints
          /\ Int32(desc.offset + size) <= MaxSize
          /\ data[desc.file_node] \in BoundedSeq(Byte, MaxSize)
          /\ data' = [data EXCEPT ![desc.file_node] = new]
          /\ eax' = size /\ MovedBy(p, f, size)
          /\ UNCHANGED <<live, name, dirs, parent, children, next, pc, loc, started, cwd, fault>>
      BY <1>3, WriteFacts
    <2>2. new \in BoundedSeq(Byte, MaxSize)
      BY <2>1, OverwrittenTyped
    <2>3. fd_table' \in [Procs -> [Fds -> Descriptor]] /\ misled' \subseteq Nodes
      BY <2>1, MovedTyped
    <2> HIDE DEF new, desc
    <2>4. data' \in [Nodes -> BoundedSeq(Byte, MaxSize)] /\ eax' \in Int
      BY <2>1, <2>2, TypeFields DEF Ints
    <2> QED
      BY <2>1, <2>3, <2>4, TypeFields DEF TypeInv, Pointers
  <1> QED
    BY <1>1, <1>2, <1>3

LEMMA ProgramUnlinkTyped ==
    ASSUME TypeInv, NEW p \in Programs, NEW s \in Names, SYS_UNLINK(p, s)
    PROVE  TypeInv'
PROOF
  <1> DEFINE found == Search(cwd[p], s)
  <1>1. CASE Misuse
    BY <1>1, MisuseTyped
  <1>2. CASE ~ Misuse
    <2>1. /\ IF Deletable(found.node) THEN Unlinked(cwd[p], found.node, found.prev) ELSE UNCHANGED tree
          /\ eax' = 0
          /\ UNCHANGED <<started, cwd, fd_table, shell, fault, misled>>
      BY <1>2 DEF SYS_UNLINK
    <2>2. cwd[p] \in Nodes
      BY TypeFields DEF Procs
    <2>3. CASE Deletable(found.node)
      <3>1. found.node \in live
        BY <2>3 DEF Deletable
      <3> HIDE DEF found
      <3>2. found.prev \in Nodes \cup {NULL} /\ found.node \in live \ {Root}
        BY <2>2, <3>1, SearchFacts, TypeFields DEF found
      <3>3. children' \in Pointers /\ next' \in Pointers /\ Root \in live' /\ live' \subseteq Nodes
            /\ UNCHANGED <<name, dirs, parent, data>>
        BY <2>1, <2>2, <2>3, <3>2, UnlinkedTyped
      <3> QED
        BY <2>1, <3>3, TypeFields DEF TypeInv, Pointers, shell
    <2>4. CASE ~ Deletable(found.node)
      <3> HIDE DEF found
      <3> QED
        BY <2>1, <2>4, TypeFields DEF TypeInv, Pointers, shell, tree
    <2> QED
      BY <2>3, <2>4
  <1> QED
    BY <1>1, <1>2

LEMMA TypeNext == TypeInv /\ [Next]_vars => TypeInv'
PROOF
  <1> SUFFICES ASSUME TypeInv, [Next]_vars PROVE TypeInv'
    OBVIOUS
  <1>1. CASE UNCHANGED vars
    BY <1>1, TypeFields DEF vars, tree, shell, TypeInv, Pointers
  <1>2. CASE Next
    BY <1>2, CreateTyped, InsertTyped, DeleteTyped, DataTyped, UnlinkTyped, StartTyped, ChdirTyped, OpenTyped,
       CloseTyped, ReadTyped, WriteTyped, ProgramUnlinkTyped, Zenon DEF Next
  <1> QED
    BY <1>1, <1>2

LEMMA AlwaysTyped == Spec => []TypeInv
PROOF
  BY InitTyped, TypeNext, PTL DEF Spec

(* Every variable keeps its type: a descriptor holds NULL, an address of a *)
(* node or what was there before, and an offset, which negative sizes move *)
(* anywhere, is an int; no search leaves the working directory of a        *)
(* process anything but a node; the root is never freed (fs.c).            *)
THEOREM FsTypeCorrect == Spec => []TypeOK
PROOF
  BY AlwaysTyped, TypeImplied, PTL

-----------------------------------------------------------------------------
(* Contents.                                                               *)

NothingCreated == Commands \cap {"mkdir", "touch"} = {}
NothingDeleted == "rm" \notin Commands /\ Unlinkers = {}

(* Where nothing is deleted, whatever points to a node points to a live    *)
(* one.                                                                    *)
Kept ==
    NothingDeleted =>
        /\ pc \notin {"free", "unlink"}
        /\ \A p \in Procs : cwd[p] \in live
        /\ \A n \in live : parent[n] \in live \cup {NULL}
        /\ \A p \in Procs, f \in Fds : fd_table[p][f].file_node \in live \cup {NULL, Wild}

Inside(desc) == desc.file_node \in live \ misled => desc.offset \in 0..Len(data[desc.file_node])

IntactInv ==
    /\ TypeInv /\ Kept
    /\ \A p \in Procs, f \in Fds : Inside(fd_table[p][f])
    /\ \A n \in live \ misled : AllWritten(data[n])

LEMMA IntactImplied == IntactInv => Intact
PROOF
  BY TypeFields DEF IntactInv, Intact, Inside, AllWritten

LEMMA InitIntact == Init => IntactInv
PROOF
  <1> SUFFICES ASSUME Init PROVE IntactInv
    OBVIOUS
  <1> DEFINE loaded == {m.node : m \in Range(Modules)}
             nth == [n \in loaded |-> CHOOSE i \in DOMAIN Modules : Modules[i].node = n]
             contents(n) == [i \in 1..Modules[nth[n]].size |-> "written"]
  <1>1. live = {Root} \cup loaded /\ pc = "prompt"
    BY DEF Init
  <1>2. parent = [n \in Nodes |-> IF n \in loaded THEN Root ELSE NULL]
    BY DEF Init
  <1>3. data = [n \in Nodes |-> IF n \in loaded THEN contents(n) ELSE <<>>]
    BY DEF Init
  <1>4. /\ cwd = [p \in Procs |-> Root]
        /\ fd_table = [p \in Procs |-> [f \in Fds |-> Closed]]
    BY DEF Init
  <1>5. TypeInv
    BY InitTyped
  <1>6. \A n \in live \ misled : AllWritten(data[n])
    <2> HIDE DEF loaded
    <2>1. \A n : AllWritten(contents(n))
      BY DEF AllWritten
    <2>2. AllWritten(<<>>)
      BY DEF AllWritten
    <2> HIDE DEF contents
    <2> QED
      BY <1>3, <1>5, <2>1, <2>2, TypeFields
  <1> HIDE DEF loaded, contents
  <1>7. live \subseteq Nodes
    BY <1>5, TypeFields
  <1>8. \A p \in Procs, f \in Fds : fd_table[p][f].file_node = NULL
    BY <1>4 DEF Closed
  <1>9. Kept
    BY <1>1, <1>2, <1>4, <1>7, <1>8 DEF Kept
  <1>10. \A p \in Procs, f \in Fds : Inside(fd_table[p][f])
    BY <1>7, <1>8, Constants DEF Inside
  <1> QED
    BY <1>5, <1>6, <1>9, <1>10 DEF IntactInv

(* Descriptors and contents stay as they are.                              *)
LEMMA QuietIntact ==
    ASSUME IntactInv, TypeInv', Kept', live' \subseteq live, misled \subseteq misled',
           UNCHANGED <<data, fd_table>>
    PROVE  IntactInv'
PROOF
  <1>1. \A p \in Procs, f \in Fds : Inside(fd_table[p][f])'
    BY DEF IntactInv, Inside
  <1>2. \A n \in live' \ misled' : AllWritten(data'[n])
    BY DEF IntactInv
  <1> QED
    BY <1>1, <1>2 DEF IntactInv, AllWritten

(* One descriptor changes.                                                 *)
LEMMA DescriptorsAfter ==
    ASSUME TypeInv, NEW p \in Procs, NEW f \in Fds, NEW desc,
           fd_table' = [fd_table EXCEPT ![p][f] = desc]
    PROVE  \A q \in Procs, g \in Fds :
              fd_table'[q][g] = IF q = p /\ g = f THEN desc ELSE fd_table[q][g]
PROOF
  <1>1. fd_table \in [Procs -> [Fds -> Descriptor]]
    BY TypeFields
  <1> HIDE DEF Descriptor
  <1> QED
    BY <1>1

LEMMA SteadyKept ==
    ASSUME IntactInv, NothingDeleted => pc' \notin {"free", "unlink"}, UNCHANGED <<live, parent, cwd, fd_table>>
    PROVE  Kept'
PROOF
  BY DEF IntactInv, Kept

LEMMA MisuseIntact == IntactInv /\ Misuse => IntactInv'
PROOF
  <1> SUFFICES ASSUME IntactInv, Misuse PROVE IntactInv'
    OBVIOUS
  <1>1. UNCHANGED <<live, parent, cwd, fd_table, data, pc, misled>>
    BY DEF Misuse, tree, shell
  <1>2. Kept'
    BY <1>1, SteadyKept DEF IntactInv, Kept
  <1>3. TypeInv'
    BY MisuseTyped DEF IntactInv
  <1> QED
    BY <1>1, <1>2, <1>3, QuietIntact

(* A path of a system without deletion leads to a live node.               *)
LEMMA KeptComponent ==
    ASSUME TypeInv, Kept, NothingDeleted, NEW x \in live \cup {NULL, Wild}, NEW c \in Names \cup {Up}
    PROVE  Component(x, c) \in live \cup {NULL, Wild}
PROOF
  <1>1. CASE x \in live
    <2> DEFINE found == Search(x, Stored[c])
    <2>1. found.node \in live \cup {NULL, Wild}
      BY <1>1, SearchFacts, TypeFields
    <2> HIDE DEF found
    <2>2. parent[x] \in live \cup {NULL}
      BY <1>1 DEF Kept
    <2> QED
      BY <1>1, <2>1, <2>2 DEF Component, fs_find_child, found
  <1>2. CASE x \in {NULL, Wild}
    BY <1>2 DEF Component
  <1> QED
    BY <1>1, <1>2

LEMMA KeptResolve ==
    ASSUME TypeInv, Kept, NothingDeleted, NEW p \in Procs, NEW path \in Paths
    PROVE  fs_resolve_path(p, path) \in live \cup {NULL, Wild}
PROOF
  <1> DEFINE T == live \cup {NULL, Wild}
  <1>1. Root \in T /\ cwd[p] \in T
    BY TypeFields DEF Kept
  <1>2. \A x \in T, c \in Names \cup {Up} : Component(x, c) \in T
    BY KeptComponent
  <1> HIDE DEF T
  <1>3. fs_resolve_path(p, path) \in T
    BY <1>1, <1>2, ResolveStays
  <1> QED
    BY <1>3 DEF T

LEMMA CreateIntact ==
    ASSUME IntactInv, NothingCreated \/ NothingDeleted,
           NEW s \in Names, NEW directory \in BOOLEAN, fs_mkdir_or_touch(s, directory)
    PROVE  IntactInv'
PROOF
  <1>1. CASE Misuse
    BY <1>1, MisuseIntact
  <1>2. ASSUME NEW n \in Nodes \ live, Created(n, cwd[Shell], Stored[s], directory),
               pc' = "insert", UNCHANGED <<started, cwd, fd_table, eax, fault, misled>>
        PROVE  IntactInv'
    <2>1. NothingDeleted
      <3>1. (IF directory THEN "mkdir" ELSE "touch") \in Commands
        BY Zenon DEF fs_mkdir_or_touch
      <3> QED
        BY <3>1 DEF NothingCreated
    <2>2. TypeInv /\ TypeInv'
      BY CreateTyped DEF IntactInv
    <2>3. /\ live' = live \cup {n} /\ data' = [data EXCEPT ![n] = <<>>]
          /\ parent' = [parent EXCEPT ![n] = cwd[Shell]]
      BY <1>2 DEF Created
    <2>4. Shell \in Procs /\ n # NULL /\ n # Wild
      BY Constants DEF Procs
    <2>5. Kept'
      <3>1. \A p \in Procs : cwd'[p] \in live'
        BY <1>2, <2>1, <2>3 DEF IntactInv, Kept
      <3>2. \A m \in live' : parent'[m] \in live' \cup {NULL}
        BY <2>1, <2>2, <2>3, <2>4, TypeFields DEF IntactInv, Kept
      <3>3. \A p \in Procs, f \in Fds : fd_table'[p][f].file_node \in live' \cup {NULL, Wild}
        BY <1>2, <2>1, <2>3 DEF IntactInv, Kept
      <3> QED
        BY <1>2, <3>1, <3>2, <3>3 DEF Kept
    <2>6. \A p \in Procs, f \in Fds : Inside(fd_table[p][f])'
      <3> SUFFICES ASSUME NEW p \in Procs, NEW f \in Fds,
                          fd_table[p][f].file_node \in live' \ misled
                   PROVE  fd_table[p][f].offset \in 0..Len(data'[fd_table[p][f].file_node])
        BY <1>2 DEF Inside
      <3>1. fd_table[p][f].file_node \in live \cup {NULL, Wild}
        BY <2>1 DEF IntactInv, Kept
      <3>2. fd_table[p][f].file_node \in live /\ fd_table[p][f].file_node # n
        BY <2>2, <2>3, <3>1, TypeFields, Constants
      <3>3. data'[fd_table[p][f].file_node] = data[fd_table[p][f].file_node]
        BY <2>2, <2>3, <3>2, TypeFields
      <3> QED
        BY <3>2, <3>3 DEF IntactInv, Inside
    <2>7. \A m \in live' \ misled' : AllWritten(data'[m])
      <3>1. AllWritten(<<>>)
        BY DEF AllWritten
      <3> QED
        BY <1>2, <2>2, <2>3, <3>1, TypeFields DEF IntactInv
    <2> QED
      BY <2>2, <2>5, <2>6, <2>7 DEF IntactInv, AllWritten
  <1> QED
    BY <1>1, <1>2, Zenon DEF fs_mkdir_or_touch

LEMMA InsertIntact == IntactInv /\ fs_insert_child => IntactInv'
PROOF
  <1> SUFFICES ASSUME IntactInv, fs_insert_child PROVE IntactInv'
    OBVIOUS
  <1>1. CASE Misuse
    BY <1>1, MisuseIntact
  <1>2. CASE ~ Misuse
    <2>1. pc' = "prompt" /\ UNCHANGED <<live, parent, cwd, fd_table, data, misled>>
      BY <1>2 DEF fs_insert_child
    <2>2. TypeInv'
      BY InsertTyped DEF IntactInv
    <2> QED
      BY <2>1, <2>2, SteadyKept, QuietIntact
  <1> QED
    BY <1>1, <1>2

LEMMA DeleteIntact == ASSUME IntactInv, NEW s \in Names, fs_delete(s) PROVE IntactInv'
PROOF
  <1>1. CASE Misuse
    BY <1>1, MisuseIntact
  <1>2. CASE ~ Misuse
    <2>1. "rm" \in Commands /\ UNCHANGED <<tree, cwd, fd_table, misled>>
      BY <1>2 DEF fs_delete
    <2>2. ~ NothingDeleted /\ UNCHANGED <<live, parent, cwd, fd_table, data, misled>>
      BY <2>1 DEF NothingDeleted, tree
    <2>3. TypeInv'
      BY DeleteTyped DEF IntactInv
    <2> QED
      BY <2>2, <2>3, SteadyKept, QuietIntact
  <1> QED
    BY <1>1, <1>2

LEMMA DataIntact == IntactInv /\ fs_delete_data => IntactInv'
PROOF
  <1> SUFFICES ASSUME IntactInv, fs_delete_data PROVE IntactInv'
    OBVIOUS
  <1>1. CASE Misuse
    BY <1>1, MisuseIntact
  <1>2. CASE ~ Misuse
    <2>1. UNCHANGED <<tree, cwd, fd_table, misled>>
      BY <1>2 DEF fs_delete_data
    <2>2. UNCHANGED <<live, parent, cwd, fd_table, data, misled>>
      BY <2>1 DEF tree
    <2>3. ~ NothingDeleted
      BY DEF fs_delete_data, IntactInv, Kept
    <2>4. TypeInv' /\ Kept'
      BY <2>3, DataTyped DEF IntactInv, Kept, NothingDeleted
    <2> QED
      BY <2>2, <2>4, QuietIntact
  <1> QED
    BY <1>1, <1>2

LEMMA UnlinkIntact == IntactInv /\ fs_delete_unlink => IntactInv'
PROOF
  <1> SUFFICES ASSUME IntactInv, fs_delete_unlink PROVE IntactInv'
    OBVIOUS
  <1>1. CASE Misuse
    BY <1>1, MisuseIntact
  <1>2. CASE ~ Misuse
    <2>1. /\ live' \subseteq live /\ UNCHANGED <<data, fd_table, misled>>
      BY <1>2 DEF fs_delete_unlink, Unlinked
    <2>2. TypeInv'
      BY UnlinkTyped DEF IntactInv
    <2>3. ~ NothingDeleted
      BY DEF fs_delete_unlink, IntactInv, Kept
    <2>4. Kept'
      BY <2>3 DEF Kept, NothingDeleted
    <2> QED
      BY <2>1, <2>2, <2>4, QuietIntact
  <1> QED
    BY <1>1, <1>2

LEMMA StartIntact == ASSUME IntactInv, NEW p \in Programs, create_process(p) PROVE IntactInv'
PROOF
  <1>1. p \in Procs /\ Shell \in Procs
    BY DEF Procs
  <1>2. TypeInv /\ TypeInv'
    BY StartTyped DEF IntactInv
  <1>3. PICK left \in [Fds -> Leftovers] :
           fd_table' = [fd_table EXCEPT ![p] = [f \in Fds |-> [file_node |-> left[f], offset |-> 0]]]
    BY DEF create_process
  <1>4. /\ cwd' = [cwd EXCEPT ![p] = cwd[Shell]]
        /\ UNCHANGED <<live, parent, data, pc, misled>>
    BY DEF create_process, tree, shell
  <1>5. \A q \in Procs, f \in Fds :
           fd_table'[q][f] = IF q = p THEN [file_node |-> left[f], offset |-> 0] ELSE fd_table[q][f]
    BY <1>2, <1>3, TypeFields
  <1>6. \A q \in Procs, f \in Fds :
           fd_table'[q][f].file_node \in {NULL, Wild} \/ (q # p /\ fd_table'[q][f] = fd_table[q][f])
    <2>1. \A f \in Fds : left[f] \in {NULL, Wild}
      BY Constants
    <2>2. \A f \in Fds : [file_node |-> left[f], offset |-> 0].file_node = left[f]
      OBVIOUS
    <2> QED
      BY <1>5, <2>1, <2>2
  <1>7. Kept'
    <2> SUFFICES ASSUME NothingDeleted PROVE Kept'
      BY DEF Kept
    <2>1. \A q \in Procs : cwd'[q] \in live'
      BY <1>1, <1>2, <1>4, TypeFields DEF IntactInv, Kept
    <2>2. \A q \in Procs, f \in Fds : fd_table'[q][f].file_node \in live' \cup {NULL, Wild}
      BY <1>4, <1>6 DEF IntactInv, Kept
    <2> QED
      BY <1>4, <2>1, <2>2 DEF IntactInv, Kept
  <1>8. \A q \in Procs, f \in Fds : Inside(fd_table[q][f])'
    <2> SUFFICES ASSUME NEW q \in Procs, NEW f \in Fds,
                        fd_table'[q][f].file_node \in live \ misled
                 PROVE  fd_table'[q][f].offset \in 0..Len(data[fd_table'[q][f].file_node])
      BY <1>4 DEF Inside
    <2>1. NULL \notin live /\ Wild \notin live
      BY <1>2, TypeFields, Constants
    <2>2. fd_table'[q][f] = fd_table[q][f]
      BY <1>6, <2>1
    <2> QED
      BY <2>2 DEF IntactInv, Inside
  <1>9. \A n \in live' \ misled' : AllWritten(data'[n])
    BY <1>4 DEF IntactInv
  <1> QED
    BY <1>2, <1>7, <1>8, <1>9 DEF IntactInv, AllWritten

LEMMA ChdirIntact ==
    ASSUME IntactInv, NEW p \in Procs, NEW path \in Paths, sys_chdir(p, path)
    PROVE  IntactInv'
PROOF
  <1> DEFINE d == fs_resolve_path(p, path)
  <1>1. CASE Misuse
    BY <1>1, MisuseIntact
  <1>2. CASE ~ Misuse
    <2>1. /\ UNCHANGED <<tree, fd_table, shell, misled>>
          /\ cwd' = cwd \/ (d \in live /\ cwd' = [cwd EXCEPT ![p] = d])
      BY <1>2 DEF sys_chdir
    <2> HIDE DEF d
    <2>2. UNCHANGED <<live, parent, data, fd_table, pc, misled>>
      BY <2>1 DEF tree, shell
    <2>3. TypeInv /\ TypeInv'
      BY ChdirTyped DEF IntactInv
    <2>4. NothingDeleted => \A q \in Procs : cwd'[q] \in live'
      BY <2>1, <2>2, <2>3, TypeFields DEF IntactInv, Kept
    <2>5. Kept'
      BY <2>2, <2>4 DEF IntactInv, Kept
    <2> QED
      BY <2>2, <2>3, <2>5, QuietIntact
  <1> QED
    BY <1>1, <1>2

(* A process moves one of its descriptors, and what it writes is bytes at  *)
(* the end or in the middle of the file.                                   *)
LEMMA DescriptorIntact ==
    ASSUME IntactInv, TypeInv', NEW p \in Procs, NEW f \in Fds, NEW desc,
           desc.file_node \in live \ misled' => desc.offset \in 0..Len(data'[desc.file_node]),
           desc.file_node \in live \cup {NULL} \/ ~ NothingDeleted
              \/ desc.file_node = fd_table[p][f].file_node,
           fd_table' = [fd_table EXCEPT ![p][f] = desc],
           UNCHANGED <<live, parent, cwd, pc>>,
           misled \subseteq misled',
           \A n \in live : Len(data'[n]) \in Nat /\ Len(data'[n]) >= Len(data[n]),
           \A n \in live \ misled' : AllWritten(data'[n])
    PROVE  IntactInv'
PROOF
  <1>1. TypeInv /\ fd_table \in [Procs -> [Fds -> Descriptor]]
    BY TypeFields DEF IntactInv
  <1>2. \A q \in Procs, g \in Fds :
           fd_table'[q][g] = IF q = p /\ g = f THEN desc ELSE fd_table[q][g]
    BY <1>1, DescriptorsAfter
  <1>3. Kept'
    <2> SUFFICES ASSUME NothingDeleted PROVE Kept'
      BY DEF Kept
    <2>1. \A q \in Procs, g \in Fds : fd_table[q][g].file_node \in live \cup {NULL, Wild}
      BY DEF IntactInv, Kept
    <2>2. desc.file_node \in live \cup {NULL, Wild}
      BY <2>1
    <2> HIDE DEF Descriptor
    <2>3. \A q \in Procs, g \in Fds : fd_table'[q][g].file_node \in live' \cup {NULL, Wild}
      BY <1>2, <2>1, <2>2
    <2> QED
      BY <2>3 DEF IntactInv, Kept
  <1>4. \A q \in Procs, g \in Fds : Inside(fd_table[q][g])'
    <2> SUFFICES ASSUME NEW q \in Procs, NEW g \in Fds, ~ (q = p /\ g = f),
                        fd_table[q][g].file_node \in live \ misled'
                 PROVE  fd_table[q][g].offset \in 0..Len(data'[fd_table[q][g].file_node])
      BY <1>2 DEF Inside
    <2> DEFINE n == fd_table[q][g].file_node
               offset == fd_table[q][g].offset
    <2>3. data[n] \in BoundedSeq(Byte, MaxSize)
      BY <1>1, TypeFields
    <2>4. Len(data[n]) \in Nat
      BY <2>3, Constants, BoundedSeqIsSeq, LenProperties
    <2>5. offset \in 0..Len(data[n])
      BY DEF IntactInv, Inside
    <2>6. Len(data'[n]) \in Nat /\ Len(data'[n]) >= Len(data[n])
      OBVIOUS
    <2> QED
      BY <2>4, <2>5, <2>6
  <1>5. \A n \in live' \ misled' : AllWritten(data'[n])
    OBVIOUS
  <1> QED
    BY <1>3, <1>4, <1>5 DEF IntactInv, AllWritten

LEMMA OpenIntact ==
    ASSUME IntactInv, NEW p \in Programs, NEW path \in Paths, SYS_OPEN(p, path)
    PROVE  IntactInv'
PROOF
  <1> DEFINE n == fs_resolve_path(p, path)
             f == Min(get_free_fd(p))
             desc == [file_node |-> n, offset |-> 0]
  <1>1. CASE Misuse
    BY <1>1, MisuseIntact
  <1>2. CASE ~ Misuse
    <2>1. /\ UNCHANGED <<tree, cwd, shell, misled>>
          /\ \/ UNCHANGED fd_table
             \/ /\ n \in Nodes /\ get_free_fd(p) # {}
                /\ fd_table' = [fd_table EXCEPT ![p][f] = desc]
      BY <1>2 DEF SYS_OPEN
    <2>2. UNCHANGED <<live, parent, cwd, pc, data, misled>>
      BY <2>1 DEF tree, shell
    <2>3. TypeInv /\ TypeInv' /\ p \in Procs
      BY OpenTyped DEF IntactInv, Procs
    <2>4. CASE UNCHANGED fd_table
      <3>1. Kept'
        BY <2>2, <2>4 DEF IntactInv, Kept
      <3> QED
        BY <2>2, <2>3, <2>4, <3>1, QuietIntact
    <2>5. CASE n \in Nodes /\ get_free_fd(p) # {} /\ fd_table' = [fd_table EXCEPT ![p][f] = desc]
      <3>1. f \in Fds
        <4>1. get_free_fd(p) \in SUBSET Nat /\ get_free_fd(p) \subseteq Fds
          BY Constants DEF get_free_fd
        <4> QED
          BY <2>5, <4>1, MinFacts
      <3>2. NothingDeleted => n \in live
        <4>1. NothingDeleted => n \in live \cup {NULL, Wild}
          BY <2>3, KeptResolve DEF IntactInv
        <4> QED
          BY <2>5, <4>1, Constants
      <3>3. desc.file_node = n /\ desc.offset = 0
        OBVIOUS
      <3> HIDE DEF n, f, desc
      <3>4. \A m \in live : Len(data[m]) \in Nat /\ Len(data[m]) >= Len(data[m])
        BY <2>3, TypeFields, Constants, BoundedSeqIsSeq, LenProperties
      <3>5. desc.file_node \in live \ misled' => desc.offset \in 0..Len(data'[desc.file_node])
        BY <2>2, <3>3, <3>4 DEF Inside
      <3>6. /\ \A m \in live : Len(data'[m]) \in Nat /\ Len(data'[m]) >= Len(data[m])
            /\ \A m \in live \ misled' : AllWritten(data'[m])
        BY <2>2, <3>4 DEF IntactInv
      <3> QED
        BY <2>2, <2>3, <2>5, <3>1, <3>2, <3>3, <3>5, <3>6, DescriptorIntact
    <2> QED
      BY <2>1, <2>4, <2>5
  <1> QED
    BY <1>1, <1>2

LEMMA LengthsAreNat ==
    ASSUME TypeInv, NEW n \in live
    PROVE  Len(data[n]) \in Nat
PROOF
  <1>1. data[n] \in BoundedSeq(Byte, MaxSize)
    BY TypeFields
  <1> QED
    BY <1>1, Constants, BoundedSeqIsSeq, LenProperties

LEMMA CloseIntact ==
    ASSUME IntactInv, NEW p \in Programs, NEW f \in Fds, SYS_CLOSE(p, f)
    PROVE  IntactInv'
PROOF
  <1> DEFINE desc == [fd_table[p][f] EXCEPT !.file_node = NULL]
  <1>1. TypeInv /\ TypeInv' /\ p \in Procs
    BY CloseTyped DEF IntactInv, Procs
  <1>2. UNCHANGED <<live, parent, cwd, pc, data, misled>>
    BY DEF SYS_CLOSE, tree, shell
  <1>3. fd_table' = [fd_table EXCEPT ![p][f] = desc]
    BY DEF SYS_CLOSE
  <1>4. desc.file_node = NULL
    <2>1. fd_table[p][f] \in Descriptor
      BY <1>1, TypeFields
    <2> QED
      BY <2>1 DEF Descriptor
  <1> HIDE DEF desc
  <1>5. /\ \A n \in live : Len(data'[n]) \in Nat /\ Len(data'[n]) >= Len(data[n])
        /\ \A n \in live \ misled' : AllWritten(data'[n])
    BY <1>1, <1>2, LengthsAreNat DEF IntactInv
  <1>6. desc.file_node \in live \ misled' => desc.offset \in 0..Len(data'[desc.file_node])
    BY <1>1, <1>2, <1>4, TypeFields, Constants DEF Inside
  <1> QED
    BY <1>1, <1>2, <1>3, <1>4, <1>5, <1>6, DescriptorIntact

LEMMA BadDescriptorIntact ==
    ASSUME IntactInv, NEW p \in Programs, NEW f \in Fds, BadDescriptor(p, f)
    PROVE  IntactInv'
PROOF
  <1>1. CASE Misuse
    BY <1>1, MisuseIntact
  <1>2. CASE ~ Misuse
    <2>1. UNCHANGED <<live, parent, cwd, pc, data, fd_table, misled>>
      BY <1>2 DEF BadDescriptor, tree, shell
    <2>2. Kept'
      BY <2>1 DEF IntactInv, Kept
    <2>3. TypeInv'
      BY BadDescriptorTyped DEF IntactInv
    <2> QED
      BY <2>1, <2>2, <2>3, QuietIntact
  <1> QED
    BY <1>1, <1>2

(* What a descriptor that was moved holds.                                 *)
LEMMA MovedDescriptor ==
    ASSUME TypeInv, NEW p \in Programs, NEW f \in Fds, NEW k \in Ints, MovedBy(p, f, k),
           fd_table[p][f].file_node \in live, k < 0 => fd_table[p][f].file_node \in misled'
    PROVE  \E desc :
              /\ fd_table' = [fd_table EXCEPT ![p][f] = desc]
              /\ desc.file_node = fd_table[p][f].file_node
              /\ desc.offset = Int32(fd_table[p][f].offset + k)
PROOF
  <1> DEFINE desc == [fd_table[p][f] EXCEPT !.offset = Int32(@ + k)]
  <1>1. fd_table' = [fd_table EXCEPT ![p][f] = desc]
    BY DEF MovedBy
  <1>2. fd_table[p][f] \in Descriptor
    BY TypeFields DEF Procs
  <1>3. desc.file_node = fd_table[p][f].file_node /\ desc.offset = Int32(fd_table[p][f].offset + k)
    BY <1>2 DEF Descriptor
  <1> HIDE DEF desc
  <1> QED
    BY <1>1, <1>3

LEMMA ReadIntact ==
    ASSUME IntactInv, NEW p \in Programs, NEW f \in Fds, NEW size \in Sizes, SYS_FREAD(p, f, size)
    PROVE  IntactInv'
PROOF
  <1>1. CASE BadDescriptor(p, f)
    BY <1>1, BadDescriptorIntact
  <1>2. CASE Misuse
    BY <1>2, MisuseIntact
  <1>3. CASE ~ BadDescriptor(p, f) /\ ~ Misuse
    <2> DEFINE old == fd_table[p][f]
               n == old.file_node
    <2>1. TypeInv /\ TypeInv' /\ p \in Procs
      BY ReadTyped DEF IntactInv, Procs
    <2>2. PICK to_read \in Ints :
              /\ MovedBy(p, f, to_read) /\ n \in live
              /\ to_read >= 0 /\ old.offset \in 0..Len(data[n]) =>
                     Int32(old.offset + to_read) \in 0..Len(data[n])
              /\ UNCHANGED <<live, parent, cwd, pc, data>>
      BY <1>3, <2>1, ReadFacts
    <2>3. misled \subseteq misled' /\ (to_read < 0 => n \in misled')
      BY <2>1, <2>2, MovedTyped DEF MovedBy
    <2>4. PICK desc : /\ fd_table' = [fd_table EXCEPT ![p][f] = desc]
                      /\ desc.file_node = n /\ desc.offset = Int32(old.offset + to_read)
      BY <2>1, <2>2, <2>3, MovedDescriptor
    <2>5. /\ \A m \in live : Len(data'[m]) \in Nat /\ Len(data'[m]) >= Len(data[m])
          /\ \A m \in live \ misled' : AllWritten(data'[m])
      BY <2>1, <2>2, <2>3, LengthsAreNat DEF IntactInv
    <2>6. n \notin misled => old.offset \in 0..Len(data[n])
      BY <2>1, <2>2 DEF IntactInv, Inside
    <2>7. to_read < 0 \/ to_read >= 0
      BY <2>2, Constants DEF Ints
    <2> HIDE DEF old, n
    <2>8. desc.file_node \in live \ misled' => desc.offset \in 0..Len(data'[desc.file_node])
      BY <2>2, <2>3, <2>4, <2>6, <2>7
    <2>9. desc.file_node \in live \cup {NULL} /\ UNCHANGED <<live, parent, cwd, pc>>
      BY <2>2, <2>4
    <2> QED
      BY <2>1, <2>3, <2>4, <2>5, <2>8, <2>9, DescriptorIntact
  <1> QED
    BY <1>1, <1>2, <1>3

LEMMA WriteIntact ==
    ASSUME IntactInv, NEW p \in Programs, NEW f \in Fds, NEW size \in Sizes, SYS_WRITE(p, f, size)
    PROVE  IntactInv'
PROOF
  <1>1. CASE BadDescriptor(p, f)
    BY <1>1, BadDescriptorIntact
  <1>2. CASE Misuse
    BY <1>2, MisuseIntact
  <1>3. CASE ~ BadDescriptor(p, f) /\ ~ Misuse
    <2> DEFINE old == fd_table[p][f]
               n == old.file_node
               offset == old.offset
               contents == data[n]
               new == Overwritten(contents, offset, size)
    <2>1. TypeInv /\ TypeInv' /\ p \in Procs
      BY WriteTyped DEF IntactInv, Procs
    <2>2. /\ n \in live /\ offset \in Ints /\ size \in Ints
          /\ Int32(offset + size) <= MaxSize
          /\ size > 0 => offset >= 0 /\ Int32(offset + size) >= 0
          /\ contents \in BoundedSeq(Byte, MaxSize)
          /\ data' = [data EXCEPT ![n] = new]
          /\ MovedBy(p, f, size)
          /\ UNCHANGED <<live, parent, cwd, pc>>
      BY <1>3, <2>1, WriteFacts
    <2>3. misled \subseteq misled' /\ (size < 0 => n \in misled')
      BY <2>1, <2>2, MovedTyped DEF MovedBy
    <2>4. PICK desc : /\ fd_table' = [fd_table EXCEPT ![p][f] = desc]
                      /\ desc.file_node = n /\ desc.offset = Int32(offset + size)
      BY <2>1, <2>2, <2>3, MovedDescriptor
    <2>5. n \notin misled => offset \in 0..Len(contents) /\ AllWritten(contents)
      BY <2>1, <2>2 DEF IntactInv, Inside
    <2>6. /\ new \in BoundedSeq(Byte, MaxSize) /\ Len(new) >= Len(contents)
          /\ size >= 0 /\ offset \in 0..Len(contents) /\ Int32(offset + size) = offset + size =>
                  /\ Len(new) >= offset + size
                  /\ AllWritten(contents) => AllWritten(new)
      <3> HIDE DEF contents, offset
      <3> QED
        BY <2>2, OverwrittenTyped
    <2> HIDE DEF old, n, offset, contents, new
    <2>7. Len(new) \in Nat /\ Len(contents) \in Nat /\ Half \in Nat
      BY <2>2, <2>6, Constants, BoundedSeqIsSeq, LenProperties
    <2>8. n \notin misled' => AllWritten(new) /\ Int32(offset + size) \in 0..Len(new)
      <3> SUFFICES ASSUME n \notin misled' PROVE AllWritten(new) /\ Int32(offset + size) \in 0..Len(new)
        OBVIOUS
      <3>1. size >= 0 /\ size \in Int /\ offset \in 0..Len(contents) /\ AllWritten(contents)
        BY <2>2, <2>3, <2>5, <2>7 DEF Ints
      <3>2. Int32(offset + size) = offset + size
        <4>1. ~ (offset + size >= Half)
          BY <2>2, <2>7, <3>1, Int32Facts DEF Ints
        <4>2. offset + size \in Ints
          BY <2>7, <3>1, <4>1 DEF Ints
        <4> QED
          BY <2>2, <4>2, Int32Facts
      <3> QED
        BY <2>6, <2>7, <3>1, <3>2
    <2>9. data'[n] = new /\ contents = data[n] /\ \A m \in live : m # n => data'[m] = data[m]
      BY <2>1, <2>2, TypeFields DEF contents
    <2>10. \A m \in live : Len(data'[m]) \in Nat /\ Len(data'[m]) >= Len(data[m])
      BY <2>1, <2>6, <2>7, <2>9, LengthsAreNat
    <2>11. \A m \in live \ misled' : AllWritten(data'[m])
      BY <2>3, <2>8, <2>9 DEF IntactInv
    <2>12. desc.file_node \in live \ misled' => desc.offset \in 0..Len(data'[desc.file_node])
      BY <2>4, <2>8, <2>9
    <2>13. desc.file_node \in live \cup {NULL} /\ UNCHANGED <<live, parent, cwd, pc>>
      BY <2>2, <2>4
    <2> QED
      BY <2>1, <2>3, <2>4, <2>10, <2>11, <2>12, <2>13, DescriptorIntact
  <1> QED
    BY <1>1, <1>2, <1>3

LEMMA ProgramUnlinkIntact ==
    ASSUME IntactInv, NEW p \in Programs, NEW s \in Names, SYS_UNLINK(p, s)
    PROVE  IntactInv'
PROOF
  <1> DEFINE found == Search(cwd[p], s)
  <1>1. CASE Misuse
    BY <1>1, MisuseIntact
  <1>2. CASE ~ Misuse
    <2>1. /\ Unlinked(cwd[p], found.node, found.prev) \/ UNCHANGED tree
          /\ UNCHANGED <<fd_table, misled>>
      BY <1>2 DEF SYS_UNLINK
    <2> HIDE DEF found
    <2>2. live' \subseteq live /\ UNCHANGED <<data, fd_table, misled>>
      BY <2>1 DEF Unlinked, tree
    <2>3. ~ NothingDeleted
      BY DEF SYS_UNLINK, NothingDeleted
    <2>4. TypeInv' /\ Kept'
      BY <2>3, ProgramUnlinkTyped DEF IntactInv, Kept, NothingDeleted
    <2> QED
      BY <2>2, <2>4, QuietIntact
  <1> QED
    BY <1>1, <1>2

LEMMA IntactNext ==
    ASSUME NothingCreated \/ NothingDeleted
    PROVE  IntactInv /\ [Next]_vars => IntactInv'
PROOF
  <1> SUFFICES ASSUME IntactInv, [Next]_vars PROVE IntactInv'
    OBVIOUS
  <1>1. CASE UNCHANGED vars
    <2>1. UNCHANGED <<live, parent, cwd, pc, data, fd_table, misled>>
      BY <1>1 DEF vars, tree, shell
    <2>2. Kept' /\ TypeInv'
      BY <1>1, <2>1, TypeNext DEF IntactInv, Kept
    <2> QED
      BY <2>1, <2>2, QuietIntact
  <1>2. CASE Next
    BY <1>2, CreateIntact, InsertIntact, DeleteIntact, DataIntact, UnlinkIntact, StartIntact, ChdirIntact, OpenIntact,
       CloseIntact, ReadIntact, WriteIntact, ProgramUnlinkIntact, Zenon DEF Next
  <1> QED
    BY <1>1, <1>2

(* No offset lies outside its file and every byte of a file was written    *)
(* by someone, for the files of which no descriptor was ever moved by a    *)
(* negative size (of all files, if programs pass none), as long as no node *)
(* is used again: nothing is created, as in the run, or nothing deleted.   *)
(* A descriptor that outlives its file would otherwise keep its offset     *)
(* when the memory becomes another file (SYS_WRITE, SYS_FREAD in           *)
(* syscall.c).                                                             *)
THEOREM AlwaysIntact ==
    ASSUME NothingCreated \/ NothingDeleted
    PROVE  Spec => []Intact
PROOF
  <1>1. Init => IntactInv
    BY InitIntact
  <1>2. IntactInv /\ [Next]_vars => IntactInv'
    BY IntactNext
  <1> QED
    BY <1>1, <1>2, IntactImplied, PTL DEF Spec

-----------------------------------------------------------------------------
(* The tree.                                                               *)

(* Nobody but the shell deletes: no program does, or none has run yet.     *)
Alone == started = {Shell} \/ Unlinkers = {}

(* The nodes in the lists.                                                 *)
Hung == live \ Pending

(* A pointer to a node in a list whose parent is d, or none.               *)
Under(ptr, d) == ptr # NULL => ptr \in Hung /\ parent[ptr] = d

(* Heads and successors are nodes in a list of the same directory.         *)
Linked ==
    /\ \A d \in live : Under(children[d], d)
    /\ \A n \in live : Under(next[n], parent[n])
    /\ next[Root] = NULL

(* Parents are nodes of the tree.                                          *)
Rooted == parent[Root] = NULL /\ \A n \in live \ {Root} : parent[n] \in Hung

(* A node in a list is its head or has a predecessor, and never two.       *)
HasPred == \A n \in Hung \ {Root} : children[parent[n]] = n \/ \E m \in Hung : next[m] = n
OnePred ==
    /\ \A m1, m2 \in Hung : next[m1] = next[m2] /\ next[m1] # NULL => m1 = m2
    /\ \A m \in Hung, d \in live : next[m] = children[d] => next[m] = NULL

(* Lists and chains of parents have no cycle: every set of nodes has one   *)
(* whose successor is outside, one with no predecessor inside, and one     *)
(* whose parent is outside.                                                *)
NextEnds == \A C \in SUBSET live : C # {} => \E n \in C : next[n] \notin C
NextStarts == \A C \in SUBSET live : C # {} => \E n \in C : \A m \in C : next[m] # n
ParentEnds == \A C \in SUBSET (live \ {Root}) : C # {} => \E n \in C : parent[n] \notin C

FilesEmpty == \A n \in live \ dirs : children[n] = NULL

(* What the shell knows in the middle of a command.                        *)
ShellPlace ==
    /\ cwd[Shell] \in Hung \cap dirs
    /\ pc \in {"insert", "free", "unlink"} =>
          /\ loc.dir = cwd[Shell] /\ loc.node \in live \ {Root}
          /\ parent[loc.node] = loc.dir /\ children[loc.node] = NULL
    /\ pc = "insert" => next[loc.node] = children[loc.dir]
    /\ pc \in {"free", "unlink"} =>
                        IF loc.prev = NULL THEN children[loc.dir] = loc.node
                        ELSE loc.prev \in live /\ next[loc.prev] = loc.node

Shape ==
    /\ Linked /\ Rooted /\ HasPred /\ OnePred
    /\ NextEnds /\ NextStarts /\ ParentEnds /\ FilesEmpty /\ ShellPlace

TreeInv == TypeInv /\ (Alone => Shape)

LEMMA InitShape == Init => Shape
PROOF
  <1> SUFFICES ASSUME Init PROVE Shape
    OBVIOUS
  <1> DEFINE loaded == {m.node : m \in Range(Modules)}
             nth == [n \in loaded |-> CHOOSE i \in DOMAIN Modules : Modules[i].node = n]
             count == Len(Modules)
             node(i) == Modules[i].node
  <1>1. /\ Modules \in Seq([node : Nodes \ {Root}, name : Names, size : Nat])
        /\ \A i, j \in DOMAIN Modules : i # j => node(i) # node(j)
    BY FsAssumption DEF FsAssumption
  <1>2. DOMAIN Modules = 1..count /\ count \in Nat
    BY <1>1, LenProperties
  <1>3. \A i \in 1..count : node(i) \in Nodes \ {Root}
    <2> DEFINE Module == [node : Nodes \ {Root}, name : Names, size : Nat]
    <2>1. \A x \in Module : x.node \in Nodes \ {Root}
      OBVIOUS
    <2>2. Modules \in Seq(Module)
      BY <1>1
    <2> HIDE DEF Module
    <2>3. \A i \in 1..count : Modules[i] \in Module
      BY <1>2, <2>2, ElementOfSeq
    <2> QED
      BY <2>1, <2>3
  <1>4. loaded = {node(i) : i \in 1..count}
    BY <1>2 DEF Range
  <1>5. \A n \in loaded : nth[n] \in 1..count /\ node(nth[n]) = n
    BY <1>2, <1>4
  <1>6. loaded # {} => Last(Modules).node = node(count)
    BY DEF Last
  <1>7. live = {Root} \cup loaded /\ dirs = {Root} /\ pc = "prompt" /\ cwd = [p \in Procs |-> Root]
    BY DEF Init
  <1>8. parent = [n \in Nodes |-> IF n \in loaded THEN Root ELSE NULL]
    BY DEF Init
  <1>9. children = [n \in Nodes |-> IF n = Root /\ loaded # {} THEN Last(Modules).node ELSE NULL]
    BY DEF Init
  <1>10. next = [n \in Nodes |-> IF n \in loaded /\ n # node(1) THEN node(nth[n] - 1) ELSE NULL]
    BY DEF Init
  <1> HIDE DEF loaded, nth, count, node
  <1>11. loaded \subseteq Nodes \ {Root} /\ live \subseteq Nodes /\ NULL \notin live
    BY <1>3, <1>4, <1>7, Constants
  <1>12. \A n \in loaded : n # node(1) => nth[n] # 1 /\ nth[n] - 1 \in 1..count
    BY <1>2, <1>5
  <1>13. \A i \in 1..count : node(i) \in loaded /\ nth[node(i)] = i
    BY <1>1, <1>2, <1>4, <1>5
  <1>14. Hung = live
    BY <1>7 DEF Hung, Pending
  <1>15. \A n \in loaded : n # node(1) =>
            next[n] = node(nth[n] - 1) /\ next[n] \in loaded /\ nth[next[n]] = nth[n] - 1
    BY <1>10, <1>11, <1>12, <1>13
  <1>16. next[Root] = NULL /\ \A n \in loaded : n = node(1) => next[n] = NULL
    BY <1>10, <1>11, Constants
  <1>17. \A n \in live : parent[n] = IF n = Root THEN NULL ELSE Root
    BY <1>7, <1>8, <1>11, Constants
  <1>18. children[Root] = (IF loaded = {} THEN NULL ELSE node(count)) /\ \A n \in loaded : children[n] = NULL
    BY <1>6, <1>9, <1>11, Constants
  <1>19. loaded # {} => count \in 1..count
    BY <1>2, <1>4
  <1>20. Linked
    BY <1>7, <1>13, <1>14, <1>15, <1>16, <1>17, <1>18, <1>19, <1>11 DEF Linked, Under
  <1>21. Rooted
    BY <1>7, <1>14, <1>17 DEF Rooted
  <1>22. HasPred
    <2> SUFFICES ASSUME NEW n \in loaded
                 PROVE  children[parent[n]] = n \/ \E m \in Hung : next[m] = n
      BY <1>7, <1>14 DEF HasPred
    <2>1. CASE nth[n] = count
      BY <1>5, <1>7, <1>11, <1>17, <1>18, <2>1
    <2>2. CASE nth[n] # count
      <3> DEFINE i == nth[n] + 1
      <3>1. i \in 1..count /\ i # 1 /\ i - 1 = nth[n]
        BY <1>2, <1>5, <2>2
      <3> HIDE DEF i
      <3>2. node(i) \in loaded /\ nth[node(i)] = i
        BY <1>13, <3>1
      <3>3. node(i) # node(1)
        BY <1>1, <1>2, <3>1
      <3>4. next[node(i)] = n
        BY <1>5, <1>15, <3>1, <3>2, <3>3
      <3> QED
        BY <1>7, <1>14, <3>2, <3>4
    <2> QED
      BY <2>1, <2>2
  <1>23. OnePred
    <2>1. ASSUME NEW m1 \in live, NEW m2 \in live, next[m1] = next[m2], next[m1] # NULL
          PROVE  m1 = m2
      <3>1. m1 \in loaded /\ m2 \in loaded /\ m1 # node(1) /\ m2 # node(1)
        BY <1>7, <1>16, <2>1
      <3>2. nth[m1] - 1 = nth[m2] - 1 /\ nth[m1] \in Int /\ nth[m2] \in Int
        BY <1>2, <1>5, <1>15, <2>1, <3>1
      <3>3. nth[m1] = nth[m2]
        BY <3>2
      <3> QED
        BY <1>5, <3>1, <3>3
    <2>2. ASSUME NEW m \in live, NEW d \in live, next[m] = children[d], next[m] # NULL
          PROVE  FALSE
      <3>1. m \in loaded /\ m # node(1) /\ d = Root /\ loaded # {}
        BY <1>7, <1>16, <1>18, <2>2
      <3>2. nth[m] - 1 = count /\ nth[m] \in 1..count
        BY <1>5, <1>13, <1>15, <1>18, <1>19, <2>2, <3>1
      <3> QED
        BY <1>2, <3>2
    <2> QED
      BY <1>14, <2>1, <2>2 DEF OnePred
  <1>24. NextEnds
    <2> SUFFICES ASSUME NEW C \in SUBSET live, C # {} PROVE \E n \in C : next[n] \notin C
      BY DEF NextEnds
    <2>1. CASE Root \in C
      BY <1>11, <1>16, <2>1
    <2>2. CASE Root \notin C
      <3> DEFINE S == {nth[n] : n \in C}
      <3>1. C \subseteq loaded /\ S \in SUBSET Nat /\ S # {}
        BY <1>2, <1>5, <1>7, <2>2
      <3>2. Min(S) \in S /\ \A x \in S : Min(S) <= x
        <4> HIDE DEF S
        <4> QED
          BY <3>1, MinFacts
      <3>3. PICK n \in C : nth[n] = Min(S)
        BY <3>2
      <3>4. ASSUME next[n] \in C PROVE FALSE
        <4>1. n \in loaded /\ n # node(1)
          BY <1>11, <1>16, <3>1, <3>4
        <4>2. nth[next[n]] = nth[n] - 1 /\ nth[next[n]] \in S
          BY <1>15, <3>4, <4>1
        <4>3. nth[n] <= nth[n] - 1
          BY <3>2, <3>3, <4>2
        <4>4. nth[n] \in Int
          BY <1>2, <1>5, <4>1
        <4> QED
          BY <4>3, <4>4
      <3> QED
        BY <3>4
    <2> QED
      BY <2>1, <2>2
  <1>25. NextStarts
    <2> SUFFICES ASSUME NEW C \in SUBSET live, C # {} PROVE \E n \in C : \A m \in C : next[m] # n
      BY DEF NextStarts
    <2>1. \A m \in live : next[m] \in loaded \cup {NULL}
      BY <1>7, <1>15, <1>16
    <2>2. CASE Root \in C
      BY <1>11, <2>1, <2>2, Constants
    <2>3. CASE Root \notin C
      <3> DEFINE S == {count - nth[n] : n \in C}
      <3>1. C \subseteq loaded /\ S \in SUBSET Nat /\ S # {}
        BY <1>2, <1>5, <1>7, <2>3
      <3>2. Min(S) \in S /\ \A x \in S : Min(S) <= x
        <4> HIDE DEF S
        <4> QED
          BY <3>1, MinFacts
      <3>3. PICK n \in C : count - nth[n] = Min(S)
        BY <3>2
      <3>4. ASSUME NEW m \in C, next[m] = n PROVE FALSE
        <4>1. m \in loaded /\ m # node(1)
          BY <1>11, <1>16, <3>1, <3>4
        <4>2. nth[n] = nth[m] - 1 /\ count - nth[m] \in S
          BY <1>15, <3>4, <4>1
        <4>3. count - nth[n] <= count - nth[m]
          BY <3>2, <3>3, <4>2
        <4>4. nth[m] \in Int /\ count \in Int
          BY <1>2, <1>5, <4>1
        <4> QED
          BY <4>2, <4>3, <4>4
      <3> QED
        BY <3>4
    <2> QED
      BY <2>2, <2>3
  <1>26. ParentEnds
    BY <1>7, <1>17 DEF ParentEnds
  <1>27. FilesEmpty
    BY <1>7, <1>18 DEF FilesEmpty
  <1>28. ShellPlace
    BY <1>7, <1>14 DEF ShellPlace, Procs
  <1> QED
    BY <1>20, <1>21, <1>22, <1>23, <1>24, <1>25, <1>26, <1>27, <1>28 DEF Shape

(* A directory with a node under it has a head: otherwise the nodes under  *)
(* it would all have predecessors among themselves.                        *)
LEMMA NoOrphans ==
    ASSUME TypeInv, Shape, NEW n \in Hung \ {Root}
    PROVE  children[parent[n]] # NULL
PROOF
  <1> DEFINE d == parent[n]
             C == {m \in Hung \ {Root} : parent[m] = d}
  <1>1. C \in SUBSET live /\ C # {}
    BY DEF Hung
  <1>2. PICK x \in C : \A m \in C : next[m] # x
    <2> HIDE DEF C
    <2> QED
      BY <1>1 DEF Shape, NextStarts
  <1>3. ASSUME NEW m \in Hung, next[m] = x PROVE FALSE
    <2>1. x # NULL /\ m \in live
      BY TypeFields, Constants DEF Hung
    <2>2. parent[x] = parent[m] /\ m # Root
      BY <1>3, <2>1 DEF Shape, Linked, Under
    <2> QED
      BY <1>2, <1>3, <2>2
  <1>4. children[d] = x
    BY <1>2, <1>3 DEF Shape, HasPred
  <1> QED
    BY <1>4, TypeFields, Constants DEF Hung

(* Steps that leave the tree and the shell's place alone.                  *)
LEMMA SteadyShape ==
    ASSUME Shape, UNCHANGED <<live, dirs, parent, children, next, pc, loc>>, cwd'[Shell] = cwd[Shell]
    PROVE  Shape'
PROOF
  <1>1. UNCHANGED Hung
    BY DEF Hung, Pending
  <1>2. Linked'
    BY <1>1 DEF Shape, Linked, Under
  <1>3. Rooted'
    BY <1>1 DEF Shape, Rooted
  <1>4. HasPred' /\ OnePred'
    BY <1>1 DEF Shape, HasPred, OnePred
  <1>5. NextEnds' /\ NextStarts' /\ ParentEnds'
    BY DEF Shape, NextEnds, NextStarts, ParentEnds
  <1>6. FilesEmpty' /\ ShellPlace'
    BY <1>1 DEF Shape, FilesEmpty, ShellPlace
  <1> QED
    BY <1>2, <1>3, <1>4, <1>5, <1>6 DEF Shape

(* A node made in the directory of the shell: it points into the tree, and *)
(* nothing points to it.                                                   *)
LEMMA CreatedShape ==
    ASSUME TypeInv, TypeInv', Shape, pc = "prompt", NEW n \in Nodes \ live, NEW s, NEW directory \in BOOLEAN,
           Created(n, cwd[Shell], s, directory),
           loc'.dir = cwd[Shell], loc'.node = n, pc' = "insert", UNCHANGED cwd
    PROVE  Shape'
PROOF
  <1> DEFINE d == cwd[Shell]
  <1>1. Hung = live /\ Hung' = live /\ live' = live \cup {n}
    BY DEF Hung, Pending, Created
  <1>2. live \subseteq Nodes /\ Root \in live /\ NULL \notin Nodes
    BY TypeFields, Constants
  <1>3. d \in live \cap dirs
    BY <1>1 DEF Shape, ShellPlace
  <1> HIDE DEF d
  <1>4. /\ \A m \in live : parent'[m] = parent[m] /\ next'[m] = next[m] /\ children'[m] = children[m]
        /\ parent'[n] = d /\ next'[n] = children[d] /\ children'[n] = NULL
    BY <1>2, TypeFields DEF Created, Pointers, d
  <1>5. \A m \in live : m # n
    OBVIOUS
  <1>6. \A m \in live : Under(children[m], m) /\ Under(next[m], parent[m])
    BY DEF Shape, Linked
  <1>7. Linked'
    BY <1>1, <1>2, <1>3, <1>4, <1>6 DEF Shape, Linked, Under
  <1>8. Rooted'
    BY <1>1, <1>2, <1>3, <1>4 DEF Shape, Rooted
  <1>9. HasPred'
    <2> SUFFICES ASSUME NEW m \in live \ {Root}
                 PROVE  children'[parent'[m]] = m \/ \E k \in live : next'[k] = m
      BY <1>1 DEF HasPred
    <2>1. parent[m] \in live
      BY <1>1 DEF Shape, Rooted
    <2>2. children[parent[m]] = m \/ \E k \in live : next[k] = m
      BY <1>1 DEF Shape, HasPred
    <2> QED
      BY <1>4, <2>1, <2>2
  <1>10. OnePred'
    <2>1. \A m1, m2 \in live : next'[m1] = next'[m2] /\ next'[m1] # NULL => m1 = m2
      BY <1>1, <1>4 DEF Shape, OnePred
    <2>2. \A m \in live, k \in live \cup {n} : next'[m] = children'[k] => next'[m] = NULL
      BY <1>1, <1>4 DEF Shape, OnePred
    <2> QED
      BY <1>1, <2>1, <2>2 DEF OnePred
  <1>11. \A m \in live : next[m] # n /\ parent[m] # n /\ children[m] # n
    BY <1>1, <1>2, <1>6 DEF Shape, Rooted, Under
  <1>12. NextEnds'
    <2> SUFFICES ASSUME NEW C \in SUBSET (live \cup {n}), C # {} PROVE \E m \in C : next'[m] \notin C
      BY <1>1 DEF NextEnds
    <2>1. CASE C = {n}
      BY <1>3, <1>4, <1>11, <2>1
    <2>2. CASE C # {n}
      <3>1. C \ {n} \in SUBSET live /\ C \ {n} # {}
        BY <2>2
      <3>2. PICK m \in C \ {n} : next[m] \notin C \ {n}
        BY <3>1 DEF Shape, NextEnds
      <3> QED
        BY <1>4, <1>11, <3>1, <3>2
    <2> QED
      BY <2>1, <2>2
  <1>13. NextStarts'
    <2> SUFFICES ASSUME NEW C \in SUBSET (live \cup {n}), C # {}
                 PROVE  \E x \in C : \A m \in C : next'[m] # x
      BY <1>1 DEF NextStarts
    <2>1. CASE n \in C
      BY <1>3, <1>4, <1>11, <2>1
    <2>2. CASE n \notin C
      <3>1. C \in SUBSET live
        BY <2>2
      <3>2. PICK x \in C : \A m \in C : next[m] # x
        BY <3>1 DEF Shape, NextStarts
      <3> QED
        BY <1>4, <3>1, <3>2
    <2> QED
      BY <2>1, <2>2
  <1>14. ParentEnds'
    <2> SUFFICES ASSUME NEW C \in SUBSET ((live \cup {n}) \ {Root}), C # {}
                 PROVE  \E m \in C : parent'[m] \notin C
      BY <1>1 DEF ParentEnds
    <2>1. CASE C = {n}
      BY <1>3, <1>4, <2>1
    <2>2. CASE C # {n}
      <3>1. C \ {n} \in SUBSET (live \ {Root}) /\ C \ {n} # {}
        BY <2>2
      <3>2. PICK m \in C \ {n} : parent[m] \notin C \ {n}
        BY <3>1 DEF Shape, ParentEnds
      <3> QED
        BY <1>4, <1>11, <3>1, <3>2
    <2> QED
      BY <2>1, <2>2
  <1>15. FilesEmpty'
    BY <1>1, <1>4 DEF Created, Shape, FilesEmpty
  <1>16. ShellPlace'
    <2>1. cwd'[Shell] \in Hung' \cap dirs'
      BY <1>1, <1>3 DEF Created, d
    <2>2. loc'.node \in live' \ {Root} /\ parent'[loc'.node] = loc'.dir /\ children'[loc'.node] = NULL
          /\ next'[loc'.node] = children'[loc'.dir]
      BY <1>1, <1>2, <1>3, <1>4 DEF d
    <2> QED
      BY <2>1, <2>2 DEF ShellPlace
  <1> QED
    BY <1>7, <1>8, <1>9, <1>10, <1>12, <1>13, <1>14, <1>15, <1>16 DEF Shape

(* The node becomes the head of its list.                                  *)
LEMMA InsertedShape ==
    ASSUME TypeInv, Shape, pc = "insert",
           children' = [children EXCEPT ![loc.dir] = loc.node], pc' = "prompt",
           UNCHANGED <<live, dirs, parent, next, cwd>>
    PROVE  Shape'
PROOF
  <1> DEFINE d == cwd[Shell]
             n == loc.node
  <1>1. Hung = live \ {n} /\ Hung' = live
    BY DEF Hung, Pending
  <1>2. live \subseteq Nodes /\ Root \in live /\ NULL \notin Nodes
    BY TypeFields, Constants
  <1>3. /\ loc.dir = d /\ d \in Hung \cap dirs /\ n \in live \ {Root}
        /\ parent[n] = d /\ children[n] = NULL /\ next[n] = children[d]
    BY DEF Shape, ShellPlace
  <1> HIDE DEF d, n
  <1>4. children' = [children EXCEPT ![d] = n]
    BY <1>3 DEF n
  <1>5. \A m \in live : children'[m] = IF m = d THEN n ELSE children[m]
    BY <1>2, <1>4, TypeFields DEF Pointers
  <1>6. \A m \in live : Under(children[m], m) /\ Under(next[m], parent[m])
    BY DEF Shape, Linked
  <1>7. \A m \in live : next[m] # n /\ children[m] # n
    BY <1>1, <1>2, <1>3, <1>6 DEF Under
  <1>8. Linked'
    BY <1>1, <1>3, <1>5, <1>6 DEF Shape, Linked, Under
  <1>9. Rooted'
    BY <1>1 DEF Shape, Rooted
  <1>10. HasPred'
    <2> SUFFICES ASSUME NEW m \in live \ {Root}
                 PROVE  children'[parent[m]] = m \/ \E k \in live : next[k] = m
      BY <1>1 DEF HasPred
    <2>1. CASE m = n
      BY <1>1, <1>3, <1>5, <2>1
    <2>2. CASE m # n
      <3>1. parent[m] \in live /\ (children[parent[m]] = m \/ \E k \in Hung : next[k] = m)
        BY <1>1, <2>2 DEF Shape, HasPred, Rooted
      <3> QED
        BY <1>1, <1>3, <1>5, <3>1
    <2> QED
      BY <2>1, <2>2
  <1>11. OnePred'
    <2>1. \A m1, m2 \in Hung : next[m1] = next[m2] /\ next[m1] # NULL => m1 = m2
      BY DEF Shape, OnePred
    <2>2. \A m \in Hung, k \in live : next[m] = children[k] => next[m] = NULL
      BY DEF Shape, OnePred
    <2>3. \A m1, m2 \in live : next[m1] = next[m2] /\ next[m1] # NULL => m1 = m2
      BY <1>1, <1>3, <2>1, <2>2
    <2>4. \A m \in live, k \in live : next[m] = children'[k] => next[m] = NULL
      <3> SUFFICES ASSUME NEW m \in live, NEW k \in live, next[m] = children'[k] PROVE next[m] = NULL
        OBVIOUS
      <3>1. CASE k = d
        BY <1>5, <1>7, <3>1
      <3>2. CASE k # d
        <4>1. next[m] = children[k]
          BY <1>5, <3>2
        <4>2. CASE m # n
          BY <1>1, <2>2, <4>1, <4>2
        <4>3. CASE m = n
          BY <1>1, <1>3, <1>6, <3>2, <4>1, <4>3 DEF Under
        <4> QED
          BY <4>2, <4>3
      <3> QED
        BY <3>1, <3>2
    <2> QED
      BY <1>1, <2>3, <2>4 DEF OnePred
  <1>12. NextEnds' /\ NextStarts' /\ ParentEnds'
    BY DEF Shape, NextEnds, NextStarts, ParentEnds
  <1>13. FilesEmpty'
    BY <1>3, <1>5 DEF Shape, FilesEmpty
  <1>14. ShellPlace'
    BY <1>1, <1>3 DEF ShellPlace, d
  <1> QED
    BY <1>8, <1>9, <1>10, <1>11, <1>12, <1>13, <1>14 DEF Shape

(* The list of a live node d: nodes whose parent is d ...                  *)
LEMMA WalkUnder ==
    ASSUME TypeInv, Shape, NEW d \in live
    PROVE  \A k \in 0..Cardinality(Nodes) : Sibling(d)[k] = NULL
              \/ (Sibling(d)[k] \in Hung /\ parent[Sibling(d)[k]] = d)
PROOF
  <1> DEFINE n == Cardinality(Nodes)
             nth == Sibling(d)
             Fits(x) == x = NULL \/ (x \in Hung /\ parent[x] = d)
             S == {k \in 0..n : Fits(nth[k])}
  <1>1. /\ nth[0] = children[d]
        /\ \A i \in 1..n : nth[i] = IF nth[i - 1] \in live THEN next[nth[i - 1]] ELSE nth[i - 1]
    BY SiblingWalks, TypeFields DEF Walk
  <1>2. n \in Nat
    BY Constants
  <1> HIDE DEF n, nth
  <1>3. \A m \in live : Under(children[m], m) /\ Under(next[m], parent[m])
    BY DEF Shape, Linked
  <1>4. Hung \subseteq live /\ NULL \notin live
    BY TypeFields, Constants DEF Hung
  <1>5. 0 \in S
    BY <1>1, <1>2, <1>3 DEF Under
  <1>6. ASSUME NEW k \in 0..n - 1, k \in S PROVE k + 1 \in S
    <2>1. k + 1 \in 1..n /\ (k + 1) - 1 = k /\ Fits(nth[k])
      BY <1>2, <1>6
    <2>2. nth[k + 1] = IF nth[k] \in live THEN next[nth[k]] ELSE nth[k]
      BY <1>1, <2>1
    <2>3. Fits(nth[k + 1])
      BY <1>3, <1>4, <2>1, <2>2 DEF Under
    <2> HIDE DEF Fits
    <2> QED
      BY <2>1, <2>3
  <1>7. 0..n \subseteq S
    <2> HIDE DEF S
    <2>1. \A k \in 0..n - 1 : k \in S => k + 1 \in S
      BY <1>6
    <2> QED
      BY <1>2, <1>5, <2>1, UpTo
  <1> QED
    BY <1>7 DEF n, nth

(* ... it ends, as it has no cycle and there are only so many nodes ...    *)
LEMMA WalkEnds ==
    ASSUME TypeInv, Shape, NEW d \in live
    PROVE  Sibling(d)[Cardinality(Nodes)] = NULL
PROOF
  <1> DEFINE n == Cardinality(Nodes)
             nth == Sibling(d)
             S == {k \in 0..n : nth[n - k] # NULL}
  <1> SUFFICES ASSUME nth[n] # NULL PROVE FALSE
    OBVIOUS
  <1>1. \A i \in 1..n : nth[i] = IF nth[i - 1] \in live THEN next[nth[i - 1]] ELSE nth[i - 1]
    BY SiblingWalks, TypeFields DEF Walk
  <1>2. n \in Nat /\ IsFiniteSet(Nodes) /\ NULL \notin live /\ live \subseteq Nodes
    BY TypeFields, Constants
  <1>3. \A k \in 0..n : nth[k] = NULL \/ nth[k] \in live
    BY WalkUnder DEF Hung
  <1> HIDE DEF n, nth
  <1>4. 0 \in S
    BY <1>2
  <1>5. ASSUME NEW k \in 0..n - 1, k \in S PROVE k + 1 \in S
    <2> DEFINE i == n - k
    <2>1. i \in 1..n /\ i - 1 = n - (k + 1) /\ k + 1 \in 0..n /\ nth[i] # NULL
      BY <1>2, <1>5
    <2> HIDE DEF i
    <2>2. nth[i - 1] # NULL
      BY <1>1, <1>2, <2>1
    <2> QED
      BY <2>1, <2>2
  <1>6. 0..n \subseteq S
    <2> HIDE DEF S
    <2>1. \A k \in 0..n - 1 : k \in S => k + 1 \in S
      BY <1>5
    <2> QED
      BY <1>2, <1>4, <2>1, UpTo
  <1>7. ASSUME NEW k \in 0..n PROVE nth[k] \in live
    <2>1. n - k \in 0..n /\ n - (n - k) = k
      BY <1>2
    <2>2. n - k \in S
      BY <1>6, <2>1
    <2>3. nth[n - (n - k)] # NULL
      BY <2>2
    <2> QED
      BY <1>3, <2>1, <2>3
  <1>8. PICK i \in 0..n, j \in 0..n : i < j /\ nth[i] = nth[j]
    <2> DEFINE f == [k \in 0..n |-> nth[k]]
    <2>1. f \in [0..n -> Nodes]
      BY <1>2, <1>7
    <2>2. IsFiniteSet(0..n) /\ Cardinality(0..n) = n + 1
      <3>1. 0 \in Int /\ n \in Int /\ ~ (0 > n) /\ n - 0 + 1 = n + 1
        BY <1>2
      <3> QED
        BY <3>1, FS_Interval
    <2>3. Cardinality(Nodes) < Cardinality(0..n)
      BY <1>2, <2>2 DEF n
    <2> HIDE DEF f
    <2>4. \E x, y \in 0..n : x # y /\ f[x] = f[y]
      BY <1>2, <2>1, <2>2, <2>3, FS_PigeonHole, Zenon
    <2>5. PICK x \in 0..n, y \in 0..n : x # y /\ nth[x] = nth[y]
      BY <2>4 DEF f
    <2>6. x < y \/ y < x
      BY <1>2, <2>5
    <2> QED
      BY <2>5, <2>6
  <1> DEFINE C == {nth[k] : k \in i..j - 1}
  <1>9. C \in SUBSET live /\ C # {}
    BY <1>2, <1>7, <1>8
  <1>10. PICK x \in C : next[x] \notin C
    <2> HIDE DEF C
    <2> QED
      BY <1>9 DEF Shape, NextEnds
  <1>11. PICK k \in i..j - 1 : x = nth[k]
    BY <1>10
  <1>12. k + 1 \in 1..n /\ (k + 1) - 1 = k /\ k \in 0..n /\ (k + 1 \in i..j - 1 \/ k + 1 = j)
    BY <1>2, <1>8, <1>11
  <1>13. nth[k + 1] = next[x]
    BY <1>1, <1>7, <1>11, <1>12
  <1>14. i \in i..j - 1
    BY <1>2, <1>8
  <1>15. nth[k + 1] \in C
    BY <1>8, <1>12, <1>14
  <1> QED
    BY <1>10, <1>13, <1>15

(* ... and holds them all.                                                 *)
LEMMA WalkHolds ==
    ASSUME TypeInv, Shape, NEW d \in live, NEW n \in Hung, parent[n] = d
    PROVE  \E k \in 0..Cardinality(Nodes) : Sibling(d)[k] = n
PROOF
  <1> DEFINE size == Cardinality(Nodes)
             nth == Sibling(d)
             W == {nth[k] : k \in 0..size}
             C == {m \in Hung \ {Root} : parent[m] = d /\ m \notin W}
  <1> SUFFICES ASSUME n \notin W PROVE FALSE
    OBVIOUS
  <1>1. /\ nth[0] = children[d]
        /\ \A i \in 1..size : nth[i] = IF nth[i - 1] \in live THEN next[nth[i - 1]] ELSE nth[i - 1]
    BY SiblingWalks, TypeFields DEF Walk
  <1>2. nth[size] = NULL
    BY WalkEnds
  <1>3. size \in Nat /\ NULL \notin live /\ live \subseteq Nodes /\ Hung \subseteq live
    BY TypeFields, Constants DEF Hung
  <1> HIDE DEF size, nth
  <1>4. parent[Root] = NULL /\ next[Root] = NULL
    BY DEF Shape, Rooted, Linked
  <1>5. n \in C /\ C \in SUBSET live
    BY <1>3, <1>4
  <1>6. PICK x \in C : \A m \in C : next[m] # x
    <2> HIDE DEF C
    <2> QED
      BY <1>5 DEF Shape, NextStarts
  <1>7. x \in Hung \ {Root} /\ parent[x] = d /\ x \notin W
    BY <1>6
  <1>8. children[d] # x
    BY <1>1, <1>3, <1>7
  <1>9. PICK m \in Hung : next[m] = x
    BY <1>7, <1>8 DEF Shape, HasPred
  <1>10. parent[m] = d /\ m # Root
    BY <1>3, <1>4, <1>7, <1>9 DEF Shape, Linked, Under
  <1>11. PICK k \in 0..size : m = nth[k]
    <2>1. m \in W
      BY <1>6, <1>9, <1>10
    <2> QED
      BY <2>1
  <1>12. k # size
    BY <1>2, <1>3, <1>11
  <1>13. k + 1 \in 1..size /\ (k + 1) - 1 = k /\ k + 1 \in 0..size
    BY <1>3, <1>12
  <1>14. nth[k + 1] = x
    BY <1>1, <1>3, <1>9, <1>11, <1>13
  <1> QED
    BY <1>7, <1>13, <1>14

(* A search in the tree finds the first node of the name, if there is one, *)
(* and stays within it.                                                    *)
LEMMA SearchShape ==
    ASSUME TypeInv, Shape, NEW d \in live, NEW s, NEW found, found = Search(d, s)
    PROVE  /\ found.prev \in live \cup {NULL}
           /\ found.node \in Hung \cup {NULL}
           /\ found.node # NULL =>
                 /\ found.node # Root /\ name[found.node] = s /\ parent[found.node] = d
                 /\ found.prev = NULL => children[d] = found.node
                 /\ found.prev # NULL => next[found.prev] = found.node
           /\ found.node = NULL => \A n \in Hung : parent[n] = d => name[n] # s
PROOF
  <1> DEFINE n == Cardinality(Nodes)
             nth == Sibling(d)
             stops == {k \in DOMAIN nth : nth[k] \notin live \/ name[nth[k]] = s}
             at(k) == IF nth[k] \in live \cup {NULL} THEN nth[k] ELSE Wild
             k == Min(stops)
  <1>1. d \in Nodes /\ n \in Nat /\ NULL \notin live /\ NULL # Wild /\ live \subseteq Nodes /\ Hung \subseteq live
    BY TypeFields, Constants DEF Hung
  <1>2. DOMAIN nth = 0..n /\ nth[0] = children[d]
        /\ \A i \in 1..n : nth[i] = IF nth[i - 1] \in live THEN next[nth[i - 1]] ELSE nth[i - 1]
    BY <1>1, SiblingWalks, TypeFields DEF Walk
  <1>3. \A i \in 0..n : nth[i] = NULL \/ (nth[i] \in Hung /\ parent[nth[i]] = d)
    BY WalkUnder
  <1>4. nth[n] = NULL
    BY WalkEnds
  <1>5. \A m \in Hung : parent[m] = d => \E i \in 0..n : nth[i] = m
    BY WalkHolds
  <1> HIDE DEF n, nth
  <1>6. n \in stops
    BY <1>1, <1>2, <1>4
  <1>7. found = [node |-> at(k), prev |-> IF k = 0 THEN NULL ELSE nth[k - 1]]
    BY <1>6 DEF Search, nth
  <1>8. k \in stops /\ \A x \in stops : k <= x
    <2>1. stops \in SUBSET Nat
      BY <1>1, <1>2
    <2> HIDE DEF stops
    <2> QED
      BY <1>6, <2>1, MinFacts
  <1>9. k \in 0..n /\ (nth[k] = NULL \/ (nth[k] \in Hung /\ name[nth[k]] = s /\ parent[nth[k]] = d))
    BY <1>1, <1>2, <1>3, <1>8
  <1>10. \A i \in 0..n : i < k => nth[i] \in live /\ name[nth[i]] # s
    <2> SUFFICES ASSUME NEW i \in 0..n, i < k PROVE i \notin stops
      BY <1>2
    <2>1. k \in Int /\ i \in Int /\ ~ (k <= i)
      BY <1>1, <1>9
    <2> HIDE DEF stops
    <2> QED
      BY <1>8, <2>1
  <1>11. k # 0 => k - 1 \in 0..n /\ k \in 1..n /\ k - 1 < k
    BY <1>1, <1>9
  <1> HIDE DEF k, stops
  <1>12. k # 0 => nth[k - 1] \in live /\ nth[k] = next[nth[k - 1]]
    BY <1>2, <1>10, <1>11
  <1>13. found.node = nth[k] /\ found.prev = (IF k = 0 THEN NULL ELSE nth[k - 1])
    BY <1>1, <1>7, <1>9
  <1>14. ASSUME found.node = NULL, NEW m \in Hung, parent[m] = d, name[m] = s PROVE FALSE
    <2>1. PICK i \in 0..n : nth[i] = m
      BY <1>5, <1>14
    <2>2. ~ (i < k)
      BY <1>10, <1>14, <2>1
    <2> DEFINE S == {j \in 0..n : k + j <= n => nth[k + j] = NULL}
    <2>3. 0 \in S
      <3>1. k + 0 = k /\ 0 \in 0..n
        BY <1>1, <1>9
      <3>2. nth[k + 0] = NULL
        BY <1>13, <1>14, <3>1
      <3> QED
        BY <3>1, <3>2
    <2>4. ASSUME NEW j \in 0..n - 1, j \in S PROVE j + 1 \in S
      <3>1. j + 1 \in 0..n
        BY <1>1
      <3>2. ASSUME k + (j + 1) <= n PROVE nth[k + (j + 1)] = NULL
        <4>1. k + (j + 1) \in 1..n /\ (k + (j + 1)) - 1 = k + j /\ k + j <= n
          BY <1>1, <1>9, <3>2
        <4>2. nth[k + j] = NULL
          BY <2>4, <4>1
        <4> QED
          BY <1>1, <1>2, <4>1, <4>2
      <3> QED
        BY <3>1, <3>2
    <2>5. 0..n \subseteq S
      <3> HIDE DEF S
      <3>1. \A j \in 0..n - 1 : j \in S => j + 1 \in S
        BY <2>4
      <3> QED
        BY <1>1, <2>3, <3>1, UpTo
    <2>6. i - k \in 0..n /\ k + (i - k) = i
      BY <1>1, <1>9, <2>2
    <2>7. i - k \in S
      BY <2>5, <2>6
    <2>8. nth[i] = NULL
      BY <2>6, <2>7
    <2> QED
      BY <1>1, <2>1, <2>8
  <1>15. found.node # NULL => found.node # Root
    <2>1. parent[Root] = NULL /\ d # NULL
      BY <1>1 DEF Shape, Rooted
    <2> QED
      BY <1>9, <1>13, <2>1
  <1> QED
    BY <1>1, <1>2, <1>9, <1>12, <1>13, <1>14, <1>15

(* The shell finds the node that it is going to delete.                    *)
LEMMA FoundShape ==
    ASSUME TypeInv, Shape, pc = "prompt", NEW s, NEW found, found = Search(cwd[Shell], s),
           Deletable(found.node),
           loc' = [dir |-> cwd[Shell], node |-> found.node, prev |-> found.prev],
           pc' = "free", UNCHANGED <<live, dirs, parent, children, next, cwd>>
    PROVE  Shape'
PROOF
  <1> DEFINE n == found.node
             prev == found.prev
             d == cwd[Shell]
  <1>1. Hung = live /\ Hung' = live
    BY DEF Hung, Pending
  <1>2. d \in live \cap dirs /\ NULL \notin live
    BY <1>1, TypeFields, Constants DEF Shape, ShellPlace
  <1>3. n \in live /\ ~ (n \in dirs /\ children[n] # NULL)
    BY DEF Deletable
  <1>4. /\ n # Root /\ parent[n] = d
        /\ prev = NULL => children[d] = n
        /\ prev # NULL => prev \in live /\ next[prev] = n
    <2> HIDE DEF d
    <2>1. found = Search(d, s)
      BY DEF d
    <2> QED
      BY <1>2, <1>3, <2>1, SearchShape
  <1>5. loc'.dir = d /\ loc'.node = n /\ loc'.prev = prev
    OBVIOUS
  <1> HIDE DEF n, prev, d
  <1>6. Linked'
    BY <1>1 DEF Shape, Linked, Under
  <1>7. Rooted' /\ HasPred' /\ OnePred'
    BY <1>1 DEF Shape, Rooted, HasPred, OnePred
  <1>8. NextEnds' /\ NextStarts' /\ ParentEnds' /\ FilesEmpty'
    BY DEF Shape, NextEnds, NextStarts, ParentEnds, FilesEmpty
  <1>9. ShellPlace'
    BY <1>1, <1>2, <1>3, <1>4, <1>5 DEF ShellPlace, Shape, FilesEmpty, d
  <1> QED
    BY <1>6, <1>7, <1>8, <1>9 DEF Shape

(* The node is taken off its list and freed.                               *)
LEMMA UnlinkedShape ==
    ASSUME TypeInv, Shape, pc \in {"free", "unlink"}, Unlinked(loc.dir, loc.node, loc.prev), pc' = "prompt",
           UNCHANGED cwd
    PROVE  Shape'
PROOF
  <1> DEFINE d == cwd[Shell]
             n == loc.node
             prev == loc.prev
  <1>1. Hung = live /\ Hung' = live \ {n} /\ live' = live \ {n}
    BY DEF Hung, Pending, Unlinked
  <1>2. live \subseteq Nodes /\ Root \in live /\ NULL \notin live
    BY TypeFields, Constants
  <1>3. /\ loc.dir = d /\ d \in live \cap dirs /\ n \in live \ {Root}
        /\ parent[n] = d /\ children[n] = NULL
        /\ IF prev = NULL THEN children[d] = n ELSE prev \in live /\ next[prev] = n
    BY <1>1 DEF Shape, ShellPlace
  <1>4. /\ prev # NULL => next' = [next EXCEPT ![prev] = next[n]] /\ children' = children
        /\ prev = NULL => children' = [children EXCEPT ![d] = next[n]] /\ next' = next
        /\ UNCHANGED <<dirs, parent>>
    BY <1>3 DEF Unlinked
  <1> HIDE DEF d, n, prev
  <1>5. \A m \in live : Under(children[m], m) /\ Under(next[m], parent[m])
    BY DEF Shape, Linked
  <1>6. \A m1, m2 \in live : next[m1] = next[m2] /\ next[m1] # NULL => m1 = m2
    BY <1>1 DEF Shape, OnePred
  <1>7. \A m, k \in live : next[m] = children[k] => next[m] = NULL
    BY <1>1 DEF Shape, OnePred
  <1>8. next[n] # n /\ parent[n] # n
    <2>1. {n} \in SUBSET live /\ {n} # {} /\ {n} \in SUBSET (live \ {Root})
      BY <1>3
    <2>2. \E x \in {n} : next[x] \notin {n}
      BY <2>1 DEF Shape, NextEnds
    <2>3. \E x \in {n} : parent[x] \notin {n}
      BY <2>1 DEF Shape, ParentEnds
    <2> QED
      BY <2>2, <2>3
  <1>9. /\ \A m \in live : next'[m] = IF m = prev THEN next[n] ELSE next[m]
        /\ \A m \in live : children'[m] = IF prev = NULL /\ m = d THEN next[n] ELSE children[m]
    <2>1. CASE prev = NULL
      BY <1>2, <1>4, <2>1, TypeFields DEF Pointers
    <2>2. CASE prev # NULL
      BY <1>2, <1>4, <2>2, TypeFields DEF Pointers
    <2> QED
      BY <2>1, <2>2
  <1>10. next[n] # NULL => next[n] \in live \ {n} /\ parent[next[n]] = d
    BY <1>1, <1>3, <1>5, <1>8 DEF Under
  <1>11. prev # NULL => prev \in live /\ prev # n /\ parent[prev] = d
    BY <1>1, <1>2, <1>3, <1>5, <1>8 DEF Under
  <1>12. \A m \in live \ {n} : next'[m] # n
    BY <1>2, <1>3, <1>6, <1>7, <1>8, <1>9
  <1>13. \A m \in live \ {n} : children'[m] # n
    BY <1>1, <1>2, <1>3, <1>5, <1>7, <1>8, <1>9 DEF Under
  <1>14. \A m \in live \ {n} : Under(children'[m], m) /\ Under(next'[m], parent[m])
    BY <1>1, <1>2, <1>3, <1>5, <1>9, <1>10, <1>11 DEF Under
  <1>15. \A m \in live : parent[m] # n
    <2> SUFFICES ASSUME NEW m \in live, parent[m] = n PROVE FALSE
      OBVIOUS
    <2>1. m # Root
      BY <1>2, <1>3 DEF Shape, Rooted
    <2>2. children[parent[m]] # NULL
      BY <1>1, <2>1, NoOrphans
    <2> QED
      BY <1>3, <2>2
  <1>16. Linked'
    <2>1. next'[Root] = NULL
      <3>1. next[Root] = NULL
        BY DEF Shape, Linked
      <3>2. parent[Root] # d
        BY <1>2, <1>3 DEF Shape, Rooted
      <3> QED
        BY <1>2, <1>9, <1>11, <3>1, <3>2
    <2>2. \A m \in live' : Under(children[m], m)' /\ Under(next[m], parent[m])'
      BY <1>1, <1>4, <1>12, <1>13, <1>14 DEF Under
    <2> QED
      BY <2>1, <2>2 DEF Linked
  <1>17. Rooted'
    BY <1>1, <1>4, <1>15 DEF Shape, Rooted
  <1>18. HasPred'
    <2> SUFFICES ASSUME NEW m \in live \ {Root, n}
                 PROVE  children'[parent[m]] = m \/ \E k \in live \ {n} : next'[k] = m
      BY <1>1, <1>4 DEF HasPred
    <2>1. parent[m] \in live
      BY <1>1 DEF Shape, Rooted
    <2>2. CASE children[parent[m]] = m
      BY <1>3, <1>9, <2>1, <2>2
    <2>3. CASE \E k \in live : next[k] = m
      <3>1. PICK k \in live : next[k] = m
        BY <2>3
      <3>2. CASE k = n
        <4>1. CASE prev = NULL
          <5>1. parent[m] = d
            BY <1>2, <1>10, <3>1, <3>2
          <5> QED
            BY <1>3, <1>9, <3>1, <3>2, <4>1, <5>1
        <4>2. CASE prev # NULL
          BY <1>9, <1>11, <3>1, <3>2, <4>2
        <4> QED
          BY <4>1, <4>2
      <3>3. CASE k # n
        <4>1. k # prev
          BY <1>2, <1>3, <3>1
        <4> QED
          BY <1>9, <3>1, <3>3, <4>1
      <3> QED
        BY <3>2, <3>3
    <2>4. children[parent[m]] = m \/ \E k \in live : next[k] = m
      BY <1>1 DEF Shape, HasPred
    <2> QED
      BY <2>2, <2>3, <2>4
  <1>19. OnePred'
    <2>1. \A m1, m2 \in live \ {n} : next'[m1] = next'[m2] /\ next'[m1] # NULL => m1 = m2
      BY <1>3, <1>6, <1>9
    <2>2. \A m, k \in live \ {n} : next'[m] = children'[k] => next'[m] = NULL
      BY <1>2, <1>3, <1>6, <1>7, <1>9
    <2> QED
      BY <1>1, <2>1, <2>2 DEF OnePred
  <1>20. NextEnds'
    <2> SUFFICES ASSUME NEW C \in SUBSET (live \ {n}), C # {} PROVE \E m \in C : next'[m] \notin C
      BY <1>1 DEF NextEnds
    <2>1. CASE prev \notin C
      <3>1. C \in SUBSET live
        OBVIOUS
      <3>2. PICK m \in C : next[m] \notin C
        BY <3>1 DEF Shape, NextEnds
      <3> QED
        BY <1>9, <2>1, <3>2
    <2>2. CASE prev \in C
      <3>1. C \cup {n} \in SUBSET live /\ C \cup {n} # {} /\ next[prev] = n
        BY <1>2, <1>3, <2>2
      <3>2. PICK m \in C \cup {n} : next[m] \notin C \cup {n}
        BY <3>1 DEF Shape, NextEnds
      <3> QED
        BY <1>9, <2>2, <3>1, <3>2
    <2> QED
      BY <2>1, <2>2
  <1>21. NextStarts'
    <2> SUFFICES ASSUME NEW C \in SUBSET (live \ {n}), C # {}
                 PROVE  \E x \in C : \A m \in C : next'[m] # x
      BY <1>1 DEF NextStarts
    <2>1. CASE prev \notin C
      <3>1. C \in SUBSET live
        OBVIOUS
      <3>2. PICK x \in C : \A m \in C : next[m] # x
        BY <3>1 DEF Shape, NextStarts
      <3> QED
        BY <1>9, <2>1, <3>2
    <2>2. CASE prev \in C
      <3>1. C \cup {n} \in SUBSET live /\ C \cup {n} # {} /\ next[prev] = n
        BY <1>2, <1>3, <2>2
      <3>2. PICK x \in C \cup {n} : \A m \in C \cup {n} : next[m] # x
        BY <3>1 DEF Shape, NextStarts
      <3> QED
        BY <1>9, <2>2, <3>1, <3>2
    <2> QED
      BY <2>1, <2>2
  <1>22. ParentEnds'
    BY <1>1, <1>4 DEF Shape, ParentEnds
  <1>23. FilesEmpty'
    BY <1>1, <1>3, <1>4, <1>9 DEF Shape, FilesEmpty
  <1>24. ShellPlace'
    BY <1>1, <1>3, <1>4, <1>8 DEF ShellPlace, d
  <1> QED
    BY <1>16, <1>17, <1>18, <1>19, <1>20, <1>21, <1>22, <1>23, <1>24 DEF Shape

(* A path of the shell leads to a node of the tree, or to none.            *)
LEMMA ShellResolves ==
    ASSUME TypeInv, Shape, pc = "prompt", NEW path \in Paths
    PROVE  fs_resolve_path(Shell, path) \in Hung \cup {NULL}
PROOF
  <1> DEFINE T == Hung \cup {NULL}
  <1>1. Hung = live /\ Wild \notin live /\ NULL \notin live /\ NULL # Wild /\ live \subseteq Nodes
    BY TypeFields, Constants DEF Hung, Pending
  <1>2. Root \in T /\ cwd[Shell] \in T
    BY <1>1, TypeFields DEF Shape, ShellPlace
  <1>3. ASSUME NEW x \in T, NEW c \in Names \cup {Up} PROVE Component(x, c) \in T
    <2>1. CASE x \in live
      <3> DEFINE found == Search(x, Stored[c])
      <3>1. found.node \in Hung \cup {NULL}
        BY <2>1, SearchShape
      <3> HIDE DEF found
      <3>2. parent[x] \in Hung \cup {NULL}
        BY <1>1, <2>1 DEF Shape, Rooted
      <3> QED
        BY <1>1, <2>1, <3>1, <3>2 DEF Component, fs_find_child, found
    <2>2. CASE x = NULL
      BY <2>2 DEF Component
    <2> QED
      BY <1>1, <1>3, <2>1, <2>2
  <1> HIDE DEF T
  <1>4. fs_resolve_path(Shell, path) \in T
    BY <1>2, <1>3, ResolveStays
  <1> QED
    BY <1>4 DEF T

(* Once a program that deletes has run, nobody is alone any more.          *)
LEMMA AloneBefore ==
    ASSUME TypeInv, [Next]_vars, Alone'
    PROVE  Alone
PROOF
  <1>1. started' = started \/ \E p \in Programs : started' = started \cup {p}
    <2>1. \A s \in Names, directory \in BOOLEAN : fs_mkdir_or_touch(s, directory) => UNCHANGED started
      BY DEF fs_mkdir_or_touch, Misuse
    <2>2. fs_insert_child \/ fs_delete_data \/ fs_delete_unlink => UNCHANGED started
      BY DEF fs_insert_child, fs_delete_data, fs_delete_unlink, Misuse
    <2>3. \A s \in Names : fs_delete(s) => UNCHANGED started
      BY DEF fs_delete, Misuse
    <2>4. \A p \in Programs : create_process(p) => started' = started \cup {p}
      BY DEF create_process
    <2>5. \A p \in Procs, path \in Paths : sys_chdir(p, path) => UNCHANGED started
      BY DEF sys_chdir, Misuse
    <2>6. \A p \in Programs, path \in Paths : SYS_OPEN(p, path) => UNCHANGED started
      BY DEF SYS_OPEN, Misuse
    <2>7. \A p \in Programs, f \in Fds :
             SYS_CLOSE(p, f) \/ (\E size \in Sizes : SYS_FREAD(p, f, size) \/ SYS_WRITE(p, f, size))
                => UNCHANGED started
      <3>1. \A p, f : BadDescriptor(p, f) => UNCHANGED started
        BY DEF BadDescriptor, Misuse
      <3>2. \A p, f : SYS_CLOSE(p, f) => UNCHANGED started
        BY DEF SYS_CLOSE
      <3>3. \A p, f, size : SYS_FREAD(p, f, size) => UNCHANGED started
        BY <3>1 DEF SYS_FREAD, Misuse
      <3>4. \A p, f, size : SYS_WRITE(p, f, size) => UNCHANGED started
        BY <3>1 DEF SYS_WRITE, Misuse
      <3> QED
        BY <3>2, <3>3, <3>4
    <2>8. \A p \in Programs, s \in Names : SYS_UNLINK(p, s) => UNCHANGED started
      BY DEF SYS_UNLINK, Misuse
    <2>9. UNCHANGED vars => UNCHANGED started
      BY DEF vars
    <2> QED
      BY <2>1, <2>2, <2>3, <2>4, <2>5, <2>6, <2>7, <2>8, <2>9 DEF Next
  <1> QED
    BY <1>1, Constants DEF Alone

LEMMA ShapeNext ==
    ASSUME TypeInv, TypeInv', Shape, [Next]_vars, Alone'
    PROVE  Shape'
PROOF
  <1> DEFINE steady == UNCHANGED <<live, dirs, parent, children, next, pc, loc>> /\ cwd'[Shell] = cwd[Shell]
  <1>1. CASE Misuse
    <2>1. steady
      BY <1>1 DEF Misuse, tree, shell
    <2> QED
      BY <2>1, SteadyShape
  <1>2. ASSUME ~ Misuse, NEW s \in Names, NEW directory \in BOOLEAN, fs_mkdir_or_touch(s, directory)
        PROVE  Shape'
    <2>1. PICK n \in Nodes \ live :
             /\ Created(n, cwd[Shell], Stored[s], directory)
             /\ loc' = [NoLocals EXCEPT !.dir = cwd[Shell], !.node = n]
      BY <1>2 DEF fs_mkdir_or_touch
    <2>2. loc'.dir = cwd[Shell] /\ loc'.node = n
      BY <2>1 DEF NoLocals
    <2>3. pc = "prompt" /\ pc' = "insert" /\ UNCHANGED cwd
      BY <1>2 DEF fs_mkdir_or_touch
    <2> QED
      BY <2>1, <2>2, <2>3, CreatedShape
  <1>3. CASE ~ Misuse /\ fs_insert_child
    <2>1. /\ pc = "insert" /\ children' = [children EXCEPT ![loc.dir] = loc.node] /\ pc' = "prompt"
          /\ UNCHANGED <<live, dirs, parent, next, cwd>>
      BY <1>3 DEF fs_insert_child
    <2> QED
      BY <2>1, InsertedShape
  <1>4. ASSUME ~ Misuse, NEW s \in Names, fs_delete(s) PROVE Shape'
    <2> DEFINE found == Search(cwd[Shell], s)
    <2>1. /\ pc = "prompt" /\ Deletable(found.node) /\ pc' = "free"
          /\ loc' = [dir |-> cwd[Shell], node |-> found.node, prev |-> found.prev]
          /\ UNCHANGED <<tree, cwd>>
      BY <1>4 DEF fs_delete
    <2>2. found = Search(cwd[Shell], s)
      OBVIOUS
    <2> HIDE DEF found
    <2>3. UNCHANGED <<live, dirs, parent, children, next, cwd>>
      BY <2>1 DEF tree
    <2> QED
      BY <2>1, <2>2, <2>3, FoundShape
  <1>5. CASE ~ Misuse /\ fs_delete_unlink
    <2>1. pc \in {"free", "unlink"} /\ Unlinked(loc.dir, loc.node, loc.prev) /\ pc' = "prompt" /\ UNCHANGED cwd
      BY <1>5 DEF fs_delete_unlink
    <2> QED
      BY <2>1, UnlinkedShape
  <1>6. ASSUME NEW p \in Programs, create_process(p) PROVE Shape'
    <2>1. p # Shell /\ Shell \in Procs
      BY Constants DEF Procs
    <2>2. steady
      BY <1>6, <2>1, TypeFields DEF create_process, tree, shell
    <2> QED
      BY <2>2, SteadyShape
  <1>7. ASSUME ~ Misuse, NEW p \in Procs, NEW path \in Paths, sys_chdir(p, path) PROVE Shape'
    <2> DEFINE d == fs_resolve_path(p, path)
    <2>1. /\ UNCHANGED <<tree, shell>> /\ Calling(p)
          /\ cwd' = cwd \/ (d \in live \cap dirs /\ cwd' = [cwd EXCEPT ![p] = d])
      BY <1>7 DEF sys_chdir
    <2> HIDE DEF d
    <2>2. UNCHANGED <<live, dirs, parent, children, next, pc, loc>>
      BY <2>1 DEF tree, shell
    <2>3. Shell \in Procs
      BY DEF Procs
    <2>4. CASE p = Shell /\ d \in live \cap dirs /\ cwd' = [cwd EXCEPT ![p] = d]
      <3>1. pc = "prompt" /\ Hung = live /\ UNCHANGED Hung
        BY <2>1, <2>2, <2>4 DEF Calling, Hung, Pending
      <3>2. cwd'[Shell] = d
        BY <2>3, <2>4, TypeFields
      <3>3. Linked' /\ Rooted' /\ HasPred' /\ OnePred'
        BY <2>2, <3>1 DEF Shape, Linked, Under, Rooted, HasPred, OnePred
      <3>4. NextEnds' /\ NextStarts' /\ ParentEnds' /\ FilesEmpty'
        BY <2>2 DEF Shape, NextEnds, NextStarts, ParentEnds, FilesEmpty
      <3>5. ShellPlace'
        BY <2>2, <2>4, <3>1, <3>2 DEF ShellPlace
      <3> QED
        BY <3>3, <3>4, <3>5 DEF Shape
    <2>5. CASE cwd'[Shell] = cwd[Shell]
      BY <2>2, <2>5, SteadyShape
    <2>6. p # Shell /\ cwd' = [cwd EXCEPT ![p] = d] => cwd'[Shell] = cwd[Shell]
      BY <2>3, TypeFields
    <2> QED
      BY <2>1, <2>4, <2>5, <2>6
  <1>8. ASSUME ~ Misuse, NEW p \in Programs, NEW path \in Paths, SYS_OPEN(p, path) PROVE Shape'
    <2>1. UNCHANGED <<tree, cwd, shell>>
      BY <1>8 DEF SYS_OPEN
    <2>2. steady
      BY <2>1 DEF tree, shell
    <2> QED
      BY <2>2, SteadyShape
  <1>9. ASSUME ~ Misuse, NEW p \in Programs, NEW f \in Fds,
               SYS_CLOSE(p, f) \/ \E size \in Sizes : SYS_FREAD(p, f, size) \/ SYS_WRITE(p, f, size)
        PROVE  Shape'
    <2>1. steady
      BY <1>9 DEF SYS_CLOSE, SYS_FREAD, SYS_WRITE, BadDescriptor, tree, shell
    <2> QED
      BY <2>1, SteadyShape
  <1>10. ASSUME ~ Misuse, NEW p \in Programs, NEW s \in Names, SYS_UNLINK(p, s) PROVE FALSE
    <2>1. p \in started' /\ Unlinkers # {} /\ p # Shell
      BY <1>10, Constants DEF SYS_UNLINK, Calling
    <2> QED
      BY <2>1 DEF Alone
  <1>11. CASE UNCHANGED vars
    <2>1. steady
      BY <1>11 DEF vars, tree, shell
    <2> QED
      BY <2>1, SteadyShape
  <1>12. CASE ~ Misuse /\ fs_delete_data
    <2>1. /\ pc = "free" /\ pc' = "unlink"
          /\ UNCHANGED <<live, dirs, parent, children, next, cwd, loc>>
      BY <1>12 DEF fs_delete_data, tree
    <2>2. UNCHANGED Hung
      BY <2>1 DEF Hung, Pending
    <2>3. Linked' /\ Rooted' /\ HasPred' /\ OnePred'
      BY <2>1, <2>2 DEF Shape, Linked, Under, Rooted, HasPred, OnePred
    <2>4. NextEnds' /\ NextStarts' /\ ParentEnds' /\ FilesEmpty'
      BY <2>1 DEF Shape, NextEnds, NextStarts, ParentEnds, FilesEmpty
    <2>5. ShellPlace'
      BY <2>1, <2>2 DEF Shape, ShellPlace
    <2> QED
      BY <2>3, <2>4, <2>5 DEF Shape
  <1> HIDE DEF steady
  <1> QED
    BY <1>1, <1>2, <1>3, <1>4, <1>5, <1>6, <1>7, <1>8, <1>9, <1>10, <1>11, <1>12, Zenon DEF Next

LEMMA AlwaysTreeInv == Spec => []TreeInv
PROOF
  <1>1. Init => TreeInv
    BY InitTyped, InitShape DEF TreeInv
  <1>2. TreeInv /\ [Next]_vars => TreeInv'
    <2> SUFFICES ASSUME TreeInv, [Next]_vars PROVE TreeInv'
      OBVIOUS
    <2>1. TypeInv /\ TypeInv'
      BY TypeNext DEF TreeInv
    <2>2. ASSUME Alone' PROVE Shape'
      <3>1. Alone
        BY <2>1, <2>2, AloneBefore
      <3> QED
        BY <2>1, <2>2, <3>1, ShapeNext DEF TreeInv
    <2> QED
      BY <2>1, <2>2 DEF TreeInv
  <1> QED
    BY <1>1, <1>2, PTL DEF Spec

LEMMA ShapeIsTree == TypeInv /\ Shape => Tree
PROOF
  <1> SUFFICES ASSUME TypeInv, Shape PROVE Tree
    OBVIOUS
  <1> DEFINE n == Cardinality(Nodes)
  <1>1. ASSUME NEW d \in live PROVE InList(d) = {m \in live \ Pending : parent[m] = d} \cup {NULL}
    <2> DEFINE nth == Sibling(d)
               listed == {m \in Hung : parent[m] = d}
    <2>1. DOMAIN nth = 0..n
      BY SiblingWalks, TypeFields
    <2>2. InList(d) = {nth[k] : k \in 0..n}
      BY <2>1 DEF InList
    <2>3. \A k \in 0..n : nth[k] = NULL \/ (nth[k] \in Hung /\ parent[nth[k]] = d)
      BY WalkUnder
    <2>4. nth[n] = NULL /\ n \in 0..n
      BY WalkEnds, Constants
    <2>5. \A m \in Hung : parent[m] = d => \E k \in 0..n : nth[k] = m
      BY WalkHolds
    <2> HIDE DEF nth, n
    <2>6. {nth[k] : k \in 0..n} = listed \cup {NULL}
      BY <2>3, <2>4, <2>5
    <2> QED
      BY <2>2, <2>6 DEF Hung
  <1>2. \A d \in live \ dirs : children[d] = NULL
    BY DEF Shape, FilesEmpty
  <1>3. \A C \in (SUBSET (live \ {Root})) \ {{}} : \E m \in C : parent[m] \notin C
    BY DEF Shape, ParentEnds
  <1> QED
    BY <1>1, <1>2, <1>3 DEF Tree

(* While only the shell deletes, the pointers form one tree at every step  *)
(* of fs_mkdir, fs_touch and fs_delete, whatever the programs do between   *)
(* them: a walk along a list ends and meets the nodes of its directory and *)
(* no other.  (fs_insert_child and fs_delete in fs.c.)                     *)
THEOREM AlwaysTree == Spec => [](Alone => Tree)
PROOF
  <1>1. TreeInv => (Alone => Tree)
    BY ShapeIsTree DEF TreeInv
  <1> QED
    BY <1>1, AlwaysTreeInv, PTL

(* ... and the working directory of the shell is a directory of it         *)
(* (fs_delete refuses a directory that is not empty, and the shell names   *)
(* only what is in its working directory).                                 *)
THEOREM CwdAlwaysLive == Spec => [](Alone => CwdLive)
PROOF
  <1>1. TreeInv => (Alone => CwdLive)
    BY DEF TreeInv, Shape, ShellPlace, Hung, CwdLive
  <1> QED
    BY <1>1, AlwaysTreeInv, PTL

(* The shell, on its own, uses nothing that was freed.                     *)
LEMMA SoundNext ==
    ASSUME TypeInv, Alone => Shape, Sound, [Next]_vars
    PROVE  Sound'
PROOF
  <1> SUFFICES ASSUME fault', started' = {Shell}, ~ fault PROVE FALSE
    <2>1. started = {Shell} => Alone
      BY DEF Alone
    <2>2. ASSUME fault PROVE started' # {Shell}
      <3>1. CASE UNCHANGED vars
        BY <2>2, <3>1 DEF vars, Sound
      <3>2. CASE Next
        <4>1. FALSE
          BY <2>2, <3>2 DEF Next, fs_mkdir_or_touch, fs_insert_child, fs_delete, fs_delete_data, fs_delete_unlink,
             create_process, sys_chdir, SYS_OPEN, SYS_CLOSE, SYS_FREAD, SYS_WRITE, SYS_UNLINK, Calling
        <4> QED
          BY <4>1
      <3> QED
        BY <3>1, <3>2
    <2> QED
      BY <2>2 DEF Sound
  <1>1. started' = {Shell} /\ Alone'
    BY DEF Alone
  <1>2. Alone /\ Shape
    BY <1>1, AloneBefore
  <1>3. UNCHANGED vars \/ Next
    OBVIOUS
  <1>4. ~ UNCHANGED vars
    BY DEF vars
  <1>5. Hung \subseteq live /\ Wild \notin live /\ NULL \notin live /\ live \subseteq Nodes /\ NULL # Wild
    BY TypeFields, Constants DEF Hung
  <1>6. ASSUME Misuse, NEW p, p \in Programs, Calling(p) PROVE FALSE
    BY <1>6, Constants DEF Calling, Misuse
  <1>7. cwd[Shell] \in live
    BY <1>2, <1>5 DEF Shape, ShellPlace
  <1>8. \A s : Search(cwd[Shell], s).node # Wild
    BY <1>2, <1>5, <1>7, SearchShape
  <1>9. ASSUME NEW s \in Names, NEW directory \in BOOLEAN, fs_mkdir_or_touch(s, directory) PROVE FALSE
    <2>1. fs_find_child(cwd[Shell], s) # Wild
      BY <1>5, <1>8 DEF fs_find_child
    <2> QED
      BY <1>9, <2>1 DEF fs_mkdir_or_touch
  <1>10. ASSUME fs_insert_child PROVE FALSE
    <2>1. loc.dir \in live
      BY <1>2, <1>7, <1>10 DEF fs_insert_child, Shape, ShellPlace
    <2> QED
      BY <1>10, <2>1 DEF fs_insert_child
  <1>11. ASSUME NEW s \in Names, fs_delete(s) PROVE FALSE
    BY <1>8, <1>11 DEF fs_delete
  <1>12. ASSUME fs_delete_unlink PROVE FALSE
    <2>1. {loc.dir, loc.node, loc.prev} \ {NULL} \subseteq live
      BY <1>2, <1>7, <1>12 DEF fs_delete_unlink, Shape, ShellPlace
    <2> QED
      BY <1>12, <2>1 DEF fs_delete_unlink
  <1>18. ASSUME fs_delete_data PROVE FALSE
    <2>1. loc.node \in live
      BY <1>2, <1>18 DEF fs_delete_data, Shape, ShellPlace
    <2> QED
      BY <1>18, <2>1 DEF fs_delete_data
  <1>13. ASSUME NEW p \in Programs, create_process(p) PROVE FALSE
    BY <1>13 DEF create_process
  <1>14. ASSUME NEW p \in Procs, NEW path \in Paths, sys_chdir(p, path) PROVE FALSE
    <2>1. CASE p \in Programs
      <3>1. Misuse /\ Calling(p)
        BY <1>14 DEF sys_chdir
      <3> QED
        BY <1>6, <2>1, <3>1
    <2>2. CASE p = Shell
      <3>1. pc = "prompt"
        BY <1>14, <2>2 DEF sys_chdir, Calling
      <3>2. fs_resolve_path(Shell, path) \in Hung \cup {NULL}
        BY <1>2, <3>1, ShellResolves
      <3> QED
        BY <1>5, <1>14, <2>2, <3>2, Constants DEF sys_chdir
    <2> QED
      BY <2>1, <2>2 DEF Procs
  <1>15. ASSUME NEW p \in Programs, NEW path \in Paths, SYS_OPEN(p, path) PROVE FALSE
    <2>1. Misuse /\ Calling(p)
      BY <1>15 DEF SYS_OPEN
    <2> QED
      BY <1>6, <2>1
  <1>16. ASSUME NEW p \in Programs, NEW f \in Fds,
                SYS_CLOSE(p, f) \/ \E size \in Sizes : SYS_FREAD(p, f, size) \/ SYS_WRITE(p, f, size)
         PROVE  FALSE
    <2>1. Calling(p)
      BY <1>16 DEF SYS_CLOSE, SYS_FREAD, SYS_WRITE
    <2>2. p \in started'
      <3>1. p \in started
        BY <2>1 DEF Calling
      <3>2. UNCHANGED started
        <4>1. BadDescriptor(p, f) => UNCHANGED started
          BY DEF BadDescriptor, Misuse
        <4> QED
          BY <1>16, <4>1 DEF SYS_CLOSE, SYS_FREAD, SYS_WRITE, Misuse
      <3> QED
        BY <3>1, <3>2
    <2> QED
      BY <2>2, Constants
  <1>17. ASSUME NEW p \in Programs, NEW s \in Names, SYS_UNLINK(p, s) PROVE FALSE
    <2>1. Misuse /\ Calling(p)
      BY <1>17 DEF SYS_UNLINK
    <2> QED
      BY <1>6, <2>1
  <1> QED
    BY <1>3, <1>4, <1>9, <1>10, <1>11, <1>12, <1>13, <1>14, <1>15, <1>16, <1>17, <1>18, Zenon DEF Next

(* As long as no program runs, no command of the shell uses memory that    *)
(* was given back: the nodes it keeps between two of its steps, its        *)
(* working directory and all that a path or a search meets are allocated.  *)
THEOREM AlwaysSound == Spec => []Sound
PROOF
  <1>1. Init => Sound
    BY DEF Init, Sound
  <1>2. TreeInv /\ Sound /\ [Next]_vars => Sound'
    BY SoundNext DEF TreeInv
  <1> QED
    BY <1>1, <1>2, AlwaysTreeInv, PTL DEF Spec

-----------------------------------------------------------------------------
(* Names.                                                                  *)

DistinctModuleNames == \A i, j \in DOMAIN Modules : i # j => Modules[i].name # Modules[j].name

(* Two nodes of one directory have one name only where it was cut.         *)
UniqueNames ==
    \A m, n \in live \ {Root} : parent[m] = parent[n] /\ name[m] = name[n] => m = n \/ Cut(name[n])

LEMMA InitUnique == ASSUME DistinctModuleNames PROVE Init => UniqueNames
PROOF
  <1> SUFFICES ASSUME Init PROVE UniqueNames
    OBVIOUS
  <1> DEFINE loaded == {m.node : m \in Range(Modules)}
             nth == [n \in loaded |-> CHOOSE i \in DOMAIN Modules : Modules[i].node = n]
             typed(i) == Modules[i].name
  <1>1. /\ Modules \in Seq([node : Nodes \ {Root}, name : Names, size : Nat])
        /\ Stored \in [Names -> Names]
    BY FsAssumption DEF FsAssumption
  <1>2. \A i \in DOMAIN Modules : typed(i) \in Names /\ Modules[i].node \in Nodes
    <2> DEFINE Module == [node : Nodes \ {Root}, name : Names, size : Nat]
    <2>1. \A x \in Module : x.name \in Names /\ x.node \in Nodes
      OBVIOUS
    <2>2. Modules \in Seq(Module)
      BY <1>1
    <2> HIDE DEF Module
    <2>3. \A i \in DOMAIN Modules : Modules[i] \in Module
      BY <2>2, LenProperties, ElementOfSeq
    <2> QED
      BY <2>1, <2>3
  <1>3. loaded = {Modules[i].node : i \in DOMAIN Modules}
    BY DEF Range
  <1>4. \A n \in loaded : nth[n] \in DOMAIN Modules /\ Modules[nth[n]].node = n
    BY <1>3
  <1>5. live = {Root} \cup loaded
    BY DEF Init
  <1>6. name = [n \in Nodes |-> IF n \in loaded THEN Stored[typed(nth[n])] ELSE NULL]
    BY DEF Init
  <1>7. \A i, j \in DOMAIN Modules : i # j => typed(i) # typed(j)
    BY DEF DistinctModuleNames
  <1>8. loaded \subseteq Nodes
    BY <1>2, <1>3
  <1> HIDE DEF loaded, nth, typed
  <1>9. \A n \in loaded : name[n] = Stored[typed(nth[n])]
    BY <1>6, <1>8
  <1>10. ASSUME NEW m \in loaded, NEW n \in loaded, name[m] = name[n], m # n
         PROVE  Cut(name[n])
    <2>1. nth[m] # nth[n] /\ nth[m] \in DOMAIN Modules /\ nth[n] \in DOMAIN Modules
      BY <1>4, <1>10
    <2>2. typed(nth[m]) # typed(nth[n]) /\ typed(nth[m]) \in Names /\ typed(nth[n]) \in Names
      BY <1>2, <1>7, <2>1
    <2>3. Stored[typed(nth[m])] = name[n] /\ Stored[typed(nth[n])] = name[n]
      BY <1>9, <1>10
    <2> QED
      BY <2>2, <2>3 DEF Cut
  <1> QED
    BY <1>5, <1>10 DEF UniqueNames

LEMMA UniqueNext ==
    ASSUME TypeInv, Shape, UniqueNames, [Next]_vars, Alone'
    PROVE  UniqueNames'
PROOF
  <1>1. ASSUME live' \subseteq live, UNCHANGED <<name, parent>> PROVE UniqueNames'
    BY <1>1 DEF UniqueNames, Cut
  <1>2. CASE Misuse
    BY <1>1, <1>2 DEF Misuse, tree
  <1>3. ASSUME ~ Misuse, NEW s \in Names, NEW directory \in BOOLEAN, fs_mkdir_or_touch(s, directory)
        PROVE  UniqueNames'
    <2> DEFINE d == cwd[Shell]
    <2>1. PICK n \in Nodes \ live : Created(n, d, Stored[s], directory)
      BY <1>3 DEF fs_mkdir_or_touch
    <2>2. pc = "prompt" /\ fs_find_child(d, s) = NULL
      BY <1>3 DEF fs_mkdir_or_touch
    <2>3. Hung = live
      BY <2>2 DEF Hung, Pending
    <2>4. d \in live \cap dirs
      BY <2>3 DEF Shape, ShellPlace
    <2> HIDE DEF d
    <2>5. \A m \in live : parent[m] = d => name[m] # s
      <3>1. Search(d, s).node = NULL
        BY <2>2, <2>4 DEF fs_find_child
      <3> QED
        BY <2>3, <2>4, <3>1, SearchShape
    <2>6. /\ live' = live \cup {n} /\ name'[n] = Stored[s] /\ parent'[n] = d
          /\ \A m \in live : name'[m] = name[m] /\ parent'[m] = parent[m]
      BY <2>1, TypeFields DEF Created
    <2>7. Stored[s] = s \/ Cut(Stored[s])
      BY DEF Cut
    <2>8. ASSUME NEW m \in live \ {Root}, parent'[m] = d, name'[m] = Stored[s] PROVE Cut(Stored[s])
      BY <2>5, <2>6, <2>7, <2>8
    <2>9. ASSUME NEW k \in live' \ {Root}, NEW m \in live' \ {Root}, parent'[k] = parent'[m], name'[k] = name'[m]
          PROVE  k = m \/ Cut(name'[m])
      <3>1. CASE k \in live /\ m \in live
        BY <2>6, <2>9, <3>1 DEF UniqueNames
      <3>2. CASE k = n \/ m = n
        BY <2>6, <2>8, <2>9, <3>2
      <3> QED
        BY <2>6, <3>1, <3>2
    <2> QED
      BY <2>9 DEF UniqueNames, Cut
  <1>4. CASE ~ Misuse /\ fs_insert_child
    BY <1>1, <1>4 DEF fs_insert_child
  <1>5. ASSUME ~ Misuse, NEW s \in Names, fs_delete(s) PROVE UniqueNames'
    <2>1. UNCHANGED tree
      BY <1>5 DEF fs_delete
    <2> QED
      BY <1>1, <2>1 DEF tree
  <1>6. CASE ~ Misuse /\ fs_delete_unlink
    <2>1. Unlinked(loc.dir, loc.node, loc.prev)
      BY <1>6 DEF fs_delete_unlink
    <2> QED
      BY <1>1, <2>1 DEF Unlinked
  <1>13. CASE ~ Misuse /\ fs_delete_data
    BY <1>1, <1>13 DEF fs_delete_data, tree
  <1>7. ASSUME NEW p \in Programs, create_process(p) PROVE UniqueNames'
    BY <1>1, <1>7 DEF create_process, tree
  <1>8. ASSUME ~ Misuse, NEW p \in Procs, NEW path \in Paths, sys_chdir(p, path) PROVE UniqueNames'
    <2>1. UNCHANGED tree
      BY <1>8 DEF sys_chdir
    <2> QED
      BY <1>1, <2>1 DEF tree
  <1>9. ASSUME ~ Misuse, NEW p \in Programs, NEW path \in Paths, SYS_OPEN(p, path) PROVE UniqueNames'
    <2>1. UNCHANGED tree
      BY <1>9 DEF SYS_OPEN
    <2> QED
      BY <1>1, <2>1 DEF tree
  <1>10. ASSUME ~ Misuse, NEW p \in Programs, NEW f \in Fds,
               SYS_CLOSE(p, f) \/ \E size \in Sizes : SYS_FREAD(p, f, size) \/ SYS_WRITE(p, f, size)
        PROVE  UniqueNames'
    <2>1. UNCHANGED <<live, name, parent>>
      BY <1>10 DEF SYS_CLOSE, SYS_FREAD, SYS_WRITE, BadDescriptor, tree
    <2> QED
      BY <1>1, <2>1
  <1>11. ASSUME ~ Misuse, NEW p \in Programs, NEW s \in Names, SYS_UNLINK(p, s) PROVE FALSE
    <2>1. p \in started' /\ Unlinkers # {} /\ p # Shell
      BY <1>11, Constants DEF SYS_UNLINK, Calling
    <2> QED
      BY <2>1 DEF Alone
  <1>12. CASE UNCHANGED vars
    BY <1>1, <1>12 DEF vars, tree
  <1> QED
    BY <1>2, <1>3, <1>4, <1>5, <1>6, <1>7, <1>8, <1>9, <1>10, <1>11, <1>12, <1>13, Zenon DEF Next

LEMMA UniqueIsFindable == TypeInv /\ Shape /\ UniqueNames => Findable
PROOF
  <1> SUFFICES ASSUME TypeInv, Shape, UniqueNames, NEW n \in Hung \ {Root}
               PROVE  fs_find_child(parent[n], name[n]) = n \/ Cut(name[n])
    BY DEF Findable, Hung
  <1> DEFINE d == parent[n]
             found == Search(d, name[n])
  <1>1. d \in live /\ n \in live /\ NULL \notin live
    BY TypeFields, Constants DEF Shape, Rooted, Hung
  <1>2. children[d] # NULL
    BY NoOrphans
  <1>3. d \in dirs
    BY <1>1, <1>2 DEF Shape, FilesEmpty
  <1>4. fs_find_child(d, name[n]) = found.node
    BY <1>3 DEF fs_find_child
  <1> DEFINE s == name[n]
  <1>5. found = Search(d, s) /\ parent[n] = d /\ name[n] = s
    OBVIOUS
  <1> HIDE DEF d, s, found
  <1>6. /\ found.node \in Hung \cup {NULL}
        /\ found.node # NULL => found.node # Root /\ name[found.node] = s /\ parent[found.node] = d
        /\ found.node = NULL => \A m \in Hung : parent[m] = d => name[m] # s
    BY <1>1, <1>5, SearchShape
  <1>7. found.node \in live \ {Root} /\ name[found.node] = s /\ parent[found.node] = d
    BY <1>5, <1>6 DEF Hung
  <1> QED
    BY <1>1, <1>4, <1>5, <1>7 DEF UniqueNames, d, s

(* While only the shell deletes, every file is found under its name in its *)
(* directory, unless the name was cut: fs_mkdir and fs_touch refuse a name *)
(* that is there, at every length of the list and every interleaving.  The *)
(* names of the boot modules are nowhere checked: that they differ is an   *)
(* assumption.                                                             *)
THEOREM AlwaysFindable ==
    ASSUME DistinctModuleNames
    PROVE  Spec => [](Alone => Findable)
PROOF
  <1> DEFINE Inv == Alone => UniqueNames
  <1>1. Init => Inv
    BY InitUnique
  <1>2. TreeInv /\ Inv /\ [Next]_vars => Inv'
    <2> SUFFICES ASSUME TreeInv, Inv, [Next]_vars, Alone' PROVE UniqueNames'
      OBVIOUS
    <2>1. Alone
      BY AloneBefore DEF TreeInv
    <2> QED
      BY <2>1, UniqueNext DEF TreeInv
  <1>3. TreeInv /\ Inv => (Alone => Findable)
    BY UniqueIsFindable DEF TreeInv
  <1> HIDE DEF Inv
  <1> QED
    BY <1>1, <1>2, <1>3, AlwaysTreeInv, PTL DEF Spec
=============================================================================
