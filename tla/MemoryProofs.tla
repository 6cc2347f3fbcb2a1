---------------------------- MODULE MemoryProofs ----------------------------
(***************************************************************************)
(* What is proved of frames, address spaces and the heap of programs, for  *)
(* any machine, programs, images and arguments of sbrk and malloc that     *)
(* satisfy MemoryAssumption and UserHeapAssumption:                        *)
(*                                                                         *)
(*   MemoryTypeCorrect       TypeOK always holds, also after a clash and   *)
(*                           with a break anywhere in the address space;   *)
(*   MemoryIsolated          Isolated: no frame has two uses;              *)
(*   MemoryKernelShared      KernelShared: every directory shows the       *)
(*                           kernel where it is, and sbrk maps over it     *)
(*                           only when a break has left its place;         *)
(*   MemoryBreakBacked       BreakBacked: the pages up to a break have     *)
(*                           frames, if it is not in the last page;        *)
(*   MemoryNullOnlyWhenFull  NullOnlyWhenFull: the allocator gives up only *)
(*                           when its search would find nothing;           *)
(*   HeapBlocksInBreak       BlocksInBreak, of malloc and free.            *)
(*                                                                         *)
(* The first five rest on the invariant MemInv.  Of its parts, Separate    *)
(* says that the uses of frames (UsesIn: directories, tables, pages,       *)
(* breaks) have a frame each; it survives a mapping because the frame that *)
(* is mapped is Spare, used by nothing yet, and that is stated of the      *)
(* stack of create_process between its allocation and its mapping          *)
(* (SpareInv).  FrameInv says what is still true of what the shell's       *)
(* search told it before the tick.  StrayInv adds where the break of a     *)
(* program is that has not strayed.                                        *)
(*                                                                         *)
(* The order: loops and the allocator; what one step of a map adds to the  *)
(* uses of frames (Carries, Adds), first for a set of directories D and    *)
(* breaks B, then for one mapping (PageStep, MappedStep), a loop of them   *)
(* (GrownFrom) and boot (Booting, Booted); the invariant and its actions;  *)
(* the heap of a program.                                                  *)
(***************************************************************************)
EXTENDS UserHeap, FiniteSetTheorems, SequenceTheorems, WellFoundedInduction, TLAPS
-----------------------------------------------------------------------------
(* Induction and iteration up to n, stated for a set and for a function,   *)
(* so that they can be used by name.                                       *)
LEMMA UpTo ==
    ASSUME NEW n \in Nat, NEW S, 0 \in S,
           \A k \in 0..n - 1 : k \in S => k + 1 \in S
    PROVE  0..n \subseteq S
PROOF
  <1> DEFINE Bad == {k \in 0..n : k \notin S}
             R == OpToRel(<, Nat)
  <1> SUFFICES ASSUME Bad # {} PROVE FALSE
    OBVIOUS
  <1>1. PICK m \in Bad : \A k \in Bad : ~ (<<k, m>> \in R)
    <2>1. IsWellFoundedOn(R, Nat)
      BY NatLessThanWellFounded
    <2>2. Bad \subseteq Nat
      OBVIOUS
    <2> QED
      BY <2>1, <2>2, WFMin
  <1>2. \A k \in Bad : ~ (k < m)
    <2>1. \A k \in Bad : <<k, m>> \in R <=> k < m
      <3>1. Bad \subseteq Nat
        OBVIOUS
      <3> HIDE DEF Bad
      <3> QED
        BY <3>1 DEF OpToRel
    <2> QED
      BY <1>1, <2>1
  <1>3. m # 0 /\ m \in 0..n
    OBVIOUS
  <1>4. m - 1 \in 0..n - 1 /\ m - 1 \in S
    BY <1>2, <1>3
  <1>5. (m - 1) + 1 \in S
    BY <1>4
  <1> QED
    BY <1>3, <1>5

Recursion(f, n, base, step) == f[0] = base /\ \A k \in 1..n : f[k] = step[k][f[k - 1]]
LEMMA RecursionUpTo ==
    ASSUME NEW n \in Nat, NEW T, NEW base \in T, NEW step \in [1..n -> [T -> T]]
    PROVE  \E f \in [0..n -> T] : Recursion(f, n, base, step)
PROOF
  <1> DEFINE Goes(f, m) == f[0] = base /\ \A k \in 1..m : f[k] = step[k][f[k - 1]]
             S == {m \in 0..n : \E f \in [0..m -> T] : Goes(f, m)}
  <1>1. 0 \in S
    <2>1. [k \in 0..0 |-> base] \in [0..0 -> T] /\ Goes([k \in 0..0 |-> base], 0)
      OBVIOUS
    <2>2. \E f \in [0..0 -> T] : Goes(f, 0)
      BY <2>1
    <2> HIDE DEF Goes
    <2> QED
      BY <2>2
  <1>2. ASSUME NEW m \in 0..n - 1, m \in S PROVE m + 1 \in S
    <2>1. PICK f \in [0..m -> T] : Goes(f, m)
      BY <1>2
    <2> DEFINE g == [k \in 0..m + 1 |-> IF k <= m THEN f[k] ELSE step[m + 1][f[m]]]
    <2>2. m + 1 \in 1..n /\ f[m] \in T
      OBVIOUS
    <2>3. g \in [0..m + 1 -> T]
      BY <2>2
    <2>4. g[0] = base /\ \A k \in 1..m + 1 : g[k] = step[k][g[k - 1]]
      BY <2>1
    <2> HIDE DEF g
    <2>5. Goes(g, m + 1)
      BY <2>4
    <2> HIDE DEF Goes
    <2>6. \E h \in [0..m + 1 -> T] : Goes(h, m + 1)
      BY <2>3, <2>5
    <2> QED
      BY <2>2, <2>6
  <1>3. n \in S
    <2> HIDE DEF S
    <2>1. \A m \in 0..n - 1 : m \in S => m + 1 \in S
      BY <1>2
    <2>2. 0..n \subseteq S
      BY <1>1, <2>1, UpTo, Zenon
    <2> QED
      BY <2>2
  <1> QED
    BY <1>3 DEF Recursion
(* A frame that is taken, but for no use yet.                              *)
Spare(m, D, B, s) == s \in m.used /\ \A u \in UsesIn(m, D, B) : u.frame # s

(* Every frame in use is taken, and for one use.                           *)
Separate(m, D, B) ==
    /\ \A u \in UsesIn(m, D, B) : u.frame \in m.used
    /\ \A u, w \in UsesIn(m, D, B) : u.frame = w.frame => u = w

(* The directories of D show the pages of V where they are, through the    *)
(* tables of the directory in frame k.                                     *)
ShowsOn(m, D, k, V) ==
    \A d \in D : \A v \in V :
        /\ m.mem[k][v \div P] # None /\ m.mem[d.frame][v \div P] = m.mem[k][v \div P]
        /\ m.mem[m.mem[k][v \div P]][v % P] = v
Shows(m, D, k) == ShowsOn(m, D, k, KernelPages)

(* The counter is behind the bitmap, unless a frame was taken twice.       *)
Counted(m) ==
    /\ m.fault # "clash" => m.used_blocks <= Cardinality(m.used)
    /\ m.fault = "clash" => m.used_blocks <= MaxBlocks + 1
-----------------------------------------------------------------------------
(* Constants and arithmetic.                                               *)

LEMMA Numbers ==
    /\ MaxBlocks \in Nat \ {0} /\ MemStart \in Nat \ {0} /\ P \in Nat \ {0}
    /\ KernelEntries \in Nat \ {0} /\ PageSize \in Nat \ {0} /\ HeapPages \in Nat \ {0}
    /\ KernelEntries < P /\ MemStart < MaxBlocks
    /\ KernelEntries * P \in Nat /\ P * P \in Nat
    /\ MaxBlocks <= KernelEntries * P /\ KernelEntries * P <= P * P
PROOF
  <1>1. /\ MaxBlocks \in Nat \ {0} /\ MemStart \in Nat \ {0} /\ P \in Nat \ {0}
        /\ KernelEntries \in Nat \ {0} /\ PageSize \in Nat \ {0} /\ HeapPages \in Nat \ {0}
        /\ KernelEntries < P /\ MemStart < MaxBlocks /\ MaxBlocks <= KernelEntries * P
    BY MemoryAssumption, Zenon DEF MemoryAssumption
  <1>2. \A a, b \in Nat : a * b \in Nat
    OBVIOUS
  <1>3. KernelEntries * P <= P * P
    BY <1>1
  <1> QED
    BY <1>1, <1>2, <1>3

LEMMA Regions ==
    /\ HeapPage \in KernelEntries * P..P * P - 1 /\ ImagePage \in KernelEntries * P..P * P - 1
    /\ StackPage \in KernelEntries * P..P * P - 1 /\ HeapPage + HeapPages <= P * P
    /\ \A p \in Programs : ImagePages[p] \in Nat /\ ImagePage + ImagePages[p] <= HeapPage
    /\ Increments \subseteq Int
PROOF
  BY MemoryAssumption DEF MemoryAssumption

LEMMA DivMod ==
    ASSUME NEW v \in Nat, NEW q \in Nat \ {0}
    PROVE  /\ v \div q \in Nat /\ v % q \in 0..q - 1
           /\ v = (v \div q) * q + (v % q)
PROOF
  OBVIOUS

LEMMA DivBounds ==
    ASSUME NEW v \in Nat, NEW q \in Nat \ {0}, NEW a \in Nat
    PROVE  /\ v < a * q => v \div q < a
           /\ v >= a * q => v \div q >= a
PROOF
  <1> DEFINE x == v \div q
             y == v % q
  <1>1. x \in Nat /\ y \in 0..q - 1 /\ v = x * q + y
    BY DivMod
  <1> HIDE DEF x, y
  <1>2. ASSUME v < a * q, x >= a PROVE FALSE
    <2>1. x * q >= a * q
      BY <1>1, <1>2
    <2>2. x * q \in Nat /\ a * q \in Nat
      BY <1>1
    <2> QED
      BY <1>1, <1>2, <2>1, <2>2
  <1>3. ASSUME v >= a * q, x < a PROVE FALSE
    <2>1. (x + 1) * q <= a * q
      BY <1>1, <1>3
    <2>2. (x + 1) * q = x * q + q
      BY <1>1
    <2>3. x * q \in Nat /\ a * q \in Nat
      BY <1>1
    <2> QED
      BY <1>1, <1>3, <2>1, <2>2, <2>3
  <1> QED
    BY <1>1, <1>2, <1>3 DEF x

LEMMA SamePlace ==
    ASSUME NEW v \in Nat, NEW w \in Nat, v \div P = w \div P, v % P = w % P
    PROVE  v = w
PROOF
  <1>1. v = (v \div P) * P + (v % P) /\ w = (w \div P) * P + (w % P)
    BY DivMod, Numbers
  <1> QED
    BY <1>1

LEMMA KernelPlaces ==
    ASSUME NEW v \in KernelPages
    PROVE  v \div P \in 0..KernelEntries - 1 /\ v % P \in 0..P - 1 /\ v \in Nat
PROOF
  <1>1. v \in Nat /\ v < KernelEntries * P
    BY Numbers DEF KernelPages
  <1>2. v \div P \in Nat /\ v % P \in 0..P - 1
    BY <1>1, DivMod, Numbers
  <1>3. v \div P < KernelEntries
    BY <1>1, DivBounds, Numbers
  <1> QED
    BY <1>1, <1>2, <1>3, Numbers

UpperPages == KernelEntries * P..P * P - 1

LEMMA UpperPlaces ==
    ASSUME NEW v \in UpperPages
    PROVE  /\ v \div P \in KernelEntries..P - 1 /\ v % P \in 0..P - 1 /\ v \in Nat
           /\ v \div P \in 0..P - 1
PROOF
  <1>1. v \in Nat /\ v >= KernelEntries * P /\ v < P * P
    BY Numbers DEF UpperPages
  <1>2. v \div P \in Nat /\ v % P \in 0..P - 1
    BY <1>1, DivMod, Numbers
  <1>3. v \div P >= KernelEntries /\ v \div P < P
    BY <1>1, DivBounds, Numbers
  <1> QED
    BY <1>1, <1>2, <1>3, Numbers

LEMMA MinFacts ==
    ASSUME NEW S \in SUBSET Nat, S # {}
    PROVE  Min(S) \in S /\ \A x \in S : Min(S) <= x
PROOF
  <1> DEFINE R == OpToRel(<, Nat)
  <1>1. PICK m \in S : \A k \in S : ~ (<<k, m>> \in R)
    <2>1. IsWellFoundedOn(R, Nat)
      BY NatLessThanWellFounded
    <2> QED
      BY <2>1, WFMin
  <1>2. \A k \in S : m <= k
    <2>1. \A k \in S : <<k, m>> \in R <=> k < m
      BY DEF OpToRel
    <2>2. \A k \in S : ~ (k < m) /\ k \in Nat
      BY <1>1, <2>1
    <2> HIDE DEF R
    <2>3. m \in Nat
      BY <1>1
    <2> QED
      BY <2>2, <2>3
  <1> QED
    BY <1>2 DEF Min

-----------------------------------------------------------------------------
(* The allocator.                                                          *)

Slots == 0..P - 1
Tabled == [Slots -> Frames \cup {None}]
Faults == {"none", "null", "clash", "kernel", "heap"}
Ram == [used : SUBSET (0..MaxBlocks - 1), used_blocks : Nat, mem : [Frames -> Tabled],
        fault : Faults]

LEMMA FrameFacts ==
    /\ 0 \in Frames /\ None \notin Frames /\ Frames \subseteq Nat
    /\ 0..MaxBlocks - 1 \subseteq Frames /\ 0..MaxBlocks - 1 \subseteq Nat
    /\ 0 \in 0..MaxBlocks - 1
PROOF
  <1>1. KernelEntries * P > 0
    BY Numbers
  <1> QED
    BY <1>1, Numbers DEF Frames, KernelPages, None

LEMMA RamParts ==
    ASSUME NEW m \in Ram
    PROVE  /\ m.used \in SUBSET (0..MaxBlocks - 1) /\ m.used_blocks \in Nat
           /\ m.mem \in [Frames -> Tabled] /\ m.fault \in Faults
           /\ \A f \in Frames : m.mem[f] \in Tabled
           /\ \A f \in Frames : \A e \in Slots : m.mem[f][e] # None => m.mem[f][e] \in Frames
           /\ IsFiniteSet(m.used) /\ Cardinality(m.used) \in Nat /\ Cardinality(m.used) <= MaxBlocks
PROOF
  <1>1. /\ m.used \in SUBSET (0..MaxBlocks - 1) /\ m.used_blocks \in Nat
        /\ m.mem \in [Frames -> Tabled] /\ m.fault \in Faults
    BY DEF Ram
  <1>2. \A f \in Frames : m.mem[f] \in Tabled
    BY <1>1
  <1>3. \A f \in Frames : \A e \in Slots : m.mem[f][e] # None => m.mem[f][e] \in Frames
    BY <1>2 DEF Tabled
  <1>4. IsFiniteSet(0..MaxBlocks - 1) /\ Cardinality(0..MaxBlocks - 1) = MaxBlocks
    BY Numbers, FS_Interval
  <1>5. IsFiniteSet(m.used) /\ Cardinality(m.used) <= MaxBlocks
    BY <1>1, <1>4, FS_Subset
  <1>6. Cardinality(m.used) \in Nat
    BY <1>5, FS_CardinalityType
  <1> QED
    BY <1>1, <1>2, <1>3, <1>5, <1>6

LEMMA VisibleFacts ==
    ASSUME NEW m \in Ram
    PROVE  Visible(m) = {f \in Visible(m) : f \in 0..MaxBlocks - 1 /\ f \notin m.used}
PROOF
  <1>1. 8 * (MaxBlocks \div 8) <= MaxBlocks
    BY Numbers
  <1>2. 8 * (MaxBlocks \div 8) \in Nat
    BY Numbers
  <1> QED
    BY <1>1, <1>2, Numbers DEF Visible

(* What pmm_alloc_block finds is free and not frame 0.                     *)
LEMMA ChoiceFacts ==
    ASSUME NEW m \in Ram, 0 \in m.used
    PROVE  /\ Choice(m) \in 0..MaxBlocks - 1 /\ Choice(m) \in Frames
           /\ Choice(m) # 0 => /\ Choice(m) \in Visible(m) /\ Choice(m) \notin m.used
                               /\ m.used_blocks # MaxBlocks
           /\ Choice(m) = 0 => m.used_blocks = MaxBlocks \/ Visible(m) = {}
PROOF
  <1>1. CASE m.used_blocks = MaxBlocks \/ Visible(m) = {}
    BY <1>1, FrameFacts DEF Choice
  <1>2. CASE ~ (m.used_blocks = MaxBlocks \/ Visible(m) = {})
    <2>1. Visible(m) \in SUBSET Nat /\ \A f \in Visible(m) : f \in 0..MaxBlocks - 1 /\ f \notin m.used
      BY VisibleFacts, FrameFacts
    <2>2. Min(Visible(m)) \in Visible(m)
      BY <1>2, <2>1, MinFacts
    <2>3. Choice(m) = Min(Visible(m))
      BY <1>2 DEF Choice
    <2> QED
      BY <1>2, <2>1, <2>2, <2>3, FrameFacts
  <1> QED
    BY <1>1, <1>2

(* The counter reaches max_blocks only with a bitmap that is full.         *)
LEMMA FullMeansFull ==
    ASSUME NEW m \in Ram, m.used_blocks <= Cardinality(m.used), m.used_blocks = MaxBlocks
    PROVE  Visible(m) = {}
PROOF
  <1>1. IsFiniteSet(0..MaxBlocks - 1) /\ Cardinality(0..MaxBlocks - 1) = MaxBlocks
    BY Numbers, FS_Interval
  <1>2. m.used \in SUBSET (0..MaxBlocks - 1) /\ Cardinality(m.used) = MaxBlocks
    BY RamParts, Numbers
  <1>3. m.used = 0..MaxBlocks - 1
    BY <1>1, <1>2, FS_Subset
  <1> QED
    BY <1>3, VisibleFacts

LEMMA OneMore ==
    ASSUME NEW m \in Ram, NEW f \in 0..MaxBlocks - 1
    PROVE  /\ Cardinality(m.used \cup {f}) \in Nat
           /\ Cardinality(m.used \cup {f}) >= Cardinality(m.used)
           /\ f \notin m.used => Cardinality(m.used \cup {f}) = Cardinality(m.used) + 1
           /\ Cardinality(m.used \cup {f}) <= MaxBlocks
PROOF
  <1>1. IsFiniteSet(m.used) /\ Cardinality(m.used) \in Nat
    BY RamParts
  <1>2. Cardinality(m.used \cup {f}) = IF f \in m.used THEN Cardinality(m.used) ELSE Cardinality(m.used) + 1
    BY <1>1, FS_AddElement
  <1>3. IsFiniteSet(0..MaxBlocks - 1) /\ Cardinality(0..MaxBlocks - 1) = MaxBlocks
    BY Numbers, FS_Interval
  <1>4. m.used \cup {f} \in SUBSET (0..MaxBlocks - 1)
    BY RamParts
  <1>5. Cardinality(m.used \cup {f}) <= MaxBlocks
    BY <1>3, <1>4, FS_Subset
  <1> QED
    BY <1>1, <1>2, <1>5

IsMarked(m, n, f, count) ==
    /\ n \in Ram /\ n.mem = m.mem
    /\ f = 0 => n = m
    /\ f # 0 => /\ n.used = m.used \cup {f} /\ n.used_blocks = count + 1
                /\ n.fault = IF f \in m.used THEN "clash" ELSE m.fault

LEMMA MarkedFacts ==
    ASSUME NEW m \in Ram, NEW f \in 0..MaxBlocks - 1, NEW count \in Nat
    PROVE  IsMarked(m, Marked(m, f, count), f, count)
PROOF
  <1> DEFINE n == Marked(m, f, count)
  <1>1. CASE f = 0
    BY <1>1 DEF Marked, IsMarked
  <1>2. CASE f # 0
    <2>1. n = [m EXCEPT !.used = m.used \cup {f}, !.used_blocks = count + 1,
                        !.fault = IF f \in m.used THEN "clash" ELSE m.fault]
      BY <1>2 DEF Marked
    <2>2. /\ m.used \cup {f} \in SUBSET (0..MaxBlocks - 1) /\ count + 1 \in Nat
          /\ (IF f \in m.used THEN "clash" ELSE m.fault) \in Faults
      BY RamParts DEF Faults
    <2> HIDE DEF n
    <2>3. IsMarked(m, n, f, count)
      BY <1>2, <2>1, <2>2 DEF Ram, Faults, IsMarked
    <2> QED
      BY <2>3 DEF n
  <1> QED
    BY <1>1, <1>2

LEMMA UncheckedFacts ==
    ASSUME NEW m \in Ram, NEW f, NEW n, n = Unchecked(m, f)
    PROVE  /\ n \in Ram /\ n.mem = m.mem /\ n.used = m.used /\ n.used_blocks = m.used_blocks
           /\ f = 0 => n.fault = "null"
           /\ f # 0 => n = m
PROOF
  <1>1. CASE f = 0
    BY <1>1 DEF Unchecked, Ram, Faults
  <1>2. CASE f # 0
    BY <1>2 DEF Unchecked
  <1> QED
    BY <1>1, <1>2

(* An allocator that nobody has interrupted.                               *)
Sound(m) ==
    /\ m \in Ram /\ 0 \in m.used
    /\ m.fault # "clash" /\ m.used_blocks <= Cardinality(m.used)
    /\ m.fault = "null" => Visible(m) = {}

LEMMA AllocatedFacts ==
    ASSUME NEW m, Sound(m), NEW n, n = Allocated(m), NEW f, f = Choice(m)
    PROVE  /\ Sound(n) /\ n.mem = m.mem /\ f \in Frames /\ f \in 0..MaxBlocks - 1
           /\ f = 0 => n.fault = "null" /\ n.used = m.used
           /\ f # 0 => f \notin m.used /\ n.used = m.used \cup {f} /\ n.fault = m.fault
PROOF
  <1> DEFINE c == Marked(m, f, m.used_blocks)
  <1>1. m \in Ram /\ 0 \in m.used /\ m.used_blocks \in Nat /\ Cardinality(m.used) \in Nat
    BY RamParts DEF Sound
  <1>2. n = Unchecked(c, f)
    BY DEF Allocated
  <1>3. /\ f \in 0..MaxBlocks - 1 /\ f \in Frames
        /\ f # 0 => f \in Visible(m) /\ f \notin m.used
        /\ f = 0 => m.used_blocks = MaxBlocks \/ Visible(m) = {}
    BY <1>1, ChoiceFacts
  <1>4. /\ c \in Ram /\ c.mem = m.mem
        /\ f = 0 => c = m
        /\ f # 0 => /\ c.used = m.used \cup {f} /\ c.used_blocks = m.used_blocks + 1
                    /\ c.fault = m.fault
    <2>1. IsMarked(m, c, f, m.used_blocks)
      BY <1>1, <1>3, MarkedFacts, Zenon
    <2> QED
      BY <1>3, <2>1 DEF IsMarked
  <1> HIDE DEF c
  <1>5. CASE f = 0
    <2>1. n \in Ram /\ n.mem = m.mem /\ n.used = m.used /\ n.used_blocks = m.used_blocks
          /\ n.fault = "null"
      BY <1>2, <1>4, <1>5, UncheckedFacts
    <2>2. Visible(m) = {}
      BY <1>1, <1>3, <1>5, FullMeansFull DEF Sound
    <2>3. Visible(n) = {}
      BY <2>1, <2>2 DEF Visible
    <2> QED
      BY <1>1, <1>3, <1>5, <2>1, <2>3 DEF Sound
  <1>6. CASE f # 0
    <2>1. n = c
      BY <1>2, <1>4, <1>6, UncheckedFacts
    <2>2. Cardinality(m.used \cup {f}) = Cardinality(m.used) + 1
      BY <1>1, <1>3, <1>6, OneMore
    <2>3. m.fault # "null"
      BY <1>3, <1>6 DEF Sound
    <2>4. n \in Ram /\ n.mem = m.mem /\ n.used = m.used \cup {f} /\ n.fault = m.fault
      BY <1>4, <1>6, <2>1
    <2>5. n.used_blocks = m.used_blocks + 1
      BY <1>4, <1>6, <2>1
    <2>6. m.used_blocks <= Cardinality(m.used) /\ m.fault # "clash"
      BY DEF Sound
    <2>7. n.used_blocks <= Cardinality(n.used)
      BY <1>1, <2>2, <2>4, <2>5, <2>6
    <2>8. 0 \in n.used /\ n.fault # "clash" /\ n.fault # "null"
      BY <1>1, <2>3, <2>4, <2>6
    <2>9. Sound(n)
      BY <2>4, <2>7, <2>8 DEF Sound
    <2> QED
      BY <1>3, <1>6, <2>4, <2>9
  <1> QED
    BY <1>5, <1>6

(* Writing entries leaves the allocator alone.                             *)
Rewritten(m, n, mem) ==
    /\ n.mem = mem
    /\ n.used = m.used /\ n.used_blocks = m.used_blocks /\ n.fault = m.fault

LEMMA RewrittenRam ==
    ASSUME NEW m \in Ram, NEW mem \in [Frames -> Tabled], NEW n, n = [m EXCEPT !.mem = mem]
    PROVE  n \in Ram /\ Rewritten(m, n, mem) /\ (Sound(m) => Sound(n))
PROOF
  <1>1. n \in Ram /\ Rewritten(m, n, mem)
    BY DEF Ram, Rewritten
  <1>2. Visible(n) = Visible(m)
    BY <1>1 DEF Visible, Rewritten
  <1> QED
    BY <1>1, <1>2 DEF Sound, Rewritten

LEMMA EmptyTable == Empty \in Tabled /\ \A i \in Slots : Empty[i] = None
PROOF
  BY DEF Empty, Tabled, Slots

TabledMem(mem, d, e, t) == [mem EXCEPT ![t] = Empty, ![d][e] = t]
EnteredMem(mem, t, e, phys) == [mem EXCEPT ![t][e] = phys]
CopiedMem(mem, d, kernel) ==
    [mem EXCEPT ![d] = [i \in Slots |-> IF i < KernelEntries THEN mem[kernel][i] ELSE None]]

LEMMA WithTableFacts ==
    ASSUME NEW m \in Ram, NEW d \in Frames, NEW t \in Frames, NEW v, v \div P \in Slots,
           NEW n, n = WithTable(m, d, v, t)
    PROVE  n \in Ram /\ (Sound(m) => Sound(n)) /\ Rewritten(m, n, TabledMem(m.mem, d, v \div P, t))
PROOF
  <1>1. m \in Ram /\ m.mem \in [Frames -> Tabled]
    BY RamParts
  <1>2. n = [m EXCEPT !.mem = TabledMem(m.mem, d, v \div P, t)]
    BY <1>1 DEF WithTable, TabledMem, Ram
  <1>3. TabledMem(m.mem, d, v \div P, t) \in [Frames -> Tabled]
    BY <1>1, EmptyTable DEF TabledMem, Tabled
  <1> QED
    BY <1>2, <1>3, RewrittenRam

LEMMA EnteredFacts ==
    ASSUME NEW m \in Ram, NEW d \in Frames, NEW phys \in Frames, NEW v, v \div P \in Slots,
           v % P \in Slots, m.mem[d][v \div P] # None, NEW n, n = Entered(m, d, phys, v)
    PROVE  n \in Ram /\ (Sound(m) => Sound(n)) /\ Rewritten(m, n, EnteredMem(m.mem, m.mem[d][v \div P], v % P, phys))
PROOF
  <1>1. m \in Ram /\ m.mem \in [Frames -> Tabled] /\ m.mem[d][v \div P] \in Frames
    BY RamParts
  <1> DEFINE t == m.mem[d][v \div P]
             X == EnteredMem(m.mem, t, v % P, phys)
  <1>2. n = [m EXCEPT !.mem = X]
    BY <1>1 DEF Entered, EnteredMem, Ram
  <1>3. X \in [Frames -> Tabled]
    <2>1. t \in Frames /\ m.mem[t] \in Tabled
      BY <1>1
    <2> HIDE DEF t
    <2>2. [m.mem[t] EXCEPT ![v % P] = phys] \in Tabled
      BY <2>1 DEF Tabled
    <2>3. X = [m.mem EXCEPT ![t] = [m.mem[t] EXCEPT ![v % P] = phys]]
      BY <1>1, <2>1 DEF EnteredMem
    <2> QED
      BY <1>1, <2>1, <2>2, <2>3
  <1> HIDE DEF X
  <1>4. n \in Ram /\ (Sound(m) => Sound(n)) /\ Rewritten(m, n, X)
    BY <1>2, <1>3, RewrittenRam
  <1> QED
    BY <1>4 DEF X

LEMMA DirectoryFacts ==
    ASSUME NEW m \in Ram, NEW d \in Frames, NEW k \in Frames,
           NEW n, n = Directory(m, d, k)
    PROVE  n \in Ram /\ (Sound(m) => Sound(n)) /\ Rewritten(m, n, CopiedMem(m.mem, d, k))
PROOF
  <1>1. m \in Ram /\ m.mem \in [Frames -> Tabled] /\ m.mem[k] \in Tabled
    BY RamParts
  <1> DEFINE X == [i \in Slots |-> IF i < KernelEntries THEN m.mem[k][i] ELSE None]
  <1>2. X \in Tabled
    BY <1>1 DEF Tabled
  <1>3. n = [m EXCEPT !.mem[d] = X]
    BY DEF Directory, Slots
  <1> HIDE DEF X
  <1>4. n = [m EXCEPT !.mem = [m.mem EXCEPT ![d] = X]]
    BY <1>1, <1>3 DEF Ram
  <1>5. [m.mem EXCEPT ![d] = X] \in [Frames -> Tabled]
    BY <1>1, <1>2
  <1>6. n \in Ram /\ (Sound(m) => Sound(n)) /\ Rewritten(m, n, [m.mem EXCEPT ![d] = X])
    BY <1>4, <1>5, RewrittenRam
  <1> QED
    BY <1>6 DEF X, CopiedMem
-----------------------------------------------------------------------------
(* The uses of frames.                                                     *)

Own(d, e) == d.of = <<"kernel">> \/ e >= KernelEntries
Counts(d, v) == d.of = <<"kernel">> => v \in HeapRange
HasTable(m, d, e) == m.mem[d.frame][e] # None /\ Own(d, e)
HasPage(m, d, v) ==
    /\ HasTable(m, d, v \div P) /\ Counts(d, v)
    /\ m.mem[m.mem[d.frame][v \div P]][v % P] # None

(* Directories and breaks have labels of their own.                        *)
Labelled(D, B) ==
    /\ \A d \in D : d.frame \in Frames /\ d.of[1] \in {"kernel", "image", "process"}
    /\ \A d1, d2 \in D : d1.of = d2.of => d1 = d2
    /\ \A b \in B : b.of[1] = "break"

LEMMA UsesMember ==
    ASSUME NEW m, NEW D, NEW B, NEW u
    PROVE  u \in UsesIn(m, D, B) <=>
              \/ u \in D \/ u \in B
              \/ \E d \in D : \E e \in Slots : HasTable(m, d, e) /\ u = TableUse(m, d, e)
              \/ \E d \in D : \E v \in UpperPages : HasPage(m, d, v) /\ u = PageUse(m, d, v)
PROOF
  <1>1. \A d : Tables(m, d) = {e \in Slots : HasTable(m, d, e)}
    BY DEF Tables, HasTable, Own, Slots
  <1>2. \A d : Pages(m, d) = {v \in UpperPages : HasPage(m, d, v)}
    <2>1. \A v \in UpperPages : v \div P >= KernelEntries
      BY UpperPlaces, Numbers
    <2> QED
      BY <2>1 DEF Pages, HasPage, HasTable, Own, Counts, UpperPages
  <1>3. u \in UsesIn(m, D, B) <=>
              \/ u \in D \/ u \in B
              \/ \E d \in D : \E e \in Tables(m, d) : u = TableUse(m, d, e)
              \/ \E d \in D : \E v \in Pages(m, d) : u = PageUse(m, d, v)
    <2> DEFINE T(d) == {TableUse(m, d, e) : e \in Tables(m, d)}
               G(d) == {PageUse(m, d, v) : v \in Pages(m, d)}
               X == UNION {T(d) : d \in D}
               Y == UNION {G(d) : d \in D}
    <2>1. UsesIn(m, D, B) = D \cup X \cup Y \cup B
      BY Zenon DEF UsesIn
    <2>2. \A d \in D : u \in T(d) <=> \E e \in Tables(m, d) : u = TableUse(m, d, e)
      OBVIOUS
    <2>3. \A d \in D : u \in G(d) <=> \E v \in Pages(m, d) : u = PageUse(m, d, v)
      OBVIOUS
    <2> HIDE DEF T, G
    <2>5. u \in X <=> \E d \in D : u \in T(d)
      OBVIOUS
    <2>6. u \in Y <=> \E d \in D : u \in G(d)
      OBVIOUS
    <2> HIDE DEF X, Y
    <2>8. u \in UsesIn(m, D, B) <=> u \in D \/ u \in B \/ u \in X \/ u \in Y
      BY <2>1
    <2>4. u \in UsesIn(m, D, B) <=> \/ u \in D \/ u \in B
                                    \/ \E d \in D : u \in T(d)
                                    \/ \E d \in D : u \in G(d)
      BY <2>5, <2>6, <2>8
    <2> QED
      BY <2>2, <2>3, <2>4
  <1> QED
    BY <1>1, <1>2, <1>3

(* What n uses, m used, except for one new use.                            *)
Adds(m, n, D, E, B, C, new) ==
    \A u \in UsesIn(n, E, C) : u \in UsesIn(m, D, B) \/ u = new
Carries(m, n, D, E, new) ==
    \A d \in E :
        /\ d \in D \/ d = new
        /\ \A e \in Slots : HasTable(n, d, e) =>
              \/ TableUse(n, d, e) = new
              \/ d \in D /\ HasTable(m, d, e) /\ TableUse(n, d, e) = TableUse(m, d, e)
        /\ \A v \in UpperPages : HasPage(n, d, v) =>
              \/ PageUse(n, d, v) = new
              \/ d \in D /\ HasPage(m, d, v) /\ PageUse(n, d, v) = PageUse(m, d, v)

LEMMA CarriesAdds ==
    ASSUME NEW m, NEW n, NEW D, NEW E, NEW B, NEW new, Carries(m, n, D, E, new)
    PROVE  Adds(m, n, D, E, B, B, new)
PROOF
  <1> SUFFICES ASSUME NEW u \in UsesIn(n, E, B) PROVE u \in UsesIn(m, D, B) \/ u = new
    BY DEF Adds
  <1>1. \/ u \in E \/ u \in B
        \/ \E d \in E : \E e \in Slots : HasTable(n, d, e) /\ u = TableUse(n, d, e)
        \/ \E d \in E : \E v \in UpperPages : HasPage(n, d, v) /\ u = PageUse(n, d, v)
    BY UsesMember
  <1>2. \/ u = new \/ u \in D \/ u \in B
        \/ \E d \in D : \E e \in Slots : HasTable(m, d, e) /\ u = TableUse(m, d, e)
        \/ \E d \in D : \E v \in UpperPages : HasPage(m, d, v) /\ u = PageUse(m, d, v)
    <2>1. CASE \E d \in E : \E e \in Slots : HasTable(n, d, e) /\ u = TableUse(n, d, e)
      <3>1. PICK d \in E, e \in Slots : HasTable(n, d, e) /\ u = TableUse(n, d, e)
        BY <2>1
      <3>2. u = new \/ (d \in D /\ HasTable(m, d, e) /\ u = TableUse(m, d, e))
        BY <3>1, Zenon DEF Carries
      <3> QED
        BY <3>2
    <2>2. CASE \E d \in E : \E v \in UpperPages : HasPage(n, d, v) /\ u = PageUse(n, d, v)
      <3>1. PICK d \in E, v \in UpperPages : HasPage(n, d, v) /\ u = PageUse(n, d, v)
        BY <2>2
      <3>2. u = new \/ (d \in D /\ HasPage(m, d, v) /\ u = PageUse(m, d, v))
        BY <3>1, Zenon DEF Carries
      <3> QED
        BY <3>2
    <2>3. CASE u \in E
      BY <2>3 DEF Carries
    <2> QED
      BY <1>1, <2>1, <2>2, <2>3
  <1> QED
    BY <1>2, UsesMember

LEMMA AddsSeparate ==
    ASSUME NEW m, NEW n, NEW D, NEW E, NEW B, NEW C, NEW new, Adds(m, n, D, E, B, C, new),
           Separate(m, D, B), new \in UsesIn(m, D, B) \/ Spare(m, D, B, new.frame),
           n.used = m.used
    PROVE  Separate(n, E, C)
PROOF
  <1> DEFINE U == UsesIn(m, D, B)
             W == UsesIn(n, E, C)
  <1>1. \A u \in W : u \in U \/ u = new
    BY DEF Adds
  <1>2. /\ \A u \in U : u.frame \in m.used
        /\ \A u, w \in U : u.frame = w.frame => u = w
    BY DEF Separate
  <1>3. new \in U \/ (new.frame \in m.used /\ \A u \in U : u.frame # new.frame)
    BY DEF Spare
  <1> HIDE DEF U, W
  <1>4. /\ \A u \in W : u.frame \in n.used
        /\ \A u, w \in W : u.frame = w.frame => u = w
    BY <1>1, <1>2, <1>3
  <1> QED
    BY <1>4 DEF Separate, W

LEMMA AddsSpare ==
    ASSUME NEW m, NEW n, NEW D, NEW E, NEW B, NEW C, NEW new, Adds(m, n, D, E, B, C, new),
           NEW s, Spare(m, D, B, s), new \in UsesIn(m, D, B) \/ new.frame # s,
           n.used = m.used
    PROVE  Spare(n, E, C, s)
PROOF
  BY DEF Adds, Spare

(* No directory is a table of one, and no table is shared or s.            *)
Apart(m, D) ==
    \A d1, d2 \in D :
        /\ d1.frame = d2.frame => d1 = d2
        /\ \A e1 \in Slots : HasTable(m, d1, e1) =>
              /\ m.mem[d1.frame][e1] # d2.frame
              /\ \A e2 \in Slots :
                    HasTable(m, d2, e2) /\ m.mem[d1.frame][e1] = m.mem[d2.frame][e2] =>
                        d1 = d2 /\ e1 = e2
Clear(m, D, s) ==
    \A d \in D : /\ d.frame # s
                 /\ \A e \in Slots : HasTable(m, d, e) => m.mem[d.frame][e] # s

LEMMA SeparateApart ==
    ASSUME NEW m, NEW D, NEW B, Labelled(D, B), Separate(m, D, B)
    PROVE  Apart(m, D)
PROOF
  <1>1. \A d \in D : d \in UsesIn(m, D, B)
    BY UsesMember
  <1>2. \A d \in D : \A e \in Slots : HasTable(m, d, e) => TableUse(m, d, e) \in UsesIn(m, D, B)
    BY UsesMember
  <1>3. \A d1, d2 \in D : d1.frame = d2.frame => d1 = d2
    BY <1>1 DEF Separate
  <1>4. ASSUME NEW d1 \in D, NEW d2 \in D, NEW e1 \in Slots, HasTable(m, d1, e1)
        PROVE  /\ m.mem[d1.frame][e1] # d2.frame
               /\ \A e2 \in Slots :
                    HasTable(m, d2, e2) /\ m.mem[d1.frame][e1] = m.mem[d2.frame][e2] =>
                        d1 = d2 /\ e1 = e2
    <2>1. \A d, e : /\ TableUse(m, d, e).frame = m.mem[d.frame][e]
                    /\ TableUse(m, d, e).of = <<"table", d.of, e>>
      BY DEF TableUse
    <2>2. TableUse(m, d1, e1) # d2
      <3>1. TableUse(m, d1, e1).of[1] = "table"
        BY <2>1
      <3>2. d2.of[1] # "table"
        BY DEF Labelled
      <3> QED
        BY <3>1, <3>2
    <2>3. m.mem[d1.frame][e1] # d2.frame
      BY <1>1, <1>2, <1>4, <2>1, <2>2 DEF Separate
    <2>4. ASSUME NEW e2 \in Slots, HasTable(m, d2, e2),
                 m.mem[d1.frame][e1] = m.mem[d2.frame][e2]
          PROVE  d1 = d2 /\ e1 = e2
      <3>1. TableUse(m, d1, e1) = TableUse(m, d2, e2)
        BY <1>2, <1>4, <2>1, <2>4 DEF Separate
      <3>2. <<"table", d1.of, e1>> = <<"table", d2.of, e2>>
        BY <2>1, <3>1
      <3>3. d1.of = d2.of /\ e1 = e2
        BY <3>2
      <3> QED
        BY <3>3 DEF Labelled
    <2> QED
      BY <2>3, <2>4
  <1> QED
    BY <1>3, <1>4 DEF Apart

LEMMA SpareClear ==
    ASSUME NEW m, NEW D, NEW B, NEW s, Spare(m, D, B, s)
    PROVE  Clear(m, D, s)
PROOF
  <1>1. \A d \in D : d \in UsesIn(m, D, B)
    BY UsesMember
  <1>2. \A d \in D : \A e \in Slots : HasTable(m, d, e) => TableUse(m, d, e) \in UsesIn(m, D, B)
    BY UsesMember
  <1>3. \A d, e : TableUse(m, d, e).frame = m.mem[d.frame][e]
    BY DEF TableUse
  <1> QED
    BY <1>1, <1>2, <1>3 DEF Clear, Spare

LEMMA TabledAt ==
    ASSUME NEW mem \in [Frames -> Tabled], NEW d \in Frames, NEW e \in Slots, NEW t \in Frames,
           t # d, NEW X, X = TabledMem(mem, d, e, t)
    PROVE  /\ \A f \in Frames : f # t /\ f # d => X[f] = mem[f]
           /\ \A i \in Slots : X[t][i] = None
           /\ \A i \in Slots : X[d][i] = IF i = e THEN t ELSE mem[d][i]
PROOF
  <1>1. mem[d] \in Tabled
    OBVIOUS
  <1>2. \A f \in Frames : X[f] = IF f = d THEN [mem[d] EXCEPT ![e] = t]
                                 ELSE IF f = t THEN Empty ELSE mem[f]
    BY DEF TabledMem
  <1>3. \A i \in Slots : [mem[d] EXCEPT ![e] = t][i] = IF i = e THEN t ELSE mem[d][i]
    BY <1>1 DEF Tabled
  <1> QED
    BY <1>2, <1>3, EmptyTable

LEMMA EnteredAt ==
    ASSUME NEW mem \in [Frames -> Tabled], NEW t \in Frames, NEW e \in Slots, NEW phys,
           NEW X, X = EnteredMem(mem, t, e, phys)
    PROVE  /\ \A f \in Frames : f # t => X[f] = mem[f]
           /\ \A i \in Slots : X[t][i] = IF i = e THEN phys ELSE mem[t][i]
PROOF
  <1>1. mem[t] \in Tabled
    OBVIOUS
  <1>2. \A f \in Frames : X[f] = IF f = t THEN [mem[t] EXCEPT ![e] = phys] ELSE mem[f]
    BY DEF EnteredMem
  <1>3. \A i \in Slots : [mem[t] EXCEPT ![e] = phys][i] = IF i = e THEN phys ELSE mem[t][i]
    BY <1>1 DEF Tabled
  <1> QED
    BY <1>2, <1>3

LEMMA CopiedAt ==
    ASSUME NEW mem \in [Frames -> Tabled], NEW d \in Frames, NEW k \in Frames,
           NEW X, X = CopiedMem(mem, d, k)
    PROVE  /\ \A f \in Frames : f # d => X[f] = mem[f]
           /\ \A i \in Slots : X[d][i] = IF i < KernelEntries THEN mem[k][i] ELSE None
PROOF
  BY DEF CopiedMem

(* What a page number says of its entries. *)
Places == 0..P * P - 1
LEMMA PlaceFacts ==
    ASSUME NEW v \in Places
    PROVE  v \div P \in Slots /\ v % P \in Slots /\ v \in Nat
PROOF
  <1>1. v \in Nat /\ v < P * P
    BY Numbers DEF Places
  <1>2. v \div P \in Nat /\ v % P \in 0..P - 1
    BY <1>1, DivMod, Numbers
  <1>3. v \div P < P
    BY <1>1, DivBounds, Numbers
  <1> QED
    BY <1>1, <1>2, <1>3, Numbers DEF Slots

LEMMA PlaceKinds ==
    /\ UpperPages \subseteq Places /\ KernelPages \subseteq Places /\ Frames = KernelPages
    /\ \A v \in UpperPages : v \div P \in Slots /\ v % P \in Slots /\ v \div P >= KernelEntries
                             /\ v \in Nat /\ \A d : Own(d, v \div P)
    /\ \A v \in KernelPages : v \div P \in Slots /\ v % P \in Slots /\ v \div P < KernelEntries
                              /\ v \in Nat
PROOF
  <1>1. UpperPages \subseteq Places /\ KernelPages \subseteq Places
    BY Numbers DEF UpperPages, KernelPages, Places
  <1>2. \A v \in UpperPages : v \div P \in Slots /\ v % P \in Slots /\ v \div P >= KernelEntries
                              /\ v \in Nat
    BY UpperPlaces, Numbers DEF Slots
  <1>3. \A v \in KernelPages : v \div P \in Slots /\ v % P \in Slots /\ v \div P < KernelEntries
                               /\ v \in Nat
    BY KernelPlaces, Numbers DEF Slots
  <1> QED
    BY <1>1, <1>2, <1>3 DEF Own, Frames

LEMMA Differ == ASSUME NEW v \in Places, NEW w \in Places, v \div P = w \div P, v % P = w % P
                PROVE  v = w
PROOF
  BY PlaceFacts, SamePlace

LEMMA TableCarries ==
    ASSUME NEW m \in Ram, NEW n, NEW D, NEW B, Labelled(D, B), Apart(m, D), NEW t \in Frames,
           Clear(m, D, t), NEW d \in D, NEW e0 \in Slots,
           n.mem = TabledMem(m.mem, d.frame, e0, t)
    PROVE  Carries(m, n, D, D, TableUse(n, d, e0))
PROOF
  <1>1. m.mem \in [Frames -> Tabled] /\ \A c \in D : c.frame \in Frames
    BY RamParts DEF Labelled
  <1>2. \A c \in D : /\ c.frame # t /\ (c.frame = d.frame => c = d)
                     /\ \A e \in Slots : HasTable(m, c, e) =>
                           /\ m.mem[c.frame][e] \in Frames
                           /\ m.mem[c.frame][e] # t /\ m.mem[c.frame][e] # d.frame
    BY RamParts, <1>1 DEF Apart, Clear, HasTable
  <1>3. /\ \A f \in Frames : f # t /\ f # d.frame => n.mem[f] = m.mem[f]
        /\ \A i \in Slots : n.mem[t][i] = None
        /\ \A i \in Slots : n.mem[d.frame][i] = IF i = e0 THEN t ELSE m.mem[d.frame][i]
    <2>1. d.frame # t /\ d.frame \in Frames
      BY <1>1, <1>2
    <2> QED
      BY <1>1, <2>1, TabledAt
  <1>4. ASSUME NEW c \in D, NEW e \in Slots
        PROVE  (c = d /\ e = e0) \/ n.mem[c.frame][e] = m.mem[c.frame][e]
    BY <1>1, <1>2, <1>3
  <1>5. ASSUME NEW c \in D, NEW e \in Slots, HasTable(n, c, e), ~ (c = d /\ e = e0)
        PROVE  HasTable(m, c, e) /\ TableUse(n, c, e) = TableUse(m, c, e)
    BY <1>4, <1>5 DEF HasTable, TableUse
  <1>6. ASSUME NEW c \in D, NEW v \in UpperPages, HasPage(n, c, v)
        PROVE  HasPage(m, c, v) /\ PageUse(n, c, v) = PageUse(m, c, v)
    <2>1. v \div P \in Slots /\ v % P \in Slots
      BY PlaceKinds
    <2>2. ~ (c = d /\ v \div P = e0)
      <3>1. SUFFICES ASSUME c = d /\ v \div P = e0 PROVE FALSE
        OBVIOUS
      <3>2. n.mem[c.frame][v \div P] = t
        BY <1>3, <3>1
      <3> QED
        BY <1>3, <1>6, <2>1, <3>2 DEF HasPage
    <2>3. HasTable(m, c, v \div P) /\ n.mem[c.frame][v \div P] = m.mem[c.frame][v \div P]
      BY <1>4, <1>6, <2>1, <2>2 DEF HasPage, HasTable
    <2>4. n.mem[m.mem[c.frame][v \div P]] = m.mem[m.mem[c.frame][v \div P]]
      BY <1>2, <1>3, <2>1, <2>3
    <2> QED
      BY <1>6, <2>3, <2>4 DEF HasPage, PageUse
  <1>7. ASSUME NEW c \in D, NEW e \in Slots, HasTable(n, c, e)
        PROVE  \/ TableUse(n, c, e) = TableUse(n, d, e0)
               \/ c \in D /\ HasTable(m, c, e) /\ TableUse(n, c, e) = TableUse(m, c, e)
    BY <1>5, <1>7
  <1> QED
    BY <1>6, <1>7 DEF Carries

NewPage(n, d, v) == IF v \in UpperPages /\ Counts(d, v) THEN PageUse(n, d, v) ELSE d

LEMMA EntryCarries ==
    ASSUME NEW m \in Ram, NEW n, NEW D, NEW B, Labelled(D, B), Apart(m, D), NEW d \in D,
           NEW v0 \in Places, HasTable(m, d, v0 \div P), NEW phys,
           n.mem = EnteredMem(m.mem, m.mem[d.frame][v0 \div P], v0 % P, phys)
    PROVE  Carries(m, n, D, D, NewPage(n, d, v0))
PROOF
  <1> DEFINE t == m.mem[d.frame][v0 \div P]
  <1>0. v0 \div P \in Slots /\ v0 % P \in Slots
    BY PlaceFacts
  <1>1. m.mem \in [Frames -> Tabled] /\ (\A c \in D : c.frame \in Frames) /\ t \in Frames
    BY <1>0, RamParts DEF Labelled, HasTable
  <1>2. \A c \in D : /\ c.frame # t
                     /\ \A e \in Slots : HasTable(m, c, e) =>
                           /\ m.mem[c.frame][e] \in Frames
                           /\ m.mem[c.frame][e] = t => c = d /\ e = v0 \div P
    BY <1>0, <1>1, RamParts DEF Apart, HasTable
  <1>3. /\ \A f \in Frames : f # t => n.mem[f] = m.mem[f]
        /\ \A i \in Slots : n.mem[t][i] = IF i = v0 % P THEN phys ELSE m.mem[t][i]
    BY <1>0, <1>1, EnteredAt
  <1> HIDE DEF t
  <1>4. \A c \in D : n.mem[c.frame] = m.mem[c.frame]
    BY <1>1, <1>2, <1>3
  <1>5. ASSUME NEW c \in D, NEW e \in Slots, HasTable(n, c, e)
        PROVE  HasTable(m, c, e) /\ TableUse(n, c, e) = TableUse(m, c, e)
    BY <1>4, <1>5 DEF HasTable, TableUse
  <1>6. ASSUME NEW c \in D, NEW v \in UpperPages, HasPage(n, c, v), ~ (c = d /\ v = v0)
        PROVE  HasPage(m, c, v) /\ PageUse(n, c, v) = PageUse(m, c, v)
    <2>1. v \div P \in Slots /\ v % P \in Slots /\ v \in Places
      BY PlaceKinds
    <2>2. HasTable(m, c, v \div P) /\ n.mem[c.frame] = m.mem[c.frame]
      BY <1>4, <1>5, <1>6, <2>1 DEF HasPage
    <2>3. n.mem[m.mem[c.frame][v \div P]][v % P] = m.mem[m.mem[c.frame][v \div P]][v % P]
      <3>1. CASE m.mem[c.frame][v \div P] # t
        BY <1>2, <1>3, <2>1, <2>2, <3>1
      <3>2. CASE m.mem[c.frame][v \div P] = t
        <4>1. c = d /\ v \div P = v0 \div P
          BY <1>2, <2>1, <2>2, <3>2
        <4>2. v % P # v0 % P
          BY <1>6, <2>1, <4>1, Differ
        <4> QED
          BY <1>3, <2>1, <3>2, <4>2
      <3> QED
        BY <3>1, <3>2
    <2> QED
      BY <1>6, <2>2, <2>3 DEF HasPage, PageUse
  <1>7. ASSUME NEW c \in D, NEW v \in UpperPages, HasPage(n, c, v)
        PROVE  \/ PageUse(n, c, v) = NewPage(n, d, v0)
               \/ c \in D /\ HasPage(m, c, v) /\ PageUse(n, c, v) = PageUse(m, c, v)
    <2>1. CASE c = d /\ v = v0
      BY <1>7, <2>1 DEF NewPage, HasPage
    <2> QED
      BY <1>6, <1>7, <2>1
  <1> QED
    BY <1>5, <1>7 DEF Carries

LEMMA DirectoryCarries ==
    ASSUME NEW m \in Ram, NEW n, NEW D, NEW B, Labelled(D, B), NEW s \in Frames,
           Clear(m, D, s), NEW k \in Frames, n.mem = CopiedMem(m.mem, s, k),
           NEW new, new.frame = s, new.of # <<"kernel">>, NEW E, E \subseteq D \cup {new}
    PROVE  Carries(m, n, D, E, new)
PROOF
  <1>1. m.mem \in [Frames -> Tabled] /\ \A c \in D : c.frame \in Frames /\ c.frame # s
    BY RamParts DEF Labelled, Clear
  <1>2. /\ \A f \in Frames : f # s => n.mem[f] = m.mem[f]
        /\ \A i \in Slots : n.mem[s][i] = IF i < KernelEntries THEN m.mem[k][i] ELSE None
    BY <1>1, CopiedAt
  <1>3. \A e \in Slots : ~ HasTable(n, new, e)
    BY <1>2, Numbers DEF HasTable, Own, Slots
  <1>4. \A v \in UpperPages : ~ HasPage(n, new, v)
    BY <1>3, PlaceKinds DEF HasPage
  <1>5. \A c \in D : n.mem[c.frame] = m.mem[c.frame]
    BY <1>1, <1>2
  <1>6. ASSUME NEW c \in D, NEW e \in Slots, HasTable(n, c, e)
        PROVE  HasTable(m, c, e) /\ TableUse(n, c, e) = TableUse(m, c, e)
    BY <1>5, <1>6 DEF HasTable, TableUse
  <1>7. ASSUME NEW c \in D, NEW v \in UpperPages, HasPage(n, c, v)
        PROVE  HasPage(m, c, v) /\ PageUse(n, c, v) = PageUse(m, c, v)
    <2>1. v \div P \in Slots
      BY PlaceKinds
    <2>2. HasTable(m, c, v \div P) /\ n.mem[c.frame] = m.mem[c.frame]
      BY <1>5, <1>6, <1>7, <2>1 DEF HasPage
    <2>3. m.mem[c.frame][v \div P] \in Frames /\ m.mem[c.frame][v \div P] # s
      BY <1>1, <2>1, <2>2, RamParts DEF HasTable, Clear
    <2> QED
      BY <1>2, <1>7, <2>2, <2>3 DEF HasPage, PageUse
  <1> QED
    BY <1>3, <1>4, <1>6, <1>7 DEF Carries

Setting(D, B, kd) == Labelled(D, B) /\ kd \in D /\ kd.of = <<"kernel">>

LEMMA KernelTables ==
    ASSUME NEW m \in Ram, NEW D, NEW B, NEW kd, Setting(D, B, kd),
           NEW V \in SUBSET KernelPages, ShowsOn(m, D, kd.frame, V), NEW v \in V
    PROVE  /\ HasTable(m, kd, v \div P) /\ m.mem[kd.frame][v \div P] \in Frames
           /\ v \div P \in Slots /\ v % P \in Slots /\ v \in Places
PROOF
  <1>1. v \div P \in Slots /\ v % P \in Slots /\ v \in Places
    BY PlaceKinds
  <1>2. m.mem[kd.frame][v \div P] # None
    BY DEF ShowsOn, Setting
  <1>3. kd.frame \in Frames /\ kd.of = <<"kernel">>
    BY DEF Setting, Labelled
  <1> QED
    BY <1>1, <1>2, <1>3, RamParts DEF HasTable, Own

LEMMA ShowsTable ==
    ASSUME NEW m \in Ram, NEW n, NEW D, NEW B, NEW kd, Setting(D, B, kd), Apart(m, D),
           NEW t \in Frames, Clear(m, D, t), NEW d \in D, NEW e0 \in Slots,
           n.mem = TabledMem(m.mem, d.frame, e0, t),
           NEW V \in SUBSET KernelPages, \A v \in V : v \div P # e0,
           ShowsOn(m, D, kd.frame, V)
    PROVE  ShowsOn(n, D, kd.frame, V)
PROOF
  <1>1. /\ m.mem \in [Frames -> Tabled] /\ (\A c \in D : c.frame \in Frames /\ c.frame # t)
        /\ kd \in D
    BY RamParts DEF Labelled, Clear, Setting
  <1>2. /\ \A f \in Frames : f # t /\ f # d.frame => n.mem[f] = m.mem[f]
        /\ \A i \in Slots : n.mem[d.frame][i] = IF i = e0 THEN t ELSE m.mem[d.frame][i]
    BY <1>1, TabledAt
  <1>3. \A c \in D : \A e \in Slots : e # e0 => n.mem[c.frame][e] = m.mem[c.frame][e]
    BY <1>1, <1>2
  <1> SUFFICES ASSUME NEW c \in D, NEW v \in V
               PROVE  /\ n.mem[kd.frame][v \div P] # None
                      /\ n.mem[c.frame][v \div P] = n.mem[kd.frame][v \div P]
                      /\ n.mem[n.mem[kd.frame][v \div P]][v % P] = v
    BY DEF ShowsOn
  <1>4. /\ HasTable(m, kd, v \div P) /\ m.mem[kd.frame][v \div P] \in Frames
        /\ v \div P \in Slots /\ v % P \in Slots
    BY KernelTables
  <1>5. /\ m.mem[kd.frame][v \div P] # None
        /\ m.mem[c.frame][v \div P] = m.mem[kd.frame][v \div P]
        /\ m.mem[m.mem[kd.frame][v \div P]][v % P] = v
    BY DEF ShowsOn
  <1>6. /\ n.mem[kd.frame][v \div P] = m.mem[kd.frame][v \div P]
        /\ n.mem[c.frame][v \div P] = m.mem[c.frame][v \div P]
    BY <1>1, <1>3, <1>4
  <1>7. m.mem[kd.frame][v \div P] # t /\ m.mem[kd.frame][v \div P] # d.frame
    BY <1>1, <1>4 DEF Clear, Apart
  <1> QED
    BY <1>2, <1>4, <1>5, <1>6, <1>7

LEMMA ShowsEntry ==
    ASSUME NEW m \in Ram, NEW n, NEW D, NEW B, NEW kd, Setting(D, B, kd), Apart(m, D),
           NEW d \in D, NEW v0 \in Places, HasTable(m, d, v0 \div P), NEW phys,
           n.mem = EnteredMem(m.mem, m.mem[d.frame][v0 \div P], v0 % P, phys),
           NEW V \in SUBSET KernelPages, v0 \notin V, ShowsOn(m, D, kd.frame, V)
    PROVE  ShowsOn(n, D, kd.frame, V)
PROOF
  <1> DEFINE t == m.mem[d.frame][v0 \div P]
  <1>0. v0 \div P \in Slots /\ v0 % P \in Slots
    BY PlaceFacts
  <1>1. /\ m.mem \in [Frames -> Tabled] /\ (\A c \in D : c.frame \in Frames /\ c.frame # t)
        /\ kd \in D /\ t \in Frames
    BY <1>0, RamParts DEF Labelled, Setting, Apart, HasTable
  <1>2. /\ \A f \in Frames : f # t => n.mem[f] = m.mem[f]
        /\ \A i \in Slots : n.mem[t][i] = IF i = v0 % P THEN phys ELSE m.mem[t][i]
    BY <1>0, <1>1, EnteredAt
  <1>3. \A e \in Slots : HasTable(m, kd, e) /\ m.mem[kd.frame][e] = t => e = v0 \div P
    BY <1>0, <1>1 DEF Apart
  <1> HIDE DEF t
  <1>4. \A c \in D : n.mem[c.frame] = m.mem[c.frame]
    BY <1>1, <1>2
  <1> SUFFICES ASSUME NEW c \in D, NEW v \in V
               PROVE  /\ n.mem[kd.frame][v \div P] # None
                      /\ n.mem[c.frame][v \div P] = n.mem[kd.frame][v \div P]
                      /\ n.mem[n.mem[kd.frame][v \div P]][v % P] = v
    BY DEF ShowsOn
  <1>5. /\ HasTable(m, kd, v \div P) /\ m.mem[kd.frame][v \div P] \in Frames
        /\ v \div P \in Slots /\ v % P \in Slots /\ v \in Places
    BY KernelTables
  <1>6. /\ m.mem[kd.frame][v \div P] # None
        /\ m.mem[c.frame][v \div P] = m.mem[kd.frame][v \div P]
        /\ m.mem[m.mem[kd.frame][v \div P]][v % P] = v
    BY DEF ShowsOn
  <1>7. ~ (m.mem[kd.frame][v \div P] = t /\ v % P = v0 % P)
    BY <1>3, <1>5, Differ
  <1>8. n.mem[m.mem[kd.frame][v \div P]][v % P] = v
    BY <1>2, <1>5, <1>6, <1>7
  <1> QED
    BY <1>1, <1>4, <1>6, <1>8

LEMMA ShowsDirectory ==
    ASSUME NEW m \in Ram, NEW n, NEW D, NEW B, NEW kd, Setting(D, B, kd), NEW s \in Frames,
           Clear(m, D, s), n.mem = CopiedMem(m.mem, s, kd.frame),
           NEW new, new.frame = s, NEW E, E \subseteq D \cup {new}, Shows(m, D, kd.frame)
    PROVE  Shows(n, E, kd.frame)
PROOF
  <1>1. /\ m.mem \in [Frames -> Tabled] /\ (\A c \in D : c.frame \in Frames /\ c.frame # s)
        /\ kd \in D
    BY RamParts DEF Labelled, Clear, Setting
  <1>2. /\ \A f \in Frames : f # s => n.mem[f] = m.mem[f]
        /\ \A i \in Slots : n.mem[s][i] = IF i < KernelEntries THEN m.mem[kd.frame][i] ELSE None
    BY <1>1, CopiedAt
  <1> SUFFICES ASSUME NEW c \in E, NEW v \in KernelPages
               PROVE  /\ n.mem[kd.frame][v \div P] # None
                      /\ n.mem[c.frame][v \div P] = n.mem[kd.frame][v \div P]
                      /\ n.mem[n.mem[kd.frame][v \div P]][v % P] = v
    BY DEF ShowsOn, Shows
  <1>3. /\ HasTable(m, kd, v \div P) /\ m.mem[kd.frame][v \div P] \in Frames
        /\ v \div P \in Slots /\ v % P \in Slots /\ v \div P < KernelEntries
    BY KernelTables, PlaceKinds DEF Shows
  <1>4. /\ m.mem[kd.frame][v \div P] # None
        /\ \A b \in D : m.mem[b.frame][v \div P] = m.mem[kd.frame][v \div P]
        /\ m.mem[m.mem[kd.frame][v \div P]][v % P] = v
    BY <1>1 DEF ShowsOn, Shows
  <1>5. n.mem[kd.frame] = m.mem[kd.frame] /\ m.mem[kd.frame][v \div P] # s
    BY <1>1, <1>2, <1>3 DEF Clear
  <1>6. n.mem[c.frame][v \div P] = m.mem[kd.frame][v \div P]
    <2>1. CASE c \in D
      BY <1>1, <1>2, <1>4, <2>1
    <2>2. CASE c = new
      BY <1>2, <1>3, <2>2
    <2> QED
      BY <2>1, <2>2
  <1> QED
    BY <1>2, <1>3, <1>4, <1>5, <1>6
-----------------------------------------------------------------------------
(* Allocating a frame, and entering a page.                                *)

LEMMA SameMem ==
    ASSUME NEW m, NEW n, n.mem = m.mem, NEW D, NEW B
    PROVE  UsesIn(n, D, B) = UsesIn(m, D, B)
PROOF
  <1>1. \A d : \A e \in Slots : /\ HasTable(n, d, e) <=> HasTable(m, d, e)
                                /\ TableUse(n, d, e) = TableUse(m, d, e)
    BY DEF HasTable, TableUse
  <1>2. \A d : \A v \in UpperPages : /\ HasPage(n, d, v) <=> HasPage(m, d, v)
                                     /\ PageUse(n, d, v) = PageUse(m, d, v)
    BY DEF HasPage, HasTable, PageUse
  <1>3. ASSUME NEW u PROVE u \in UsesIn(n, D, B) <=> u \in UsesIn(m, D, B)
    <2>1. (\E d \in D : \E e \in Slots : HasTable(n, d, e) /\ u = TableUse(n, d, e))
            <=> (\E d \in D : \E e \in Slots : HasTable(m, d, e) /\ u = TableUse(m, d, e))
      BY <1>1
    <2>2. (\E d \in D : \E v \in UpperPages : HasPage(n, d, v) /\ u = PageUse(n, d, v))
            <=> (\E d \in D : \E v \in UpperPages : HasPage(m, d, v) /\ u = PageUse(m, d, v))
      BY <1>2
    <2> QED
      BY <2>1, <2>2, UsesMember
  <1> QED
    BY <1>3

(* A frame from pmm_alloc_block is not in use. *)
LEMMA AllocatedStep ==
    ASSUME NEW m, Sound(m), NEW n, n = Allocated(m), NEW f, f = Choice(m), n.fault = "none",
           NEW D, NEW B, Separate(m, D, B)
    PROVE  /\ Separate(n, D, B) /\ Spare(n, D, B, f)
           /\ \A s : Spare(m, D, B, s) => s # f /\ Spare(n, D, B, s)
PROOF
  <1>1. n.mem = m.mem /\ f \notin m.used /\ n.used = m.used \cup {f}
    BY AllocatedFacts
  <1>2. UsesIn(n, D, B) = UsesIn(m, D, B)
    BY <1>1, SameMem
  <1> QED
    BY <1>1, <1>2 DEF Separate, Spare

LEMMA AllocatedShows ==
    ASSUME NEW m, NEW n, n.mem = m.mem, NEW D, NEW k, NEW V
    PROVE  ShowsOn(m, D, k, V) <=> ShowsOn(n, D, k, V)
PROOF
  BY DEF ShowsOn

(* No page of V is in the table of v. *)
Elsewhere(V, v) == \A w \in V : w \div P # v \div P
Takes(d, v) == v \in UpperPages /\ Counts(d, v)

(* A frame that is spare becomes the table of v. *)
LEMMA TableIn ==
    ASSUME NEW a \in Ram, NEW D, NEW B, NEW kd, Setting(D, B, kd), NEW d \in D,
           NEW e \in Slots, NEW f \in Frames, Separate(a, D, B), Spare(a, D, B, f),
           NEW n, n.used = a.used, n.mem = TabledMem(a.mem, d.frame, e, f)
    PROVE  /\ Separate(n, D, B) /\ n.mem[d.frame][e] = f
           /\ \A s : Spare(a, D, B, s) /\ s # f => Spare(n, D, B, s)
           /\ \A V \in SUBSET KernelPages :
                 ShowsOn(a, D, kd.frame, V) /\ (\A w \in V : w \div P # e) =>
                     ShowsOn(n, D, kd.frame, V)
PROOF
  <1>1. d.frame \in Frames /\ Labelled(D, B) /\ a.mem \in [Frames -> Tabled]
    BY RamParts DEF Setting, Labelled
  <1>2. Apart(a, D) /\ Clear(a, D, f)
    BY <1>1, SeparateApart, SpareClear
  <1>3. n.mem[d.frame][e] = f
    <2>1. TabledMem(a.mem, d.frame, e, f)[d.frame][e] = f
      BY <1>1, EmptyTable DEF TabledMem, Tabled
    <2> QED
      BY <2>1
  <1> DEFINE new == TableUse(n, d, e)
  <1>4. new.frame = f
    BY <1>3 DEF TableUse
  <1>5. Carries(a, n, D, D, new)
    BY <1>1, <1>2, TableCarries
  <1> HIDE DEF new
  <1>6. Adds(a, n, D, D, B, B, new)
    BY <1>5, CarriesAdds
  <1>7. Separate(n, D, B)
    BY <1>4, <1>6, AddsSeparate
  <1>8. ASSUME NEW s, Spare(a, D, B, s), s # f PROVE Spare(n, D, B, s)
    BY <1>4, <1>6, <1>8, AddsSpare
  <1>9. ASSUME NEW V \in SUBSET KernelPages, ShowsOn(a, D, kd.frame, V),
               \A w \in V : w \div P # e
        PROVE  ShowsOn(n, D, kd.frame, V)
    BY <1>1, <1>2, <1>9, ShowsTable
  <1> QED
    BY <1>3, <1>7, <1>8, <1>9

LEMMA TableStep ==
    ASSUME NEW m, Sound(m), NEW D, NEW B, NEW kd, Setting(D, B, kd), NEW d \in D,
           NEW v \in Places, Own(d, v \div P),
           NEW n, n = WithTable(Allocated(m), d.frame, v, Choice(m))
    PROVE  /\ Sound(n) /\ m.used \subseteq n.used /\ n.mem[d.frame][v \div P] # None
           /\ n.fault = "none" => m.fault = "none"
           /\ n.fault = "none" /\ Separate(m, D, B) =>
                 /\ Separate(n, D, B)
                 /\ \A s : Spare(m, D, B, s) => Spare(n, D, B, s)
                 /\ \A V \in SUBSET KernelPages :
                       ShowsOn(m, D, kd.frame, V) /\ Elsewhere(V, v) =>
                           ShowsOn(n, D, kd.frame, V)
PROOF
  <1> DEFINE a == Allocated(m)
             f == Choice(m)
             e == v \div P
  <1>1. /\ Sound(a) /\ a.mem = m.mem /\ f \in Frames /\ m.used \subseteq a.used
        /\ a.fault = "none" => m.fault = "none"
    BY AllocatedFacts
  <1>2. d.frame \in Frames /\ e \in Slots /\ Labelled(D, B)
    BY PlaceFacts DEF Setting, Labelled
  <1>3. Sound(n) /\ Rewritten(a, n, TabledMem(a.mem, d.frame, e, f))
    BY <1>1, <1>2, WithTableFacts DEF Sound
  <1>4. n.mem[d.frame][e] = f
    <2>1. a.mem \in [Frames -> Tabled]
      BY <1>1, RamParts DEF Sound
    <2>2. TabledMem(a.mem, d.frame, e, f)[d.frame][e] = f
      BY <1>1, <1>2, <2>1, EmptyTable DEF TabledMem, Tabled
    <2> QED
      BY <1>3, <2>2 DEF Rewritten
  <1>5. f # None
    BY <1>1, FrameFacts
  <1>6. ASSUME n.fault = "none", Separate(m, D, B)
        PROVE  /\ Separate(n, D, B)
               /\ \A s : Spare(m, D, B, s) => Spare(n, D, B, s)
               /\ \A V \in SUBSET KernelPages :
                     ShowsOn(m, D, kd.frame, V) /\ Elsewhere(V, v) => ShowsOn(n, D, kd.frame, V)
    <2>1. a.fault = "none" /\ n.used = a.used /\ n.mem = TabledMem(a.mem, d.frame, e, f)
      BY <1>3, <1>6 DEF Rewritten
    <2>2. /\ Separate(a, D, B) /\ Spare(a, D, B, f)
          /\ \A s : Spare(m, D, B, s) => s # f /\ Spare(a, D, B, s)
      BY <1>6, <2>1, AllocatedStep
    <2>3. a \in Ram
      BY <1>1 DEF Sound
    <2> HIDE DEF a, f, e
    <2>4. /\ Separate(n, D, B)
          /\ \A s : Spare(a, D, B, s) /\ s # f => Spare(n, D, B, s)
          /\ \A V \in SUBSET KernelPages :
                ShowsOn(a, D, kd.frame, V) /\ (\A w \in V : w \div P # e) =>
                    ShowsOn(n, D, kd.frame, V)
      BY <1>1, <1>2, <2>1, <2>2, <2>3, TableIn
    <2>5. ASSUME NEW V \in SUBSET KernelPages, ShowsOn(m, D, kd.frame, V), Elsewhere(V, v)
          PROVE  ShowsOn(n, D, kd.frame, V)
      <3>1. ShowsOn(a, D, kd.frame, V)
        BY <1>1, <2>5, AllocatedShows
      <3>2. \A w \in V : w \div P # e
        BY <2>5 DEF Elsewhere, e
      <3> QED
        BY <2>4, <3>1, <3>2
    <2> QED
      BY <2>2, <2>4, <2>5
  <1> QED
    BY <1>1, <1>3, <1>4, <1>5, <1>6 DEF Rewritten

LEMMA EntryStep ==
    ASSUME NEW m, Sound(m), NEW D, NEW B, NEW kd, Setting(D, B, kd), NEW d \in D,
           NEW v \in Places, Own(d, v \div P), NEW phys \in Frames,
           m.mem[d.frame][v \div P] # None, NEW n, n = Entered(m, d.frame, phys, v)
    PROVE  /\ Sound(n) /\ n.used = m.used /\ n.fault = m.fault
           /\ Separate(m, D, B) /\ (Takes(d, v) => Spare(m, D, B, phys)) =>
                 /\ Separate(n, D, B)
                 /\ n.mem[d.frame][v \div P] # None
                 /\ n.mem[n.mem[d.frame][v \div P]][v % P] = phys
                 /\ \A s : Spare(m, D, B, s) /\ (Takes(d, v) => s # phys) => Spare(n, D, B, s)
                 /\ \A V \in SUBSET KernelPages :
                       ShowsOn(m, D, kd.frame, V) /\ v \notin V => ShowsOn(n, D, kd.frame, V)
PROOF
  <1> DEFINE e == v \div P
             t == m.mem[d.frame][e]
  <1>1. d.frame \in Frames /\ e \in Slots /\ v % P \in Slots /\ Labelled(D, B) /\ d \in D
    BY PlaceFacts DEF Setting, Labelled
  <1>2. Sound(n) /\ Rewritten(m, n, EnteredMem(m.mem, t, v % P, phys))
    BY <1>1, EnteredFacts DEF Sound
  <1>3. m \in Ram /\ m.mem \in [Frames -> Tabled] /\ t \in Frames /\ HasTable(m, d, e)
    BY <1>1, RamParts DEF Sound, HasTable
  <1>4. n.used = m.used /\ n.fault = m.fault /\ n.mem = EnteredMem(m.mem, t, v % P, phys)
    BY <1>2 DEF Rewritten
  <1>5. ASSUME Separate(m, D, B), Takes(d, v) => Spare(m, D, B, phys)
        PROVE  /\ Separate(n, D, B)
               /\ n.mem[d.frame][e] # None /\ n.mem[n.mem[d.frame][e]][v % P] = phys
               /\ \A s : Spare(m, D, B, s) /\ (Takes(d, v) => s # phys) => Spare(n, D, B, s)
               /\ \A V \in SUBSET KernelPages :
                     ShowsOn(m, D, kd.frame, V) /\ v \notin V => ShowsOn(n, D, kd.frame, V)
    <2>1. Apart(m, D)
      BY <1>1, <1>5, SeparateApart
    <2>2. t # d.frame
      BY <1>1, <1>3, <2>1 DEF Apart
    <2>3. n.mem[d.frame] = m.mem[d.frame] /\ n.mem[t][v % P] = phys
      BY <1>1, <1>3, <1>4, <2>2, EnteredAt
    <2>4. n.mem[d.frame][e] = t /\ t # None
      BY <1>3, <2>3, FrameFacts
    <2> DEFINE new == NewPage(n, d, v)
    <2>5. Carries(m, n, D, D, new)
      BY <1>1, <1>3, <1>4, <2>1, EntryCarries
    <2>6. Takes(d, v) => new.frame = phys
      BY <2>3, <2>4 DEF NewPage, PageUse, Takes
    <2>7. ~ Takes(d, v) => new = d
      BY DEF NewPage, Takes
    <2> HIDE DEF new
    <2>8. Adds(m, n, D, D, B, B, new)
      BY <2>5, CarriesAdds
    <2>9. d \in UsesIn(m, D, B)
      BY UsesMember
    <2>10. Separate(n, D, B)
      <3>1. new \in UsesIn(m, D, B) \/ Spare(m, D, B, new.frame)
        BY <1>5, <2>6, <2>7, <2>9
      <3> QED
        BY <1>4, <1>5, <2>8, <3>1, AddsSeparate
    <2>11. ASSUME NEW s, Spare(m, D, B, s), Takes(d, v) => s # phys
           PROVE  Spare(n, D, B, s)
      <3>1. new \in UsesIn(m, D, B) \/ new.frame # s
        BY <2>6, <2>7, <2>9, <2>11
      <3> QED
        BY <1>4, <2>8, <2>11, <3>1, AddsSpare
    <2>12. ASSUME NEW V \in SUBSET KernelPages, ShowsOn(m, D, kd.frame, V), v \notin V
           PROVE  ShowsOn(n, D, kd.frame, V)
      BY <1>3, <1>4, <2>1, <2>12, ShowsEntry
    <2> QED
      BY <2>3, <2>4, <2>10, <2>11, <2>12
  <1> QED
    BY <1>2, <1>4, <1>5

LEMMA MapStep ==
    ASSUME NEW m, Sound(m), NEW D, NEW B, NEW kd, Setting(D, B, kd), NEW d \in D,
           NEW v \in Places, Own(d, v \div P), NEW phys \in Frames,
           NEW n, n = vmm_map_page_in_dir(m, d.frame, phys, v)
    PROVE  /\ Sound(n) /\ m.used \subseteq n.used
           /\ n.fault = "none" => m.fault = "none"
           /\ n.fault = "none" /\ Separate(m, D, B) /\ (Takes(d, v) => Spare(m, D, B, phys)) =>
                 /\ Separate(n, D, B)
                 /\ n.mem[d.frame][v \div P] # None
                 /\ n.mem[n.mem[d.frame][v \div P]][v % P] = phys
                 /\ \A s : Spare(m, D, B, s) /\ (Takes(d, v) => s # phys) => Spare(n, D, B, s)
                 /\ \A V \in SUBSET KernelPages :
                       /\ ShowsOn(m, D, kd.frame, V) /\ v \notin V
                       /\ m.mem[d.frame][v \div P] = None => Elsewhere(V, v)
                       => ShowsOn(n, D, kd.frame, V)
PROOF
  <1>1. CASE m.mem[d.frame][v \div P] # None
    <2>1. n = Entered(m, d.frame, phys, v)
      BY <1>1 DEF vmm_map_page_in_dir
    <2> QED
      BY <1>1, <2>1, EntryStep
  <1>2. CASE m.mem[d.frame][v \div P] = None
    <2> DEFINE a == WithTable(Allocated(m), d.frame, v, Choice(m))
    <2>1. n = Entered(a, d.frame, phys, v)
      BY <1>2 DEF vmm_map_page_in_dir
    <2>2. /\ Sound(a) /\ m.used \subseteq a.used /\ a.mem[d.frame][v \div P] # None
          /\ a.fault = "none" => m.fault = "none"
          /\ a.fault = "none" /\ Separate(m, D, B) =>
                /\ Separate(a, D, B)
                /\ \A s : Spare(m, D, B, s) => Spare(a, D, B, s)
                /\ \A V \in SUBSET KernelPages :
                      ShowsOn(m, D, kd.frame, V) /\ Elsewhere(V, v) =>
                          ShowsOn(a, D, kd.frame, V)
      BY TableStep
    <2> HIDE DEF a
    <2>3. /\ Sound(n) /\ n.used = a.used /\ n.fault = a.fault
          /\ Separate(a, D, B) /\ (Takes(d, v) => Spare(a, D, B, phys)) =>
                /\ Separate(n, D, B)
                /\ n.mem[d.frame][v \div P] # None
                /\ n.mem[n.mem[d.frame][v \div P]][v % P] = phys
                /\ \A s : Spare(a, D, B, s) /\ (Takes(d, v) => s # phys) => Spare(n, D, B, s)
                /\ \A V \in SUBSET KernelPages :
                      ShowsOn(a, D, kd.frame, V) /\ v \notin V => ShowsOn(n, D, kd.frame, V)
      BY <2>1, <2>2, EntryStep
    <2> QED
      BY <1>2, <2>2, <2>3
  <1> QED
    BY <1>1, <1>2

(* Everything is in order for directories D and breaks B. *)
Order(m, D, B, kd) ==
    Sound(m) /\ (m.fault = "none" => Separate(m, D, B) /\ Shows(m, D, kd.frame))

(* What allocating and mapping keeps: what was taken, and what was spare;  *)
(* and it never maps over the kernel's own pages.                          *)
Keeps(m, n, D, B) ==
    /\ m.used \subseteq n.used /\ (n.fault = "kernel" => m.fault = "kernel")
    /\ n.fault = "none" => /\ m.fault = "none"
                           /\ \A s : Spare(m, D, B, s) => Spare(n, D, B, s)

LEMMA FaultKept ==
    ASSUME NEW m \in Ram
    PROVE  /\ \A f : Unchecked(m, f).fault \in {"null", m.fault}
           /\ \A d, k : Directory(m, d, k).fault = m.fault
           /\ \A d, x, v : Entered(m, d, x, v).fault = m.fault
PROOF
  <1> HIDE DEF Faults
  <1>1. \A f : Unchecked(m, f).fault \in {"null", m.fault}
    BY DEF Ram, Unchecked
  <1>2. \A d, k : Directory(m, d, k).fault = m.fault
    BY DEF Ram, Directory
  <1>4. \A d, x, v : Entered(m, d, x, v).fault = m.fault
    BY DEF Ram, Entered
  <1> QED
    BY <1>1, <1>2, <1>4

LEMMA MapFault ==
    ASSUME NEW m, Sound(m), NEW d \in Frames, NEW x, NEW v \in Places
    PROVE  vmm_map_page_in_dir(m, d, x, v).fault \in {"null", m.fault}
PROOF
  <1> DEFINE f == Choice(m)
             a == Allocated(m)
             t == WithTable(a, d, v, f)
  <1>1. m \in Ram /\ Sound(a) /\ a \in Ram /\ f \in Frames /\ a.fault \in {"null", m.fault}
    BY AllocatedFacts DEF Sound
  <1>2. v \div P \in Slots
    BY PlaceFacts
  <1> HIDE DEF a, f
  <1>3. t \in Ram /\ t.fault = a.fault
    BY <1>1, <1>2, WithTableFacts DEF Rewritten
  <1> HIDE DEF t
  <1>4. \A y, z : Entered(t, y, x, z).fault = t.fault /\ Entered(m, y, x, z).fault = m.fault
    BY <1>1, <1>3, FaultKept
  <1> QED
    BY <1>1, <1>3, <1>4 DEF vmm_map_page_in_dir, a, f, t

LEMMA PageStep ==
    ASSUME NEW m, NEW D, NEW B, NEW kd, Setting(D, B, kd), NEW d \in D,
           NEW v \in UpperPages, Order(m, D, B, kd), NEW n, n = WithPage(m, d.frame, v)
    PROVE  /\ Order(n, D, B, kd) /\ Keeps(m, n, D, B)
           /\ n.fault = "none" => /\ Choice(m) # 0
                                  /\ ~ Counts(d, v) => Spare(n, D, B, Choice(m))
PROOF
  <1> DEFINE a == Allocated(m)
             f == Choice(m)
  <1>1. Sound(m) /\ (m.fault = "none" => Separate(m, D, B) /\ Shows(m, D, kd.frame))
    BY DEF Order
  <1>2. /\ Sound(a) /\ a.mem = m.mem /\ f \in Frames
        /\ f = 0 => a.fault = "null" /\ a.used = m.used
        /\ f # 0 => f \notin m.used /\ a.used = m.used \cup {f} /\ a.fault = m.fault
    BY <1>1, AllocatedFacts
  <1>3. n = vmm_map_page_in_dir(a, d.frame, f, v)
    BY DEF WithPage
  <1>4. v \in Places /\ Own(d, v \div P) /\ \A w \in KernelPages : w # v /\ w \div P # v \div P
    <2>1. v \in Places /\ Own(d, v \div P) /\ v \div P >= KernelEntries /\ v \div P \in Slots
      BY PlaceKinds
    <2>2. \A w \in KernelPages : w \div P < KernelEntries /\ w \div P \in Slots
      BY PlaceKinds
    <2>3. \A w \in KernelPages : w \div P # v \div P
      BY <2>1, <2>2, Numbers DEF Slots
    <2> QED
      BY <2>1, <2>3
  <1> HIDE DEF a, f
  <1>5. /\ Sound(n) /\ a.used \subseteq n.used
        /\ n.fault = "none" => a.fault = "none"
        /\ n.fault = "none" /\ Separate(a, D, B) /\ (Takes(d, v) => Spare(a, D, B, f)) =>
              /\ Separate(n, D, B)
              /\ \A s : Spare(a, D, B, s) /\ (Takes(d, v) => s # f) => Spare(n, D, B, s)
              /\ \A V \in SUBSET KernelPages :
                    /\ ShowsOn(a, D, kd.frame, V) /\ v \notin V
                    /\ a.mem[d.frame][v \div P] = None => Elsewhere(V, v)
                    => ShowsOn(n, D, kd.frame, V)
    BY <1>2, <1>3, <1>4, MapStep
  <1>6. ASSUME n.fault = "none"
        PROVE  /\ m.fault = "none" /\ f # 0 /\ Separate(n, D, B) /\ Shows(n, D, kd.frame)
               /\ \A s : Spare(m, D, B, s) => Spare(n, D, B, s)
               /\ ~ Counts(d, v) => Spare(n, D, B, f)
    <2>1. a.fault = "none" /\ m.fault = "none" /\ f # 0
      BY <1>2, <1>5, <1>6
    <2>2. /\ Separate(a, D, B) /\ Spare(a, D, B, f)
          /\ \A s : Spare(m, D, B, s) => s # f /\ Spare(a, D, B, s)
      BY <1>1, <2>1, AllocatedStep DEF a, f
    <2>3. Shows(a, D, kd.frame)
      BY <1>1, <1>2, <2>1 DEF Shows, ShowsOn
    <2>4. /\ Separate(n, D, B)
          /\ \A s : Spare(a, D, B, s) /\ (Takes(d, v) => s # f) => Spare(n, D, B, s)
          /\ \A V \in SUBSET KernelPages :
                /\ ShowsOn(a, D, kd.frame, V) /\ v \notin V
                /\ a.mem[d.frame][v \div P] = None => Elsewhere(V, v)
                => ShowsOn(n, D, kd.frame, V)
      BY <1>5, <1>6, <2>2
    <2>5. Shows(n, D, kd.frame)
      BY <1>4, <2>3, <2>4 DEF Shows, Elsewhere
    <2> QED
      BY <2>1, <2>2, <2>4, <2>5 DEF Takes
  <1>7. m.used \subseteq n.used
    BY <1>2, <1>5
  <1>8. n.fault = "kernel" => m.fault = "kernel"
    <2>1. d.frame \in Frames
      BY DEF Setting, Labelled
    <2>2. n.fault \in {"null", a.fault} /\ a.fault \in {"null", m.fault}
      BY <1>2, <1>3, <1>4, <2>1, MapFault
    <2> QED
      BY <2>2
  <1> QED
    BY <1>5, <1>6, <1>7, <1>8 DEF Order, Keeps, f

LEMMA KeepsChain ==
    ASSUME NEW m, NEW a, NEW n, NEW D, NEW B, Keeps(m, a, D, B), Keeps(a, n, D, B)
    PROVE  Keeps(m, n, D, B)
PROOF
  BY DEF Keeps

LEMMA KeepsSelf == ASSUME NEW m, NEW D, NEW B PROVE Keeps(m, m, D, B)
PROOF
  BY DEF Keeps

States(D, B, kd) == {m \in Ram : Order(m, D, B, kd)}
LEMMA StatesMember ==
    ASSUME NEW D, NEW B, NEW kd, NEW m PROVE m \in States(D, B, kd) <=> Order(m, D, B, kd)
PROOF
  BY DEF States, Order, Sound

(* The loop of elf_load_file. *)
LEMMA MappedStep ==
    ASSUME NEW m, NEW D, NEW B, NEW kd, Setting(D, B, kd), NEW d \in D, Order(m, D, B, kd),
           NEW v \in Nat, NEW pages \in Nat, \A k \in 0..pages - 1 : v + k \in UpperPages,
           NEW n, n = MappedFresh(m, d.frame, v, pages)
    PROVE  Order(n, D, B, kd) /\ Keeps(m, n, D, B)
PROOF
  <1> DEFINE T == States(D, B, kd)
             mapped == CHOOSE g : g = [k \in 0..pages |->
                          IF k = 0 THEN m ELSE WithPage(g[k - 1], d.frame, v + k - 1)]
  <1>1. n = mapped[pages]
    BY DEF MappedFresh
  <1>2. \A k \in 1..pages : v + k - 1 \in UpperPages
    OBVIOUS
  <1>3. ASSUME NEW k \in 1..pages, NEW x \in T
        PROVE  WithPage(x, d.frame, v + k - 1) \in T /\ Keeps(x, WithPage(x, d.frame, v + k - 1), D, B)
    <2>1. Order(x, D, B, kd) /\ v + k - 1 \in UpperPages
      BY <1>2, StatesMember
    <2> QED
      BY <2>1, PageStep, StatesMember
  <1>4. m \in T
    BY StatesMember
  <1> HIDE DEF T
  <1>5. mapped = [k \in 0..pages |->
                     IF k = 0 THEN m ELSE WithPage(mapped[k - 1], d.frame, v + k - 1)]
    <2> DEFINE step == [k \in 1..pages |-> [x \in T |-> WithPage(x, d.frame, v + k - 1)]]
    <2>1. step \in [1..pages -> [T -> T]]
      BY <1>3
    <2>2. \A k \in 1..pages : \A x \in T : step[k][x] = WithPage(x, d.frame, v + k - 1)
      OBVIOUS
    <2> HIDE DEF step
    <2>3. PICK f \in [0..pages -> T] : Recursion(f, pages, m, step)
      BY <1>4, <2>1, RecursionUpTo, Zenon
    <2>4. f = [k \in 0..pages |->
                  IF k = 0 THEN m ELSE WithPage(f[k - 1], d.frame, v + k - 1)]
      <3>1. ASSUME NEW k \in 1..pages PROVE f[k] = WithPage(f[k - 1], d.frame, v + k - 1)
        BY <2>2, <2>3 DEF Recursion
      <3>2. \A k \in 0..pages : k # 0 => k \in 1..pages
        OBVIOUS
      <3> QED
        BY <2>3, <3>1, <3>2 DEF Recursion
    <2> QED
      BY <2>4, Zenon
  <1> HIDE DEF mapped
  <1> DEFINE S == {k \in 0..pages : mapped[k] \in T /\ Keeps(m, mapped[k], D, B)}
  <1>6. 0 \in S
    BY <1>4, <1>5, KeepsSelf
  <1>7. ASSUME NEW k \in 0..pages - 1, k \in S PROVE k + 1 \in S
    <2>1. k + 1 \in 1..pages /\ k + 1 \in 0..pages /\ (k + 1) - 1 = k /\ k + 1 # 0
      OBVIOUS
    <2>2. mapped[k + 1] = WithPage(mapped[k], d.frame, v + (k + 1) - 1)
      BY <1>5, <2>1
    <2>3. mapped[k] \in T /\ Keeps(m, mapped[k], D, B)
      BY <1>7
    <2>4. mapped[k + 1] \in T /\ Keeps(mapped[k], mapped[k + 1], D, B)
      BY <1>3, <2>1, <2>2, <2>3
    <2> QED
      BY <2>1, <2>3, <2>4, KeepsChain
  <1>8. pages \in S
    <2> HIDE DEF S
    <2>1. 0..pages \subseteq S
      BY <1>6, <1>7, UpTo
    <2> QED
      BY <2>1
  <1> QED
    BY <1>1, <1>8, StatesMember DEF T

PageRecords == [phys : Frames, virt : UpperPages]
WithBreaks(O, p, S) == O \cup {BreakUse(p, t) : t \in S}

LEMMA BreaksLabelled ==
    ASSUME NEW D, NEW O, NEW kd, Setting(D, O, kd), NEW p, NEW S
    PROVE  Setting(D, WithBreaks(O, p, S), kd)
PROOF
  <1>1. \A b \in WithBreaks(O, p, S) : b \in O \/ \E t \in S : b = BreakUse(p, t)
    BY DEF WithBreaks
  <1>2. \A t : BreakUse(p, t).of[1] = "break"
    BY DEF BreakUse
  <1>3. \A b \in WithBreaks(O, p, S) : b.of[1] = "break"
    BY <1>1, <1>2 DEF Setting, Labelled
  <1> QED
    BY <1>3 DEF Setting, Labelled

(* What sys_sbrk has come to: its pages have frames of their own.          *)
Growing(s, D, O, p, kd) ==
    /\ s \in [m : Ram, pages : SUBSET PageRecords, failed : BOOLEAN]
    /\ Order(s.m, D, WithBreaks(O, p, s.pages), kd)
GrowKeeps(s, r, D, O, p) ==
    /\ s.pages \subseteq r.pages /\ s.m.used \subseteq r.m.used
    /\ r.m.fault = "none" =>
          /\ s.m.fault = "none"
          /\ \A x : Spare(s.m, D, WithBreaks(O, p, s.pages), x) =>
                       Spare(r.m, D, WithBreaks(O, p, r.pages), x)

LEMMA GrownByStep ==
    ASSUME NEW D, NEW O, NEW kd, Setting(D, O, kd), kd.frame = kernel_directory, NEW p,
           NEW s, Growing(s, D, O, p, kd), NEW v \in Places, NEW r, r = GrownBy(s, v)
    PROVE  /\ Growing(r, D, O, p, kd) /\ GrowKeeps(s, r, D, O, p)
           /\ ~ r.failed /\ r.m.fault = "none" => ~ s.failed /\ \E t \in r.pages : t.virt = v
           /\ r.m.fault = "kernel" => s.m.fault = "kernel" \/ v \in KernelPages
PROOF
  <1> DEFINE B == WithBreaks(O, p, s.pages)
             f == Choice(s.m)
  <1>1. s \in [m : Ram, pages : SUBSET PageRecords, failed : BOOLEAN] /\ Order(s.m, D, B, kd)
    BY DEF Growing
  <1>2. CASE s.failed \/ Choice(s.m) = 0
    <2>1. r = [s EXCEPT !.failed = TRUE]
      BY <1>2 DEF GrownBy
    <2>2. /\ r \in [m : Ram, pages : SUBSET PageRecords, failed : BOOLEAN]
          /\ r.m = s.m /\ r.pages = s.pages /\ r.failed
      BY <1>1, <2>1
    <2> QED
      BY <1>1, <2>2 DEF Growing, GrowKeeps
  <1>4. CASE /\ ~ (s.failed \/ Choice(s.m) = 0)
             /\ v \in KernelPages \/ v \in HeapRange
    <2> DEFINE x == IF v \in KernelPages THEN "kernel" ELSE "heap"
    <2>1. r = [s EXCEPT !.m.fault = x]
      BY <1>4 DEF GrownBy, Given
    <2>2. s.m \in Ram /\ Sound(s.m)
      BY <1>1 DEF Order, Sound
    <2>3. /\ r \in [m : Ram, pages : SUBSET PageRecords, failed : BOOLEAN]
          /\ r.m.used = s.m.used /\ r.m.used_blocks = s.m.used_blocks /\ r.m.fault = x
          /\ r.pages = s.pages /\ r.failed = s.failed
      BY <1>1, <2>1, <2>2 DEF Ram, Faults
    <2>4. Sound(r.m)
      BY <2>2, <2>3 DEF Sound
    <2> QED
      BY <2>3, <2>4 DEF Growing, GrowKeeps, Order
  <1>3. CASE ~ (s.failed \/ Choice(s.m) = 0) /\ v \notin KernelPages /\ v \notin HeapRange
    <2>20. v \in UpperPages
      BY <1>3, Numbers DEF UpperPages, KernelPages, Places
    <2> DEFINE n == WithPage(s.m, kernel_directory, v)
               new == [phys |-> f, virt |-> v]
               use == BreakUse(p, new)
               C == WithBreaks(O, p, r.pages)
    <2>1. r = [s EXCEPT !.m = n, !.pages = s.pages \cup {new}]
      BY <1>3 DEF GrownBy, Given
    <2>2. Setting(D, B, kd) /\ kd \in D
      BY BreaksLabelled DEF Setting
    <2>3. ~ Counts(kd, v)
      BY <1>3 DEF Counts, Setting
    <2>4. /\ Order(n, D, B, kd) /\ Keeps(s.m, n, D, B)
          /\ n.fault = "none" => f # 0 /\ Spare(n, D, B, f)
      BY <1>1, <2>2, <2>3, <2>20, PageStep
    <2>5. Sound(s.m) /\ s.m \in Ram /\ n \in Ram
      BY <1>1, <2>4 DEF Order, Sound
    <2>6. f \in Frames /\ f \notin s.m.used
      BY <1>3, <2>5, ChoiceFacts DEF Sound
    <2>7. new \in PageRecords
      BY <2>6, <2>20 DEF PageRecords
    <2> HIDE DEF n, f
    <2>8. /\ r \in [m : Ram, pages : SUBSET PageRecords, failed : BOOLEAN]
          /\ r.m = n /\ r.pages = s.pages \cup {new} /\ r.failed = s.failed
      BY <1>1, <2>1, <2>5, <2>7
    <2>9. use.frame = f
      BY DEF BreakUse
    <2> HIDE DEF new
    <2>10. C = B \cup {use}
      BY <2>8 DEF WithBreaks
    <2> HIDE DEF use, B, C
    <2>11. Adds(n, n, D, D, B, C, use)
      <3>1. \A u \in UsesIn(n, D, C) : u \in UsesIn(n, D, B) \/ u = use
        BY <2>10, UsesMember
      <3> QED
        BY <3>1 DEF Adds
    <2>12. ASSUME n.fault = "none"
           PROVE  /\ s.m.fault = "none" /\ Separate(n, D, C) /\ Shows(n, D, kd.frame)
                  /\ \A x : Spare(s.m, D, B, x) => Spare(n, D, C, x)
      <3>1. Separate(n, D, B) /\ Shows(n, D, kd.frame) /\ Spare(n, D, B, f) /\ s.m.fault = "none"
        BY <2>4, <2>12 DEF Order, Keeps
      <3>2. Separate(n, D, C)
        BY <2>9, <2>11, <3>1, AddsSeparate
      <3>3. ASSUME NEW x, Spare(s.m, D, B, x) PROVE Spare(n, D, C, x)
        <4>1. Spare(n, D, B, x) /\ x \in s.m.used
          BY <2>4, <2>12, <3>3 DEF Keeps, Spare
        <4>2. use.frame # x
          BY <2>6, <2>9, <4>1
        <4> QED
          BY <2>11, <4>1, <4>2, AddsSpare
      <3> QED
        BY <3>1, <3>2, <3>3
    <2>13. Growing(r, D, O, p, kd)
      BY <2>4, <2>8, <2>12 DEF Growing, Order, C
    <2>14. GrowKeeps(s, r, D, O, p)
      BY <2>4, <2>8, <2>12 DEF GrowKeeps, Keeps, B, C
    <2>15. \E t \in r.pages : t.virt = v
      <3>1. new \in r.pages
        BY <2>8
      <3>2. new.virt = v
        BY DEF new
      <3> QED
        BY <3>1, <3>2
    <2>16. r.m.fault = "kernel" => s.m.fault = "kernel"
      BY <2>4, <2>8 DEF Keeps
    <2> QED
      BY <1>3, <2>8, <2>13, <2>14, <2>15, <2>16
  <1> QED
    BY <1>2, <1>3, <1>4

(* All the pages of a call of sys_sbrk.                                    *)
GrownFrom(r, D, O, p, kd, v, pages) ==
    /\ Growing(r, D, O, p, kd) /\ allocated_pages[p] \subseteq r.pages
    /\ ram.used \subseteq r.m.used
    /\ r.m.fault = "none" =>
          \A x : Spare(ram, D, WithBreaks(O, p, allocated_pages[p]), x) =>
                    Spare(r.m, D, WithBreaks(O, p, r.pages), x)
    /\ ~ r.failed /\ r.m.fault = "none" =>
          \A w \in v..v + pages - 1 : \E t \in r.pages : t.virt = w
    /\ r.m.fault = "kernel" => ram.fault = "kernel" \/ v \in KernelPages

LEMMA GrownStep ==
    ASSUME NEW D, NEW O, NEW kd, Setting(D, O, kd), kd.frame = kernel_directory, NEW p,
           Order(ram, D, WithBreaks(O, p, allocated_pages[p]), kd),
           allocated_pages[p] \subseteq PageRecords,
           NEW v \in Nat, NEW pages \in Nat, v + pages <= P * P,
           NEW r, r = Grown(p, v, pages)
    PROVE  GrownFrom(r, D, O, p, kd, v, pages)
PROOF
  <1> DEFINE start == [m |-> ram, pages |-> allocated_pages[p], failed |-> FALSE]
             grown == CHOOSE g : g = [k \in 0..pages |->
                         IF k = 0 THEN start ELSE GrownBy(g[k - 1], v + k - 1)]
             A == [m : Ram, pages : SUBSET PageRecords, failed : BOOLEAN]
             T == {s \in A : Growing(s, D, O, p, kd)}
  <1>1. r = grown[pages]
    BY DEF Grown
  <1>2. \A k \in 1..pages : /\ v + k - 1 \in Places
                            /\ v + k - 1 \in KernelPages => v \in KernelPages
    BY Numbers DEF Places, KernelPages
  <1>3. \A s : s \in T <=> Growing(s, D, O, p, kd)
    BY DEF Growing
  <1>4. ASSUME NEW k \in 1..pages, NEW s \in T
        PROVE  /\ GrownBy(s, v + k - 1) \in T /\ GrowKeeps(s, GrownBy(s, v + k - 1), D, O, p)
               /\ ~ GrownBy(s, v + k - 1).failed /\ GrownBy(s, v + k - 1).m.fault = "none" =>
                     ~ s.failed /\ \E t \in GrownBy(s, v + k - 1).pages : t.virt = v + k - 1
               /\ GrownBy(s, v + k - 1).m.fault = "kernel" =>
                     s.m.fault = "kernel" \/ v \in KernelPages
    <2>1. v + k - 1 \in Places /\ (v + k - 1 \in KernelPages => v \in KernelPages)
      BY <1>2
    <2>2. Growing(s, D, O, p, kd)
      BY <1>3
    <2> HIDE DEF T
    <2> QED
      BY <1>3, <2>1, <2>2, GrownByStep
  <1>5. start \in T
    <2>1. ram \in Ram
      BY DEF Order, Sound
    <2> QED
      BY <2>1 DEF Growing
  <1>6. start.m = ram /\ start.pages = allocated_pages[p]
    OBVIOUS
  <1> HIDE DEF T, start
  <1>7. grown = [k \in 0..pages |-> IF k = 0 THEN start ELSE GrownBy(grown[k - 1], v + k - 1)]
    <2> DEFINE step == [k \in 1..pages |-> [s \in T |-> GrownBy(s, v + k - 1)]]
    <2>1. step \in [1..pages -> [T -> T]]
      BY <1>4
    <2>2. \A k \in 1..pages : \A s \in T : step[k][s] = GrownBy(s, v + k - 1)
      OBVIOUS
    <2> HIDE DEF step
    <2>3. PICK f \in [0..pages -> T] : Recursion(f, pages, start, step)
      BY <1>5, <2>1, RecursionUpTo, Zenon
    <2>4. f = [k \in 0..pages |-> IF k = 0 THEN start ELSE GrownBy(f[k - 1], v + k - 1)]
      <3>1. ASSUME NEW k \in 1..pages PROVE f[k] = GrownBy(f[k - 1], v + k - 1)
        BY <2>2, <2>3 DEF Recursion
      <3>2. \A k \in 0..pages : k # 0 => k \in 1..pages
        OBVIOUS
      <3> QED
        BY <2>3, <3>1, <3>2 DEF Recursion
    <2> QED
      BY <2>4, Zenon
  <1> HIDE DEF grown
  <1> DEFINE Reached(s, k) ==
               /\ s \in T /\ GrowKeeps(start, s, D, O, p)
               /\ ~ s.failed /\ s.m.fault = "none" =>
                     \A w \in v..v + k - 1 : \E t \in s.pages : t.virt = w
               /\ s.m.fault = "kernel" => start.m.fault = "kernel" \/ v \in KernelPages
             S == {k \in 0..pages : Reached(grown[k], k)}
  <1>8. 0 \in S
    <2>1. grown[0] = start
      BY <1>7
    <2>2. GrowKeeps(start, start, D, O, p)
      BY DEF GrowKeeps
    <2> QED
      BY <1>5, <2>1, <2>2
  <1>9. ASSUME NEW k \in 0..pages - 1, k \in S PROVE k + 1 \in S
    <2>1. k + 1 \in 1..pages /\ k + 1 \in 0..pages /\ (k + 1) - 1 = k /\ k + 1 # 0
          /\ v + (k + 1) - 1 = v + k
      OBVIOUS
    <2> DEFINE s == grown[k]
               q == grown[k + 1]
    <2>2. q = GrownBy(s, v + (k + 1) - 1)
      BY <1>7, <2>1
    <2>3. s \in T /\ GrowKeeps(start, s, D, O, p)
          /\ (~ s.failed /\ s.m.fault = "none" =>
                 \A w \in v..v + k - 1 : \E t \in s.pages : t.virt = w)
          /\ (s.m.fault = "kernel" => start.m.fault = "kernel" \/ v \in KernelPages)
      BY <1>9
    <2> HIDE DEF s, q
    <2>4. /\ q \in T /\ GrowKeeps(s, q, D, O, p)
          /\ ~ q.failed /\ q.m.fault = "none" => ~ s.failed /\ \E t \in q.pages : t.virt = v + k
          /\ q.m.fault = "kernel" => s.m.fault = "kernel" \/ v \in KernelPages
      BY <1>4, <2>1, <2>2, <2>3
    <2>5. GrowKeeps(start, q, D, O, p) /\ s.pages \subseteq q.pages
          /\ (q.m.fault = "none" => s.m.fault = "none")
      BY <2>3, <2>4 DEF GrowKeeps
    <2>6. ~ q.failed /\ q.m.fault = "none" =>
             \A w \in v..v + (k + 1) - 1 : \E t \in q.pages : t.virt = w
      <3>1. SUFFICES ASSUME ~ q.failed, q.m.fault = "none", NEW w \in v..v + (k + 1) - 1
                     PROVE  \E t \in q.pages : t.virt = w
        OBVIOUS
      <3>2. CASE w = v + k
        BY <2>4, <3>1, <3>2
      <3>3. CASE w # v + k
        <4>1. w \in v..v + k - 1
          BY <3>3
        <4> QED
          BY <2>3, <2>4, <2>5, <3>1, <4>1
      <3> QED
        BY <3>2, <3>3
    <2> QED
      BY <2>1, <2>3, <2>4, <2>5, <2>6 DEF q
  <1>10. pages \in S
    <2> HIDE DEF S
    <2>1. 0..pages \subseteq S
      BY <1>8, <1>9, UpTo
    <2> QED
      BY <2>1
  <1>11. /\ r \in T /\ GrowKeeps(start, r, D, O, p)
         /\ ~ r.failed /\ r.m.fault = "none" =>
               \A w \in v..v + pages - 1 : \E t \in r.pages : t.virt = w
         /\ r.m.fault = "kernel" => start.m.fault = "kernel" \/ v \in KernelPages
    BY <1>1, <1>10
  <1> QED
    BY <1>3, <1>6, <1>11 DEF GrowKeeps, GrownFrom
-----------------------------------------------------------------------------
(* Boot.                                                                   *)

LEMMA AtStartFacts ==
    /\ Sound(AtStart) /\ AtStart.fault = "none" /\ AtStart.mem \in [Frames -> Tabled]
    /\ \A d \in Frames : \A e \in Slots : AtStart.mem[d][e] = None
PROOF
  <1>1. \A f \in 0..MemStart - 1 : f \div 8 < MaxBlocks \div 8
    <2>1. MemStart <= 8 * (MaxBlocks \div 8)
      BY MemoryAssumption, Zenon DEF MemoryAssumption
    <2> QED
      BY <2>1, Numbers
  <1>2. AtStart.used = 0..MemStart - 1
    BY <1>1 DEF AtStart
  <1>3. Cardinality(0..MemStart - 1) = MemStart
    BY FS_Interval, Numbers
  <1>4. /\ AtStart.used_blocks = MemStart /\ AtStart.fault = "none"
        /\ AtStart.mem = [f \in Frames |-> Empty]
    BY DEF AtStart
  <1>5. AtStart.mem \in [Frames -> Tabled]
    BY <1>4, EmptyTable
  <1>6. AtStart \in Ram
    <2>1. AtStart.used \in SUBSET (0..MaxBlocks - 1) /\ AtStart.used_blocks \in Nat
      BY <1>2, <1>4, Numbers
    <2> QED
      BY <1>4, <1>5, <2>1 DEF Ram, Faults, AtStart
  <1>7. 0 \in AtStart.used
    BY <1>2, Numbers
  <1>8. Sound(AtStart)
    BY <1>2, <1>3, <1>4, <1>6, <1>7, Numbers DEF Sound
  <1> QED
    BY <1>4, <1>5, <1>8, EmptyTable

KernelRecord == [of |-> <<"kernel">>, frame |-> KernelDirectory]

LEMMA KernelRecordFacts ==
    /\ Setting({KernelRecord}, {}, KernelRecord)
    /\ KernelRecord.frame = KernelDirectory /\ KernelRecord.of = <<"kernel">>
    /\ KernelDirectory \in Frames
PROOF
  <1>1. KernelDirectory \in Frames
    BY AtStartFacts, ChoiceFacts DEF KernelDirectory, Sound
  <1>2. KernelRecord.frame = KernelDirectory /\ KernelRecord.of = <<"kernel">>
    BY DEF KernelRecord
  <1> HIDE DEF KernelRecord
  <1> QED
    BY <1>1, <1>2 DEF Setting, Labelled

(* While the kernel's memory is mapped, up to page n.                      *)
Booting(m, n) ==
    /\ Sound(m) /\ KernelDirectory \in m.used /\ m.fault # "kernel"
    /\ m.fault = "none" => /\ KernelDirectory # 0
                           /\ Separate(m, {KernelRecord}, {})
                           /\ ShowsOn(m, {KernelRecord}, KernelDirectory, 0..n - 1)

LEMMA BootStart == Booting(Allocated(AtStart), 0)
PROOF
  <1> DEFINE a == Allocated(AtStart)
  <1>1. /\ Sound(a) /\ a.mem = AtStart.mem
        /\ KernelDirectory = 0 => a.fault = "null" /\ a.used = AtStart.used
        /\ KernelDirectory # 0 => a.used = AtStart.used \cup {KernelDirectory}
    BY AtStartFacts, AllocatedFacts DEF KernelDirectory
  <1>2. KernelDirectory \in a.used
    BY <1>1, AtStartFacts DEF Sound
  <1>8. a.fault # "kernel"
    <2>1. a.fault \in {"null", AtStart.fault}
      BY AtStartFacts, AllocatedFacts
    <2> QED
      BY <2>1 DEF AtStart
  <1> HIDE DEF a
  <1>3. \A e \in Slots : ~ HasTable(a, KernelRecord, e)
    BY <1>1, AtStartFacts, KernelRecordFacts DEF HasTable
  <1>4. \A v \in UpperPages : ~ HasPage(a, KernelRecord, v)
    BY <1>3, PlaceKinds DEF HasPage
  <1>5. \A u \in UsesIn(a, {KernelRecord}, {}) : u = KernelRecord
    BY <1>3, <1>4, UsesMember
  <1>6. Separate(a, {KernelRecord}, {})
    BY <1>2, <1>5, KernelRecordFacts DEF Separate
  <1>7. ShowsOn(a, {KernelRecord}, KernelDirectory, 0..0 - 1)
    BY DEF ShowsOn
  <1> QED
    BY <1>1, <1>2, <1>6, <1>7, <1>8 DEF Booting, a

LEMMA BootStep ==
    ASSUME NEW n \in Nat, n \in KernelPages, NEW m, Booting(m, n),
           NEW r, r = vmm_map_page_in_dir(m, KernelDirectory, n, n)
    PROVE  Booting(r, n + 1)
PROOF
  <1> DEFINE D == {KernelRecord}
             V == 0..n - 1
  <1>1. /\ Setting(D, {}, KernelRecord) /\ KernelRecord \in D
        /\ KernelRecord.frame = KernelDirectory
        /\ n \in Places /\ n \in Frames /\ n \notin UpperPages
        /\ V \in SUBSET KernelPages /\ n \notin V
    BY KernelRecordFacts, PlaceKinds, Numbers DEF UpperPages, KernelPages
  <1>2. Own(KernelRecord, n \div P) /\ ~ Takes(KernelRecord, n)
    BY <1>1, KernelRecordFacts DEF Own, Takes
  <1>3. Sound(m) /\ KernelDirectory \in m.used
    BY DEF Booting
  <1> HIDE DEF D, V
  <1>4. /\ Sound(r) /\ m.used \subseteq r.used
        /\ r.fault = "none" => m.fault = "none"
        /\ r.fault = "none" /\ Separate(m, D, {}) =>
              /\ Separate(r, D, {})
              /\ r.mem[KernelDirectory][n \div P] # None
              /\ r.mem[r.mem[KernelDirectory][n \div P]][n % P] = n
              /\ \A W \in SUBSET KernelPages :
                    /\ ShowsOn(m, D, KernelDirectory, W) /\ n \notin W
                    /\ m.mem[KernelDirectory][n \div P] = None => Elsewhere(W, n)
                    => ShowsOn(r, D, KernelDirectory, W)
    <2>1. /\ Sound(r) /\ m.used \subseteq r.used
          /\ r.fault = "none" => m.fault = "none"
          /\ r.fault = "none" /\ Separate(m, D, {}) /\ (Takes(KernelRecord, n) => Spare(m, D, {}, n)) =>
                /\ Separate(r, D, {})
                /\ r.mem[KernelRecord.frame][n \div P] # None
                /\ r.mem[r.mem[KernelRecord.frame][n \div P]][n % P] = n
                /\ \A s : Spare(m, D, {}, s) /\ (Takes(KernelRecord, n) => s # n) => Spare(r, D, {}, s)
                /\ \A W \in SUBSET KernelPages :
                      /\ ShowsOn(m, D, KernelRecord.frame, W) /\ n \notin W
                      /\ m.mem[KernelRecord.frame][n \div P] = None => Elsewhere(W, n)
                      => ShowsOn(r, D, KernelRecord.frame, W)
      BY <1>1, <1>2, <1>3, MapStep
    <2> QED
      BY <1>1, <1>2, <2>1
  <1>5. ASSUME r.fault = "none"
        PROVE  /\ KernelDirectory # 0 /\ Separate(r, D, {})
               /\ ShowsOn(r, D, KernelDirectory, 0..(n + 1) - 1)
    <2>1. /\ KernelDirectory # 0 /\ Separate(m, D, {}) /\ ShowsOn(m, D, KernelDirectory, V)
      BY <1>4, <1>5 DEF Booting, D, V
    <2>2. m.mem[KernelDirectory][n \div P] = None => Elsewhere(V, n)
      BY <1>1, <2>1 DEF ShowsOn, Elsewhere
    <2>3. ShowsOn(r, D, KernelDirectory, V)
      BY <1>1, <1>4, <1>5, <2>1, <2>2
    <2>4. ASSUME NEW d \in D, NEW v \in 0..(n + 1) - 1
          PROVE  /\ r.mem[KernelDirectory][v \div P] # None
                 /\ r.mem[d.frame][v \div P] = r.mem[KernelDirectory][v \div P]
                 /\ r.mem[r.mem[KernelDirectory][v \div P]][v % P] = v
      <3>1. CASE v = n
        <4>1. d.frame = KernelDirectory
          BY <1>1 DEF D
        <4> QED
          BY <1>4, <1>5, <2>1, <3>1, <4>1
      <3>2. CASE v # n
        <4>1. v \in V
          BY <3>2 DEF V
        <4> QED
          BY <2>3, <4>1 DEF ShowsOn
      <3> QED
        BY <3>1, <3>2
    <2> QED
      BY <1>4, <1>5, <2>1, <2>4 DEF ShowsOn
  <1>6. r.fault # "kernel"
    <2>1. KernelDirectory \in Frames
      BY <1>1 DEF Setting, Labelled
    <2>2. r.fault \in {"null", m.fault}
      BY <1>1, <1>3, <2>1, MapFault
    <2> QED
      BY <2>2 DEF Booting
  <1> QED
    BY <1>3, <1>4, <1>5, <1>6 DEF Booting, D

LEMMA IdentityMappedFacts == Booting(IdentityMapped, KernelEntries * P)
PROOF
  <1> DEFINE N == KernelEntries * P
             start == Allocated(AtStart)
             Page(m, k) == vmm_map_page_in_dir(m, KernelDirectory, k - 1, k - 1)
             mapped == CHOOSE g : g = [k \in 0..N |->
                          IF k = 0 THEN start ELSE Page(g[k - 1], k)]
             T == {m \in Ram : Sound(m)}
  <1>1. IdentityMapped = mapped[N]
    BY DEF IdentityMapped
  <1>2. N \in Nat /\ \A k \in 1..N : k - 1 \in Nat /\ k - 1 \in KernelPages
    BY Numbers DEF KernelPages
  <1> HIDE DEF N
  <1>3. ASSUME NEW k \in 1..N, NEW m \in T PROVE Page(m, k) \in T
    <2>1. k - 1 \in Places /\ k - 1 \in Frames
      BY <1>2, PlaceKinds
    <2>2. Sound(Page(m, k))
      <3>1. /\ Setting({KernelRecord}, {}, KernelRecord) /\ KernelRecord \in {KernelRecord}
            /\ KernelRecord.frame = KernelDirectory /\ Own(KernelRecord, (k - 1) \div P)
        BY KernelRecordFacts DEF Own
      <3>2. Sound(m)
        OBVIOUS
      <3>3. Sound(vmm_map_page_in_dir(m, KernelRecord.frame, k - 1, k - 1))
        BY <2>1, <3>1, <3>2, MapStep
      <3> QED
        BY <3>1, <3>3
    <2> HIDE DEF Page
    <2> QED
      BY <2>2 DEF Sound
  <1>4. start \in T /\ Booting(start, 0)
    BY BootStart DEF Booting, Sound
  <1>5. ASSUME NEW k \in 1..N, NEW m, Booting(m, k - 1) PROVE Booting(Page(m, k), k)
    <2>1. k - 1 \in Nat /\ k - 1 \in KernelPages /\ (k - 1) + 1 = k
      BY <1>2
    <2>2. Booting(Page(m, k), (k - 1) + 1)
      BY <1>5, <2>1, BootStep
    <2> HIDE DEF Page
    <2> QED
      BY <2>1, <2>2
  <1> HIDE DEF T, start, Page
  <1>6. mapped = [k \in 0..N |-> IF k = 0 THEN start ELSE Page(mapped[k - 1], k)]
    <2> DEFINE step == [k \in 1..N |-> [m \in T |-> Page(m, k)]]
    <2>1. step \in [1..N -> [T -> T]]
      BY <1>3
    <2>2. \A k \in 1..N : \A m \in T : step[k][m] = Page(m, k)
      OBVIOUS
    <2> HIDE DEF step
    <2>3. PICK f \in [0..N -> T] : Recursion(f, N, start, step)
      BY <1>2, <1>4, <2>1, RecursionUpTo, Zenon
    <2>4. f = [k \in 0..N |-> IF k = 0 THEN start ELSE Page(f[k - 1], k)]
      <3>1. ASSUME NEW k \in 1..N PROVE f[k] = Page(f[k - 1], k)
        <4>1. k - 1 \in 0..N
          BY <1>2
        <4>2. f[k - 1] \in T
          BY <2>3, <4>1
        <4>3. f[k] = step[k][f[k - 1]]
          BY <2>3, Zenon DEF Recursion
        <4> QED
          BY <2>2, <4>2, <4>3
      <3>2. \A k \in 0..N : k # 0 => k \in 1..N
        BY <1>2
      <3> QED
        BY <2>3, <3>1, <3>2 DEF Recursion
    <2> QED
      BY <2>4, Zenon
  <1> HIDE DEF mapped
  <1> DEFINE S == {k \in 0..N : Booting(mapped[k], k)}
  <1>7. 0 \in S
    BY <1>2, <1>4, <1>6
  <1>8. ASSUME NEW k \in 0..N - 1, k \in S PROVE k + 1 \in S
    <2>1. k + 1 \in 1..N /\ k + 1 \in 0..N /\ (k + 1) - 1 = k /\ k + 1 # 0
      BY <1>2
    <2>2. mapped[k + 1] = Page(mapped[k], k + 1)
      BY <1>6, <2>1
    <2>3. Booting(mapped[k], (k + 1) - 1)
      BY <1>8, <2>1
    <2>4. Booting(Page(mapped[k], k + 1), k + 1)
      BY <1>5, <2>1, <2>3
    <2> QED
      BY <2>1, <2>2, <2>4
  <1>9. N \in S
    <2> HIDE DEF S
    <2>1. 0..N \subseteq S
      BY <1>2, <1>7, <1>8, UpTo
    <2> QED
      BY <1>2, <2>1
  <1>10. Booting(mapped[N], N)
    BY <1>9
  <1> QED
    BY <1>1, <1>10 DEF N

(* Boot leaves everything in order.                                        *)
Booted(m) ==
    /\ Order(m, {KernelRecord}, {}, KernelRecord)
    /\ KernelDirectory \in m.used /\ m.fault # "kernel"
    /\ m.fault = "none" => KernelDirectory # 0

LEMMA HeapPageStep ==
    ASSUME NEW m, Booted(m), NEW v \in UpperPages
    PROVE  Booted(WithHeapPage(m, v))
PROOF
  <1>1. CASE Choice(m) = 0
    BY <1>1 DEF WithHeapPage
  <1>2. CASE Choice(m) # 0
    <2> DEFINE r == WithPage(m, KernelDirectory, v)
    <2>1. /\ Setting({KernelRecord}, {}, KernelRecord) /\ KernelRecord \in {KernelRecord}
          /\ KernelRecord.frame = KernelDirectory
      BY KernelRecordFacts
    <2>2. r = WithPage(m, KernelRecord.frame, v)
      BY <2>1
    <2>3. WithHeapPage(m, v) = r
      BY <1>2 DEF WithHeapPage
    <2> HIDE DEF r
    <2>4. Order(r, {KernelRecord}, {}, KernelRecord) /\ Keeps(m, r, {KernelRecord}, {})
      BY <2>1, <2>2, PageStep DEF Booted
    <2> QED
      BY <2>3, <2>4 DEF Booted, Keeps
  <1> QED
    BY <1>1, <1>2

LEMMA HeapMappedFacts == Booted(HeapMapped)
PROOF
  <1> DEFINE N == HeapPages
             start == IdentityMapped
             Page(m, k) == WithHeapPage(m, HeapPage + k - 1)
             mapped == CHOOSE g : g = [k \in 0..N |->
                          IF k = 0 THEN start ELSE Page(g[k - 1], k)]
             T == {m \in Ram : Booted(m)}
  <1>1. HeapMapped = mapped[N]
    BY DEF HeapMapped
  <1>2. N \in Nat /\ \A k \in 1..N : HeapPage + k - 1 \in UpperPages
    <2>1. /\ HeapPage \in Nat /\ HeapPage >= KernelEntries * P /\ HeapPage + HeapPages <= P * P
          /\ HeapPages \in Nat /\ KernelEntries * P \in Nat /\ P * P \in Nat
      BY Regions, Numbers
    <2> QED
      BY <2>1 DEF UpperPages
  <1> HIDE DEF N
  <1>3. ASSUME NEW k \in 1..N, NEW m \in T PROVE Page(m, k) \in T
    <2>1. Booted(Page(m, k))
      BY <1>2, HeapPageStep
    <2> HIDE DEF Page
    <2> QED
      BY <2>1 DEF Booted, Order, Sound
  <1>4. start \in T
    <2>1. Booting(start, KernelEntries * P)
      BY IdentityMappedFacts
    <2>2. KernelRecord.frame = KernelDirectory
      BY KernelRecordFacts
    <2> HIDE DEF start
    <2>3. Booted(start)
      BY <2>1, <2>2 DEF Booting, Booted, Order, Shows, KernelPages
    <2> QED
      BY <2>3 DEF Booted, Order, Sound
  <1> HIDE DEF T, start, Page
  <1>6. mapped = [k \in 0..N |-> IF k = 0 THEN start ELSE Page(mapped[k - 1], k)]
    <2> DEFINE step == [k \in 1..N |-> [m \in T |-> Page(m, k)]]
    <2>1. step \in [1..N -> [T -> T]]
      BY <1>3
    <2>2. \A k \in 1..N : \A m \in T : step[k][m] = Page(m, k)
      OBVIOUS
    <2> HIDE DEF step
    <2>3. PICK f \in [0..N -> T] : Recursion(f, N, start, step)
      BY <1>2, <1>4, <2>1, RecursionUpTo, Zenon
    <2>4. f = [k \in 0..N |-> IF k = 0 THEN start ELSE Page(f[k - 1], k)]
      <3>1. ASSUME NEW k \in 1..N PROVE f[k] = Page(f[k - 1], k)
        <4>1. k - 1 \in 0..N
          BY <1>2
        <4>2. f[k - 1] \in T
          BY <2>3, <4>1
        <4>3. f[k] = step[k][f[k - 1]]
          BY <2>3, Zenon DEF Recursion
        <4> QED
          BY <2>2, <4>2, <4>3
      <3>2. \A k \in 0..N : k # 0 => k \in 1..N
        BY <1>2
      <3> QED
        BY <2>3, <3>1, <3>2 DEF Recursion
    <2> QED
      BY <2>4, Zenon
  <1> HIDE DEF mapped
  <1> DEFINE S == {k \in 0..N : mapped[k] \in T}
  <1>7. 0 \in S
    BY <1>2, <1>4, <1>6
  <1>8. ASSUME NEW k \in 0..N - 1, k \in S PROVE k + 1 \in S
    <2>1. k + 1 \in 1..N /\ k + 1 \in 0..N /\ (k + 1) - 1 = k /\ k + 1 # 0
      BY <1>2
    <2>2. mapped[k + 1] = Page(mapped[k], k + 1)
      BY <1>6, <2>1
    <2> QED
      BY <1>3, <1>8, <2>1, <2>2
  <1>9. N \in S
    <2> HIDE DEF S
    <2>1. 0..N \subseteq S
      BY <1>2, <1>7, <1>8, UpTo
    <2> QED
      BY <1>2, <2>1
  <1>10. mapped[N] \in T
    BY <1>9
  <1> QED
    BY <1>1, <1>10 DEF T
-----------------------------------------------------------------------------
(* The inductive invariant.                                                *)

KernelDir == [of |-> <<"kernel">>, frame |-> kernel_directory]
ImageDir(p) == [of |-> <<"image", p>>, frame |-> image_pd[p]]
ProcessDir(p) == [of |-> <<"process", p>>, frame |-> cr3[p]]

Pcs == {"prompt", "choose", "take", "load"}
Locs == [program : Programs \cup {None}, want : Wants, frame : Frames,
         count : 0..MaxBlocks, stack : Frames]
TypeInv ==
    /\ ram \in Ram /\ kernel_directory \in ram.used
    /\ pc \in Pcs /\ loc \in Locs
    /\ image_pd \in [Programs -> Frames \cup {None}]
    /\ cr3 \in [Programs -> Frames \cup {None}]
    /\ running \subseteq Programs
    /\ program_break \in [Programs -> 0..Space - 1] /\ strayed \subseteq Programs
    /\ allocated_pages \in [Programs -> SUBSET PageRecords]

(* The counter is behind the bitmap, and frame 0 is used for want of       *)
(* another only when there is no other.                                    *)
Tidy(m) ==
    /\ m \in Ram /\ 0 \in m.used /\ Counted(m)
    /\ m.fault = "null" => Visible(m) = {}

(* What pmm_find_first_free told the shell still holds of the counter, but *)
(* not of the frame.                                                       *)
FrameInv ==
    /\ Tidy(ram)
    /\ pc = "take" => /\ loc.frame = 0 => Visible(ram) = {}
                      /\ loc.frame # 0 => /\ loc.frame \in 0..MaxBlocks - 1
                                          /\ loc.count <= Cardinality(ram.used)
                                          /\ loc.count < MaxBlocks

(* The directories that the shell is to work on have been made.            *)
Stacked == pc \in {"choose", "take"} /\ loc.want \in {"stack", "table"}
PlaceInv ==
    /\ pc # "prompt" => loc.program \in Programs
    /\ pc = "load" \/ (pc # "prompt" /\ loc.want # "image_pd") => image_pd[loc.program] # None
    /\ Stacked => cr3[loc.program] # None

(* Between its allocation and its mapping nothing else uses the stack.     *)
SpareInv ==
    Runs /\ pc \in {"choose", "take"} /\ loc.want = "table" =>
        Spare(ram, Made, Breaks, loc.stack)

SpaceInv == Runs => Separate(ram, Made, Breaks) /\ Shows(ram, Made, kernel_directory)

MemInv == TypeInv /\ FrameInv /\ PlaceInv /\ SpareInv /\ SpaceInv /\ BreakBacked

LEMMA MadeFacts ==
    ASSUME TypeInv
    PROVE  /\ Setting(Made, Breaks, KernelDir) /\ KernelDir.frame = kernel_directory
           /\ kernel_directory \in Frames
           /\ \A p \in Programs : image_pd[p] # None => ImageDir(p) \in Made
           /\ \A p \in Programs : cr3[p] # None => ProcessDir(p) \in Made
           /\ \A b : b \in Breaks <=> \E p \in Programs : \E t \in allocated_pages[p] : b = BreakUse(p, t)
PROOF
  <1>1. kernel_directory \in Frames /\ kernel_directory # None
    BY FrameFacts, RamParts DEF TypeInv
  <1>2. /\ KernelDir.frame = kernel_directory /\ KernelDir.of = <<"kernel">>
        /\ \A p : ImageDir(p).frame = image_pd[p] /\ ImageDir(p).of = <<"image", p>>
        /\ \A p : ProcessDir(p).frame = cr3[p] /\ ProcessDir(p).of = <<"process", p>>
    BY DEF KernelDir, ImageDir, ProcessDir
  <1>3. Directories = {KernelDir} \cup {ImageDir(p) : p \in Programs}
                                  \cup {ProcessDir(p) : p \in Programs}
    BY DEF Directories, KernelDir, ImageDir, ProcessDir
  <1> HIDE DEF KernelDir, ImageDir, ProcessDir
  <1>4. \A d \in Directories : \/ d = KernelDir \/ \E p \in Programs : d = ImageDir(p)
                               \/ \E p \in Programs : d = ProcessDir(p)
    BY <1>3
  <1>5. /\ KernelDir \in Made
        /\ \A p \in Programs : image_pd[p] # None => ImageDir(p) \in Made
        /\ \A p \in Programs : cr3[p] # None => ProcessDir(p) \in Made
    BY <1>1, <1>2, <1>3 DEF Made
  <1>6. ASSUME NEW d \in Made PROVE d.frame \in Frames /\ d.of[1] \in {"kernel", "image", "process"}
    <2>1. d \in Directories /\ d.frame # None
      BY DEF Made
    <2>2. CASE d = KernelDir
      BY <1>1, <1>2, <2>2
    <2>3. CASE \E p \in Programs : d = ImageDir(p)
      BY <1>2, <2>1, <2>3 DEF TypeInv
    <2>4. CASE \E p \in Programs : d = ProcessDir(p)
      BY <1>2, <2>1, <2>4 DEF TypeInv
    <2> QED
      BY <1>4, <2>1, <2>2, <2>3, <2>4
  <1>7. ASSUME NEW c \in Made, NEW d \in Made, c.of = d.of PROVE c = d
    <2>1. c \in Directories /\ d \in Directories
      BY DEF Made
    <2>2. CASE c = KernelDir
      <3>1. d.of[1] = "kernel"
        BY <1>2, <1>7, <2>2
      <3> QED
        BY <1>2, <1>4, <2>1, <2>2, <3>1
    <2>3. CASE \E p \in Programs : c = ImageDir(p)
      <3>1. PICK p \in Programs : c = ImageDir(p)
        BY <2>3
      <3>2. d.of = <<"image", p>>
        BY <1>2, <1>7, <3>1
      <3>3. d.of[1] = "image" /\ d.of[2] = p
        BY <3>2
      <3>4. \E q \in Programs : d = ImageDir(q)
        BY <1>2, <1>4, <2>1, <3>3
      <3>5. PICK q \in Programs : d = ImageDir(q)
        BY <3>4
      <3>6. q = p
        BY <1>2, <3>3, <3>5
      <3> QED
        BY <3>1, <3>5, <3>6
    <2>4. CASE \E p \in Programs : c = ProcessDir(p)
      <3>1. PICK p \in Programs : c = ProcessDir(p)
        BY <2>4
      <3>2. d.of = <<"process", p>>
        BY <1>2, <1>7, <3>1
      <3>3. d.of[1] = "process" /\ d.of[2] = p
        BY <3>2
      <3>4. \E q \in Programs : d = ProcessDir(q)
        BY <1>2, <1>4, <2>1, <3>3
      <3>5. PICK q \in Programs : d = ProcessDir(q)
        BY <3>4
      <3>6. q = p
        BY <1>2, <3>3, <3>5
      <3> QED
        BY <3>1, <3>5, <3>6
    <2> QED
      BY <1>4, <2>1, <2>2, <2>3, <2>4
  <1>8. \A b : b \in Breaks <=> \E p \in Programs : \E t \in allocated_pages[p] : b = BreakUse(p, t)
    <2> DEFINE X(p) == {BreakUse(p, t) : t \in allocated_pages[p]}
    <2>1. Breaks = UNION {X(p) : p \in Programs}
      BY DEF Breaks
    <2>2. \A p \in Programs : \A b : b \in X(p) <=> \E t \in allocated_pages[p] : b = BreakUse(p, t)
      OBVIOUS
    <2> HIDE DEF X
    <2>3. \A b : b \in UNION {X(p) : p \in Programs} <=> \E p \in Programs : b \in X(p)
      OBVIOUS
    <2> QED
      BY <2>1, <2>2, <2>3
  <1>9. \A b \in Breaks : b.of[1] = "break"
    <2>1. \A p, t : BreakUse(p, t).of[1] = "break"
      BY DEF BreakUse
    <2> QED
      BY <1>8, <2>1
  <1> QED
    BY <1>1, <1>2, <1>5, <1>6, <1>7, <1>8, <1>9 DEF Setting, Labelled

LEMMA InOrder ==
    ASSUME MemInv, Runs
    PROVE  /\ Order(ram, Made, Breaks, KernelDir) /\ Sound(ram)
           /\ Separate(ram, Made, Breaks) /\ Shows(ram, Made, kernel_directory)
PROOF
  <1>1. Sound(ram)
    BY DEF MemInv, FrameInv, Tidy, Counted, Sound, Runs
  <1>2. Separate(ram, Made, Breaks) /\ Shows(ram, Made, kernel_directory)
    BY DEF MemInv, SpaceInv
  <1>3. KernelDir.frame = kernel_directory
    BY MadeFacts DEF MemInv
  <1> QED
    BY <1>1, <1>2, <1>3 DEF Order

LEMMA SoundTidy == ASSUME NEW m, Sound(m) PROVE Tidy(m)
PROOF
  BY DEF Sound, Tidy, Counted

LEMMA RewrittenTidy ==
    ASSUME NEW m, Tidy(m), NEW n \in Ram, NEW mem, Rewritten(m, n, mem)
    PROVE  Tidy(n)
PROOF
  <1>1. Visible(n) = Visible(m)
    BY DEF Visible, Rewritten
  <1> QED
    BY <1>1 DEF Tidy, Rewritten, Counted

(* The second half of pmm_alloc_block, with either counter: unless another *)
(* has taken the frame meanwhile, nothing uses it.                         *)
LEMMA TakenFacts ==
    ASSUME TypeInv, FrameInv, Runs, pc = "take", NEW m \in AfterTaking
    PROVE  /\ Tidy(m) /\ m.mem = ram.mem /\ ram.used \subseteq m.used /\ loc.frame \in Frames
           /\ m.fault \in {"none", "clash"} /\ (m.fault = "none" => Sound(m))
           /\ loc.frame = 0 => m = ram /\ Visible(ram) = {}
           /\ loc.frame # 0 /\ m.fault = "none" =>
                 loc.frame \notin ram.used /\ m.used = ram.used \cup {loc.frame}
PROOF
  <1>1. PICK count \in {loc.count, ram.used_blocks} : m = Marked(ram, loc.frame, count)
    BY DEF AfterTaking
  <1>2. /\ ram \in Ram /\ ram.fault = "none" /\ Tidy(ram) /\ loc.frame \in Frames
        /\ loc.count \in 0..MaxBlocks
    BY DEF TypeInv, FrameInv, Runs, Locs
  <1>3. /\ ram.used_blocks <= Cardinality(ram.used) /\ ram.used_blocks \in Nat
        /\ Cardinality(ram.used) <= MaxBlocks /\ Cardinality(ram.used) \in Nat /\ 0 \in ram.used
    BY <1>2, RamParts DEF Tidy, Counted
  <1>4. CASE loc.frame = 0
    <2>1. m = ram /\ Visible(ram) = {}
      BY <1>1, <1>4 DEF Marked, FrameInv
    <2> QED
      BY <1>2, <1>3, <1>4, <2>1 DEF Sound, Tidy
  <1>5. CASE loc.frame # 0
    <2>1. /\ loc.frame \in 0..MaxBlocks - 1
          /\ loc.count <= Cardinality(ram.used) /\ loc.count < MaxBlocks
      BY <1>5 DEF FrameInv
    <2>2. count \in Nat /\ count <= Cardinality(ram.used) /\ count <= MaxBlocks
      BY <1>2, <1>3, <2>1, Numbers
    <2>3. IsMarked(ram, m, loc.frame, count)
      BY <1>1, <1>2, <2>1, <2>2, MarkedFacts, Zenon
    <2>4. /\ m \in Ram /\ m.mem = ram.mem /\ m.used = ram.used \cup {loc.frame}
          /\ m.used_blocks = count + 1
          /\ m.fault = IF loc.frame \in ram.used THEN "clash" ELSE ram.fault
      BY <1>5, <2>3 DEF IsMarked
    <2>5. CASE loc.frame \in ram.used
      <3>1. m.fault = "clash" /\ m.used_blocks <= MaxBlocks + 1
        BY <2>2, <2>4, <2>5, Numbers
      <3>2. Tidy(m)
        BY <1>3, <2>4, <3>1 DEF Tidy, Counted
      <3> QED
        BY <1>2, <1>5, <2>4, <3>1, <3>2
    <2>6. CASE loc.frame \notin ram.used
      <3>1. m.fault = "none"
        BY <1>2, <2>4, <2>6
      <3>2. Cardinality(m.used) = Cardinality(ram.used) + 1
        BY <1>2, <2>1, <2>4, <2>6, OneMore
      <3>3. m.used_blocks <= Cardinality(m.used)
        BY <1>3, <2>2, <2>4, <3>2
      <3>4. Sound(m)
        BY <1>3, <2>4, <3>1, <3>3 DEF Sound
      <3> QED
        BY <1>2, <1>5, <2>4, <2>6, <3>1, <3>4, SoundTidy
    <2> QED
      BY <2>5, <2>6
  <1> QED
    BY <1>4, <1>5

(* And when the caller does not look at the result. *)
LEMMA UncheckedTaken ==
    ASSUME TypeInv, FrameInv, Runs, pc = "take", NEW m \in AfterTaking,
           NEW w, w = Unchecked(m, loc.frame)
    PROVE  /\ Tidy(w) /\ w.mem = ram.mem /\ ram.used \subseteq w.used /\ loc.frame \in Frames
           /\ w.fault = "none" => /\ loc.frame # 0 /\ Sound(w)
                                  /\ loc.frame \notin ram.used
                                  /\ w.used = ram.used \cup {loc.frame}
PROOF
  <1>1. /\ Tidy(m) /\ m.mem = ram.mem /\ ram.used \subseteq m.used /\ loc.frame \in Frames
        /\ m.fault \in {"none", "clash"} /\ (m.fault = "none" => Sound(m))
        /\ loc.frame = 0 => m = ram /\ Visible(ram) = {}
        /\ loc.frame # 0 /\ m.fault = "none" =>
              loc.frame \notin ram.used /\ m.used = ram.used \cup {loc.frame}
    BY TakenFacts
  <1>2. /\ w \in Ram /\ w.mem = m.mem /\ w.used = m.used /\ w.used_blocks = m.used_blocks
        /\ loc.frame = 0 => w.fault = "null"
        /\ loc.frame # 0 => w = m
    BY <1>1, UncheckedFacts DEF Tidy
  <1>3. CASE loc.frame = 0
    <2>1. Visible(w) = {}
      BY <1>1, <1>2, <1>3 DEF Visible
    <2>2. ram.fault = "none"
      BY DEF Runs
    <2> QED
      BY <1>1, <1>2, <1>3, <2>1, <2>2 DEF Tidy, Counted
  <1>4. CASE loc.frame # 0
    BY <1>1, <1>2, <1>4
  <1> QED
    BY <1>3, <1>4

LEMMA TakenUses ==
    ASSUME NEW m, NEW w, w.mem = m.mem, NEW f, f \notin m.used, w.used = m.used \cup {f},
           NEW D, NEW B, Separate(m, D, B)
    PROVE  /\ Separate(w, D, B) /\ Spare(w, D, B, f)
           /\ \A s : Spare(m, D, B, s) => s # f /\ Spare(w, D, B, s)
PROOF
  <1>1. UsesIn(w, D, B) = UsesIn(m, D, B)
    BY SameMem
  <1> QED
    BY <1>1 DEF Separate, Spare
-----------------------------------------------------------------------------
(* Every action preserves it.                                              *)

LEMMA SameUses ==
    ASSUME UNCHANGED <<kernel_directory, image_pd, cr3, allocated_pages>>
    PROVE  Made' = Made /\ Breaks' = Breaks
PROOF
  BY DEF Made, Directories, Breaks

LEMMA SameSpace ==
    ASSUME SpaceInv, BreakBacked, UNCHANGED <<ram, kernel_directory, image_pd, cr3, allocated_pages>>
    PROVE  SpaceInv' /\ (running' \subseteq running /\ UNCHANGED program_break => BreakBacked')
PROOF
  <1>1. Made' = Made /\ Breaks' = Breaks
    BY SameUses
  <1>2. SpaceInv'
    BY <1>1 DEF SpaceInv, Runs
  <1>3. ASSUME running' \subseteq running, UNCHANGED program_break PROVE BreakBacked'
    BY <1>3 DEF BreakBacked, Runs, ImageEnd
  <1> QED
    BY <1>2, <1>3

LEMMA ChooseForStep ==
    ASSUME MemInv, Runs, NEW p \in Programs, NEW want \in Wants, NEW stack \in Frames,
           ChooseFor(p, want, stack), want # "image_pd" => image_pd[p] # None,
           want \in {"stack", "table"} => cr3[p] # None,
           want = "table" => Spare(ram, Made, Breaks, stack)
    PROVE  MemInv'
PROOF
  <1>1. /\ loc' = [program |-> p, want |-> want, frame |-> Choice(ram),
                   count |-> ram.used_blocks, stack |-> stack]
        /\ pc' = "take" /\ UNCHANGED <<ram, kernel_directory, image_pd>>
        /\ UNCHANGED <<cr3, running, program_break, allocated_pages, strayed>>
    BY DEF ChooseFor, process
  <1>2. /\ ram \in Ram /\ ram.fault = "none" /\ 0 \in ram.used
        /\ ram.used_blocks <= Cardinality(ram.used)
    BY InOrder DEF Sound, Runs
  <1>3. /\ ram.used_blocks \in Nat /\ Cardinality(ram.used) \in Nat
        /\ Cardinality(ram.used) <= MaxBlocks
    BY <1>2, RamParts
  <1>4. /\ Choice(ram) \in 0..MaxBlocks - 1 /\ Choice(ram) \in Frames
        /\ Choice(ram) # 0 => ram.used_blocks # MaxBlocks
        /\ Choice(ram) = 0 => ram.used_blocks = MaxBlocks \/ Visible(ram) = {}
    BY <1>2, ChoiceFacts
  <1>5. Choice(ram) = 0 => Visible(ram) = {}
    BY <1>2, <1>4, FullMeansFull
  <1>6. TypeInv'
    <2>1. ram.used_blocks \in 0..MaxBlocks
      BY <1>2, <1>3, Numbers
    <2>2. loc' \in Locs
      BY <1>1, <1>4, <2>1 DEF Locs
    <2> QED
      BY <1>1, <2>2 DEF MemInv, TypeInv, Pcs, Locs, Ram, PageRecords
  <1>7. FrameInv'
    <2>1. Tidy(ram)
      BY DEF MemInv, FrameInv
    <2>2. ram.used_blocks # MaxBlocks => ram.used_blocks < MaxBlocks
      BY <1>2, <1>3, Numbers
    <2> QED
      BY <1>1, <1>2, <1>4, <1>5, <2>1, <2>2 DEF FrameInv, Tidy, Counted, Visible
  <1>8. PlaceInv'
    BY <1>1 DEF PlaceInv, Stacked
  <1>9. SpareInv'
    <2>1. Made' = Made /\ Breaks' = Breaks
      BY <1>1, SameUses
    <2> QED
      BY <1>1, <2>1 DEF SpareInv
  <1>10. SpaceInv' /\ BreakBacked'
    BY <1>1, SameSpace DEF MemInv
  <1> QED
    BY <1>6, <1>7, <1>8, <1>9, <1>10 DEF MemInv

LEMMA ChooseStep ==
    ASSUME MemInv, Choose
    PROVE  MemInv'
PROOF
  <1>1. /\ Runs /\ pc = "choose" /\ ChooseFor(loc.program, loc.want, loc.stack)
    BY DEF Choose
  <1>2. loc.program \in Programs /\ loc.want \in Wants /\ loc.stack \in Frames
    BY <1>1 DEF MemInv, TypeInv, PlaceInv, Locs
  <1>3. /\ loc.want # "image_pd" => image_pd[loc.program] # None
        /\ loc.want \in {"stack", "table"} => cr3[loc.program] # None
        /\ loc.want = "table" => Spare(ram, Made, Breaks, loc.stack)
    BY <1>1 DEF MemInv, PlaceInv, Stacked, SpareInv
  <1> QED
    BY <1>1, <1>2, <1>3, ChooseForStep

LEMMA LoadFileStep ==
    ASSUME MemInv, NEW p \in Programs, elf_load_file(p)
    PROVE  MemInv'
PROOF
  <1>1. Runs /\ ChooseFor(p, "image_pd", 0)
    BY DEF elf_load_file
  <1>2. "image_pd" \in Wants /\ 0 \in Frames
    BY FrameFacts DEF Wants
  <1> QED
    BY <1>1, <1>2, ChooseForStep

LEMMA ExitStep ==
    ASSUME MemInv, NEW p \in Programs, process_exit(p)
    PROVE  MemInv'
PROOF
  <1>1. /\ running' = running \ {p}
        /\ UNCHANGED <<ram, kernel_directory, pc, loc, image_pd, cr3, program_break,
                       allocated_pages, strayed>>
    BY DEF process_exit
  <1>2. TypeInv'
    BY <1>1 DEF MemInv, TypeInv, Pcs, Locs, Ram, PageRecords
  <1>3. FrameInv' /\ PlaceInv'
    BY <1>1 DEF MemInv, FrameInv, PlaceInv, Stacked, Tidy, Counted, Visible
  <1>4. SpareInv'
    <2>1. Made' = Made /\ Breaks' = Breaks
      BY <1>1, SameUses
    <2> QED
      BY <1>1, <2>1 DEF MemInv, SpareInv, Runs
  <1>5. SpaceInv' /\ BreakBacked'
    BY <1>1, SameSpace DEF MemInv
  <1> QED
    BY <1>2, <1>3, <1>4, <1>5 DEF MemInv

LEMMA StutterStep ==
    ASSUME MemInv, UNCHANGED vars
    PROVE  MemInv'
PROOF
  <1>1. UNCHANGED <<ram, kernel_directory, pc, loc, image_pd, cr3, running, program_break,
                    allocated_pages, strayed>>
    BY DEF vars, process
  <1>2. TypeInv'
    BY <1>1 DEF MemInv, TypeInv, Pcs, Locs, Ram, PageRecords
  <1>3. FrameInv' /\ PlaceInv'
    BY <1>1 DEF MemInv, FrameInv, PlaceInv, Stacked, Tidy, Counted, Visible
  <1>4. SpareInv'
    <2>1. Made' = Made /\ Breaks' = Breaks
      BY <1>1, SameUses
    <2> QED
      BY <1>1, <2>1 DEF MemInv, SpareInv, Runs
  <1>5. SpaceInv' /\ BreakBacked'
    BY <1>1, SameSpace DEF MemInv
  <1> QED
    BY <1>2, <1>3, <1>4, <1>5 DEF MemInv

(* The directory of an image, or of a process, when a frame was found.     *)
LEMMA DirectoryUses ==
    ASSUME MemInv, NEW w, Sound(w), w.mem = ram.mem, NEW f \in Frames, f \notin ram.used,
           w.used = ram.used \cup {f}, Runs,
           NEW r, r \in Ram, Rewritten(w, r, CopiedMem(w.mem, f, kernel_directory)),
           NEW new, new.frame = f, new.of # <<"kernel">>, NEW E, E \subseteq Made \cup {new}
    PROVE  Separate(r, E, Breaks) /\ Shows(r, E, kernel_directory)
PROOF
  <1>1. Separate(ram, Made, Breaks) /\ Shows(ram, Made, kernel_directory)
    BY InOrder
  <1>2. Separate(w, Made, Breaks) /\ Spare(w, Made, Breaks, f)
    BY <1>1, TakenUses
  <1>3. Shows(w, Made, kernel_directory)
    BY <1>1 DEF Shows, ShowsOn
  <1>4. /\ Setting(Made, Breaks, KernelDir) /\ KernelDir.frame = kernel_directory
        /\ kernel_directory \in Frames /\ Labelled(Made, Breaks)
    BY MadeFacts DEF MemInv, Setting
  <1>5. Clear(w, Made, f) /\ w \in Ram
    BY <1>2, SpareClear DEF Sound
  <1>6. r.mem = CopiedMem(w.mem, f, kernel_directory) /\ r.used = w.used
    BY DEF Rewritten
  <1>7. Carries(w, r, Made, E, new)
    BY <1>4, <1>5, <1>6, DirectoryCarries
  <1>8. Adds(w, r, Made, E, Breaks, Breaks, new)
    BY <1>7, CarriesAdds
  <1>9. Separate(r, E, Breaks)
    BY <1>2, <1>6, <1>8, AddsSeparate
  <1>10. Shows(r, E, kernel_directory)
    BY <1>3, <1>4, <1>5, <1>6, ShowsDirectory
  <1> QED
    BY <1>9, <1>10

LEMMA SameBacked ==
    ASSUME BreakBacked, Runs, UNCHANGED <<running, program_break, allocated_pages>>
    PROVE  BreakBacked'
PROOF
  BY DEF BreakBacked, Runs, ImageEnd

LEMMA LoadDirectoryStep ==
    ASSUME MemInv, elf_load_file_directory
    PROVE  MemInv'
PROOF
  <1> DEFINE f == loc.frame
             p == loc.program
  <1>1. /\ Runs /\ pc = "take" /\ loc.want = "image_pd"
        /\ UNCHANGED <<kernel_directory, cr3, running, program_break, allocated_pages,
                       strayed>>
    BY DEF elf_load_file_directory, Taking, process
  <1>2. TypeInv /\ FrameInv /\ p \in Programs /\ f \in Frames
    BY <1>1 DEF MemInv, PlaceInv, TypeInv, Locs
  <1>3. BreakBacked'
    BY <1>1, SameBacked DEF MemInv
  <1>4. CASE f = 0 /\ Return /\ UNCHANGED <<ram, image_pd>>
    <2>1. pc' = "prompt" /\ loc' = NoLocals
      BY <1>4 DEF Return
    <2>2. TypeInv'
      <3>1. NoLocals \in Locs
        BY FrameFacts, Numbers DEF NoLocals, Locs, Wants
      <3> QED
        BY <1>1, <1>2, <1>4, <2>1, <3>1 DEF TypeInv, Pcs, Locs, Ram, PageRecords
    <2>3. FrameInv' /\ PlaceInv' /\ SpareInv'
      BY <1>2, <1>4, <2>1 DEF FrameInv, PlaceInv, Stacked, SpareInv, Tidy, Counted, Visible
    <2>4. SpaceInv'
      BY <1>1, <1>4, SameSpace DEF MemInv
    <2> QED
      BY <1>3, <2>2, <2>3, <2>4 DEF MemInv
  <1>5. CASE /\ f # 0 /\ \E m \in AfterTaking : ram' = Directory(m, f, kernel_directory)
             /\ image_pd' = [image_pd EXCEPT ![p] = f] /\ Continue("load")
    <2>1. PICK m \in AfterTaking : ram' = Directory(m, f, kernel_directory)
      BY <1>5
    <2>2. /\ Tidy(m) /\ m.mem = ram.mem /\ ram.used \subseteq m.used
          /\ m.fault = "none" => Sound(m) /\ f \notin ram.used /\ m.used = ram.used \cup {f}
      BY <1>1, <1>2, <1>5, TakenFacts
    <2>3. kernel_directory \in Frames
      BY <1>2, MadeFacts
    <2>4. ram' \in Ram /\ Rewritten(m, ram', CopiedMem(m.mem, f, kernel_directory))
      BY <1>2, <2>1, <2>2, <2>3, DirectoryFacts DEF Tidy
    <2>5. Tidy(ram') /\ ram'.used = m.used /\ ram'.fault = m.fault
      BY <2>2, <2>4, RewrittenTidy DEF Rewritten
    <2>6. pc' = "load" /\ loc' = loc
      BY <1>5 DEF Continue
    <2>7. f # None /\ image_pd'[p] = f
      BY <1>2, <1>5, FrameFacts DEF TypeInv
    <2>8. TypeInv'
      <3>1. image_pd' \in [Programs -> Frames \cup {None}]
        BY <1>2, <1>5 DEF TypeInv
      <3>2. kernel_directory' \in ram'.used
        BY <1>1, <1>2, <2>2, <2>5 DEF TypeInv
      <3> QED
        BY <1>1, <1>2, <2>4, <2>6, <3>1, <3>2 DEF TypeInv, Pcs, Locs, Ram, PageRecords
    <2>9. FrameInv' /\ PlaceInv' /\ SpareInv'
      <3>1. FrameInv'
        BY <2>5, <2>6 DEF FrameInv, Tidy, Counted, Visible, Ram
      <3> QED
        BY <1>2, <2>6, <2>7, <3>1 DEF PlaceInv, Stacked, SpareInv
    <2>10. SpaceInv'
      <3>1. SUFFICES ASSUME ram'.fault = "none"
                     PROVE  Separate(ram', Made', Breaks') /\ Shows(ram', Made', kernel_directory')
        BY DEF SpaceInv, Runs
      <3> DEFINE new == [of |-> <<"image", p>>, frame |-> f]
      <3>2. Made' \subseteq Made \cup {new}
        <4>1. \A q \in Programs : q # p => image_pd'[q] = image_pd[q]
          BY <1>2, <1>5 DEF TypeInv
        <4>2. Directories' \subseteq Directories \cup {new}
          BY <1>1, <2>7, <4>1 DEF Directories
        <4> QED
          BY <4>2 DEF Made
      <3>3. new.frame = f /\ new.of # <<"kernel">>
        <4>1. new.frame = f /\ new.of[1] = "image"
          OBVIOUS
        <4> QED
          BY <4>1
      <3>4. Breaks' = Breaks
        BY <1>1 DEF Breaks
      <3> HIDE DEF new
      <3>5. Separate(ram', Made', Breaks) /\ Shows(ram', Made', kernel_directory)
        BY <1>1, <1>2, <2>2, <2>4, <2>5, <3>1, <3>2, <3>3, DirectoryUses
      <3> QED
        BY <1>1, <3>4, <3>5
    <2> QED
      BY <1>3, <2>8, <2>9, <2>10 DEF MemInv
  <1> QED
    BY <1>4, <1>5 DEF elf_load_file_directory

LEMMA LoadImageStep ==
    ASSUME MemInv, elf_load_file_image
    PROVE  MemInv' /\ ram'.fault # "kernel"
PROOF
  <1> DEFINE p == loc.program
  <1>1. /\ Runs /\ pc = "load" /\ pc' = "choose" /\ loc' = [loc EXCEPT !.want = "cr3"]
        /\ ram' = MappedFresh(ram, image_pd[p], ImagePage, ImagePages[p])
        /\ UNCHANGED <<kernel_directory, image_pd, cr3, running, program_break, allocated_pages,
                       strayed>>
    BY DEF elf_load_file_image, Allocate, process
  <1>2. TypeInv /\ FrameInv /\ p \in Programs /\ image_pd[p] # None /\ loc \in Locs
    BY <1>1 DEF MemInv, PlaceInv, TypeInv
  <1>3. /\ Setting(Made, Breaks, KernelDir) /\ KernelDir.frame = kernel_directory
        /\ ImageDir(p) \in Made
    BY <1>2, MadeFacts
  <1>4. ImageDir(p).frame = image_pd[p]
    BY DEF ImageDir
  <1>5. /\ ImagePage \in Nat /\ ImagePages[p] \in Nat
        /\ \A k \in 0..ImagePages[p] - 1 : ImagePage + k \in UpperPages
    BY <1>2, Regions, Numbers DEF UpperPages
  <1>6. Order(ram, Made, Breaks, KernelDir)
    BY <1>1, InOrder
  <1>7. Order(ram', Made, Breaks, KernelDir) /\ Keeps(ram, ram', Made, Breaks)
    <2>1. ram' = MappedFresh(ram, ImageDir(p).frame, ImagePage, ImagePages[p])
      BY <1>1, <1>4
    <2> HIDE DEF p
    <2> QED
      BY <1>3, <1>5, <1>6, <2>1, MappedStep
  <1>8. Made' = Made /\ Breaks' = Breaks
    BY <1>1, SameUses
  <1>9. loc' \in Locs /\ loc'.program = p /\ loc'.want = "cr3"
    BY <1>1, <1>2 DEF Locs, Wants
  <1>10. Tidy(ram')
    BY <1>7, SoundTidy DEF Order
  <1>11. TypeInv'
    BY <1>1, <1>2, <1>7, <1>9, <1>10 DEF TypeInv, Pcs, Locs, Ram, PageRecords, Keeps, Tidy
  <1>12. FrameInv'
    BY <1>1, <1>10 DEF FrameInv, Tidy, Counted, Visible, Ram
  <1>13. PlaceInv' /\ SpareInv'
    BY <1>1, <1>2, <1>9 DEF PlaceInv, SpareInv, Stacked
  <1>14. SpaceInv'
    BY <1>1, <1>3, <1>7, <1>8 DEF SpaceInv, Runs, Order
  <1>15. BreakBacked'
    BY <1>1, SameBacked DEF MemInv
  <1>16. ram'.fault # "kernel"
    BY <1>1, <1>7 DEF Keeps, Runs
  <1> QED
    BY <1>11, <1>12, <1>13, <1>14, <1>15, <1>16 DEF MemInv

LEMMA ProcessDirectoryStep ==
    ASSUME MemInv, create_process_directory
    PROVE  MemInv'
PROOF
  <1> DEFINE f == loc.frame
             p == loc.program
  <1>1. /\ Runs /\ pc = "take" /\ loc.want = "cr3"
        /\ cr3' = [cr3 EXCEPT ![p] = f] /\ pc' = "choose" /\ loc' = [loc EXCEPT !.want = "stack"]
        /\ UNCHANGED <<kernel_directory, image_pd, running, program_break, allocated_pages,
                       strayed>>
    BY DEF create_process_directory, Taking, Allocate
  <1>2. TypeInv /\ FrameInv /\ p \in Programs /\ f \in Frames /\ loc \in Locs
        /\ image_pd[p] # None
    BY <1>1 DEF MemInv, PlaceInv, TypeInv, Locs
  <1>3. PICK m \in AfterTaking : ram' = Directory(Unchecked(m, f), f, kernel_directory)
    BY DEF create_process_directory
  <1> DEFINE w == Unchecked(m, f)
  <1>4. /\ Tidy(w) /\ w.mem = ram.mem /\ ram.used \subseteq w.used
        /\ w.fault = "none" => Sound(w) /\ f \notin ram.used /\ w.used = ram.used \cup {f}
    BY <1>1, <1>2, UncheckedTaken
  <1>5. kernel_directory \in Frames
    BY <1>2, MadeFacts
  <1> HIDE DEF w
  <1>6. ram' \in Ram /\ Rewritten(w, ram', CopiedMem(w.mem, f, kernel_directory))
    BY <1>2, <1>3, <1>4, <1>5, DirectoryFacts DEF Tidy, w
  <1>7. Tidy(ram') /\ ram'.used = w.used /\ ram'.fault = w.fault
    BY <1>4, <1>6, RewrittenTidy DEF Rewritten
  <1>8. f # None /\ cr3'[p] = f
    BY <1>1, <1>2, FrameFacts DEF TypeInv
  <1>9. loc' \in Locs /\ loc'.program = p /\ loc'.want = "stack"
    BY <1>1, <1>2 DEF Locs, Wants
  <1>10. TypeInv'
    <2>1. cr3' \in [Programs -> Frames \cup {None}]
      BY <1>1, <1>2 DEF TypeInv
    <2>2. kernel_directory' \in ram'.used
      BY <1>1, <1>2, <1>4, <1>7 DEF TypeInv
    <2> QED
      BY <1>1, <1>2, <1>6, <1>9, <2>1, <2>2 DEF TypeInv, Pcs, Locs, Ram, PageRecords
  <1>11. FrameInv'
    BY <1>1, <1>7 DEF FrameInv, Tidy, Counted, Visible, Ram
  <1>12. PlaceInv' /\ SpareInv'
    BY <1>1, <1>2, <1>8, <1>9 DEF PlaceInv, Stacked, SpareInv
  <1>13. SpaceInv'
    <2>1. SUFFICES ASSUME ram'.fault = "none"
                   PROVE  Separate(ram', Made', Breaks') /\ Shows(ram', Made', kernel_directory')
      BY DEF SpaceInv, Runs
    <2> DEFINE new == [of |-> <<"process", p>>, frame |-> f]
    <2>2. Made' \subseteq Made \cup {new}
      <3>1. \A q \in Programs : q # p => cr3'[q] = cr3[q]
        BY <1>1, <1>2 DEF TypeInv
      <3>2. Directories' \subseteq Directories \cup {new}
        BY <1>1, <1>8, <3>1 DEF Directories
      <3> QED
        BY <3>2 DEF Made
    <2>3. new.frame = f /\ new.of # <<"kernel">>
      <3>1. new.frame = f /\ new.of[1] = "process"
        OBVIOUS
      <3> QED
        BY <3>1
    <2>4. Breaks' = Breaks
      BY <1>1 DEF Breaks
    <2> HIDE DEF new
    <2>5. Separate(ram', Made', Breaks) /\ Shows(ram', Made', kernel_directory)
      BY <1>1, <1>2, <1>4, <1>6, <1>7, <2>1, <2>2, <2>3, DirectoryUses
    <2> QED
      BY <1>1, <2>4, <2>5
  <1>14. BreakBacked'
    BY <1>1, SameBacked DEF MemInv
  <1> QED
    BY <1>10, <1>11, <1>12, <1>13, <1>14 DEF MemInv

LEMMA ProcessStackStep ==
    ASSUME MemInv, create_process_stack
    PROVE  MemInv'
PROOF
  <1> DEFINE f == loc.frame
             p == loc.program
  <1>1. /\ Runs /\ pc = "take" /\ loc.want = "stack"
        /\ pc' = "choose" /\ loc' = [loc EXCEPT !.want = "table", !.stack = f]
        /\ UNCHANGED <<kernel_directory, image_pd, cr3, running, program_break, allocated_pages,
                       strayed>>
    BY DEF create_process_stack, Taking, process
  <1>2. TypeInv /\ FrameInv /\ p \in Programs /\ f \in Frames /\ loc \in Locs
        /\ image_pd[p] # None /\ cr3[p] # None
    BY <1>1 DEF MemInv, PlaceInv, TypeInv, Locs, Stacked
  <1>3. PICK m \in AfterTaking : ram' = Unchecked(m, f)
    BY DEF create_process_stack
  <1>4. /\ Tidy(ram') /\ ram'.mem = ram.mem /\ ram.used \subseteq ram'.used
        /\ ram'.fault = "none" => f \notin ram.used /\ ram'.used = ram.used \cup {f}
    BY <1>1, <1>2, <1>3, UncheckedTaken
  <1>5. loc' \in Locs /\ loc'.program = p /\ loc'.want = "table" /\ loc'.stack = f
    BY <1>1, <1>2 DEF Locs, Wants
  <1>6. TypeInv'
    BY <1>1, <1>2, <1>4, <1>5 DEF TypeInv, Pcs, Locs, Ram, PageRecords, Tidy
  <1>7. FrameInv'
    BY <1>1, <1>4 DEF FrameInv, Tidy, Counted, Visible, Ram
  <1>8. PlaceInv'
    BY <1>1, <1>2, <1>5 DEF PlaceInv, Stacked
  <1>9. ASSUME ram'.fault = "none"
        PROVE  Separate(ram', Made, Breaks) /\ Spare(ram', Made, Breaks, f)
               /\ Shows(ram', Made, kernel_directory)
    <2>1. Separate(ram, Made, Breaks) /\ Shows(ram, Made, kernel_directory)
      BY <1>1, InOrder
    <2>2. Separate(ram', Made, Breaks) /\ Spare(ram', Made, Breaks, f)
      BY <1>4, <1>9, <2>1, TakenUses
    <2>3. Shows(ram', Made, kernel_directory)
      BY <1>4, <2>1 DEF Shows, ShowsOn
    <2> QED
      BY <2>2, <2>3
  <1>10. Made' = Made /\ Breaks' = Breaks
    BY <1>1, SameUses
  <1>11. SpareInv' /\ SpaceInv'
    BY <1>1, <1>5, <1>9, <1>10 DEF SpareInv, SpaceInv, Runs
  <1>12. BreakBacked'
    BY <1>1, SameBacked DEF MemInv
  <1> QED
    BY <1>6, <1>7, <1>8, <1>11, <1>12 DEF MemInv

(* The end of the places of a break, and of the address space.             *)
LastPage == P * P - 1
LEMMA SpaceFacts ==
    /\ LastPage \in Nat /\ LastPage * PageSize \in Nat /\ Space \in Nat
    /\ Space = LastPage * PageSize + PageSize
    /\ \A p : Place(p) = ImageEnd(p) * PageSize..LastPage * PageSize
    /\ \A a, b \in Nat : a <= b => a * PageSize <= b * PageSize
    /\ \A a \in Nat : a * PageSize \in Nat
PROOF
  <1>1. P * P \in Nat \ {0}
    BY Numbers
  <1> DEFINE n == P * P
             q == PageSize
  <1>2. n \in Nat \ {0} /\ q \in Nat \ {0}
    BY <1>1, Numbers
  <1> HIDE DEF n, q
  <1>3. n - 1 \in Nat /\ (n - 1) * q \in Nat /\ n * q \in Nat
    BY <1>2
  <1>4. n * q = (n - 1) * q + q
    <2> DEFINE k == n - 1
    <2>1. k \in Nat /\ n = k + 1
      BY <1>2
    <2> HIDE DEF k
    <2>2. (k + 1) * q = k * q + q
      BY <1>2, <2>1
    <2> QED
      BY <2>1, <2>2 DEF k
  <1>5. /\ \A a, b \in Nat : a <= b => a * q <= b * q
        /\ \A a \in Nat : a * q \in Nat
    BY <1>2
  <1> QED
    BY <1>3, <1>4, <1>5 DEF LastPage, Space, Place, n, q

LEMMA ModSmall ==
    ASSUME NEW n \in Nat \ {0}, NEW x \in 0..n - 1
    PROVE  x % n = x
PROOF
  <1>5. x \in Nat /\ n \in Nat \ {0} /\ 1 \in Nat
    OBVIOUS
  <1>1. x \div n \in Nat /\ x % n \in 0..n - 1 /\ x = (x \div n) * n + (x % n)
    BY <1>5, DivMod
  <1>2. x < 1 * n
    OBVIOUS
  <1>3. x \div n < 1
    BY <1>2, <1>5, DivBounds
  <1>4. x \div n = 0
    BY <1>1, <1>3
  <1> QED
    BY <1>1, <1>4

LEMMA ModOnce ==
    ASSUME NEW n \in Nat \ {0}, NEW x \in n..2 * n - 1
    PROVE  x % n = x - n
PROOF
  <1>5. x \in Nat /\ n \in Nat \ {0} /\ {1, 2} \subseteq Nat
    OBVIOUS
  <1>1. x \div n \in Nat /\ x % n \in 0..n - 1 /\ x = (x \div n) * n + (x % n)
    BY <1>5, DivMod
  <1>2. x < 2 * n /\ x >= 1 * n /\ x \in Nat
    OBVIOUS
  <1>3. x \div n < 2 /\ x \div n >= 1
    BY <1>2, <1>5, DivBounds
  <1>4. x \div n = 1
    BY <1>1, <1>3
  <1> QED
    BY <1>1, <1>4

(* An address rounded up, as a page number. *)
LEMMA TopBounds ==
    ASSUME NEW a \in Nat, NEW b \in 0..LastPage, NEW x \in a * PageSize..b * PageSize
    PROVE  Top(x) \in a..b
PROOF
  <1> DEFINE q == PageSize
             y == x + q - 1
  <1>1. /\ q \in Nat \ {0} /\ a * q \in Nat /\ b * q \in Nat /\ b \in Nat /\ x \in Nat
        /\ x >= a * q /\ x <= b * q /\ b * q <= LastPage * q
    BY Numbers, SpaceFacts
  <1>2. y \in Nat /\ y >= a * q /\ y < b * q + q /\ b * q + q = (b + 1) * q
    BY <1>1
  <1>3. Space \in Nat \ {0} /\ y \in 0..Space - 1
    BY <1>1, <1>2, SpaceFacts
  <1> HIDE DEF y
  <1>4. y % Space = y
    BY <1>3, ModSmall
  <1> HIDE DEF q
  <1>5. y \div q \in Nat
    BY <1>1, <1>2, DivMod
  <1>6. y \div q >= a
    BY <1>1, <1>2, DivBounds
  <1>9. b + 1 \in Nat /\ y < (b + 1) * q
    BY <1>1, <1>2
  <1>7. y \div q < b + 1
    BY <1>1, <1>2, <1>9, DivBounds
  <1>8. y \div q \in a..b
    BY <1>1, <1>5, <1>6, <1>7
  <1> QED
    BY <1>4, <1>8 DEF Top, y, q

LEMMA PageNumbers ==
    ASSUME NEW n \in 0..LastPage
    PROVE  Top(n * PageSize) = n
PROOF
  <1>1. n \in Nat /\ n * PageSize \in n * PageSize..n * PageSize
    BY SpaceFacts
  <1>2. Top(n * PageSize) \in n..n
    BY <1>1, TopBounds
  <1> QED
    BY <1>1, <1>2

(* A break in the last page has its top at 0. *)
LEMMA TopLast ==
    ASSUME NEW x \in 0..Space - 1, x > LastPage * PageSize
    PROVE  Top(x) = 0
PROOF
  <1> DEFINE q == PageSize
             y == x + q - 1
             z == LastPage * q
  <1>1. q \in Nat \ {0} /\ z \in Nat /\ Space = z + q /\ Space \in Nat \ {0}
    BY Numbers, SpaceFacts
  <1> HIDE DEF z, q
  <1>2. x > z /\ x \in Nat
    BY <1>1 DEF z, q
  <1>3. y \in Space..2 * Space - 1 /\ y - Space \in 0..q - 1
    BY <1>1, <1>2
  <1> HIDE DEF y
  <1>4. y % Space = y - Space
    BY <1>1, <1>3, ModOnce
  <1>5. (y - Space) \div q = 0
    <2> DEFINE w == y - Space
    <2>1. w \in Nat /\ w < 1 * q
      BY <1>1, <1>3
    <2> HIDE DEF w
    <2>2. w \div q \in Nat /\ w \div q < 1
      BY <1>1, <2>1, DivMod, DivBounds
    <2>3. w \div q = 0
      BY <2>2
    <2> QED
      BY <2>3 DEF w
  <1> QED
    BY <1>4, <1>5 DEF Top, y, q

LEMMA TopRange ==
    ASSUME NEW x \in 0..Space - 1
    PROVE  Top(x) \in 0..LastPage
PROOF
  <1>1. CASE x > LastPage * PageSize
    <2>1. Top(x) = 0
      BY <1>1, TopLast
    <2> QED
      BY <2>1, SpaceFacts
  <1>2. CASE ~ (x > LastPage * PageSize)
    <2>1. 0 * PageSize = 0
      BY Numbers
    <2>2. LastPage * PageSize \in Nat /\ x \in Nat /\ LastPage \in 0..LastPage /\ 0 \in Nat
      BY SpaceFacts
    <2>3. x \in 0 * PageSize..LastPage * PageSize
      BY <1>2, <2>1, <2>2
    <2> QED
      BY <2>2, <2>3, TopBounds
  <1> QED
    BY <1>1, <1>2

(* The end of an image is a place of a break. *)
LEMMA ImageEnds ==
    ASSUME NEW p \in Programs
    PROVE  /\ ImageEnd(p) \in 0..LastPage /\ ImageEnd(p) >= KernelEntries * P
           /\ ImageEnd(p) * PageSize \in 0..Space - 1 /\ ImageEnd(p) * PageSize \in Place(p)
           /\ Place(p) \subseteq 0..Space - 1
PROOF
  <1>1. /\ ImageEnd(p) = ImagePage + ImagePages[p] /\ ImagePages[p] \in Nat
        /\ ImagePage >= KernelEntries * P /\ ImagePage \in Nat
        /\ ImageEnd(p) <= HeapPage /\ HeapPage <= LastPage /\ HeapPage \in Nat
    BY Regions, Numbers DEF ImageEnd, LastPage
  <1>2. ImageEnd(p) \in 0..LastPage /\ ImageEnd(p) >= KernelEntries * P
    BY <1>1, Numbers, SpaceFacts
  <1> DEFINE e == ImageEnd(p)
             z == LastPage * PageSize
  <1> HIDE DEF e, z
  <1>3. e * PageSize \in Nat /\ e * PageSize <= z /\ z \in Nat /\ z < Space
        /\ Place(p) = e * PageSize..z /\ Space \in Nat
    <2>1. LastPage * PageSize < Space
      <3> HIDE DEF z
      <3>1. z \in Nat /\ Space = z + PageSize /\ PageSize \in Nat \ {0}
        BY SpaceFacts, Numbers DEF z
      <3> QED
        BY <3>1 DEF z
    <2>2. e \in Nat /\ LastPage \in Nat /\ e <= LastPage
      BY <1>2, SpaceFacts DEF e
    <2>3. e * PageSize <= LastPage * PageSize
      BY <2>2, SpaceFacts
    <2> QED
      BY <2>1, <2>2, <2>3, SpaceFacts DEF e, z
  <1>4. e * PageSize \in 0..Space - 1 /\ e * PageSize \in Place(p) /\ Place(p) \subseteq 0..Space - 1
    BY <1>3
  <1> QED
    BY <1>2, <1>4 DEF e

LEMMA ProcessTableStep ==
    ASSUME MemInv, create_process_table
    PROVE  MemInv'
PROOF
  <1> DEFINE f == loc.frame
             p == loc.program
             d == cr3[p]
             e == StackPage \div P
  <1>1. /\ Runs /\ pc = "take" /\ loc.want = "table"
        /\ running' = running \cup {p}
        /\ program_break' = [program_break EXCEPT ![p] = ImageEnd(p) * PageSize]
        /\ pc' = "prompt" /\ loc' = NoLocals
        /\ UNCHANGED <<kernel_directory, image_pd, cr3, allocated_pages, strayed>>
    BY DEF create_process_table, Taking, Return
  <1>2. TypeInv /\ FrameInv /\ p \in Programs /\ f \in Frames /\ loc \in Locs
        /\ loc.stack \in Frames /\ d \in Frames /\ d # None
    BY <1>1 DEF MemInv, PlaceInv, TypeInv, Locs, Stacked
  <1>3. PICK m \in AfterTaking :
          ram' = Entered(WithTable(Unchecked(m, f), d, StackPage, f), d, loc.stack, StackPage)
    BY DEF create_process_table
  <1> DEFINE w == Unchecked(m, f)
             t == WithTable(w, d, StackPage, f)
  <1>4. /\ Tidy(w) /\ w.mem = ram.mem /\ ram.used \subseteq w.used
        /\ w.fault = "none" => Sound(w) /\ f \notin ram.used /\ w.used = ram.used \cup {f}
    BY <1>1, <1>2, UncheckedTaken
  <1>5. /\ StackPage \in UpperPages /\ StackPage \in Places /\ e \in Slots /\ StackPage % P \in Slots
        /\ \A b : Own(b, e)
        /\ StackPage \notin KernelPages /\ \A v \in KernelPages : v \div P # e
    <2>1. StackPage \in UpperPages
      BY Regions DEF UpperPages
    <2>2. StackPage \in Places /\ e \in Slots /\ StackPage % P \in Slots /\ e >= KernelEntries
          /\ \A b : Own(b, e)
      BY <2>1, PlaceKinds
    <2>3. \A v \in KernelPages : v \div P < KernelEntries /\ v \div P \in Slots
      BY PlaceKinds
    <2>4. \A v \in KernelPages : v \div P # e
      BY <2>2, <2>3, Numbers DEF Slots
    <2> QED
      BY <2>1, <2>2, <2>4
  <1>6. ram' = Entered(t, d, loc.stack, StackPage) /\ t = WithTable(w, d, StackPage, f)
    BY <1>3
  <1> HIDE DEF w, t, d, f, p, e
  <1>7. t \in Ram /\ (Sound(w) => Sound(t)) /\ Rewritten(w, t, TabledMem(w.mem, d, e, f))
    BY <1>2, <1>4, <1>5, <1>6, WithTableFacts DEF Tidy, e
  <1>8. Tidy(t) /\ t.used = w.used /\ t.fault = w.fault /\ t.mem = TabledMem(w.mem, d, e, f)
    BY <1>4, <1>7, RewrittenTidy DEF Rewritten
  <1>9. t.mem[d][e] = f /\ f # None
    <2>1. w.mem \in [Frames -> Tabled]
      BY <1>4, RamParts DEF Tidy
    <2>2. TabledMem(w.mem, d, e, f)[d][e] = f
      BY <1>2, <1>5, <2>1, EmptyTable DEF TabledMem, Tabled
    <2> QED
      BY <1>2, <1>8, <2>2, FrameFacts
  <1>10. /\ ram' \in Ram /\ (Sound(t) => Sound(ram'))
         /\ Rewritten(t, ram', EnteredMem(t.mem, t.mem[d][e], StackPage % P, loc.stack))
    BY <1>2, <1>5, <1>6, <1>7, <1>9, EnteredFacts DEF e
  <1>11. Tidy(ram') /\ ram'.used = w.used /\ ram'.fault = w.fault
    BY <1>8, <1>10, RewrittenTidy DEF Rewritten
  <1>12. NoLocals \in Locs /\ NoLocals.want = "image_pd"
    BY FrameFacts, Numbers DEF NoLocals, Locs, Wants
  <1>13. ImageEnd(p) \in 0..LastPage /\ ImageEnd(p) * PageSize \in 0..Space - 1
    BY <1>2, ImageEnds
  <1>14. TypeInv'
    <2>1. kernel_directory' \in ram'.used
      BY <1>1, <1>2, <1>4, <1>11 DEF TypeInv
    <2>2. program_break' \in [Programs -> 0..Space - 1]
      BY <1>1, <1>2, <1>13 DEF TypeInv
    <2> QED
      BY <1>1, <1>2, <1>10, <1>12, <2>1, <2>2 DEF TypeInv, Pcs, Locs, Ram, PageRecords
  <1>15. FrameInv' /\ PlaceInv' /\ SpareInv'
    BY <1>1, <1>11 DEF FrameInv, PlaceInv, Stacked, SpareInv, Tidy, Counted, Visible, Ram
  <1>16. Made' = Made /\ Breaks' = Breaks
    BY <1>1, SameUses
  <1>17. ASSUME ram'.fault = "none"
         PROVE  Separate(ram', Made, Breaks) /\ Shows(ram', Made, kernel_directory)
    <2> DEFINE D == Made
               B == Breaks
               c == ProcessDir(p)
    <2>1. /\ Separate(ram, D, B) /\ Shows(ram, D, kernel_directory)
          /\ Spare(ram, D, B, loc.stack)
      BY <1>1, InOrder DEF MemInv, SpareInv
    <2>2. /\ Setting(D, B, KernelDir) /\ KernelDir.frame = kernel_directory /\ c \in D
          /\ c.frame = d
      BY <1>2, MadeFacts DEF ProcessDir, d
    <2>3. w.fault = "none" /\ Sound(w) /\ f \notin ram.used /\ w.used = ram.used \cup {f} /\ w \in Ram
      BY <1>4, <1>11, <1>17 DEF Sound
    <2>4. /\ Separate(w, D, B) /\ Spare(w, D, B, f)
          /\ loc.stack # f /\ Spare(w, D, B, loc.stack)
      BY <1>4, <2>1, <2>3, TakenUses
    <2>5. Shows(w, D, kernel_directory)
      BY <1>4, <2>1 DEF Shows, ShowsOn
    <2> HIDE DEF D, B, c
    <2>6. /\ Separate(t, D, B) /\ Spare(t, D, B, loc.stack) /\ Shows(t, D, kernel_directory)
      <3>1. /\ Separate(t, D, B)
            /\ \A s : Spare(w, D, B, s) /\ s # f => Spare(t, D, B, s)
            /\ \A V \in SUBSET KernelPages :
                  ShowsOn(w, D, KernelDir.frame, V) /\ (\A v \in V : v \div P # e) =>
                      ShowsOn(t, D, KernelDir.frame, V)
        <4>1. t.mem = TabledMem(w.mem, c.frame, e, f) /\ t.used = w.used
          BY <1>8, <2>2
        <4>2. /\ w \in Ram /\ Setting(D, B, KernelDir) /\ c \in D /\ e \in Slots /\ f \in Frames
              /\ Separate(w, D, B) /\ Spare(w, D, B, f)
          BY <1>2, <1>5, <2>2, <2>3, <2>4
        <4> QED
          BY <4>1, <4>2, TableIn
      <3> QED
        BY <1>5, <2>2, <2>4, <2>5, <3>1 DEF Shows
    <2>7. Sound(t) /\ ram' = Entered(t, c.frame, loc.stack, StackPage)
          /\ t.mem[c.frame][StackPage \div P] # None
      BY <1>6, <1>7, <1>9, <2>2, <2>3 DEF e
    <2>8. /\ Separate(ram', D, B)
          /\ \A V \in SUBSET KernelPages :
                ShowsOn(t, D, KernelDir.frame, V) /\ StackPage \notin V =>
                    ShowsOn(ram', D, KernelDir.frame, V)
      <3>1. Own(c, StackPage \div P)
        BY <1>5 DEF e
      <3> QED
        BY <1>2, <1>5, <2>2, <2>6, <2>7, <3>1, EntryStep
    <2> QED
      BY <1>5, <2>2, <2>6, <2>8 DEF D, B, Shows
  <1>18. SpaceInv'
    BY <1>1, <1>16, <1>17 DEF SpaceInv, Runs
  <1>19. BreakBacked'
    <2>1. SUFFICES ASSUME NEW q \in running', program_break'[q] <= LastPage * PageSize,
                          NEW v \in ImageEnd(q)..Top(program_break'[q]) - 1
                   PROVE  \E r \in allocated_pages'[q] : r.virt = v
      BY DEF BreakBacked, ImageEnd, LastPage
    <2>2. CASE q = p
      <3>1. program_break'[q] = ImageEnd(p) * PageSize
        BY <1>1, <1>2, <2>2 DEF TypeInv
      <3>2. Top(program_break'[q]) = ImageEnd(p)
        BY <1>13, <3>1, PageNumbers
      <3> QED
        BY <1>13, <2>1, <2>2, <3>2, SpaceFacts
    <2>3. CASE q # p
      <3>1. q \in running /\ program_break'[q] = program_break[q]
        BY <1>1, <1>2, <2>1, <2>3 DEF TypeInv
      <3> QED
        BY <1>1, <2>1, <3>1 DEF MemInv, BreakBacked, LastPage
    <2> QED
      BY <2>2, <2>3
  <1> QED
    BY <1>14, <1>15, <1>18, <1>19 DEF MemInv

OtherBreaks(p) ==
    {b \in Breaks : \E q \in Programs : q # p /\ \E t \in allocated_pages[q] : b = BreakUse(q, t)}

LEMMA BreaksOf ==
    ASSUME TypeInv, NEW p \in Programs
    PROVE  /\ Breaks = WithBreaks(OtherBreaks(p), p, allocated_pages[p])
           /\ Setting(Made, OtherBreaks(p), KernelDir)
PROOF
  <1>1. \A b : b \in Breaks <=> \E q \in Programs : \E t \in allocated_pages[q] : b = BreakUse(q, t)
    BY MadeFacts
  <1>2. \A b : b \in OtherBreaks(p) <=>
                  \E q \in Programs : q # p /\ \E t \in allocated_pages[q] : b = BreakUse(q, t)
    BY <1>1 DEF OtherBreaks
  <1>3. \A b : b \in WithBreaks(OtherBreaks(p), p, allocated_pages[p]) <=>
                  b \in OtherBreaks(p) \/ \E t \in allocated_pages[p] : b = BreakUse(p, t)
    BY DEF WithBreaks
  <1>4. \A b : b \in Breaks <=> b \in WithBreaks(OtherBreaks(p), p, allocated_pages[p])
    BY <1>1, <1>2, <1>3
  <1>5. Breaks = WithBreaks(OtherBreaks(p), p, allocated_pages[p])
    BY <1>4
  <1>6. Setting(Made, Breaks, KernelDir)
    BY MadeFacts
  <1>7. Setting(Made, OtherBreaks(p), KernelDir)
    BY <1>6 DEF Setting, Labelled, OtherBreaks
  <1> QED
    BY <1>5, <1>7

LEMMA BreaksAfter ==
    ASSUME TypeInv, NEW p \in Programs, NEW S, allocated_pages' = [allocated_pages EXCEPT ![p] = S]
    PROVE  Breaks' = WithBreaks(OtherBreaks(p), p, S)
PROOF
  <1> DEFINE X(q) == {BreakUse(q, t) : t \in allocated_pages'[q]}
  <1>1. Breaks' = UNION {X(q) : q \in Programs}
    BY DEF Breaks
  <1>2. \A q \in Programs : \A b : b \in X(q) <=> \E t \in allocated_pages'[q] : b = BreakUse(q, t)
    OBVIOUS
  <1> HIDE DEF X
  <1>3. \A b : b \in UNION {X(q) : q \in Programs} <=> \E q \in Programs : b \in X(q)
    OBVIOUS
  <1>4. \A b : b \in Breaks' <=> \E q \in Programs : \E t \in allocated_pages'[q] : b = BreakUse(q, t)
    BY <1>1, <1>2, <1>3
  <1>5. \A q \in Programs : allocated_pages'[q] = IF q = p THEN S ELSE allocated_pages[q]
    BY DEF TypeInv
  <1>6. \A b : b \in Breaks <=> \E q \in Programs : \E t \in allocated_pages[q] : b = BreakUse(q, t)
    BY MadeFacts
  <1>7. \A b : b \in OtherBreaks(p) <=>
                  \E q \in Programs : q # p /\ \E t \in allocated_pages[q] : b = BreakUse(q, t)
    BY <1>6 DEF OtherBreaks
  <1>8. \A b : b \in WithBreaks(OtherBreaks(p), p, S) <=>
                  b \in OtherBreaks(p) \/ \E t \in S : b = BreakUse(p, t)
    BY DEF WithBreaks
  <1>9. \A b : (\E q \in Programs : \E t \in allocated_pages'[q] : b = BreakUse(q, t)) <=>
                  \/ \E q \in Programs : q # p /\ \E t \in allocated_pages[q] : b = BreakUse(q, t)
                  \/ \E t \in S : b = BreakUse(p, t)
    BY <1>5
  <1>10. \A b : b \in Breaks' <=> b \in WithBreaks(OtherBreaks(p), p, S)
    BY <1>4, <1>7, <1>8, <1>9
  <1> QED
    BY <1>10

LEMMA SbrkStep ==
    ASSUME MemInv, NEW p \in Programs, NEW increment \in Int, SYS_SBRK(p, increment)
    PROVE  MemInv' /\ (ram'.fault = "kernel" => program_break[p] \notin Place(p))
PROOF
  <1> DEFINE old == program_break[p]
             new == (program_break[p] + increment) % Space
             v == Top(old)
             pages == IF Top(new) > v THEN Top(new) - v ELSE 0
             g == Grown(p, v, pages)
             O == OtherBreaks(p)
  <1>1. /\ Runs /\ p \in running
        /\ ram' = g.m
        /\ allocated_pages' = [allocated_pages EXCEPT ![p] = g.pages]
        /\ program_break' = [program_break EXCEPT ![p] = IF g.failed THEN old ELSE new]
        /\ strayed' \in {strayed, strayed \cup {p}}
        /\ UNCHANGED <<kernel_directory, pc, loc, image_pd, cr3, running>>
    BY DEF SYS_SBRK
  <1>2. TypeInv /\ FrameInv /\ PlaceInv /\ SpareInv /\ SpaceInv /\ BreakBacked
    BY DEF MemInv
  <1>3. old \in 0..Space - 1 /\ new \in 0..Space - 1
    <2>1. old \in 0..Space - 1 /\ Space \in Nat
      BY <1>2, SpaceFacts DEF TypeInv
    <2>2. Space \in Nat \ {0}
      BY <2>1
    <2>3. \A x \in Int : x % Space \in 0..Space - 1
      BY <2>2
    <2>4. program_break[p] + increment \in Int
      BY <2>1
    <2>5. (program_break[p] + increment) % Space \in 0..Space - 1
      BY <2>3, <2>4
    <2> QED
      BY <2>1, <2>5
  <1>4. LastPage \in Nat /\ LastPage = P * P - 1 /\ P * P \in Nat
    BY SpaceFacts, Numbers DEF LastPage
  <1>5. v \in 0..LastPage /\ Top(new) \in 0..LastPage
    <2> HIDE DEF old, new
    <2> QED
      BY <1>3, TopRange
  <1>6. /\ v \in Nat /\ pages \in Nat /\ v + pages <= P * P
        /\ v + pages >= Top(new) /\ Top(new) \in Nat
    BY <1>4, <1>5
  <1>7. /\ Breaks = WithBreaks(O, p, allocated_pages[p]) /\ Setting(Made, O, KernelDir)
        /\ KernelDir.frame = kernel_directory
    BY <1>2, BreaksOf, MadeFacts
  <1>8. Order(ram, Made, WithBreaks(O, p, allocated_pages[p]), KernelDir)
    BY <1>1, <1>7, InOrder
  <1>9. allocated_pages[p] \subseteq PageRecords
    BY <1>2 DEF TypeInv
  <1> HIDE DEF v, pages, O
  <1>20. g = Grown(p, v, pages)
    OBVIOUS
  <1> HIDE DEF g
  <1>10. /\ Growing(g, Made, O, p, KernelDir) /\ allocated_pages[p] \subseteq g.pages
         /\ ram.used \subseteq g.m.used
         /\ g.m.fault = "none" =>
               \A x : Spare(ram, Made, WithBreaks(O, p, allocated_pages[p]), x) =>
                         Spare(g.m, Made, WithBreaks(O, p, g.pages), x)
         /\ ~ g.failed /\ g.m.fault = "none" =>
               \A w \in v..v + pages - 1 : \E t \in g.pages : t.virt = w
         /\ g.m.fault = "kernel" => ram.fault = "kernel" \/ v \in KernelPages
    <2>1. GrownFrom(g, Made, O, p, KernelDir, v, pages)
      BY <1>6, <1>7, <1>8, <1>9, <1>20, GrownStep
    <2> QED
      BY <2>1 DEF GrownFrom
  <1>11. /\ g.m \in Ram /\ g.pages \in SUBSET PageRecords /\ Tidy(g.m)
         /\ g.m.fault = "none" => /\ Separate(g.m, Made, WithBreaks(O, p, g.pages))
                                  /\ Shows(g.m, Made, kernel_directory)
    BY <1>7, <1>10, SoundTidy DEF Growing, Order
  <1>12. Breaks' = WithBreaks(O, p, g.pages)
    BY <1>1, <1>2, BreaksAfter DEF O
  <1>13. Made' = Made
    BY <1>1 DEF Made, Directories
  <1>14. TypeInv'
    <2>1. program_break' \in [Programs -> 0..Space - 1] /\ strayed' \subseteq Programs
      <3> HIDE DEF old, new
      <3> QED
        BY <1>1, <1>2, <1>3 DEF TypeInv
    <2>2. allocated_pages' \in [Programs -> SUBSET PageRecords]
      BY <1>1, <1>2, <1>11 DEF TypeInv
    <2>3. kernel_directory' \in ram'.used
      BY <1>1, <1>2, <1>10 DEF TypeInv
    <2> HIDE DEF old, new
    <2> QED
      BY <1>1, <1>2, <1>11, <2>1, <2>2, <2>3 DEF TypeInv, Pcs, Locs, Ram, PageRecords
  <1> HIDE DEF old, new
  <1>15. FrameInv'
    <2>1. Tidy(ram') /\ pc' = pc /\ loc' = loc
      BY <1>1, <1>11
    <2>2. Visible(ram) = {} => Visible(ram') = {}
      BY <1>1, <1>10 DEF Visible
    <2>3. Cardinality(ram.used) <= Cardinality(ram'.used) /\ Cardinality(ram.used) \in Nat
          /\ Cardinality(ram'.used) \in Nat
      <3>1. ram \in Ram /\ ram' \in Ram /\ ram.used \subseteq ram'.used
        BY <1>1, <1>2, <1>10, <1>11 DEF TypeInv
      <3>2. IsFiniteSet(ram'.used) /\ Cardinality(ram'.used) \in Nat /\ Cardinality(ram.used) \in Nat
        BY <3>1, RamParts
      <3> QED
        BY <3>1, <3>2, FS_Subset
    <2>4. loc.count \in Nat
      BY <1>2, Numbers DEF TypeInv, Locs
    <2>5. pc' = "take" =>
             /\ loc'.frame = 0 => Visible(ram') = {}
             /\ loc'.frame # 0 => /\ loc'.frame \in 0..MaxBlocks - 1
                                  /\ loc'.count <= Cardinality(ram'.used)
                                  /\ loc'.count < MaxBlocks
      BY <1>2, <2>1, <2>2, <2>3, <2>4 DEF FrameInv
    <2> QED
      BY <2>1, <2>5 DEF FrameInv, Tidy, Counted, Visible, Ram
  <1>16. PlaceInv'
    BY <1>1, <1>2 DEF PlaceInv, Stacked
  <1>17. SpareInv'
    BY <1>1, <1>2, <1>7, <1>10, <1>12, <1>13 DEF SpareInv, Runs
  <1>18. SpaceInv'
    BY <1>1, <1>11, <1>12, <1>13 DEF SpaceInv, Runs
  <1>19. BreakBacked'
    <2>1. SUFFICES ASSUME g.m.fault = "none", NEW q \in running',
                          program_break'[q] <= LastPage * PageSize,
                          NEW w \in ImageEnd(q)..Top(program_break'[q]) - 1
                   PROVE  \E t \in allocated_pages'[q] : t.virt = w
      BY <1>1 DEF BreakBacked, ImageEnd, LastPage, Runs
    <2>2. q \in running /\ q \in Programs
      BY <1>1, <1>2, <2>1 DEF TypeInv
    <2>3. program_break[q] <= LastPage * PageSize =>
             \A u \in ImageEnd(q)..Top(program_break[q]) - 1 :
                \E t \in allocated_pages[q] : t.virt = u
      BY <1>1, <1>2, <2>2 DEF BreakBacked, LastPage
    <2>4. CASE q # p
      <3>1. program_break'[q] = program_break[q] /\ allocated_pages'[q] = allocated_pages[q]
        BY <1>1, <1>2, <2>2, <2>4 DEF TypeInv
      <3> QED
        BY <2>1, <2>3, <3>1
    <2>5. CASE q = p
      <3>1. allocated_pages'[q] = g.pages
            /\ program_break'[q] = IF g.failed THEN old ELSE new
        BY <1>1, <1>2, <2>2, <2>5 DEF TypeInv
      <3>2. old <= LastPage * PageSize =>
               \A u \in ImageEnd(q)..v - 1 : \E t \in g.pages : t.virt = u
        BY <1>10, <2>3, <2>5 DEF v, old
      <3>3. ImageEnd(q) \in Nat
        BY <2>2, ImageEnds
      <3>4. CASE g.failed
        <4>1. w \in ImageEnd(q)..v - 1 /\ old <= LastPage * PageSize
          BY <2>1, <3>1, <3>4 DEF v
        <4> QED
          BY <3>1, <3>2, <4>1
      <3>5. CASE ~ g.failed
        <4>1. w \in ImageEnd(q)..Top(new) - 1
          BY <2>1, <3>1, <3>5
        <4>2. w \in ImageEnd(q)..v - 1 \/ w \in v..v + pages - 1
          BY <1>6, <3>3, <4>1
        <4>3. CASE old <= LastPage * PageSize
          BY <1>10, <2>1, <3>1, <3>2, <3>5, <4>2, <4>3
        <4>4. CASE ~ (old <= LastPage * PageSize)
          <5>1. v = 0
            <6>1. old > LastPage * PageSize
              BY <1>3, <4>4, SpaceFacts
            <6> QED
              BY <1>3, <6>1, TopLast DEF v
          <5>2. w \in v..v + pages - 1
            BY <3>3, <4>2, <5>1
          <5> QED
            BY <1>10, <2>1, <3>1, <3>5, <5>2
        <4> QED
          BY <4>3, <4>4
      <3> QED
        BY <3>4, <3>5
    <2> QED
      BY <2>4, <2>5
  <1>21. ram'.fault = "kernel" => old \notin Place(p)
    <2>1. SUFFICES ASSUME g.m.fault = "kernel", old \in Place(p) PROVE FALSE
      BY <1>1
    <2>2. v \in KernelPages
      BY <1>1, <1>10, <2>1 DEF Runs
    <2>3. ImageEnd(p) \in Nat /\ LastPage \in 0..LastPage /\ ImageEnd(p) >= KernelEntries * P
          /\ old \in ImageEnd(p) * PageSize..LastPage * PageSize
      <3>1. ImageEnd(p) \in Nat /\ ImageEnd(p) >= KernelEntries * P
        BY ImageEnds
      <3>2. LastPage \in 0..LastPage
        BY SpaceFacts
      <3>3. Place(p) = ImageEnd(p) * PageSize..LastPage * PageSize
        BY SpaceFacts
      <3> QED
        BY <2>1, <3>1, <3>2, <3>3
    <2>4. v \in ImageEnd(p)..LastPage
      BY <2>3, TopBounds DEF v
    <2> QED
      BY <2>2, <2>3, <2>4, Numbers DEF KernelPages
  <1> QED
    BY <1>14, <1>15, <1>16, <1>17, <1>18, <1>19, <1>21 DEF MemInv, old

LEMMA InitMem ==
    ASSUME Init
    PROVE  MemInv
PROOF
  <1>1. /\ ram = HeapMapped /\ kernel_directory = KernelDirectory
        /\ pc = "prompt" /\ loc = NoLocals
        /\ image_pd = [p \in Programs |-> None] /\ cr3 = [p \in Programs |-> None]
        /\ running = {} /\ program_break = [p \in Programs |-> ImagePage * PageSize]
        /\ allocated_pages = [p \in Programs |-> {}] /\ strayed = {}
    BY DEF Init
  <1>2. /\ Order(ram, {KernelRecord}, {}, KernelRecord) /\ kernel_directory \in ram.used
        /\ KernelRecord.frame = kernel_directory
    BY <1>1, HeapMappedFacts, KernelRecordFacts DEF Booted
  <1>3. Tidy(ram) /\ ram \in Ram
    BY <1>2, SoundTidy DEF Order, Sound
  <1>4. NoLocals \in Locs
    BY FrameFacts, Numbers DEF NoLocals, Locs, Wants
  <1>5. TypeInv
    <2>1. ImagePage * PageSize \in 0..Space - 1
      <3>1. ImagePage \in Nat /\ LastPage \in Nat /\ ImagePage <= LastPage
        BY Regions, Numbers, SpaceFacts DEF LastPage
      <3> DEFINE x == ImagePage * PageSize
                 z == LastPage * PageSize
      <3>2. x \in Nat /\ x <= z
        BY <3>1, SpaceFacts
      <3> HIDE DEF x, z
      <3>3. z \in Nat /\ Space = z + PageSize /\ PageSize \in Nat \ {0}
        BY SpaceFacts, Numbers DEF z
      <3>4. x \in 0..Space - 1
        BY <3>2, <3>3
      <3> QED
        BY <3>4 DEF x
    <2> QED
      BY <1>1, <1>2, <1>3, <1>4, <2>1 DEF TypeInv, Pcs
  <1>6. FrameInv /\ PlaceInv /\ SpareInv /\ BreakBacked
    BY <1>1, <1>3 DEF FrameInv, PlaceInv, Stacked, SpareInv, BreakBacked
  <1>7. Breaks = {}
    BY <1>1, <1>5, MadeFacts
  <1>8. Made = {KernelRecord}
    <2>1. KernelRecord = [of |-> <<"kernel">>, frame |-> kernel_directory]
      BY <1>1 DEF KernelRecord
    <2>2. KernelRecord.frame # None
      BY <1>2, <1>3, FrameFacts, RamParts
    <2>3. \A d \in Directories : d = KernelRecord \/ d.frame = None
      BY <1>1, <2>1 DEF Directories
    <2>4. KernelRecord \in Directories
      BY <2>1 DEF Directories
    <2> QED
      BY <2>2, <2>3, <2>4 DEF Made
  <1>9. SpaceInv
    BY <1>2, <1>7, <1>8 DEF SpaceInv, Runs, Order
  <1> QED
    BY <1>5, <1>6, <1>9 DEF MemInv

LEMMA LoadsStep ==
    ASSUME MemInv, Loads
    PROVE  MemInv'
PROOF
  <1>1. CASE Choose
    BY <1>1, ChooseStep
  <1>2. CASE \E p \in Programs : elf_load_file(p)
    BY <1>2, LoadFileStep
  <1>3. CASE elf_load_file_directory
    BY <1>3, LoadDirectoryStep
  <1>4. CASE elf_load_file_image
    BY <1>4, LoadImageStep
  <1>5. CASE create_process_directory
    BY <1>5, ProcessDirectoryStep
  <1>6. CASE create_process_stack
    BY <1>6, ProcessStackStep
  <1>7. CASE create_process_table
    BY <1>7, ProcessTableStep
  <1>8. CASE \E p \in Programs : process_exit(p)
    BY <1>8, ExitStep
  <1> QED
    BY <1>1, <1>2, <1>3, <1>4, <1>5, <1>6, <1>7, <1>8 DEF Loads

LEMMA NextStep ==
    ASSUME MemInv, [Next]_vars
    PROVE  MemInv'
PROOF
  <1>1. CASE Loads
    BY <1>1, LoadsStep
  <1>2. CASE \E p \in Programs, increment \in Increments : SYS_SBRK(p, increment)
    <2>1. PICK p \in Programs, increment \in Increments : SYS_SBRK(p, increment)
      BY <1>2
    <2>2. increment \in Int
      BY Regions
    <2> QED
      BY <2>1, <2>2, SbrkStep
  <1>3. CASE UNCHANGED vars
    BY <1>3, StutterStep
  <1> QED
    BY <1>1, <1>2, <1>3 DEF Next

LEMMA RequestIncrements ==
    ASSUME NEW size \in Sizes
    PROVE  META_SIZE + size \in Int /\ META_SIZE \in Nat /\ size \in Nat
PROOF
  BY UserHeapAssumption DEF UserHeapAssumption

LEMMA UserNextStep ==
    ASSUME MemInv, [UserNext]_allVars
    PROVE  MemInv'
PROOF
  <1>1. CASE Loads /\ UNCHANGED <<blocks, asked>>
    BY <1>1, LoadsStep
  <1>2. CASE \E p \in Programs \ Mallocs, increment \in Increments :
                SYS_SBRK(p, increment) /\ UNCHANGED <<blocks, asked>>
    <2>1. PICK p \in Programs \ Mallocs, increment \in Increments : SYS_SBRK(p, increment)
      BY <1>2
    <2>2. increment \in Int /\ p \in Programs
      BY Regions
    <2> QED
      BY <2>1, <2>2, SbrkStep
  <1>3. CASE \E p \in Mallocs : \E size \in Sizes : malloc(p, size)
    <2>1. PICK p \in Mallocs, size \in Sizes : malloc(p, size)
      BY <1>3
    <2>2. p \in Programs /\ META_SIZE + size \in Int
      BY RequestIncrements, UserHeapAssumption DEF UserHeapAssumption
    <2>3. UNCHANGED vars \/ SYS_SBRK(p, META_SIZE + size)
      BY <2>1 DEF malloc, find_free_block, request_space
    <2> QED
      BY <2>2, <2>3, SbrkStep, StutterStep
  <1>4. CASE \E p \in Mallocs : \E i \in DOMAIN blocks[p] : free(p, i)
    <2>1. UNCHANGED vars
      BY <1>4 DEF free
    <2> QED
      BY <2>1, StutterStep
  <1>5. CASE UNCHANGED allVars
    <2>1. UNCHANGED vars
      BY <1>5 DEF allVars
    <2> QED
      BY <2>1, StutterStep
  <1> QED
    BY <1>1, <1>2, <1>3, <1>4, <1>5 DEF UserNext

(* The invariant, for programs that call sbrk themselves and for those     *)
(* that use malloc.                                                        *)
LEMMA MemInvariant == Spec \/ UserSpec => []MemInv
PROOF
  <1>1. Init => MemInv
    BY InitMem
  <1>2. UserInit => MemInv
    BY InitMem DEF UserInit
  <1>3. MemInv /\ [Next]_vars => MemInv'
    BY NextStep
  <1>4. MemInv /\ [UserNext]_allVars => MemInv'
    BY UserNextStep
  <1>5. Spec => []MemInv
    BY <1>1, <1>3, PTL DEF Spec
  <1>6. UserSpec => []MemInv
    BY <1>2, <1>4, PTL DEF UserSpec
  <1> QED
    BY <1>5, <1>6, PTL
-----------------------------------------------------------------------------
(* What the runs check, for every machine.                                 *)

(* The bitmap, its counter and the tables hold what their types allow,     *)
(* also when the shell and a program have been given the same frame: the   *)
(* counter then is at most one more than the machine has frames.           *)
THEOREM MemoryTypeCorrect == Spec \/ UserSpec => []TypeOK
PROOF
  <1>1. ASSUME MemInv PROVE TypeOK
    <2>1. TypeInv /\ Counted(ram)
      BY <1>1 DEF MemInv, FrameInv, Tidy
    <2>2. ram \in Ram /\ Cardinality(ram.used) <= MaxBlocks /\ Cardinality(ram.used) \in Nat
      BY <2>1, RamParts DEF TypeInv
    <2>3. ram.used_blocks \in 0..MaxBlocks + 1
      BY <2>1, <2>2, Numbers DEF Counted, Ram
    <2>4. ram \in [used : SUBSET (0..MaxBlocks - 1), used_blocks : 0..MaxBlocks + 1,
                   mem : [Frames -> [0..P - 1 -> Frames \cup {None}]],
                   fault : {"none", "null", "clash", "kernel", "heap"}]
      BY <2>2, <2>3 DEF Ram, Tabled, Slots, Faults
    <2>5. \A p \in Programs :
             allocated_pages[p] \subseteq [phys : Frames, virt : KernelEntries * P..P * P - 1]
      BY <2>1 DEF TypeInv, PageRecords, UpperPages
    <2> QED
      BY <2>1, <2>4, <2>5 DEF TypeOK, TypeInv, Pcs, Locs
  <1> QED
    BY <1>1, MemInvariant, PTL

(* No program's page is also a table, or a page of another program, or of  *)
(* the heap, and none is still marked free (pmm_alloc_block, vmm_map_page, *)
(* elf_load_file, create_process and sys_sbrk together), unless a program  *)
(* overtook the shell in pmm_alloc_block or no frame was left.             *)
THEOREM MemoryIsolated == Spec \/ UserSpec => []Isolated
PROOF
  <1>1. ASSUME MemInv PROVE Isolated
    <2>1. SUFFICES ASSUME Runs
                   PROVE  /\ Cardinality({u.frame : u \in Uses}) = Cardinality(Uses)
                          /\ \A u \in Uses : u.frame \in ram.used
      BY DEF Isolated
    <2>2. /\ \A u \in Uses : u.frame \in ram.used
          /\ \A u, w \in Uses : u.frame = w.frame => u = w
      BY <1>1, <2>1, InOrder DEF Separate, Uses
    <2>3. IsFiniteSet(ram.used)
      BY <1>1, RamParts DEF MemInv, TypeInv
    <2> DEFINE U == Uses
               F == {u.frame : u \in U}
               g == [x \in F |-> CHOOSE u \in U : u.frame = x]
    <2> HIDE DEF U
    <2>4. \A u \in U : u.frame \in F
      OBVIOUS
    <2>5. \A x \in F : \E u \in U : u.frame = x
      OBVIOUS
    <2>6. F \subseteq ram.used
      BY <2>2 DEF U
    <2>7. IsFiniteSet(F)
      BY <2>3, <2>6, FS_Subset
    <2>8. \A x \in F : g[x] \in U /\ g[x].frame = x
      BY <2>5
    <2> HIDE DEF F
    <2>9. g \in [F -> U]
      BY <2>8
    <2>10. \A x, y \in F : g[x] = g[y] => x = y
      BY <2>8
    <2>11. \A u \in U : \E x \in F : g[x] = u
      <3>1. SUFFICES ASSUME NEW u \in U PROVE g[u.frame] = u
        BY <2>4
      <3>2. g[u.frame] \in U /\ g[u.frame].frame = u.frame
        BY <2>4, <2>8
      <3> QED
        BY <2>2, <3>2 DEF U
    <2> HIDE DEF g
    <2>12. g \in Bijection(F, U)
      BY <2>9, <2>10, <2>11 DEF Bijection, Injection, Surjection, IsInjective
    <2>13. ExistsBijection(F, U)
      BY <2>12 DEF ExistsBijection
    <2>14. Cardinality(F) = Cardinality(U)
      BY <2>7, <2>13, FS_Bijection
    <2> QED
      BY <2>2, <2>14 DEF F, U
  <1> QED
    BY <1>1, MemInvariant, PTL

(* The break of a program that has not strayed is in its place.            *)
StrayInv ==
    /\ \A p \in running \ strayed : program_break[p] \in Place(p)
    /\ ram.fault = "kernel" => strayed # {}

LEMMA TakenFault ==
    ASSUME MemInv, Runs, pc = "take", NEW m \in AfterTaking
    PROVE  m \in Ram /\ m.fault # "kernel" /\ \A f : Unchecked(m, f).fault # "kernel"
PROOF
  <1>1. Tidy(m) /\ m.fault \in {"none", "clash"}
    BY TakenFacts DEF MemInv
  <1>2. m \in Ram
    BY <1>1 DEF Tidy
  <1> QED
    BY <1>1, <1>2, FaultKept

LEMMA SameStray ==
    ASSUME StrayInv, ram'.fault # "kernel", running' \subseteq running,
           UNCHANGED <<program_break, strayed>>
    PROVE  StrayInv'
PROOF
  BY DEF StrayInv, Place, ImageEnd

LEMMA LoadsStray ==
    ASSUME MemInv, StrayInv, Loads
    PROVE  StrayInv'
PROOF
  <1>1. CASE Choose
    <2>1. ram.fault = "none" /\ UNCHANGED <<ram, running, program_break, strayed>>
      BY <1>1 DEF Choose, ChooseFor, process, Runs
    <2> QED
      BY <2>1, SameStray
  <1>2. CASE \E p \in Programs : elf_load_file(p)
    <2>1. ram.fault = "none" /\ UNCHANGED <<ram, running, program_break, strayed>>
      BY <1>2 DEF elf_load_file, ChooseFor, process, Runs
    <2> QED
      BY <2>1, SameStray
  <1>3. CASE elf_load_file_directory
    <2>1. /\ Runs /\ pc = "take" /\ UNCHANGED <<running, program_break, strayed>>
          /\ ram' = ram \/ \E m \in AfterTaking : ram' = Directory(m, loc.frame, kernel_directory)
      BY <1>3 DEF elf_load_file_directory, Taking, process
    <2>2. ram'.fault # "kernel"
      BY <2>1, TakenFault, FaultKept DEF Runs
    <2> QED
      BY <2>1, <2>2, SameStray
  <1>4. CASE elf_load_file_image
    <2>1. /\ Runs /\ pc = "load" /\ UNCHANGED <<running, program_break, strayed>>
          /\ ram' = MappedFresh(ram, image_pd[loc.program], ImagePage, ImagePages[loc.program])
      BY <1>4 DEF elf_load_file_image, process
    <2>2. ram'.fault # "kernel"
      BY <1>4, LoadImageStep
    <2> QED
      BY <2>1, <2>2, SameStray
  <1>5. CASE create_process_directory
    <2>1. /\ Runs /\ pc = "take" /\ UNCHANGED <<running, program_break, strayed>>
          /\ \E m \in AfterTaking :
                ram' = Directory(Unchecked(m, loc.frame), loc.frame, kernel_directory)
      BY <1>5 DEF create_process_directory, Taking
    <2>2. ram'.fault # "kernel"
      <3>1. PICK m \in AfterTaking :
                   ram' = Directory(Unchecked(m, loc.frame), loc.frame, kernel_directory)
        BY <2>1
      <3>2. /\ Unchecked(m, loc.frame) \in Ram
            /\ Unchecked(m, loc.frame).fault # "kernel"
        BY <2>1, TakenFault, UncheckedTaken DEF MemInv, Tidy
      <3> QED
        BY <3>1, <3>2, FaultKept
    <2> QED
      BY <2>1, <2>2, SameStray
  <1>6. CASE create_process_stack
    <2>1. /\ Runs /\ pc = "take" /\ UNCHANGED <<running, program_break, strayed>>
          /\ \E m \in AfterTaking : ram' = Unchecked(m, loc.frame)
      BY <1>6 DEF create_process_stack, Taking, process
    <2>2. ram'.fault # "kernel"
      BY <2>1, TakenFault
    <2> QED
      BY <2>1, <2>2, SameStray
  <1>7. CASE create_process_table
    <2> DEFINE p == loc.program
    <2>1. /\ Runs /\ pc = "take" /\ running' = running \cup {p} /\ UNCHANGED strayed
          /\ program_break' = [program_break EXCEPT ![p] = ImageEnd(p) * PageSize]
      BY <1>7 DEF create_process_table, Taking
    <2>2. p \in Programs /\ program_break \in [Programs -> 0..Space - 1] /\ running \subseteq Programs
      BY <2>1 DEF MemInv, PlaceInv, TypeInv
    <2>3. ram'.fault # "kernel"
      <3>1. PICK m \in AfterTaking :
                   ram' = Entered(WithTable(Unchecked(m, loc.frame), cr3[p], StackPage, loc.frame),
                                  cr3[p], loc.stack, StackPage)
        BY <1>7 DEF create_process_table
      <3> DEFINE w == Unchecked(m, loc.frame)
                 t == WithTable(w, cr3[p], StackPage, loc.frame)
      <3>2. w \in Ram /\ w.fault # "kernel"
        BY <2>1, TakenFault, UncheckedTaken DEF MemInv, Tidy
      <3>3. cr3[p] \in Frames /\ loc.frame \in Frames /\ StackPage \div P \in Slots
        <4>1. pc = "take" /\ loc.want = "table"
          BY <1>7 DEF create_process_table, Taking
        <4>2. StackPage \in Places
          BY Regions, PlaceKinds DEF UpperPages
        <4> QED
          BY <2>2, <4>1, <4>2, PlaceFacts DEF MemInv, PlaceInv, TypeInv, Locs, Stacked
      <3> HIDE DEF w
      <3>4. t \in Ram /\ t.fault = w.fault
        BY <3>2, <3>3, WithTableFacts DEF Rewritten
      <3> HIDE DEF t
      <3>5. Entered(t, cr3[p], loc.stack, StackPage).fault = t.fault
        BY <3>4, FaultKept
      <3> QED
        BY <3>1, <3>2, <3>4, <3>5 DEF t, w
    <2>4. ASSUME NEW q \in running' \ strayed' PROVE program_break'[q] \in Place(q)
      <3>1. CASE q = p
        BY <2>1, <2>2, <3>1, ImageEnds
      <3>2. CASE q # p
        BY <2>1, <2>2, <2>4, <3>2 DEF StrayInv
      <3> QED
        BY <3>1, <3>2
    <2> QED
      BY <2>3, <2>4 DEF StrayInv, Place, ImageEnd
  <1>8. CASE \E p \in Programs : process_exit(p)
    <2>1. ram.fault = "none" /\ UNCHANGED <<ram, program_break, strayed>> /\ running' \subseteq running
      BY <1>8 DEF process_exit, Runs
    <2> QED
      BY <2>1, SameStray
  <1> QED
    BY <1>1, <1>2, <1>3, <1>4, <1>5, <1>6, <1>7, <1>8 DEF Loads

LEMMA SbrkStray ==
    ASSUME MemInv, StrayInv, NEW p \in Programs, NEW increment \in Int, SYS_SBRK(p, increment)
    PROVE  StrayInv'
PROOF
  <1> DEFINE old == program_break[p]
  <1>1. PICK x : /\ Runs /\ p \in running /\ UNCHANGED running
                 /\ program_break' = [program_break EXCEPT ![p] = x]
                 /\ x \in {old, (old + increment) % Space}
                 /\ strayed' = IF x = old \/ old + increment \in Place(p) THEN strayed
                               ELSE strayed \cup {p}
    BY DEF SYS_SBRK
  <1>2. program_break \in [Programs -> 0..Space - 1] /\ running \subseteq Programs
    BY DEF MemInv, TypeInv
  <1>3. ram'.fault = "kernel" => old \notin Place(p)
    BY SbrkStep
  <1>4. ram'.fault = "kernel" => strayed' # {}
    BY <1>1, <1>3 DEF StrayInv
  <1>5. ASSUME NEW q \in running' \ strayed' PROVE program_break'[q] \in Place(q)
    <2>1. q \in running \ strayed /\ program_break[q] \in Place(q)
      BY <1>1, <1>5 DEF StrayInv
    <2>2. CASE q # p \/ x = old
      BY <1>1, <1>2, <2>1, <2>2
    <2>3. CASE q = p /\ x # old
      <3> DEFINE y == old + increment
      <3>1. y \in Place(p) /\ x = y % Space
        BY <1>1, <1>5, <2>3
      <3>2. y \in 0..Space - 1 /\ Space \in Nat
        BY <3>1, ImageEnds, SpaceFacts
      <3> HIDE DEF y
      <3>3. Space \in Nat \ {0}
        BY <3>2
      <3>4. y % Space = y
        BY <3>2, <3>3, ModSmall
      <3> QED
        BY <1>1, <1>2, <2>3, <3>1, <3>4
    <2> QED
      BY <2>2, <2>3
  <1> QED
    BY <1>4, <1>5 DEF StrayInv, Place, ImageEnd

LEMMA StutterStray ==
    ASSUME StrayInv, UNCHANGED vars
    PROVE  StrayInv'
PROOF
  BY DEF StrayInv, Place, ImageEnd, vars, process

LEMMA StrayStep ==
    ASSUME MemInv, StrayInv
    PROVE  /\ [Next]_vars => StrayInv'
           /\ [UserNext]_allVars => StrayInv'
PROOF
  <1>1. \A p \in Programs, increment \in Int : SYS_SBRK(p, increment) => StrayInv'
    BY SbrkStray
  <1>2. Loads => StrayInv'
    BY LoadsStray
  <1>3. UNCHANGED vars => StrayInv'
    BY StutterStray
  <1>4. \A p \in Programs, increment \in Increments : SYS_SBRK(p, increment) => StrayInv'
    BY <1>1, Regions
  <1>5. ASSUME NEW p \in Mallocs, NEW size \in Sizes, malloc(p, size) PROVE StrayInv'
    <2>1. p \in Programs /\ META_SIZE + size \in Int
      BY RequestIncrements, UserHeapAssumption DEF UserHeapAssumption
    <2>2. UNCHANGED vars \/ SYS_SBRK(p, META_SIZE + size)
      BY <1>5 DEF malloc, find_free_block, request_space
    <2> QED
      BY <1>1, <1>3, <2>1, <2>2
  <1>6. ASSUME NEW p \in Mallocs, NEW i \in DOMAIN blocks[p], free(p, i) PROVE StrayInv'
    BY <1>3, <1>6 DEF free
  <1>7. UNCHANGED allVars => UNCHANGED vars
    BY DEF allVars
  <1>8. [UserNext]_allVars => StrayInv'
    BY <1>2, <1>3, <1>4, <1>5, <1>6, <1>7 DEF UserNext
  <1> QED
    BY <1>2, <1>3, <1>4, <1>8 DEF Next

(* Every directory that vmm_create_address_space has made shows the kernel *)
(* its memory where it is, through the kernel's own tables, whatever has   *)
(* been mapped since; and sys_sbrk maps over the kernel's memory, which    *)
(* ends what is followed here, only when a break has left the pages behind *)
(* its program's image.                                                    *)
THEOREM MemoryKernelShared == Spec \/ UserSpec => []KernelShared
PROOF
  <1>1. ASSUME MemInv, StrayInv PROVE KernelShared
    <2>1. ASSUME Runs, NEW d \in Made, NEW v \in KernelPages
          PROVE  /\ ram.mem[d.frame][v \div P] # None
                 /\ ram.mem[ram.mem[d.frame][v \div P]][v % P] = v
      <3>1. Shows(ram, Made, kernel_directory)
        BY <1>1, <2>1, InOrder
      <3> QED
        BY <3>1 DEF Shows, ShowsOn
    <2> QED
      BY <1>1, <2>1 DEF KernelShared, StrayInv
  <1>2. Init => StrayInv
    <2>1. Init => MemInv
      BY InitMem
    <2>2. Init => running = {} /\ ram = HeapMapped
      BY DEF Init
    <2>3. HeapMapped.fault # "kernel"
      BY HeapMappedFacts DEF Booted
    <2> QED
      BY <2>2, <2>3 DEF StrayInv
  <1>3. MemInv /\ StrayInv /\ [Next]_vars => StrayInv'
    BY StrayStep
  <1>4. MemInv /\ StrayInv /\ [UserNext]_allVars => StrayInv'
    BY StrayStep
  <1>5. UserInit => Init
    BY DEF UserInit
  <1>6. Spec => []StrayInv
    <2>1. Spec => []MemInv
      BY MemInvariant, PTL
    <2> QED
      BY <1>2, <1>3, <2>1, PTL DEF Spec
  <1>7. UserSpec => []StrayInv
    <2>1. UserSpec => []MemInv
      BY MemInvariant, PTL
    <2> QED
      BY <1>2, <1>4, <1>5, <2>1, PTL DEF UserSpec
  <1> QED
    BY <1>1, <1>6, <1>7, MemInvariant, PTL

(* sys_sbrk moves the break of a running program only over pages that got  *)
(* frames, whatever calls grew, shrank, wrapped or failed half way before, *)
(* unless it moves it to the last page, for which it allocates nothing.    *)
THEOREM MemoryBreakBacked == Spec \/ UserSpec => []BreakBacked
PROOF
  <1>1. MemInv => BreakBacked
    BY DEF MemInv
  <1> QED
    BY <1>1, MemInvariant, PTL

(* pmm_alloc_block returns frame 0, and its callers go on with it, only    *)
(* when the search would find no frame: the counter it looks at first,     *)
(* which also counts frames the search never sees, refuses none too early. *)
(* The counter may drift from the bitmap in a clash (TypeOK bounds it), of *)
(* which nothing more is said.                                             *)
THEOREM MemoryNullOnlyWhenFull == Spec \/ UserSpec => []NullOnlyWhenFull
PROOF
  <1>1. MemInv => NullOnlyWhenFull
    BY DEF MemInv, FrameInv, Tidy, NullOnlyWhenFull
  <1> QED
    BY <1>1, MemInvariant, PTL
-----------------------------------------------------------------------------
(* The heap of a program.                                                  *)

Records == [at : Int, size : Int, free : BOOLEAN]
EndOf(p, b, i) == IF i = 0 THEN ImageEnd(p) * PageSize ELSE b[i].at + META_SIZE + b[i].size

(* The blocks b of program p, asked for with sizes a, fill its heap up to  *)
(* the break.                                                              *)
Filled(p, b, a, break) ==
    /\ \A i \in 1..Len(b) : b[i].at = EndOf(p, b, i - 1)
    /\ EndOf(p, b, Len(b)) = break
    /\ \A i \in 1..Len(b) : ~b[i].free => b[i].size >= a[i]

(* That is said only as long as the break has not left its place (on).     *)
Fills(p, b, a, break, on) ==
    /\ b \in Seq(Records) /\ a \in Seq(Int) /\ Len(a) = Len(b)
    /\ on => Filled(p, b, a, break)

(* A program that has not been loaded, or is being loaded, has no block,   *)
(* and programs are loaded once.                                           *)
Waiting(p) == p \notin running /\ (p \in Mallocs => blocks[p] = <<>> /\ asked[p] = <<>>)
HeapInv ==
    /\ blocks \in [Mallocs -> Seq(Records)] /\ asked \in [Mallocs -> Seq(Int)]
    /\ \A p \in Programs : image_pd[p] = None => Waiting(p)
    /\ pc # "prompt" => Waiting(loc.program)
    /\ \A p \in Mallocs \cap running :
          Fills(p, blocks[p], asked[p], program_break[p], p \notin strayed)

LEMMA FillsLess ==
    ASSUME NEW p, NEW b, NEW a, NEW break, NEW on, Fills(p, b, a, break, on),
           NEW other, NEW off, off => on /\ other = break
    PROVE  Fills(p, b, a, other, off)
PROOF
  BY DEF Fills

LEMMA FillsAppend ==
    ASSUME NEW p, NEW b, NEW a, NEW break \in Int, NEW on, Fills(p, b, a, break, on),
           NEW size \in Nat
    PROVE  Fills(p, Append(b, [at |-> break, size |-> size, free |-> FALSE]), Append(a, size),
                 break + META_SIZE + size, on)
PROOF
  <1> DEFINE r == [at |-> break, size |-> size, free |-> FALSE]
             c == Append(b, r)
             d == Append(a, size)
  <1>1. b \in Seq(Records) /\ a \in Seq(Int) /\ Len(a) = Len(b)
    BY DEF Fills
  <1>2. r \in Records /\ r.at = break /\ r.size = size
    BY DEF Records
  <1> HIDE DEF r
  <1>3. /\ c \in Seq(Records) /\ Len(c) = Len(b) + 1 /\ Len(b) \in Nat
        /\ \A i \in 1..Len(b) : c[i] = b[i]
        /\ c[Len(b) + 1] = r
    BY <1>1, <1>2
  <1>4. /\ d \in Seq(Int) /\ Len(d) = Len(b) + 1
        /\ \A i \in 1..Len(b) : d[i] = a[i]
        /\ d[Len(b) + 1] = size
    BY <1>1
  <1> HIDE DEF c, d
  <1>5. \A i \in 0..Len(b) : EndOf(p, c, i) = EndOf(p, b, i)
    BY <1>3 DEF EndOf
  <1>6. ASSUME on PROVE Filled(p, c, d, break + META_SIZE + size)
    <2>1. /\ \A i \in 1..Len(b) : b[i].at = EndOf(p, b, i - 1)
          /\ EndOf(p, b, Len(b)) = break
          /\ \A i \in 1..Len(b) : ~b[i].free => b[i].size >= a[i]
      BY <1>6 DEF Fills, Filled
    <2>2. ASSUME NEW i \in 1..Len(c)
          PROVE  c[i].at = EndOf(p, c, i - 1) /\ (~c[i].free => c[i].size >= d[i])
      <3>1. CASE i = Len(b) + 1
        <4>1. i - 1 = Len(b) /\ Len(b) \in 0..Len(b)
          BY <1>3, <3>1
        <4>2. c[i].at = EndOf(p, c, i - 1)
          BY <1>2, <1>3, <1>5, <2>1, <3>1, <4>1
        <4>3. c[i].size = size /\ d[i] = size
          BY <1>2, <1>3, <1>4, <3>1
        <4> QED
          BY <4>2, <4>3
      <3>2. CASE i # Len(b) + 1
        <4>1. i \in 1..Len(b) /\ i - 1 \in 0..Len(b)
          BY <1>3, <3>2
        <4> QED
          BY <1>3, <1>4, <1>5, <2>1, <4>1
      <3> QED
        BY <3>1, <3>2
    <2>3. EndOf(p, c, Len(c)) = break + META_SIZE + size
      BY <1>2, <1>3 DEF EndOf
    <2> QED
      BY <2>2, <2>3 DEF Filled
  <1>7. Fills(p, c, d, break + META_SIZE + size, on)
    BY <1>3, <1>4, <1>6 DEF Fills
  <1> QED
    BY <1>7 DEF c, d, r

(* Marking block k leaves the blocks where they are. *)
LEMMA FillsMarked ==
    ASSUME NEW p, NEW b, NEW a, NEW break, NEW on, Fills(p, b, a, break, on),
           NEW k \in 1..Len(b), NEW c, NEW d, NEW mark \in BOOLEAN,
           c = [b EXCEPT ![k].free = mark],
           d \in Seq(Int), Len(d) = Len(a), \A i \in 1..Len(b) : i # k => d[i] = a[i],
           ~mark => b[k].size >= d[k]
    PROVE  Fills(p, c, d, break, on)
PROOF
  <1>1. b \in Seq(Records) /\ a \in Seq(Int) /\ Len(a) = Len(b)
    BY DEF Fills
  <1>2. b[k] \in Records
    BY <1>1
  <1>3. /\ [b[k] EXCEPT !.free = mark] \in Records
        /\ [b[k] EXCEPT !.free = mark].at = b[k].at
        /\ [b[k] EXCEPT !.free = mark].size = b[k].size
        /\ [b[k] EXCEPT !.free = mark].free = mark
    BY <1>2 DEF Records
  <1> DEFINE r == [b[k] EXCEPT !.free = mark]
  <1>4. c = [b EXCEPT ![k] = r]
    OBVIOUS
  <1> HIDE DEF r
  <1>5. /\ c \in Seq(Records) /\ Len(c) = Len(b)
        /\ \A i \in 1..Len(b) : c[i] = IF i = k THEN r ELSE b[i]
    BY <1>1, <1>3, <1>4 DEF r
  <1>6. ASSUME on PROVE Filled(p, c, d, break)
    <2>1. /\ \A i \in 1..Len(b) : b[i].at = EndOf(p, b, i - 1)
          /\ EndOf(p, b, Len(b)) = break
          /\ \A i \in 1..Len(b) : ~b[i].free => b[i].size >= a[i]
      BY <1>6 DEF Fills, Filled
    <2>2. \A i \in 1..Len(b) : /\ c[i].at = b[i].at /\ c[i].size = b[i].size
                               /\ ~c[i].free => c[i].size >= d[i]
      BY <1>3, <1>5, <2>1 DEF r
    <2>3. \A i \in 0..Len(b) : EndOf(p, c, i) = EndOf(p, b, i)
      BY <2>2 DEF EndOf
    <2>4. \A i \in 1..Len(b) : i - 1 \in 0..Len(b)
      OBVIOUS
    <2>5. Len(b) \in 0..Len(b)
      BY <1>1
    <2> QED
      BY <1>5, <2>1, <2>2, <2>3, <2>4, <2>5 DEF Filled
  <1> QED
    BY <1>1, <1>5, <1>6 DEF Fills

LEMMA FillsNone ==
    ASSUME NEW p, NEW on
    PROVE  Fills(p, <<>>, <<>>, ImageEnd(p) * PageSize, on)
PROOF
  BY DEF Fills, Filled, EndOf

(* Steps of the shell and of programs that do not use malloc.              *)
LEMMA SameHeap ==
    ASSUME HeapInv, UNCHANGED <<blocks, asked>>, running' \subseteq running,
           \A q \in Mallocs : program_break'[q] = program_break[q], strayed \subseteq strayed',
           \A q \in Programs : image_pd'[q] = None => Waiting(q),
           pc' # "prompt" => Waiting(loc'.program)
    PROVE  HeapInv'
PROOF
  <1>1. \A q \in Programs : Waiting(q) => Waiting(q)'
    BY DEF Waiting
  <1>2. pc' # "prompt" => (Waiting(loc.program))'
    BY DEF Waiting
  <1>3. \A q \in Programs : image_pd'[q] = None => Waiting(q)'
    BY <1>1
  <1>4. \A q \in Mallocs \cap running' :
           Fills(q, blocks'[q], asked'[q], program_break'[q], q \notin strayed')
    <2>1. SUFFICES ASSUME NEW q \in Mallocs \cap running'
                   PROVE  Fills(q, blocks[q], asked[q], program_break[q], q \notin strayed')
      OBVIOUS
    <2>2. Fills(q, blocks[q], asked[q], program_break[q], q \notin strayed)
      BY DEF HeapInv
    <2> QED
      BY <2>2, FillsLess
  <1>5. blocks' \in [Mallocs -> Seq(Records)] /\ asked' \in [Mallocs -> Seq(Int)]
    BY DEF HeapInv
  <1> QED
    BY <1>2, <1>3, <1>4, <1>5 DEF HeapInv, Fills, Filled, EndOf, ImageEnd, Records

LEMMA LoadsHeap ==
    ASSUME MemInv, HeapInv, Loads, UNCHANGED <<blocks, asked>>
    PROVE  HeapInv'
PROOF
  <1>1. /\ \A q \in Programs : image_pd[q] = None => Waiting(q)
        /\ pc # "prompt" => Waiting(loc.program)
        /\ TypeInv /\ PlaceInv
    BY DEF HeapInv, MemInv
  <1>2. CASE Choose
    <2>1. /\ pc = "choose" /\ loc'.program = loc.program
          /\ UNCHANGED <<image_pd, running, program_break, strayed>>
      BY <1>2 DEF Choose, ChooseFor, process
    <2> QED
      BY <1>1, <2>1, SameHeap
  <1>3. CASE \E p \in Programs : elf_load_file(p)
    <2>1. PICK p \in Programs : elf_load_file(p)
      BY <1>3
    <2>2. /\ image_pd[p] = None /\ loc'.program = p
          /\ UNCHANGED <<image_pd, running, program_break, strayed>>
      BY <2>1 DEF elf_load_file, ChooseFor, process
    <2> QED
      BY <1>1, <2>2, SameHeap
  <1>4. CASE elf_load_file_directory
    <2>1. /\ pc = "take" /\ UNCHANGED <<running, program_break, strayed>>
          /\ pc' # "prompt" => loc' = loc
          /\ UNCHANGED image_pd \/ \E m : image_pd' = [image_pd EXCEPT ![loc.program] = m]
      BY <1>4 DEF elf_load_file_directory, Taking, process, Return, Continue
    <2>2. \A q \in Programs : q # loc.program => image_pd'[q] = image_pd[q]
      BY <1>1, <2>1 DEF TypeInv
    <2>3. \A q \in Programs : image_pd'[q] = None => Waiting(q)
      BY <1>1, <2>1, <2>2
    <2> QED
      BY <1>1, <2>1, <2>3, SameHeap
  <1>5. CASE elf_load_file_image
    <2>1. /\ pc = "load" /\ loc' = [loc EXCEPT !.want = "cr3"]
          /\ UNCHANGED <<image_pd, running, program_break, strayed>>
      BY <1>5 DEF elf_load_file_image, Allocate, process
    <2>2. loc'.program = loc.program
      BY <1>1, <2>1 DEF TypeInv, Locs
    <2> QED
      BY <1>1, <2>1, <2>2, SameHeap
  <1>6. CASE create_process_directory
    <2>1. /\ pc = "take" /\ loc' = [loc EXCEPT !.want = "stack"]
          /\ UNCHANGED <<image_pd, running, program_break, strayed>>
      BY <1>6 DEF create_process_directory, Allocate, Taking
    <2>2. loc'.program = loc.program
      BY <1>1, <2>1 DEF TypeInv, Locs
    <2> QED
      BY <1>1, <2>1, <2>2, SameHeap
  <1>7. CASE create_process_stack
    <2>1. /\ pc = "take" /\ \E f : loc' = [loc EXCEPT !.want = "table", !.stack = f]
          /\ UNCHANGED <<image_pd, running, program_break, strayed>>
      BY <1>7 DEF create_process_stack, Taking, process
    <2>2. loc'.program = loc.program
      BY <1>1, <2>1 DEF TypeInv, Locs
    <2> QED
      BY <1>1, <2>1, <2>2, SameHeap
  <1>8. CASE create_process_table
    <2> DEFINE p == loc.program
    <2>1. /\ pc = "take" /\ loc.want = "table" /\ pc' = "prompt" /\ UNCHANGED <<image_pd, strayed>>
          /\ running' = running \cup {p}
          /\ program_break' = [program_break EXCEPT ![p] = ImageEnd(p) * PageSize]
      BY <1>8 DEF create_process_table, Taking, Return
    <2>2. p \in Programs /\ image_pd[p] # None /\ Waiting(p)
      BY <1>1, <2>1 DEF PlaceInv
    <2>3. \A q \in Programs : q # p => program_break'[q] = program_break[q]
      BY <1>1, <2>1 DEF TypeInv
    <2>4. program_break'[p] = ImageEnd(p) * PageSize
      BY <1>1, <2>1, <2>2 DEF TypeInv
    <2> HIDE DEF p
    <2>5. \A q \in Programs : image_pd'[q] = None => Waiting(q)'
      BY <1>1, <2>1, <2>2 DEF Waiting
    <2>6. \A q \in Mallocs \cap running' :
             Fills(q, blocks'[q], asked'[q], program_break'[q], q \notin strayed')
      <3>1. SUFFICES ASSUME NEW q \in Mallocs \cap running'
                     PROVE  Fills(q, blocks[q], asked[q], program_break'[q], q \notin strayed')
        OBVIOUS
      <3>2. CASE q = p
        BY <2>2, <2>4, <3>1, <3>2, FillsNone DEF Waiting
      <3>3. CASE q # p
        <4>1. q \in Mallocs \cap running /\ q \in Programs
          BY <1>1, <2>1, <3>3 DEF TypeInv
        <4> QED
          BY <2>1, <2>3, <3>3, <4>1 DEF HeapInv
      <3> QED
        BY <3>2, <3>3
    <2>7. blocks' \in [Mallocs -> Seq(Records)] /\ asked' \in [Mallocs -> Seq(Int)]
      BY DEF HeapInv
    <2> QED
      BY <2>1, <2>5, <2>6, <2>7 DEF HeapInv, Fills, Filled, EndOf, ImageEnd, Records
  <1>9. CASE \E p \in Programs : process_exit(p)
    <2>1. /\ running' \subseteq running /\ UNCHANGED <<pc, loc, image_pd, program_break, strayed>>
      BY <1>9 DEF process_exit
    <2> QED
      BY <1>1, <2>1, SameHeap
  <1> QED
    BY <1>2, <1>3, <1>4, <1>5, <1>6, <1>7, <1>8, <1>9 DEF Loads

(* Steps of malloc and free. *)
LEMMA ChangedHeap ==
    ASSUME HeapInv, NEW p \in Mallocs \cap running, NEW b, NEW a,
           blocks' = [blocks EXCEPT ![p] = b], asked' = [asked EXCEPT ![p] = a],
           Fills(p, b, a, program_break'[p], p \notin strayed'), strayed \subseteq strayed', UNCHANGED <<pc, loc, image_pd, running>>,
           \A q \in Mallocs : q # p => program_break'[q] = program_break[q]
    PROVE  HeapInv'
PROOF
  <1>1. blocks \in [Mallocs -> Seq(Records)] /\ asked \in [Mallocs -> Seq(Int)]
    BY DEF HeapInv
  <1>2. b \in Seq(Records) /\ a \in Seq(Int)
    BY DEF Fills
  <1>3. blocks' \in [Mallocs -> Seq(Records)] /\ asked' \in [Mallocs -> Seq(Int)]
    BY <1>1, <1>2
  <1>4. \A q \in Mallocs : q # p => blocks'[q] = blocks[q] /\ asked'[q] = asked[q]
    BY <1>1
  <1>5. \A q : Waiting(q) => Waiting(q)'
    BY <1>4 DEF Waiting
  <1>6. \A q \in Programs : image_pd'[q] = None => Waiting(q)'
    BY <1>5 DEF HeapInv
  <1>7. pc' # "prompt" => (Waiting(loc.program))'
    BY <1>4 DEF HeapInv, Waiting
  <1>8. \A q \in Mallocs \cap running' :
           Fills(q, blocks'[q], asked'[q], program_break'[q], q \notin strayed')
    <2>1. SUFFICES ASSUME NEW q \in Mallocs \cap running'
                   PROVE  Fills(q, blocks'[q], asked'[q], program_break'[q], q \notin strayed')
      OBVIOUS
    <2>2. CASE q = p
      <3>1. blocks'[q] = b /\ asked'[q] = a
        BY <1>1, <2>2
      <3> QED
        BY <2>2, <3>1
    <2>3. CASE q # p
      <3>1. /\ q \in Mallocs \cap running /\ blocks'[q] = blocks[q] /\ asked'[q] = asked[q]
            /\ program_break'[q] = program_break[q]
        BY <1>4, <2>1, <2>3
      <3>2. Fills(q, blocks[q], asked[q], program_break[q], q \notin strayed)
        BY <3>1 DEF HeapInv
      <3> QED
        BY <3>1, <3>2, FillsLess
    <2> QED
      BY <2>2, <2>3
  <1> QED
    BY <1>3, <1>6, <1>7, <1>8 DEF HeapInv, Fills, Filled, EndOf, ImageEnd, Records

LEMMA ReusedHeap ==
    ASSUME HeapInv, NEW p \in Mallocs \cap running, NEW size \in Sizes, find_free_block(p, size)
    PROVE  HeapInv'
PROOF
  <1> DEFINE k == Min(Fits(p, size))
             b == blocks[p]
             a == asked[p]
             c == [b EXCEPT ![k].free = FALSE]
             d == [a EXCEPT ![k] = size]
  <1>1. /\ blocks \in [Mallocs -> Seq(Records)] /\ asked \in [Mallocs -> Seq(Int)]
        /\ Fills(p, b, a, program_break[p], p \notin strayed)
    BY DEF HeapInv
  <1>2. b \in Seq(Records) /\ a \in Seq(Int) /\ Len(a) = Len(b) /\ Len(b) \in Nat
    BY <1>1 DEF Fills
  <1>3. k \in 1..Len(b) /\ b[k].size >= size
    <2>1. Fits(p, size) \in SUBSET Nat /\ Fits(p, size) # {}
      BY <1>2 DEF Fits, find_free_block
    <2>2. k \in Fits(p, size)
      BY <2>1, MinFacts
    <2> QED
      BY <1>2, <2>2 DEF Fits
  <1>4. /\ blocks' = [blocks EXCEPT ![p] = c] /\ asked' = [asked EXCEPT ![p] = d]
        /\ UNCHANGED <<pc, loc, image_pd, running, program_break, strayed>>
    BY <1>1 DEF find_free_block, vars, process
  <1>5. size \in Int
    BY RequestIncrements
  <1> HIDE DEF k, b, a
  <1>6. d \in Seq(Int) /\ Len(d) = Len(a) /\ d[k] = size /\ \A i \in 1..Len(b) : i # k => d[i] = a[i]
    BY <1>2, <1>3, <1>5
  <1>7. Fills(p, c, d, program_break[p], p \notin strayed)
    <2>1. ~FALSE => b[k].size >= d[k]
      BY <1>3, <1>6
    <2>2. c = [b EXCEPT ![k].free = FALSE]
      OBVIOUS
    <2> HIDE DEF c, d
    <2> QED
      BY <1>1, <1>3, <1>6, <2>1, <2>2, FillsMarked
  <1> HIDE DEF c, d
  <1>8. Fills(p, c, d, program_break'[p], p \notin strayed')
    BY <1>4, <1>7
  <1> QED
    BY <1>4, <1>8, ChangedHeap

LEMMA RequestedHeap ==
    ASSUME MemInv, HeapInv, NEW p \in Mallocs \cap running, NEW size \in Sizes,
           request_space(p, size)
    PROVE  HeapInv'
PROOF
  <1> DEFINE b == blocks[p]
             a == asked[p]
             old == program_break[p]
             c == Append(b, [at |-> old, size |-> size, free |-> FALSE])
             d == Append(a, size)
  <1>1. /\ UNCHANGED <<pc, loc, image_pd, running>> /\ strayed \subseteq strayed'
        /\ \/ program_break'[p] = old
           \/ p \notin strayed' => program_break'[p] = old + (META_SIZE + size)
        /\ \A q \in Mallocs : q # p => program_break'[q] = program_break[q]
    <2>1. program_break \in [Programs -> 0..Space - 1] /\ Mallocs \subseteq Programs
      BY UserHeapAssumption DEF MemInv, TypeInv, UserHeapAssumption
    <2>2. PICK x :
             /\ UNCHANGED <<pc, loc, image_pd, running>>
             /\ program_break' = [program_break EXCEPT ![p] = x]
             /\ x \in {old, (old + (META_SIZE + size)) % Space}
             /\ strayed' = IF x = old \/ old + (META_SIZE + size) \in Place(p) THEN strayed
                           ELSE strayed \cup {p}
      BY DEF request_space, SYS_SBRK
    <2>3. p \in Programs /\ program_break'[p] = x
      BY <2>1, <2>2
    <2>4. ASSUME x # old, p \notin strayed' PROVE x = old + (META_SIZE + size)
      <3>1. old + (META_SIZE + size) \in Place(p)
        BY <2>2, <2>4
      <3>2. old + (META_SIZE + size) \in 0..Space - 1
        BY <2>3, <3>1, ImageEnds
      <3> DEFINE y == old + (META_SIZE + size)
      <3> HIDE DEF y
      <3>3. Space \in Nat /\ y \in 0..Space - 1
        BY <3>2, SpaceFacts DEF y
      <3>4. Space \in Nat \ {0}
        BY <3>3
      <3>5. y % Space = y
        BY <3>3, <3>4, ModSmall
      <3> QED
        BY <2>2, <2>4, <3>5 DEF y
    <2> QED
      BY <2>1, <2>2, <2>3, <2>4
  <1>2. /\ blocks \in [Mallocs -> Seq(Records)] /\ asked \in [Mallocs -> Seq(Int)]
        /\ Fills(p, b, a, old, p \notin strayed)
    BY DEF HeapInv
  <1>3. CASE program_break'[p] = old
    <2>1. UNCHANGED <<blocks, asked>>
      BY <1>3 DEF request_space
    <2>2. \A q \in Mallocs : program_break'[q] = program_break[q]
      BY <1>1, <1>3
    <2>3. /\ \A q \in Programs : image_pd'[q] = None => Waiting(q)
          /\ pc' # "prompt" => Waiting(loc'.program)
      BY <1>1 DEF HeapInv
    <2> QED
      BY <1>1, <2>1, <2>2, <2>3, SameHeap
  <1>4. CASE program_break'[p] # old
    <2>1. blocks' = [blocks EXCEPT ![p] = c] /\ asked' = [asked EXCEPT ![p] = d]
      BY <1>2, <1>4 DEF request_space
    <2>2. (p \notin strayed' => program_break'[p] = old + META_SIZE + size)
          /\ old \in Int /\ size \in Nat
      <3>1. old \in Int
        <4>1. p \in Programs
          BY UserHeapAssumption DEF UserHeapAssumption
        <4>2. old \in 0..Space - 1 /\ Space \in Nat
          BY <4>1, SpaceFacts DEF MemInv, TypeInv
        <4> QED
          BY <4>2
      <3>2. META_SIZE \in Nat /\ size \in Nat
        BY RequestIncrements
      <3> QED
        BY <1>1, <1>4, <3>1, <3>2
    <2> HIDE DEF b, a, old
    <2>3. Fills(p, c, d, old + META_SIZE + size, p \notin strayed)
      BY <1>2, <2>2, FillsAppend
    <2> HIDE DEF c, d
    <2>4. Fills(p, c, d, program_break'[p], p \notin strayed')
      BY <1>1, <2>2, <2>3, FillsLess
    <2> QED
      BY <1>1, <2>1, <2>4, ChangedHeap
  <1> QED
    BY <1>3, <1>4

LEMMA FreedHeap ==
    ASSUME HeapInv, NEW p \in Mallocs, NEW k \in DOMAIN blocks[p], free(p, k)
    PROVE  HeapInv'
PROOF
  <1> DEFINE b == blocks[p]
             a == asked[p]
             c == [b EXCEPT ![k].free = TRUE]
  <1>1. /\ blocks \in [Mallocs -> Seq(Records)] /\ asked \in [Mallocs -> Seq(Int)]
        /\ p \in Mallocs \cap running /\ Fills(p, b, a, program_break[p], p \notin strayed)
    BY DEF HeapInv, free
  <1>2. b \in Seq(Records) /\ a \in Seq(Int) /\ Len(a) = Len(b) /\ k \in 1..Len(b)
    BY <1>1 DEF Fills
  <1>3. /\ blocks' = [blocks EXCEPT ![p] = c] /\ asked' = [asked EXCEPT ![p] = a]
        /\ UNCHANGED <<pc, loc, image_pd, running, program_break, strayed>>
    BY <1>1 DEF free, vars, process
  <1>4. Fills(p, c, a, program_break[p], p \notin strayed)
    <2>1. c = [b EXCEPT ![k].free = TRUE] /\ TRUE \in BOOLEAN
      OBVIOUS
    <2> HIDE DEF b, a, c
    <2> QED
      BY <1>1, <1>2, <2>1, FillsMarked
  <1> HIDE DEF c, a, b
  <1>5. Fills(p, c, a, program_break'[p], p \notin strayed')
    BY <1>3, <1>4
  <1> QED
    BY <1>1, <1>3, <1>5, ChangedHeap

LEMMA InitHeap ==
    ASSUME UserInit
    PROVE  HeapInv
PROOF
  <1>1. /\ running = {} /\ pc = "prompt"
        /\ blocks = [p \in Mallocs |-> <<>>] /\ asked = [p \in Mallocs |-> <<>>]
    BY DEF UserInit, Init
  <1>2. blocks \in [Mallocs -> Seq(Records)] /\ asked \in [Mallocs -> Seq(Int)]
    BY <1>1
  <1>3. \A p \in Programs : Waiting(p)
    BY <1>1 DEF Waiting
  <1> QED
    BY <1>1, <1>2, <1>3 DEF HeapInv

LEMMA HeapStep ==
    ASSUME MemInv, HeapInv, [UserNext]_allVars
    PROVE  HeapInv'
PROOF
  <1>1. /\ \A q \in Programs : image_pd[q] = None => Waiting(q)
        /\ pc # "prompt" => Waiting(loc.program)
    BY DEF HeapInv
  <1>2. CASE Loads /\ UNCHANGED <<blocks, asked>>
    BY <1>2, LoadsHeap
  <1>3. CASE \E p \in Programs \ Mallocs, increment \in Increments :
                SYS_SBRK(p, increment) /\ UNCHANGED <<blocks, asked>>
    <2>1. PICK p \in Programs \ Mallocs, increment \in Increments :
                  SYS_SBRK(p, increment) /\ UNCHANGED <<blocks, asked>>
      BY <1>3
    <2>2. program_break \in [Programs -> 0..Space - 1]
          /\ Mallocs \subseteq Programs
      BY UserHeapAssumption DEF MemInv, TypeInv, UserHeapAssumption
    <2>3. /\ UNCHANGED <<pc, loc, image_pd, running, blocks, asked>> /\ strayed \subseteq strayed'
          /\ \E x : program_break' = [program_break EXCEPT ![p] = x]
      BY <2>1 DEF SYS_SBRK
    <2>4. \A q \in Mallocs : program_break'[q] = program_break[q]
      BY <2>1, <2>2, <2>3
    <2> QED
      BY <1>1, <2>3, <2>4, SameHeap
  <1>4. CASE \E p \in Mallocs, size \in Sizes : malloc(p, size)
    <2>1. PICK p \in Mallocs, size \in Sizes : malloc(p, size)
      BY <1>4
    <2>2. p \in Mallocs \cap running /\ (find_free_block(p, size) \/ request_space(p, size))
      BY <2>1 DEF malloc
    <2> QED
      BY <2>2, ReusedHeap, RequestedHeap
  <1>5. CASE \E p \in Mallocs : \E i \in DOMAIN blocks[p] : free(p, i)
    BY <1>5, FreedHeap
  <1>6. CASE UNCHANGED allVars
    <2>1. UNCHANGED <<pc, loc, image_pd, running, program_break, strayed, blocks, asked>>
      BY <1>6 DEF allVars, vars, process
    <2> QED
      BY <1>1, <2>1, SameHeap
  <1> QED
    BY <1>2, <1>3, <1>4, <1>5, <1>6 DEF UserNext

LEMMA HeapFills ==
    ASSUME HeapInv
    PROVE  BlocksInBreak
PROOF
  <1> SUFFICES ASSUME NEW p \in (Mallocs \cap running) \ strayed
               PROVE  LET b == blocks[p]
                          end(i) == IF i = 0 THEN ImageEnd(p) * PageSize
                                    ELSE b[i].at + META_SIZE + b[i].size
                      IN  /\ \A i \in DOMAIN b : b[i].at = end(i - 1)
                          /\ end(Len(b)) = program_break[p]
                          /\ \A i \in DOMAIN b : ~b[i].free => b[i].size >= asked[p][i]
    BY DEF BlocksInBreak
  <1>1. Fills(p, blocks[p], asked[p], program_break[p], TRUE)
    BY DEF HeapInv
  <1>2. DOMAIN blocks[p] = 1..Len(blocks[p])
    BY <1>1 DEF Fills
  <1> QED
    BY <1>1, <1>2 DEF Fills, Filled, EndOf

(* The blocks that malloc hands out and free takes back fill the heap of   *)
(* each program up to its break, whatever sbrk gave or refused on the way  *)
(* and whoever else took frames (request_space, find_free_block, free of   *)
(* stdlib.c, SYS_SBRK of syscall.c).                                       *)
THEOREM HeapBlocksInBreak == UserSpec => []BlocksInBreak
PROOF
  <1>1. UserInit => MemInv /\ HeapInv
    BY InitMem, InitHeap DEF UserInit
  <1>2. MemInv /\ HeapInv /\ [UserNext]_allVars => MemInv' /\ HeapInv'
    BY UserNextStep, HeapStep
  <1>3. HeapInv => BlocksInBreak
    BY HeapFills
  <1> QED
    BY <1>1, <1>2, <1>3, PTL DEF UserSpec
=============================================================================
