---------------------------- MODULE PersistProofs ----------------------------
(***************************************************************************)
(* What is proved of files on the disk, for any modules, names, sizes of   *)
(* table and disk and numbers of saves that satisfy PersistAssumption:     *)
(*                                                                         *)
(*   PersistSavedIsFound    SavedIsFound: a boot finds what was saved;     *)
(*   PersistOwnSectors      TypeOK, and OwnSectors: a file loaded shows    *)
(*                          no sector of another;                          *)
(*   PersistFirstSaveWhole  FirstSaveWhole: the machine may stop in the    *)
(*                          first save, and what it left is whole.         *)
(*                                                                         *)
(* They rest on the invariant PersistInv.  A sector of a file may be on    *)
(* the disk or still in the queue when the next file is entered: Will says *)
(* what it will hold once the queue is written, Holds that of the sectors  *)
(* of a file, as far as programs have left it alone.  WalkInv says of a    *)
(* save under way that each file it has passed has its entry in the table  *)
(* (Entry) and its sectors behind it (Done), none shared with the next;    *)
(* of the file it is at, that the size in the entry (Begun) is at most     *)
(* what is copied later; and that the rest of the list is that of the      *)
(* files saved, but for the data (Same).  The place in that list counts    *)
(* from its end: gone files were deleted behind the walk.  DoneInv and     *)
(* FirstInv say the same of the table on the disk, the last sector of      *)
(* which may be the c-th (DiskDone).                                       *)
(*                                                                         *)
(* The order: lists and loops; units, sectors and the table; what is       *)
(* loaded from the disk; the types; the invariant; what each step does to  *)
(* the types, to the walk and to the disk; the properties.                 *)
(***************************************************************************)
EXTENDS Persist, SequenceTheorems, WellFoundedInduction, TLAPS
-----------------------------------------------------------------------------
(* Induction and recursion up to n, and lists.                             *)
LEMMA UpTo ==
    ASSUME NEW n \in Nat, NEW S, 0 \in S,
           \A k \in 0..n - 1 : k \in S => k + 1 \in S
    PROVE  0..n \subseteq S
PROOF
  <1> DEFINE Bad == {k \in 0..n : k \notin S}
             R == OpToRel(<, Nat)
  <1> SUFFICES ASSUME Bad # {} PROVE FALSE
    OBVIOUS
  <1>1. PICK m \in Bad : \A k \in Bad : ~ (<<k, m>> \in R)
    <2>1. IsWellFoundedOn(R, Nat)
      BY NatLessThanWellFounded
    <2>2. Bad \subseteq Nat
      OBVIOUS
    <2> QED
      BY <2>1, <2>2, WFMin
  <1>2. \A k \in Bad : ~ (k < m)
    <2>1. \A k \in Bad : <<k, m>> \in R <=> k < m
      <3>1. Bad \subseteq Nat
        OBVIOUS
      <3> HIDE DEF Bad
      <3> QED
        BY <3>1 DEF OpToRel
    <2> QED
      BY <1>1, <2>1
  <1>3. m # 0 /\ m \in 0..n
    OBVIOUS
  <1>4. m - 1 \in 0..n - 1 /\ m - 1 \in S
    BY <1>2, <1>3
  <1>5. (m - 1) + 1 \in S
    BY <1>4
  <1> QED
    BY <1>3, <1>5

Recursion(f, n, base, step) == f[0] = base /\ \A k \in 1..n : f[k] = step[k][f[k - 1]]
LEMMA RecursionUpTo ==
    ASSUME NEW n \in Nat, NEW T, NEW base \in T, NEW step \in [1..n -> [T -> T]]
    PROVE  \E f \in [0..n -> T] : Recursion(f, n, base, step)
PROOF
  <1> DEFINE Goes(f, m) == f[0] = base /\ \A k \in 1..m : f[k] = step[k][f[k - 1]]
             S == {m \in 0..n : \E f \in [0..m -> T] : Goes(f, m)}
  <1>1. 0 \in S
    <2>1. [k \in 0..0 |-> base] \in [0..0 -> T] /\ Goes([k \in 0..0 |-> base], 0)
      OBVIOUS
    <2>2. \E f \in [0..0 -> T] : Goes(f, 0)
      BY <2>1
    <2> HIDE DEF Goes
    <2> QED
      BY <2>2
  <1>2. ASSUME NEW m \in 0..n - 1, m \in S PROVE m + 1 \in S
    <2>1. PICK f \in [0..m -> T] : Goes(f, m)
      BY <1>2
    <2> DEFINE g == [k \in 0..m + 1 |-> IF k <= m THEN f[k] ELSE step[m + 1][f[m]]]
    <2>2. m + 1 \in 1..n /\ f[m] \in T
      OBVIOUS
    <2>3. g \in [0..m + 1 -> T]
      BY <2>2
    <2>4. g[0] = base /\ \A k \in 1..m + 1 : g[k] = step[k][g[k - 1]]
      BY <2>1
    <2> HIDE DEF g
    <2>5. Goes(g, m + 1)
      BY <2>4
    <2> HIDE DEF Goes
    <2>6. \E h \in [0..m + 1 -> T] : Goes(h, m + 1)
      BY <2>3, <2>5
    <2> QED
      BY <2>2, <2>6
  <1>3. n \in S
    <2> HIDE DEF S
    <2>1. \A m \in 0..n - 1 : m \in S => m + 1 \in S
      BY <1>2
    <2>2. 0..n \subseteq S
      BY <1>1, <2>1, UpTo, Zenon
    <2> QED
      BY <2>2
  <1> QED
    BY <1>3 DEF Recursion

LEMMA Smallest ==
    ASSUME NEW S \in SUBSET Nat, S # {}
    PROVE  \E m \in S : \A x \in S : m <= x
PROOF
  <1> DEFINE R == OpToRel(<, Nat)
  <1>1. PICK m \in S : \A k \in S : ~ (<<k, m>> \in R)
    <2>1. IsWellFoundedOn(R, Nat)
      BY NatLessThanWellFounded
    <2> QED
      BY <2>1, WFMin
  <1>2. \A k \in S : <<k, m>> \in R <=> k < m
    BY DEF OpToRel
  <1>3. \A k \in S : ~ (k < m) /\ k \in Nat
    BY <1>1, <1>2
  <1> HIDE DEF R
  <1>4. m \in Nat
    BY <1>1
  <1> QED
    BY <1>3, <1>4
-----------------------------------------------------------------------------
(* Constants and arithmetic.                                               *)

LEMMA DivMod ==
    ASSUME NEW v \in Nat, NEW q \in Nat \ {0}
    PROVE  /\ v \div q \in Nat /\ v % q \in 0..q - 1
           /\ v = (v \div q) * q + (v % q)
PROOF
  OBVIOUS

LEMMA DivBounds ==
    ASSUME NEW v \in Nat, NEW q \in Nat \ {0}, NEW a \in Nat
    PROVE  /\ v < a * q => v \div q < a
           /\ v >= a * q => v \div q >= a
PROOF
  <1> DEFINE x == v \div q
             y == v % q
  <1>1. x \in Nat /\ y \in 0..q - 1 /\ v = x * q + y
    BY DivMod
  <1> HIDE DEF x, y
  <1>2. ASSUME v < a * q, x >= a PROVE FALSE
    <2>1. x * q >= a * q
      BY <1>1, <1>2
    <2>2. x * q \in Nat /\ a * q \in Nat
      BY <1>1
    <2> QED
      BY <1>1, <1>2, <2>1, <2>2
  <1>3. ASSUME v >= a * q, x < a PROVE FALSE
    <2>1. (x + 1) * q <= a * q
      BY <1>1, <1>3
    <2>2. (x + 1) * q = x * q + q
      BY <1>1
    <2>3. x * q \in Nat /\ a * q \in Nat
      BY <1>1
    <2> QED
      BY <1>1, <1>3, <2>1, <2>2, <2>3
  <1> QED
    BY <1>1, <1>2, <1>3 DEF x

LEMMA Numbers ==
    /\ MAX_FILES \in Nat \ {0} /\ TableSectors \in Nat \ {0} /\ SectorUnits \in Nat \ {0}
    /\ NameUnits \in Nat \ {0} /\ CountRange \in Nat \ {0} /\ MaxSize \in Nat \ {0}
    /\ MaxSaves \in Nat \ {0} /\ MaxCalls \in Nat \ {0}
    /\ DATA_START_SECTOR \in Nat /\ DATA_START_SECTOR > TableSectors
    /\ EntryUnits \in Nat \ {0} /\ EntryUnits = NameUnits + 1
    /\ TableUnits \in Nat /\ MAX_FILES * EntryUnits \in Nat /\ MAX_FILES * MaxSize \in Nat
PROOF
  <1>1. /\ {MAX_FILES, TableSectors, SectorUnits, NameUnits, CountRange, MaxSize, MaxSaves, MaxCalls}
               \subseteq Nat \ {0}
        /\ DATA_START_SECTOR \in Nat /\ DATA_START_SECTOR > TableSectors
    BY PersistAssumption DEF PersistAssumption
  <1>2. EntryUnits \in Nat \ {0} /\ EntryUnits = NameUnits + 1
    BY <1>1 DEF EntryUnits
  <1>3. TableUnits \in Nat
    BY <1>1 DEF TableUnits
  <1> QED
    BY <1>1, <1>2, <1>3

(* Where an entry lies in the table. *)
LEMMA AtFacts ==
    ASSUME NEW i \in Nat \ {0}
    PROVE  /\ At(i) \in Nat /\ At(i + 1) = At(i) + EntryUnits
           /\ \A j \in Nat \ {0} : i < j => At(i + 1) <= At(j)
           /\ i <= MAX_FILES => At(i + 1) <= MAX_FILES * EntryUnits
PROOF
  <1> DEFINE E == EntryUnits
             N == MAX_FILES
  <1>1. E \in Nat /\ N \in Nat
    BY Numbers
  <1>2. \A j \in Nat \ {0} : At(j) = (j - 1) * E
    BY DEF At
  <1> HIDE DEF E, N
  <1>3. \A a, b \in Nat : a <= b => a * E <= b * E
    BY <1>1
  <1>4. i - 1 \in Nat /\ (i - 1) * E \in Nat
    BY <1>1
  <1>5. i * E = (i - 1) * E + E
    BY <1>1
  <1>6. At(i + 1) = i * E
    BY <1>2
  <1>7. ASSUME NEW j \in Nat \ {0}, i < j PROVE At(i + 1) <= At(j)
    <2>1. j - 1 \in Nat /\ i <= j - 1
      BY <1>7
    <2>2. i * E <= (j - 1) * E
      BY <1>3, <2>1
    <2> QED
      BY <1>2, <1>6, <2>2
  <1>8. i <= N => i * E <= N * E
    BY <1>1, <1>3
  <1> QED
    BY <1>2, <1>4, <1>5, <1>6, <1>7, <1>8 DEF E, N

(* The sector a unit of the table lies in, and its place there. *)
SectorOf(u) == 1 + ((u - 1) \div SectorUnits)
PlaceIn(u) == 1 + ((u - 1) % SectorUnits)

LEMMA UnitPlace ==
    ASSUME NEW u \in Nat \ {0}
    PROVE  /\ SectorOf(u) \in Nat \ {0} /\ PlaceIn(u) \in 1..SectorUnits
           /\ (SectorOf(u) - 1) * SectorUnits + PlaceIn(u) = u
           /\ u <= TableUnits => SectorOf(u) \in 1..TableSectors
PROOF
  <1> DEFINE q == SectorUnits
             x == (u - 1) \div q
             y == (u - 1) % q
  <1>1. q \in Nat \ {0} /\ u - 1 \in Nat /\ TableSectors \in Nat
    BY Numbers
  <1> HIDE DEF q
  <1>2. x \in Nat /\ y \in 0..q - 1 /\ u - 1 = x * q + y
    BY <1>1, DivMod
  <1>3. u <= TableUnits => x < TableSectors
    <2>1. TableUnits = TableSectors * q /\ TableUnits \in Nat
      BY Numbers DEF TableUnits, q
    <2>2. u <= TableUnits => u - 1 < TableSectors * q
      BY <2>1
    <2> QED
      BY <1>1, <2>2, DivBounds
  <1>4. SectorOf(u) = 1 + x /\ PlaceIn(u) = 1 + y
    BY DEF SectorOf, PlaceIn, q
  <1> HIDE DEF x, y
  <1>5. (SectorOf(u) - 1) * q + PlaceIn(u) = u
    <2>1. (SectorOf(u) - 1) = x
      BY <1>2, <1>4
    <2>2. x * q \in Nat
      BY <1>1, <1>2
    <2> QED
      BY <1>2, <1>4, <2>1, <2>2
  <1> QED
    BY <1>1, <1>2, <1>3, <1>4, <1>5 DEF q

LEMMA PlaceOrder ==
    ASSUME NEW u \in Nat \ {0}, NEW v \in Nat \ {0}, u <= v
    PROVE  SectorOf(u) <= SectorOf(v)
PROOF
  <1> DEFINE q == SectorUnits
             x == (u - 1) \div q
             y == (v - 1) \div q
  <1>1. q \in Nat \ {0} /\ u - 1 \in Nat /\ v - 1 \in Nat
    BY Numbers
  <1> HIDE DEF q
  <1>2. x \in Nat /\ y \in Nat
    BY <1>1, DivMod
  <1>3. u - 1 >= x * q
    <2>1. u - 1 = x * q + ((u - 1) % q) /\ (u - 1) % q \in 0..q - 1
      BY <1>1, DivMod
    <2> HIDE DEF x
    <2>2. x * q \in Nat
      BY <1>1, <1>2
    <2> QED
      BY <2>1, <2>2
  <1>4. v - 1 >= x * q
    <2> HIDE DEF x, y
    <2>1. x * q \in Nat
      BY <1>1, <1>2
    <2> QED
      BY <1>1, <1>3, <2>1
  <1>5. y >= x
    BY <1>1, <1>2, <1>4, DivBounds
  <1> QED
    BY <1>2, <1>5 DEF SectorOf, q
-----------------------------------------------------------------------------
(* Types.                                                                  *)

(* Names, files, and what a sector for files holds. *)
Named == UNION {[1..k -> Units] : k \in 1..NameUnits}
Marks == {Blank, <<<<"stale">>>>} \cup UNION {Sectors(n) : n \in Named}
Files == {f \in [name : Named, data : Seq(Marks), buffer : BOOLEAN] :
             Len(f.data) <= MaxSize /\ (~f.buffer => f.data = <<>>)}

(* What a unit of the table holds: in the last place of an entry a size    *)
(* and a place within the area for files.                                  *)
End(u) == \E i \in 1..MAX_FILES : u = At(i + 1)
Letters == {<<c>> : c \in Units}
Pairs == {p \in (0..MaxSize) \X (0..MAX_FILES * MaxSize) : p[2] + p[1] <= MAX_FILES * MaxSize}
UnitAt(u) == {Blank} \cup IF End(u) THEN Pairs ELSE Letters
UnitSet == {Blank} \cup Pairs \cup Letters
InTable == 1..MAX_FILES * EntryUnits
Tabled == {t \in [InTable -> UnitSet] : \A u \in InTable : t[u] \in UnitAt(u)}

(* What a sector of the disk holds. *)
Headers == {<<n>> : n \in 0..MAX_FILES}
TableSectorAt(s) == {x \in [1..SectorUnits -> UnitSet] :
                        \A k \in 1..SectorUnits : x[k] \in UnitAt((s - 1) * SectorUnits + k)}
SectorAt(l) ==
    IF l = 0 THEN {Blank} \cup Headers
    ELSE IF l <= TableSectors THEN {Blank} \cup TableSectorAt(l) ELSE Marks
AllSectors == Marks \cup Headers \cup [1..SectorUnits -> UnitSet]
Writes == {w \in [lba : Lba, sector : AllSectors] : w.sector \in SectorAt(w.lba)}

InSave == pc \in {"entry", "sectors", "copy", "tables"}
Locs == [node : 1..MAX_FILES + 1, table : Tabled \cup {Blank},
         sector_offset : 0..MAX_FILES * MaxSize, sectors : 0..MaxSize, queue : Seq(Writes)]

TypeInv ==
    /\ DOMAIN disk = Lba /\ \A l \in Lba : disk[l] \in SectorAt(l)
    /\ files \in Seq(Files) /\ saved \in Seq(Files) /\ written \in SUBSET Named
    /\ pc \in {"up", "entry", "sectors", "copy", "tables", "off"}
    /\ fault \in {"none", "stall", "overflow", "stale"}
    /\ calls \in 0..MaxCalls /\ saves \in 0..MaxSaves /\ complete \in BOOLEAN
    /\ loc \in Locs /\ loc.sector_offset <= (loc.node - 1) * MaxSize
    /\ gone \in 0..loc.node - 1
    /\ InSave => loc.table \in Tabled /\ ~complete
    /\ ~InSave => loc = NoLocals
    /\ pc \in {"sectors", "copy"} => Visiting
-----------------------------------------------------------------------------
(* The inductive invariant.                                                *)

(* Entry i of the table t is about f. *)
UnitOf(f, size, off, k) ==
    IF k <= Len(f.name) THEN <<f.name[k]>> ELSE IF k = EntryUnits THEN <<size, off>> ELSE Blank
Entry(t, i, f, size, off) ==
    \A k \in 1..EntryUnits : t[At(i) + k] = UnitOf(f, size, off, k)

(* Sector l, once what is in the queue has been written, is one of X. *)
Will(l, X) ==
    /\ \A j \in 1..Len(loc.queue) : loc.queue[j].lba = l => loc.queue[j].sector \in X
    /\ (\A j \in 1..Len(loc.queue) : loc.queue[j].lba # l) => disk[l] \in X

(* The sectors from off on are those of f, as far as they can be. *)
Holds(f, size, off) ==
    /\ Len(f.data) <= size /\ (f.name \notin written => size = Len(f.data))
    /\ size < CountRange /\ (f.name \in written => MaxSize <= CountRange) =>
         \A k \in 1..size :
             /\ f.name \notin written => Will(DATA_START_SECTOR + off + k - 1, {f.data[k]})
             /\ Own(f) => Will(DATA_START_SECTOR + off + k - 1, Sectors(f.name))

(* The first n files are in the table t and in the sectors before limit. *)
Done(t, n, limit) ==
    \A i \in 1..n : \E size \in 0..MaxSize, off \in 0..MAX_FILES * MaxSize :
        Entry(t, i, saved[i], size, off) /\ off + size <= limit /\ Holds(saved[i], size, off)

(* Programs have changed nothing of the files the walk is yet to pass but  *)
(* the data.                                                               *)
SameFile(f, g) ==
    /\ f.name = g.name /\ (f.name \notin written => f.data = g.data)
    /\ Len(g.data) <= Len(f.data) /\ (Own(g) => Own(f))
Same ==
    /\ Len(files) + gone = Len(saved)
    /\ \A i \in loc.node..Len(saved) : SameFile(files[i - gone], saved[i])

(* The entry made for the file the walk is at. *)
Begun(size) ==
    /\ Entry(loc.table, loc.node, saved[loc.node], size, loc.sector_offset)
    /\ Len(saved[loc.node].data) <= size
    /\ size <= Len(Node.data) /\ (Node.name \notin written => size = Len(Node.data))
    /\ pc = "copy" => size <= loc.sectors /\ loc.sectors <= Len(Node.data)

OfTable(s) == IF s = 0 THEN <<loc.node - 1>> ELSE TableSector(s, loc.table)

WalkInv ==
    fault = "none" /\ InSave =>
        /\ Same /\ loc.node - 1 <= Len(saved)
        /\ Done(loc.table, loc.node - 1, loc.sector_offset)
        /\ pc = "entry" =>
              /\ \A u \in InTable : u > At(loc.node) => loc.table[u] = Blank
              /\ \A j \in 1..Len(loc.queue) :
                    /\ loc.queue[j].lba = loc.queue[1].lba + (j - 1)
                    /\ loc.queue[j].lba >= DATA_START_SECTOR
        /\ pc \in {"sectors", "copy"} =>
              /\ loc.queue = <<>>
              /\ \A u \in InTable : u > At(loc.node + 1) => loc.table[u] = Blank
              /\ \E size \in 0..MaxSize : Begun(size)
        /\ pc = "tables" =>
              /\ ~Visiting /\ Len(loc.queue) <= TableSectors + 1
              /\ \A j \in 1..Len(loc.queue) :
                    /\ loc.queue[j].lba = TableSectors - Len(loc.queue) + j
                    /\ loc.queue[j].sector = OfTable(loc.queue[j].lba)
              /\ \A s \in 0..TableSectors - Len(loc.queue) : disk[s] = OfTable(s)

(* The table on the disk is that of the first n files, as far as its first *)
(* c sectors go.                                                           *)
Shown(i, f, size, off, c) ==
    \A k \in 1..EntryUnits : At(i) + k <= TableUnits =>
        TableOnDisk[At(i) + k] =
            IF SectorOf(At(i) + k) <= c THEN UnitOf(f, size, off, k) ELSE Blank
DiskDone(c) ==
    /\ Header # Blank /\ Header[1] <= Len(saved)
    /\ \A i \in 1..Header[1] : \E size \in 0..MaxSize, off \in 0..MAX_FILES * MaxSize :
          Shown(i, saved[i], size, off, c) /\ Holds(saved[i], size, off)

(* What a save leaves on the disk. *)
DoneInv ==
    complete => DiskDone(TableSectors) /\ (Header[1] = Len(saved) \/ Header[1] = MAX_FILES)

(* The disk before the table of the first save has been written, and after. *)
FirstInv ==
    /\ saves = 0 =>
          /\ ~InSave /\ ~complete /\ \A s \in 0..TableSectors : disk[s] = Blank
          /\ \A i \in 1..Len(files) : Own(files[i])
    /\ saves = 1 =>
          /\ \A i \in 1..Len(saved) : Own(saved[i])
          /\ pc \in {"entry", "sectors", "copy"} => \A s \in 0..TableSectors : disk[s] = Blank
          /\ pc = "tables" =>
                \A s \in 0..TableSectors : s > TableSectors - Len(loc.queue) => disk[s] = Blank
          /\ ~InSave /\ ~complete =>
                Header = Blank \/ \E c \in 0..TableSectors : DiskDone(c)

DiskInv == TypeInv /\ WalkInv /\ DoneInv /\ FirstInv
-----------------------------------------------------------------------------
(* Facts about the types.                                                  *)

LEMMA SeqSubset ==
    ASSUME NEW S, NEW T, S \subseteq T, NEW s \in Seq(S)
    PROVE  s \in Seq(T)
PROOF
  <1>1. s \in [1..Len(s) -> S] /\ Len(s) \in Nat
    OBVIOUS
  <1>2. s \in [1..Len(s) -> T]
    BY <1>1
  <1> QED
    BY <1>1, <1>2

LEMMA NamedFacts ==
    /\ Names \subseteq Named
    /\ \A n \in Named : n \in Seq(Units) /\ Len(n) \in 1..NameUnits
    /\ \A k \in 1..NameUnits : \A n : n \in [1..k -> Units] => n \in Named
PROOF
  <1>1. NameUnits \in Nat
    BY Numbers
  <1>2. \A k \in 1..NameUnits : \A n : n \in [1..k -> Units] => n \in Named
    BY DEF Named
  <1>3. ASSUME NEW n \in Named PROVE n \in Seq(Units) /\ Len(n) \in 1..NameUnits
    <2>1. PICK k \in 1..NameUnits : n \in [1..k -> Units]
      BY DEF Named
    <2> QED
      BY <1>1, <2>1
  <1>4. ASSUME NEW n \in Names PROVE n \in Named
    <2>1. n \in Seq(Units) /\ Len(n) \in 1..NameUnits
      BY PersistAssumption DEF PersistAssumption
    <2>2. n \in [1..Len(n) -> Units]
      BY <2>1
    <2> QED
      BY <1>2, <2>1, <2>2
  <1> QED
    BY <1>2, <1>3, <1>4

LEMMA MarkFacts ==
    /\ Blank \in Marks /\ <<<<"stale">>>> \in Marks
    /\ \A n \in Named : Sectors(n) \subseteq Marks
PROOF
  BY DEF Marks

LEMMA FileFacts ==
    ASSUME NEW f \in Files
    PROVE  /\ f.name \in Named /\ f.name \in Seq(Units) /\ Len(f.name) \in 1..NameUnits
           /\ f.data \in Seq(Marks) /\ Len(f.data) \in 0..MaxSize /\ f.buffer \in BOOLEAN
           /\ ~f.buffer => f.data = <<>>
PROOF
  <1>1. f.name \in Named /\ f.data \in Seq(Marks) /\ f.buffer \in BOOLEAN
        /\ Len(f.data) <= MaxSize /\ (~f.buffer => f.data = <<>>)
    BY DEF Files
  <1> QED
    BY <1>1, NamedFacts, Numbers

LEMMA MadeFile ==
    ASSUME NEW n \in Named, NEW d \in Seq(Marks), Len(d) <= MaxSize, NEW b \in BOOLEAN,
           ~b => d = <<>>
    PROVE  [name |-> n, data |-> d, buffer |-> b] \in Files
PROOF
  BY DEF Files

LEMMA ModuleFacts ==
    /\ Modules \in Seq(Files)
    /\ \A i \in 1..Len(Modules) : Own(Modules[i])
PROOF
  <1> DEFINE Mine == UNION {Sectors(n) : n \in Names}
  <1>1. /\ Modules \in Seq([name : Names, data : Seq(Mine), buffer : {TRUE}])
        /\ \A i \in DOMAIN Modules : Len(Modules[i].data) <= MaxSize /\ Own(Modules[i])
    BY PersistAssumption DEF PersistAssumption
  <1>2. Mine \subseteq Marks
    BY NamedFacts, MarkFacts
  <1> DEFINE R == [name : Names, data : Seq(Mine), buffer : {TRUE}]
  <1> HIDE DEF Mine, R
  <1>6. Modules \in Seq(R)
    BY <1>1 DEF R
  <1>3. ASSUME NEW i \in 1..Len(Modules) PROVE Modules[i] \in Files
    <2>1. Modules[i] \in R
      BY <1>6
    <2> DEFINE f == Modules[i]
    <2> HIDE DEF f
    <2>2. f.data \in Seq(Mine) /\ f.name \in Names /\ f.buffer = TRUE
          /\ f = [name |-> f.name, data |-> f.data, buffer |-> f.buffer]
      BY <2>1 DEF f, R
    <2>3. f.data \in Seq(Marks) /\ f.name \in Named
      BY <1>2, <2>2, SeqSubset, NamedFacts
    <2>4. Len(f.data) <= MaxSize
      BY <1>1 DEF f
    <2>5. [name |-> f.name, data |-> f.data, buffer |-> f.buffer] \in Files
      BY <2>2, <2>3, <2>4, MadeFile
    <2> QED
      BY <2>2, <2>5 DEF f
  <1>4. DOMAIN Modules = 1..Len(Modules) /\ Len(Modules) \in Nat
    BY <1>1
  <1>5. Modules \in [1..Len(Modules) -> Files]
    <2>1. Modules = [i \in 1..Len(Modules) |-> Modules[i]]
      BY <1>1
    <2> QED
      BY <1>3, <2>1
  <1> QED
    BY <1>1, <1>4, <1>5

LEMMA ReverseFacts ==
    ASSUME NEW S, NEW s \in Seq(S)
    PROVE  /\ Reverse(s) \in Seq(S) /\ Len(Reverse(s)) = Len(s)
           /\ \A i \in 1..Len(s) : \E j \in 1..Len(s) : Reverse(s)[i] = s[j]
PROOF
  <1>1. Reverse(s) = [i \in 1..Len(s) |-> s[(Len(s) - i) + 1]] /\ Len(s) \in Nat
    BY DEF Reverse
  <1>2. \A i \in 1..Len(s) : (Len(s) - i) + 1 \in 1..Len(s)
    BY <1>1
  <1>3. \A i \in 1..Len(s) : Reverse(s)[i] = s[(Len(s) - i) + 1]
    BY <1>1
  <1>4. Reverse(s) \in [1..Len(s) -> S]
    BY <1>1, <1>2
  <1> QED
    BY <1>1, <1>2, <1>3, <1>4

(* The places of an entry in the table. *)
LEMMA EndFacts ==
    ASSUME NEW i \in 1..MAX_FILES
    PROVE  /\ End(At(i + 1)) /\ At(i + 1) = At(i) + EntryUnits
           /\ \A k \in 1..NameUnits : ~End(At(i) + k)
           /\ \A k \in 1..EntryUnits : At(i) + k \in InTable
PROOF
  <1>1. i \in Nat \ {0} /\ MAX_FILES \in Nat /\ NameUnits \in Nat /\ EntryUnits = NameUnits + 1
    BY Numbers
  <1>2. /\ At(i) \in Nat /\ At(i + 1) = At(i) + EntryUnits
        /\ \A j \in Nat \ {0} : i < j => At(i + 1) <= At(j)
        /\ At(i + 1) <= MAX_FILES * EntryUnits
    BY <1>1, AtFacts
  <1>3. End(At(i + 1))
    BY DEF End
  <1>4. ASSUME NEW k \in 1..NameUnits, NEW j \in 1..MAX_FILES, At(i) + k = At(j + 1)
        PROVE  FALSE
    <2>1. j \in Nat \ {0} /\ j + 1 \in Nat \ {0}
      BY <1>1
    <2>2. At(j) \in Nat /\ At(j + 1) = At(j) + EntryUnits
          /\ \A h \in Nat \ {0} : j < h => At(j + 1) <= At(h)
      BY <2>1, AtFacts
    <2>3. CASE j < i
      BY <1>1, <1>2, <1>4, <2>2, <2>3
    <2>4. CASE j = i
      BY <1>1, <1>2, <1>4, <2>4
    <2>5. CASE j > i
      <3>1. At(i + 1) <= At(j)
        BY <1>2, <2>1, <2>5
      <3> QED
        BY <1>1, <1>2, <1>4, <2>2, <3>1
    <2> QED
      BY <1>1, <2>1, <2>3, <2>4, <2>5
  <1>5. MAX_FILES * EntryUnits \in Nat
    BY Numbers
  <1> QED
    BY <1>1, <1>2, <1>3, <1>4, <1>5 DEF End, InTable

(* The parts of the disk. *)
LEMMA LbaFacts ==
    /\ 0..TableSectors \subseteq Lba /\ Lba \subseteq Nat
    /\ \A off \in 0..MAX_FILES * MaxSize, k \in 1..MaxSize :
          off + k <= MAX_FILES * MaxSize =>
              /\ DATA_START_SECTOR + off + k - 1 \in Lba
              /\ DATA_START_SECTOR + off + k - 1 > TableSectors
PROOF
  <1> DEFINE N == MAX_FILES * MaxSize
  <1>1. N \in Nat /\ N >= 1
    <2>1. MAX_FILES \in Nat \ {0} /\ MaxSize \in Nat \ {0}
      BY Numbers
    <2> QED
      BY <2>1
  <1>2. /\ DATA_START_SECTOR \in Nat /\ TableSectors \in Nat /\ DATA_START_SECTOR > TableSectors
        /\ MaxSize \in Nat
    BY Numbers
  <1> HIDE DEF N
  <1> QED
    BY <1>1, <1>2 DEF Lba, N

LEMMA SectorFacts ==
    ASSUME NEW l \in Lba
    PROVE  /\ SectorAt(l) \subseteq AllSectors /\ Blank \in SectorAt(l)
           /\ l > TableSectors => SectorAt(l) = Marks
PROOF
  <1>1. Blank \in Marks /\ l \in Nat /\ TableSectors \in Nat
    BY MarkFacts, LbaFacts, Numbers
  <1>2. TableSectorAt(l) \subseteq [1..SectorUnits -> UnitSet]
    BY DEF TableSectorAt
  <1> QED
    BY <1>1, <1>2 DEF SectorAt, AllSectors
-----------------------------------------------------------------------------
(* What a boot reads.                                                      *)

LEMMA TypeParts ==
    ASSUME TypeInv
    PROVE  /\ DOMAIN disk = Lba /\ \A l \in Lba : disk[l] \in SectorAt(l)
           /\ files \in Seq(Files) /\ saved \in Seq(Files) /\ written \in SUBSET Named
           /\ loc \in Locs /\ loc.node \in 1..MAX_FILES + 1
           /\ loc.sector_offset \in 0..MAX_FILES * MaxSize /\ loc.sectors \in 0..MaxSize
           /\ loc.queue \in Seq(Writes)
PROOF
  BY DEF TypeInv, Locs

LEMMA TableFacts ==
    ASSUME TypeInv, NEW u \in 1..TableUnits
    PROVE  /\ TableOnDisk[u] = IF disk[SectorOf(u)] = Blank THEN Blank
                               ELSE disk[SectorOf(u)][PlaceIn(u)]
           /\ TableOnDisk[u] \in UnitAt(u)
PROOF
  <1>1. u \in Nat \ {0} /\ u <= TableUnits
    BY Numbers
  <1>2. /\ SectorOf(u) \in 1..TableSectors /\ PlaceIn(u) \in 1..SectorUnits
        /\ (SectorOf(u) - 1) * SectorUnits + PlaceIn(u) = u
    BY <1>1, UnitPlace
  <1>3. TableOnDisk[u] = IF disk[SectorOf(u)] = Blank THEN Blank
                         ELSE disk[SectorOf(u)][PlaceIn(u)]
    BY DEF TableOnDisk, SectorOf, PlaceIn
  <1> DEFINE s == SectorOf(u)
             k == PlaceIn(u)
  <1> HIDE DEF s, k
  <1>4. s \in Lba /\ s # 0 /\ s <= TableSectors
    BY <1>2, LbaFacts, Numbers DEF s
  <1>5. disk[s] = Blank \/ disk[s] \in TableSectorAt(s)
    BY <1>4, TypeParts DEF SectorAt
  <1>6. disk[s] \in TableSectorAt(s) => disk[s][k] \in UnitAt((s - 1) * SectorUnits + k)
    BY <1>2 DEF TableSectorAt, k
  <1>7. Blank \in UnitAt(u)
    BY DEF UnitAt
  <1> QED
    BY <1>2, <1>3, <1>5, <1>6, <1>7 DEF s, k

LEMMA HeaderFacts ==
    ASSUME TypeInv
    PROVE  /\ Count \in 0..MAX_FILES
           /\ Header # Blank => Header[1] \in 0..MAX_FILES /\ Count = Header[1] /\ Header = <<Header[1]>>
PROOF
  <1>1. 0 \in Lba /\ MAX_FILES \in Nat
    BY LbaFacts, Numbers
  <1>2. Header = Blank \/ Header \in Headers
    BY <1>1, TypeParts DEF Header, SectorAt
  <1>3. Header \in Headers => Header[1] \in 0..MAX_FILES /\ Header = <<Header[1]>>
    BY DEF Headers
  <1> QED
    BY <1>1, <1>2, <1>3 DEF Count

LEMMA EntryFacts ==
    ASSUME TypeInv, ~Overrun, NEW i \in Entries
    PROVE  /\ i \in 1..MAX_FILES /\ Header # Blank /\ i <= Header[1]
           /\ At(i + 1) <= TableUnits /\ TableOnDisk[At(i) + 1] # Blank
           /\ \A k \in 1..EntryUnits : At(i) + k \in 1..TableUnits
PROOF
  <1>1. i \in 1..Count /\ TableOnDisk[At(i) + 1] # Blank
    BY DEF Entries
  <1>2. Header # Blank /\ Count = Header[1] /\ Count \in 0..MAX_FILES
    BY <1>1, HeaderFacts DEF Count
  <1>3. i \in 1..MAX_FILES /\ i \in Nat \ {0} /\ i \in 1..Header[1]
    BY <1>1, <1>2, Numbers
  <1>4. At(i) \in Nat /\ At(i + 1) = At(i) + EntryUnits
    BY <1>3, AtFacts
  <1>5. ~(At(i + 1) > TableUnits)
    BY <1>1, <1>2, <1>3 DEF Overrun
  <1>6. At(i + 1) <= TableUnits
    BY <1>4, <1>5, Numbers
  <1>7. \A k \in 1..EntryUnits : At(i) + k \in 1..TableUnits
    BY <1>4, <1>6, Numbers
  <1> QED
    BY <1>1, <1>2, <1>3, <1>6, <1>7

(* Where a name ends. *)
LEMMA NameEnd ==
    ASSUME NEW i
    PROVE  \E m \in 1..NameUnits + 1 :
              /\ NameAt(i) = [k \in 1..m - 1 |-> TableOnDisk[At(i) + k][1]]
              /\ \A k \in 1..m - 1 : TableOnDisk[At(i) + k] # Blank
              /\ m <= NameUnits => TableOnDisk[At(i) + m] = Blank
PROOF
  <1> DEFINE T == TableOnDisk
             end == {k \in 1..NameUnits : T[At(i) + k] = Blank} \cup {NameUnits + 1}
             m == CHOOSE k \in end : \A l \in end : k <= l
  <1>1. NameUnits \in Nat
    BY Numbers
  <1> HIDE DEF T
  <1>2. end \in SUBSET Nat /\ end # {} /\ end \subseteq 1..NameUnits + 1
    BY <1>1
  <1>3. m \in end /\ \A l \in end : m <= l
    <2> HIDE DEF end
    <2>1. \E k \in end : \A l \in end : k <= l
      BY <1>2, Smallest
    <2> QED
      BY <2>1
  <1>4. NameAt(i) = [k \in 1..m - 1 |-> T[At(i) + k][1]]
    BY DEF NameAt, T
  <1> HIDE DEF m
  <1>5. m \in 1..NameUnits + 1
    BY <1>2, <1>3
  <1>6. ASSUME NEW k \in 1..m - 1 PROVE T[At(i) + k] # Blank
    <2>1. k \in 1..NameUnits /\ ~(m <= k)
      BY <1>1, <1>5
    <2> QED
      BY <1>3, <2>1
  <1>7. m <= NameUnits => T[At(i) + m] = Blank
    BY <1>1, <1>3, <1>5
  <1> QED
    BY <1>4, <1>5, <1>6, <1>7 DEF T

LEMMA SizeFacts ==
    ASSUME TypeInv, ~Overrun, NEW i \in Entries
    PROVE  /\ SizeAt(i)[1] \in 0..MaxSize /\ SizeAt(i)[2] \in 0..MAX_FILES * MaxSize
           /\ SizeAt(i)[2] + SizeAt(i)[1] <= MAX_FILES * MaxSize
PROOF
  <1>1. i \in 1..MAX_FILES /\ At(i + 1) \in 1..TableUnits
    <2>1. EntryUnits \in 1..EntryUnits /\ i \in 1..MAX_FILES
      BY EntryFacts, Numbers
    <2> QED
      BY <2>1, EntryFacts, EndFacts
  <1>2. TableOnDisk[At(i + 1)] \in {Blank} \cup Pairs
    BY <1>1, TableFacts, EndFacts DEF UnitAt
  <1>3. SizeAt(i) \in Pairs \/ SizeAt(i) = <<0, 0>>
    BY <1>2 DEF SizeAt
  <1>4. MaxSize \in Nat /\ MAX_FILES * MaxSize \in Nat
    BY Numbers
  <1> DEFINE N == MAX_FILES * MaxSize
  <1>5. SizeAt(i) \in Pairs => SizeAt(i)[1] \in 0..MaxSize /\ SizeAt(i)[2] \in 0..N
                               /\ SizeAt(i)[2] + SizeAt(i)[1] <= N
    BY DEF Pairs
  <1> HIDE DEF N
  <1>6. SizeAt(i) = <<0, 0>> => SizeAt(i)[1] = 0 /\ SizeAt(i)[2] = 0
    OBVIOUS
  <1>7. N \in Nat
    BY <1>4 DEF N
  <1> QED
    BY <1>3, <1>4, <1>5, <1>6, <1>7 DEF N

LEMMA NameFacts ==
    ASSUME TypeInv, ~Overrun, NEW i \in Entries
    PROVE  NameAt(i) \in Named
PROOF
  <1>1. /\ i \in 1..MAX_FILES /\ TableOnDisk[At(i) + 1] # Blank
        /\ \A k \in 1..EntryUnits : At(i) + k \in 1..TableUnits
    BY EntryFacts
  <1>2. PICK m \in 1..NameUnits + 1 :
              /\ NameAt(i) = [k \in 1..m - 1 |-> TableOnDisk[At(i) + k][1]]
              /\ \A k \in 1..m - 1 : TableOnDisk[At(i) + k] # Blank
              /\ m <= NameUnits => TableOnDisk[At(i) + m] = Blank
    BY NameEnd
  <1>3. NameUnits \in Nat \ {0} /\ EntryUnits = NameUnits + 1
    BY Numbers
  <1>4. m # 1
    BY <1>1, <1>2, <1>3
  <1>5. m - 1 \in 1..NameUnits
    BY <1>2, <1>3, <1>4
  <1>6. ASSUME NEW k \in 1..m - 1 PROVE TableOnDisk[At(i) + k][1] \in Units
    <2>1. k \in 1..NameUnits /\ k \in 1..EntryUnits
      BY <1>3, <1>5
    <2>2. TableOnDisk[At(i) + k] \in UnitAt(At(i) + k) /\ ~End(At(i) + k)
      BY <1>1, <2>1, TableFacts, EndFacts
    <2>3. TableOnDisk[At(i) + k] \in Letters
      BY <1>2, <2>2 DEF UnitAt
    <2> QED
      BY <2>3 DEF Letters
  <1>7. NameAt(i) \in [1..m - 1 -> Units]
    BY <1>2, <1>6
  <1> QED
    BY <1>5, <1>7, NamedFacts

LEMMA ReadFacts ==
    ASSUME TypeInv, NEW size \in 0..MaxSize, NEW off \in 0..MAX_FILES * MaxSize,
           off + size <= MAX_FILES * MaxSize
    PROVE  /\ ata_read_sectors(DATA_START_SECTOR + off, size) \in Seq(Marks)
           /\ Len(ata_read_sectors(DATA_START_SECTOR + off, size)) = size
           /\ size < CountRange =>
                \A k \in 1..size : ata_read_sectors(DATA_START_SECTOR + off, size)[k]
                                       = disk[DATA_START_SECTOR + off + k - 1]
PROOF
  <1> DEFINE r == ata_read_sectors(DATA_START_SECTOR + off, size)
             N == MAX_FILES * MaxSize
             c == size % CountRange
  <1>1. N \in Nat /\ MaxSize \in Nat /\ CountRange \in Nat \ {0} /\ DATA_START_SECTOR \in Nat
    BY Numbers
  <1>2. c \in Nat /\ (size < CountRange => c = size)
    BY <1>1
  <1>3. r = [j \in 1..size |-> IF j <= c THEN disk[(DATA_START_SECTOR + off) + j - 1]
                               ELSE <<<<"stale">>>>]
    BY DEF ata_read_sectors
  <1>4. ASSUME NEW j \in 1..size
        PROVE  disk[DATA_START_SECTOR + off + j - 1] \in Marks
    <2>1. j \in 1..MaxSize /\ off + j <= N
      BY <1>1 DEF N
    <2>2. /\ DATA_START_SECTOR + off + j - 1 \in Lba
          /\ DATA_START_SECTOR + off + j - 1 > TableSectors
      BY <2>1, LbaFacts DEF N
    <2> QED
      BY <2>2, TypeParts, SectorFacts
  <1>5. \A j \in 1..size : (DATA_START_SECTOR + off) + j - 1 = DATA_START_SECTOR + off + j - 1
    BY <1>1
  <1> HIDE DEF c, N
  <1>6. r \in [1..size -> Marks]
    BY <1>3, <1>4, <1>5, MarkFacts
  <1>7. size < CountRange => \A k \in 1..size : r[k] = disk[DATA_START_SECTOR + off + k - 1]
    BY <1>1, <1>2, <1>3, <1>5
  <1> HIDE DEF r
  <1>8. r \in Seq(Marks) /\ Len(r) = size
    BY <1>1, <1>6
  <1> QED
    BY <1>7, <1>8 DEF r

LEMMA LoadedFacts ==
    ASSUME TypeInv, ~Overrun, NEW i \in Entries
    PROVE  /\ Loaded(i) \in Files /\ Loaded(i).name = NameAt(i)
           /\ Loaded(i).data = ata_read_sectors(DATA_START_SECTOR + SizeAt(i)[2], SizeAt(i)[1])
PROOF
  <1> DEFINE d == ata_read_sectors(DATA_START_SECTOR + SizeAt(i)[2], SizeAt(i)[1])
  <1>1. d \in Seq(Marks) /\ Len(d) = SizeAt(i)[1] /\ SizeAt(i)[1] \in 0..MaxSize
    BY SizeFacts, ReadFacts
  <1>2. Len(d) <= MaxSize
    BY <1>1, Numbers
  <1>3. Loaded(i) = [name |-> NameAt(i), data |-> d, buffer |-> TRUE]
    BY DEF Loaded
  <1> HIDE DEF d
  <1>4. NameAt(i) \in Named
    BY NameFacts
  <1>5. [name |-> NameAt(i), data |-> d, buffer |-> TRUE] \in Files
    BY <1>1, <1>2, <1>4, MadeFile
  <1> QED
    BY <1>3, <1>5 DEF d

(* The loop of fs_load_from_disk. *)
Prepended(x, s) == <<x>> \o s
LEMMA PrependFacts ==
    ASSUME NEW S, NEW x \in S, NEW s \in Seq(S)
    PROVE  /\ Prepended(x, s) \in Seq(S) /\ Len(Prepended(x, s)) = Len(s) + 1
           /\ Prepended(x, s)[1] = x
           /\ \A k \in 1..Len(s) : Prepended(x, s)[k + 1] = s[k]
PROOF
  <1>1. <<x>> \in Seq(S) /\ Len(<<x>>) = 1
    OBVIOUS
  <1>2. Prepended(x, s) \in Seq(S) /\ Len(Prepended(x, s)) = 1 + Len(s) /\ Len(s) \in Nat
    BY <1>1 DEF Prepended
  <1> QED
    BY <1>1, <1>2 DEF Prepended

LoadStep(g, k) ==
    g[k] = IF k \in Entries THEN Prepended(Loaded(k), g[k - 1]) ELSE g[k - 1]

LEMMA LoadFacts ==
    ASSUME TypeInv, ~Overrun, NEW list \in Seq(Files)
    PROVE  \E g \in [0..Count -> Seq(Files)] :
              /\ g[0] = list /\ \A k \in 1..Count : LoadStep(g, k)
              /\ fs_load_from_disk(list) = g[Count]
PROOF
  <1> DEFINE N == Count
             T == Seq(Files)
             Next1(k, s) == IF k \in Entries THEN <<Loaded(k)>> \o s ELSE s
             after == CHOOSE g : g = [i \in 0..N |->
                         IF i = 0 THEN list ELSE IF i \in Entries THEN <<Loaded(i)>> \o g[i - 1]
                                                 ELSE g[i - 1]]
  <1>1. fs_load_from_disk(list) = after[N]
    BY DEF fs_load_from_disk
  <1>2. N \in Nat /\ N \in 0..N
    BY HeaderFacts, Numbers
  <1>3. ASSUME NEW k \in 1..N, NEW s \in T PROVE Next1(k, s) \in T
    BY LoadedFacts, PrependFacts DEF Prepended
  <1> HIDE DEF N, T
  <1> DEFINE step == [k \in 1..N |-> [s \in T |-> Next1(k, s)]]
  <1>4. step \in [1..N -> [T -> T]] /\ list \in T
    BY <1>3 DEF T
  <1>5. \A k \in 1..N : \A s \in T : step[k][s] = Next1(k, s)
    OBVIOUS
  <1> HIDE DEF step
  <1>6. PICK f \in [0..N -> T] : Recursion(f, N, list, step)
    BY <1>2, <1>4, RecursionUpTo, Zenon
  <1>7. ASSUME NEW k \in 1..N PROVE f[k] = Next1(k, f[k - 1]) /\ f[k - 1] \in T
    <2>1. k - 1 \in 0..N
      BY <1>2
    <2>2. f[k - 1] \in T
      BY <1>6, <2>1
    <2>3. f[k] = step[k][f[k - 1]]
      BY <1>6, Zenon DEF Recursion
    <2> QED
      BY <1>5, <2>2, <2>3
  <1>8. f = [i \in 0..N |-> IF i = 0 THEN list ELSE IF i \in Entries THEN <<Loaded(i)>> \o f[i - 1]
                                                    ELSE f[i - 1]]
    <2>1. \A k \in 0..N : k # 0 => k \in 1..N
      BY <1>2
    <2> QED
      BY <1>6, <1>7, <2>1 DEF Recursion
  <1>9. after = [i \in 0..N |-> IF i = 0 THEN list
                                ELSE IF i \in Entries THEN <<Loaded(i)>> \o after[i - 1]
                                ELSE after[i - 1]]
    BY <1>8, Zenon
  <1> HIDE DEF after
  <1> DEFINE Same2(g, i) == g[i] = IF i = 0 THEN list
                                   ELSE IF i \in Entries THEN <<Loaded(i)>> \o g[i - 1]
                                   ELSE g[i - 1]
  <1>15. \A i \in 0..N : Same2(f, i)
    BY <1>8, Zenon
  <1>16. \A i \in 0..N : Same2(after, i)
    BY <1>9, Zenon
  <1> DEFINE S == {k \in 0..N : after[k] = f[k]}
  <1>10. 0 \in S
    <2>1. 0 \in 0..N
      BY <1>2
    <2> QED
      BY <2>1, <1>15, <1>16
  <1>11. ASSUME NEW k \in 0..N - 1, k \in S PROVE k + 1 \in S
    <2>1. k + 1 \in 0..N /\ k + 1 # 0 /\ (k + 1) - 1 = k
      BY <1>2
    <2>2. Same2(f, k + 1) /\ Same2(after, k + 1)
      BY <2>1, <1>15, <1>16
    <2>3. after[k] = f[k]
      BY <1>11
    <2>4. after[k + 1] = f[k + 1]
      BY <2>1, <2>2, <2>3
    <2> QED
      BY <2>1, <2>4
  <1>12. 0..N \subseteq S
    <2> HIDE DEF S
    <2> QED
      BY <1>2, <1>10, <1>11, UpTo
  <1>13. after[N] = f[N]
    BY <1>2, <1>12
  <1>14. \A k \in 1..N : LoadStep(f, k)
    BY <1>7 DEF LoadStep, Prepended
  <1> QED
    BY <1>1, <1>6, <1>13, <1>14 DEF N, T, Recursion

LEMMA LoadedList ==
    ASSUME TypeInv, ~Overrun, NEW list \in Seq(Files)
    PROVE  /\ fs_load_from_disk(list) \in Seq(Files)
           /\ Header = Blank => fs_load_from_disk(list) = list
PROOF
  <1>1. PICK g \in [0..Count -> Seq(Files)] :
              /\ g[0] = list /\ \A k \in 1..Count : LoadStep(g, k)
              /\ fs_load_from_disk(list) = g[Count]
    BY LoadFacts
  <1>2. Count \in 0..Count /\ (Header = Blank => Count = 0)
    BY HeaderFacts, Numbers DEF Count
  <1> QED
    BY <1>1, <1>2

(* A name that only one entry has is found first where that entry is. *)
FoundFirst(r, f) ==
    \E k \in 1..Len(r) : r[k] = f /\ \A l \in 1..k - 1 : r[l].name # f.name

LEMMA FoundPrepended ==
    ASSUME NEW s \in Seq(Files), NEW x \in Files, NEW f, FoundFirst(s, f), x.name # f.name
    PROVE  FoundFirst(Prepended(x, s), f)
PROOF
  <1> DEFINE r == Prepended(x, s)
  <1>1. /\ r \in Seq(Files) /\ Len(r) = Len(s) + 1 /\ r[1] = x
        /\ \A k \in 1..Len(s) : r[k + 1] = s[k]
    BY PrependFacts
  <1> HIDE DEF r
  <1>2. PICK k \in 1..Len(s) : s[k] = f /\ \A l \in 1..k - 1 : s[l].name # f.name
    BY DEF FoundFirst
  <1>3. k + 1 \in 1..Len(r) /\ r[k + 1] = f
    BY <1>1, <1>2
  <1>4. ASSUME NEW l \in 1..(k + 1) - 1 PROVE r[l].name # f.name
    <2>1. CASE l = 1
      BY <1>1, <2>1
    <2>2. CASE l # 1
      <3>1. l - 1 \in 1..k - 1 /\ l - 1 \in 1..Len(s) /\ (l - 1) + 1 = l
        BY <2>2
      <3> QED
        BY <1>1, <1>2, <3>1
    <2> QED
      BY <2>1, <2>2
  <1>5. FoundFirst(r, f)
    BY <1>3, <1>4 DEF FoundFirst
  <1> QED
    BY <1>5 DEF r

LEMMA LoadedFirst ==
    ASSUME TypeInv, ~Overrun, NEW list \in Seq(Files), NEW i \in Entries,
           \A j \in Entries : Loaded(j).name = Loaded(i).name => j = i
    PROVE  FoundFirst(fs_load_from_disk(list), Loaded(i))
PROOF
  <1> DEFINE N == Count
             f == Loaded(i)
  <1>1. PICK g \in [0..N -> Seq(Files)] :
              /\ g[0] = list /\ \A k \in 1..N : LoadStep(g, k)
              /\ fs_load_from_disk(list) = g[N]
    BY LoadFacts
  <1>2. N \in Nat /\ i \in 1..N
    BY HeaderFacts, Numbers DEF Entries
  <1>3. \A j \in Entries : Loaded(j) \in Files
    BY LoadedFacts
  <1> HIDE DEF N, f
  <1> DEFINE S == {k \in 0..N : k >= i => FoundFirst(g[k], f)}
  <1>4. 0 \in S
    BY <1>2
  <1>5. ASSUME NEW k \in 0..N - 1, k \in S PROVE k + 1 \in S
    <2>1. k + 1 \in 1..N /\ k + 1 \in 0..N /\ (k + 1) - 1 = k /\ k \in 0..N
      BY <1>2
    <2>2. g[k + 1] = IF k + 1 \in Entries THEN Prepended(Loaded(k + 1), g[k]) ELSE g[k]
      BY <1>1, <2>1 DEF LoadStep
    <2>3. g[k] \in Seq(Files)
      BY <1>1, <2>1
    <2>4. CASE k + 1 = i
      <3>1. g[k + 1] = Prepended(f, g[k]) /\ f \in Files
        BY <1>3, <2>2, <2>4 DEF f
      <3>2. /\ Prepended(f, g[k])[1] = f /\ Prepended(f, g[k]) \in Seq(Files)
            /\ 1 \in 1..Len(Prepended(f, g[k]))
        <4> DEFINE s == g[k]
        <4>1. s \in Seq(Files) /\ Len(s) \in Nat
          BY <2>3
        <4> HIDE DEF s
        <4>2. /\ Prepended(f, s) \in Seq(Files) /\ Len(Prepended(f, s)) = Len(s) + 1
              /\ Prepended(f, s)[1] = f
          BY <3>1, <4>1, PrependFacts
        <4>3. 1 \in 1..Len(Prepended(f, s))
          BY <4>1, <4>2
        <4> QED
          BY <4>2, <4>3 DEF s
      <3>3. FoundFirst(Prepended(f, g[k]), f)
        BY <3>2 DEF FoundFirst
      <3> QED
        BY <2>1, <3>1, <3>3
    <2>5. CASE k + 1 # i /\ k + 1 >= i
      <3>1. FoundFirst(g[k], f)
        BY <1>2, <1>5, <2>1, <2>5
      <3>2. k + 1 \in Entries => FoundFirst(Prepended(Loaded(k + 1), g[k]), f)
        <4>1. k + 1 \in Entries => Loaded(k + 1).name # f.name
          BY <2>5 DEF f
        <4> QED
          BY <1>3, <2>3, <3>1, <4>1, FoundPrepended
      <3> QED
        BY <2>1, <2>2, <3>1, <3>2
    <2> QED
      BY <2>1, <2>4, <2>5
  <1>6. 0..N \subseteq S
    <2> HIDE DEF S
    <2> QED
      BY <1>2, <1>4, <1>5, UpTo
  <1>7. N \in S
    BY <1>2, <1>6
  <1> QED
    BY <1>1, <1>2, <1>7 DEF f, N
-----------------------------------------------------------------------------
(* What steps keep.                                                        *)

(* The queue and the disk, for one sector. *)
LEMMA WillKept ==
    ASSUME NEW l, NEW X, Will(l, X), disk'[l] = disk[l],
           \/ loc'.queue = loc.queue
           \/ /\ \A j \in 1..Len(loc.queue) : loc.queue[j].lba # l
              /\ \A j \in 1..Len(loc'.queue) : loc'.queue[j].lba # l
    PROVE  Will(l, X)'
PROOF
  <1>1. Will(l, X)' <=>
          /\ \A j \in 1..Len(loc'.queue) : loc'.queue[j].lba = l => loc'.queue[j].sector \in X
          /\ (\A j \in 1..Len(loc'.queue) : loc'.queue[j].lba # l) => disk'[l] \in X
    BY DEF Will
  <1>2. CASE loc'.queue = loc.queue
    BY <1>1, <1>2 DEF Will
  <1>3. CASE /\ \A j \in 1..Len(loc.queue) : loc.queue[j].lba # l
             /\ \A j \in 1..Len(loc'.queue) : loc'.queue[j].lba # l
    BY <1>1, <1>3 DEF Will
  <1> QED
    BY <1>2, <1>3

(* Will for the sectors of a file. *)
WillKeptUnder(limit) ==
    \A l \in Nat : \A X : DATA_START_SECTOR <= l /\ l < DATA_START_SECTOR + limit /\ Will(l, X)
                              => Will(l, X)'

LEMMA HoldsKept ==
    ASSUME NEW f, NEW size \in Nat, NEW off \in Nat, NEW limit \in Nat,
           Holds(f, size, off), off + size <= limit,
           written \subseteq written', WillKeptUnder(limit)
    PROVE  Holds(f, size, off)'
PROOF
  <1>1. \A k \in 1..size : /\ DATA_START_SECTOR + off + k - 1 \in Nat
                           /\ DATA_START_SECTOR <= DATA_START_SECTOR + off + k - 1
                           /\ DATA_START_SECTOR + off + k - 1 < DATA_START_SECTOR + limit
    BY Numbers
  <1>2. \A k \in 1..size : \A X : Will(DATA_START_SECTOR + off + k - 1, X)
                                      => Will(DATA_START_SECTOR + off + k - 1, X)'
    BY <1>1, Zenon DEF WillKeptUnder
  <1>3. f.name \in written => f.name \in written'
    OBVIOUS
  <1>4. Holds(f, size, off)' <=>
          /\ Len(f.data) <= size /\ (f.name \notin written' => size = Len(f.data))
          /\ size < CountRange /\ (f.name \in written' => MaxSize <= CountRange) =>
               \A k \in 1..size :
                   /\ f.name \notin written' => Will(DATA_START_SECTOR + off + k - 1, {f.data[k]})'
                   /\ Own(f) => Will(DATA_START_SECTOR + off + k - 1, Sectors(f.name))'
    BY DEF Holds
  <1>5. /\ Len(f.data) <= size /\ (f.name \notin written => size = Len(f.data))
        /\ size < CountRange /\ (f.name \in written => MaxSize <= CountRange) =>
             \A k \in 1..size :
                 /\ f.name \notin written => Will(DATA_START_SECTOR + off + k - 1, {f.data[k]})
                 /\ Own(f) => Will(DATA_START_SECTOR + off + k - 1, Sectors(f.name))
    BY DEF Holds
  <1> QED
    BY <1>2, <1>3, <1>4, <1>5, Zenon

DoneThen(t, n, limit) ==
    \A i \in 1..n : \E size \in 0..MaxSize, off \in 0..MAX_FILES * MaxSize :
        /\ Entry(t, i, saved[i], size, off) /\ off + size <= limit
        /\ \A f : f = saved[i] => Holds(f, size, off)'
SameEntries(t, t2, n) ==
    \A i \in 1..n : \A k \in 1..EntryUnits : t2[At(i) + k] = t[At(i) + k]

LEMMA DoneKept ==
    ASSUME NEW t, NEW t2, NEW n \in Nat, NEW limit \in Nat, Done(t, n, limit),
           SameEntries(t, t2, n), written \subseteq written', WillKeptUnder(limit)
    PROVE  DoneThen(t2, n, limit)
PROOF
  <1> SUFFICES ASSUME NEW i \in 1..n
               PROVE  \E size \in 0..MaxSize, off \in 0..MAX_FILES * MaxSize :
                        /\ Entry(t2, i, saved[i], size, off) /\ off + size <= limit
                        /\ \A f : f = saved[i] => Holds(f, size, off)'
    BY DEF DoneThen
  <1>1. PICK size \in 0..MaxSize, off \in 0..MAX_FILES * MaxSize :
            Entry(t, i, saved[i], size, off) /\ off + size <= limit /\ Holds(saved[i], size, off)
    BY DEF Done
  <1>2. Entry(t2, i, saved[i], size, off)
    BY <1>1 DEF Entry, SameEntries
  <1>3. ASSUME NEW f, f = saved[i] PROVE Holds(f, size, off)'
    <2>1. Holds(f, size, off)
      BY <1>1, <1>3
    <2>2. size \in Nat /\ off \in Nat
      BY Numbers
    <2> QED
      BY <1>1, <2>1, <2>2, HoldsKept
  <1> QED
    BY <1>1, <1>2, <1>3
-----------------------------------------------------------------------------
(* The steps, one by one: what each does to the files and to the locals.   *)

LEMMA LocFacts ==
    /\ \A x \in Locs : x = [node |-> x.node, table |-> x.table, sector_offset |-> x.sector_offset,
                            sectors |-> x.sectors, queue |-> x.queue]
    /\ \A n \in 1..MAX_FILES + 1, t \in Tabled \cup {Blank}, o \in 0..MAX_FILES * MaxSize,
          s \in 0..MaxSize, q \in Seq(Writes) :
             [node |-> n, table |-> t, sector_offset |-> o, sectors |-> s, queue |-> q] \in Locs
    /\ NoLocals \in Locs /\ NoLocals.queue = <<>> /\ NoLocals.node = 1 /\ NoLocals.sector_offset = 0
PROOF
  <1> DEFINE T == Tabled \cup {Blank}
             N == 1..MAX_FILES + 1
             O == 0..MAX_FILES * MaxSize
             M == 0..MaxSize
             Q == Seq(Writes)
  <1>1. Locs = [node : N, table : T, sector_offset : O, sectors : M, queue : Q]
    BY DEF Locs
  <1>2. 1 \in N /\ Blank \in T /\ 0 \in O /\ 0 \in M /\ <<>> \in Q
    BY Numbers
  <1> HIDE DEF N, O, M, Q, T
  <1>3. \A x \in Locs : x = [node |-> x.node, table |-> x.table, sector_offset |-> x.sector_offset,
                             sectors |-> x.sectors, queue |-> x.queue]
    BY <1>1
  <1>4. \A n \in N, t \in T, o \in O, s \in M, q \in Q :
          [node |-> n, table |-> t, sector_offset |-> o, sectors |-> s, queue |-> q] \in Locs
    BY <1>1
  <1>5. NoLocals \in Locs /\ NoLocals.queue = <<>> /\ NoLocals.node = 1 /\ NoLocals.sector_offset = 0
    BY <1>1, <1>2 DEF NoLocals
  <1> QED
    BY <1>3, <1>4, <1>5 DEF N, O, M, Q, T

(* The area for files has room for one more. *)
LEMMA Room ==
    ASSUME NEW n \in 1..MAX_FILES, NEW o \in Nat, NEW s \in 0..MaxSize, o <= (n - 1) * MaxSize
    PROVE  /\ o + s <= n * MaxSize /\ o + s <= MAX_FILES * MaxSize
           /\ o + s \in 0..MAX_FILES * MaxSize /\ n * MaxSize = ((n + 1) - 1) * MaxSize
PROOF
  <1> DEFINE M == MaxSize
             F == MAX_FILES
  <1>1. M \in Nat /\ F \in Nat /\ n \in Nat
    BY Numbers
  <1> HIDE DEF M, F
  <1>2. (n - 1) * M + M = n * M /\ (n - 1) * M \in Nat /\ n * M \in Nat
    BY <1>1
  <1>3. n * M <= F * M /\ F * M \in Nat
    <2>1. n <= F
      BY DEF F
    <2> QED
      BY <1>1, <2>1
  <1>4. s <= M /\ s \in Nat /\ o <= (n - 1) * M
    BY <1>1 DEF M
  <1>5. o + s <= n * M
    <2> DEFINE x == (n - 1) * M
               y == n * M
    <2>1. x + M = y /\ x \in Nat /\ y \in Nat /\ o <= x /\ s <= M
      BY <1>2, <1>4
    <2> HIDE DEF x, y
    <2>2. o + s <= y
      BY <1>1, <1>4, <2>1
    <2> QED
      BY <2>2 DEF y
  <1>6. (n + 1) - 1 = n
    BY <1>1
  <1> QED
    BY <1>1, <1>2, <1>3, <1>4, <1>5, <1>6 DEF M, F

LEMMA TypeInit ==
    ASSUME Init
    PROVE  TypeInv
PROOF
  <1>1. files \in Seq(Files)
    BY ModuleFacts, ReverseFacts DEF Init
  <1>2. \A l \in Lba : Blank \in SectorAt(l)
    BY SectorFacts
  <1>3. DOMAIN disk = Lba /\ \A l \in Lba : disk[l] \in SectorAt(l)
    BY <1>2 DEF Init
  <1>4. 0 \in 0..MaxCalls /\ 0 \in 0..MaxSaves /\ MaxSize \in Nat
    BY Numbers
  <1>5. loc \in Locs /\ loc.sector_offset = 0 /\ loc.node = 1
    BY LocFacts DEF Init
  <1>6. loc.sector_offset <= (loc.node - 1) * MaxSize
    BY <1>4, <1>5
  <1>7. saved \in Seq(Files) /\ written \in SUBSET Named
    BY DEF Init
  <1>8. loc = NoLocals /\ pc = "up" /\ fault = "none" /\ calls = 0 /\ saves = 0 /\ complete = FALSE
    BY DEF Init
  <1>9. gone \in 0..loc.node - 1
    <2>1. gone = 0
      BY DEF Init
    <2> QED
      BY <1>5, <2>1
  <1> QED
    BY <1>1, <1>3, <1>4, <1>5, <1>6, <1>7, <1>8, <1>9 DEF TypeInv, InSave

LEMMA TypeTouch ==
    ASSUME TypeInv, NEW n \in Created, fs_touch(n)
    PROVE  TypeInv' /\ files' = Prepended([name |-> n, data |-> <<>>, buffer |-> FALSE], files)
PROOF
  <1> DEFINE f == [name |-> n, data |-> <<>>, buffer |-> FALSE]
  <1>1. n \in Named /\ <<>> \in Seq(Marks) /\ Len(<<>>) <= MaxSize
    BY NamedFacts, Numbers DEF Names
  <1>2. f \in Files
    BY <1>1, MadeFile
  <1> HIDE DEF f
  <1>3. files' = Prepended(f, files)
    BY DEF fs_touch, f, Prepended
  <1>4. files' \in Seq(Files)
    BY <1>2, <1>3, TypeParts, PrependFacts
  <1>5. calls' \in 0..MaxCalls /\ UNCHANGED <<disk, pc, loc, gone, fault, saves, complete, saved, written>>
    BY Numbers DEF fs_touch, Call, TypeInv
  <1>6. pc' = "up"
    BY <1>5 DEF fs_touch, Up
  <1> QED
    BY <1>3, <1>4, <1>5, <1>6 DEF TypeInv, InSave, f

(* Nothing in r that is not in s. *)
Left(s, r) == \A k \in 1..Len(r) : \E j \in 1..Len(s) : r[k] = s[j]

LEMMA RemoveFacts ==
    ASSUME NEW S, NEW s \in Seq(S), NEW i \in 1..Len(s)
    PROVE  /\ RemoveAt(s, i) \in Seq(S) /\ Len(RemoveAt(s, i)) = Len(s) - 1
           /\ \A k \in 1..Len(s) - 1 : RemoveAt(s, i)[k] = IF k < i THEN s[k] ELSE s[k + 1]
           /\ Left(s, RemoveAt(s, i))
PROOF
  <1> DEFINE a == SubSeq(s, 1, i - 1)
             b == SubSeq(s, i + 1, Len(s))
  <1>1. RemoveAt(s, i) = a \o b
    BY DEF RemoveAt
  <1>2. a \in Seq(S) /\ Len(a) = i - 1 /\ \A k \in 1..i - 1 : a[k] = s[k]
    OBVIOUS
  <1>3. b \in Seq(S) /\ Len(b) = Len(s) - i /\ \A k \in 1..Len(s) - i : b[k] = s[i + k]
    OBVIOUS
  <1> HIDE DEF a, b
  <1>4. a \o b \in Seq(S) /\ Len(a \o b) = Len(s) - 1
        /\ \A k \in 1..Len(s) - 1 : (a \o b)[k] = IF k <= i - 1 THEN a[k] ELSE b[k - (i - 1)]
    <2>1. Len(s) \in Nat /\ i \in Nat /\ Len(a) + Len(b) = Len(s) - 1
      BY <1>2, <1>3
    <2>4. a \in Seq(S) /\ b \in Seq(S)
      BY <1>2, <1>3
    <2>2. a \o b \in Seq(S) /\ Len(a \o b) = Len(a) + Len(b)
      BY <2>4, ConcatProperties
    <2>3. \A k \in 1..Len(a) + Len(b) : (a \o b)[k] = IF k <= Len(a) THEN a[k] ELSE b[k - Len(a)]
      BY <2>4, ConcatProperties
    <2> QED
      BY <1>2, <2>1, <2>2, <2>3
  <1>5. \A k \in 1..Len(s) - 1 : (a \o b)[k] = IF k <= i - 1 THEN s[k] ELSE s[k + 1]
    BY <1>2, <1>3, <1>4
  <1>6. \A k \in 1..Len(s) - 1 : k \in 1..Len(s) /\ k + 1 \in 1..Len(s)
    OBVIOUS
  <1>7. \A k \in 1..Len(s) - 1 : k <= i - 1 <=> k < i
    OBVIOUS
  <1>8. \A k \in 1..Len(s) - 1 : (a \o b)[k] = IF k < i THEN s[k] ELSE s[k + 1]
    BY <1>5, <1>7
  <1>9. \A k \in 1..Len(s) - 1 : \E j \in 1..Len(s) : (a \o b)[k] = s[j]
    BY <1>6, <1>8
  <1> QED
    BY <1>1, <1>4, <1>8, <1>9 DEF Left

(* A deletion, by where the walk is. *)
Removed(i) ==
    \/ fault' = "stale" /\ UNCHANGED <<files, saved, gone>>
    \/ /\ fault' = fault /\ files' = RemoveAt(files, i)
       /\ \/ ~InSave /\ UNCHANGED <<saved, gone>>
          \/ InSave /\ i + gone < loc.node /\ saved' = saved /\ gone' = gone + 1
          \/ /\ InSave /\ i + gone >= loc.node
             /\ pc \in {"sectors", "copy"} => i + gone > loc.node
             /\ saved' = RemoveAt(saved, i + gone) /\ gone' = gone

LEMMA RemovedWhen ==
    ASSUME TypeInv, NEW i \in DOMAIN files, fs_delete(i)
    PROVE  /\ Removed(i) /\ i \in 1..Len(files) /\ fault = "none" /\ pc # "off"
           /\ fault' # "none" => pc \in {"entry", "sectors", "copy"}
           /\ calls' \in 0..MaxCalls /\ UNCHANGED <<disk, pc, loc, saves, complete, written>>
PROOF
  <1>1. calls' \in 0..MaxCalls /\ UNCHANGED <<disk, pc, loc, saves, complete, written>>
    BY Numbers DEF fs_delete, Call, TypeInv
  <1>2. /\ fault = "none" /\ pc # "off"
        /\ \/ /\ i + gone \in Held \cup Followed
              /\ fault' = "stale" /\ UNCHANGED <<files, saved, gone>>
           \/ /\ i + gone \notin Held
              /\ files' = RemoveAt(files, i) /\ UNCHANGED fault
              /\ saved' = IF pc = "up" \/ Passed(i + gone) THEN saved ELSE RemoveAt(saved, i + gone)
              /\ gone' = IF Passed(i + gone) THEN gone + 1 ELSE gone
    BY DEF fs_delete
  <1>3. i \in 1..Len(files) /\ loc.node \in Nat /\ gone \in 0..loc.node - 1
    BY TypeParts, Numbers DEF TypeInv
  <1>4. i \in Nat \ {0} /\ gone \in Nat
    BY <1>3, TypeParts
  <1>5. pc \in {"up", "entry", "sectors", "copy", "tables"}
    BY <1>2 DEF TypeInv
  <1>6. pc = "up" => loc.node = 1 /\ gone = 0
    <2>1. pc = "up" => loc = NoLocals
      BY DEF TypeInv, InSave
    <2> QED
      BY <1>3, <2>1, LocFacts
  <1>7. pc = "up" => ~Passed(i + gone)
    BY <1>4, <1>6 DEF Passed
  <1>8. pc \in {"sectors", "copy"} /\ i + gone \notin Held => i + gone # loc.node
    BY DEF Held
  <1>9. Held \cup Followed # {} => pc \in {"entry", "sectors", "copy"}
    BY <1>5 DEF Held, Followed
  <1>10. InSave <=> pc # "up"
    BY <1>5 DEF InSave
  <1>11. Passed(i + gone) <=> i + gone < loc.node
    BY DEF Passed
  <1>12. ~(i + gone < loc.node) => i + gone >= loc.node
    BY <1>3, <1>4
  <1>13. pc \in {"sectors", "copy"} /\ i + gone \notin Held /\ i + gone >= loc.node => i + gone > loc.node
    BY <1>3, <1>4, <1>8
  <1>14. Removed(i)
    BY <1>2, <1>7, <1>10, <1>11, <1>12, <1>13 DEF Removed
  <1>15. fault' # "none" => pc \in {"entry", "sectors", "copy"}
    BY <1>2, <1>9
  <1> QED
    BY <1>1, <1>2, <1>3, <1>14, <1>15

LEMMA TypeDelete ==
    ASSUME TypeInv, WalkInv, NEW i \in DOMAIN files, fs_delete(i)
    PROVE  /\ TypeInv' /\ \A k \in 1..Len(files') : \E j \in 1..Len(files) : files'[k] = files[j]
           /\ \A k \in 1..Len(saved') : \E j \in 1..Len(saved) : saved'[k] = saved[j]
PROOF
  <1>1. /\ Removed(i) /\ i \in 1..Len(files) /\ fault = "none" /\ pc # "off"
        /\ calls' \in 0..MaxCalls /\ UNCHANGED <<disk, pc, loc, saves, complete, written>>
    BY RemovedWhen
  <1>2. /\ files \in Seq(Files) /\ saved \in Seq(Files) /\ Len(files) \in Nat /\ Len(saved) \in Nat
        /\ loc.node \in 1..MAX_FILES + 1 /\ gone \in 0..loc.node - 1 /\ MAX_FILES \in Nat
    BY TypeParts, Numbers DEF TypeInv
  <1>3. InSave => Len(files) + gone = Len(saved)
    BY <1>1 DEF WalkInv, Same
  <1>13. i \in Nat \ {0} /\ gone \in Nat /\ loc.node \in Nat /\ i <= Len(files)
    BY <1>1, <1>2
  <1>14. InSave => i + gone \in 1..Len(saved)
    BY <1>2, <1>3, <1>13
  <1>4. i + gone < loc.node => gone + 1 \in 0..loc.node - 1
    BY <1>13
  <1>5. /\ RemoveAt(files, i) \in Seq(Files) /\ Len(RemoveAt(files, i)) = Len(files) - 1
        /\ Left(files, RemoveAt(files, i))
    BY <1>1, <1>2, RemoveFacts, Zenon
  <1>6. InSave => /\ RemoveAt(saved, i + gone) \in Seq(Files)
                  /\ Left(saved, RemoveAt(saved, i + gone))
    <2> DEFINE m == i + gone
    <2>1. InSave => m \in 1..Len(saved)
      BY <1>14
    <2> HIDE DEF m
    <2>2. InSave => RemoveAt(saved, m) \in Seq(Files) /\ Left(saved, RemoveAt(saved, m))
      BY <1>2, <2>1, RemoveFacts, Zenon
    <2> QED
      BY <2>2 DEF m
  <1>7. \A k \in 1..Len(files') : \E j \in 1..Len(files) : files'[k] = files[j]
    <2>1. files' = files \/ Left(files, files')
      BY <1>1, <1>5, Zenon DEF Removed
    <2> QED
      BY <2>1 DEF Left
  <1>8. \A k \in 1..Len(saved') : \E j \in 1..Len(saved) : saved'[k] = saved[j]
    <2>1. saved' = saved \/ Left(saved, saved')
      BY <1>1, <1>6, Zenon DEF Removed
    <2> QED
      BY <2>1 DEF Left
  <1>9. files' \in Seq(Files) /\ saved' \in Seq(Files) /\ fault' \in {"none", "stale"}
    BY <1>1, <1>2, <1>5, <1>6 DEF Removed
  <1>10. gone' \in 0..loc'.node - 1
    BY <1>1, <1>2, <1>4 DEF Removed
  <1>11. pc \in {"sectors", "copy"} => Visiting'
    <2> SUFFICES ASSUME pc \in {"sectors", "copy"} PROVE Visiting'
      OBVIOUS
    <2>1. InSave /\ loc.node - gone <= Len(files) /\ loc.node <= MAX_FILES
      BY DEF TypeInv, InSave, Visiting
    <2>2. loc.node - gone' <= Len(files')
      <3>1. CASE UNCHANGED <<files, gone>>
        BY <2>1, <3>1
      <3>4. \A n, g, k, j \in Nat : /\ n - g <= k => n - (g + 1) <= k - 1
                                   /\ j + g > n /\ j <= k => n - g <= k - 1
        OBVIOUS
      <3>2. CASE i + gone < loc.node /\ gone' = gone + 1 /\ Len(files') = Len(files) - 1
        <4>1. loc.node - (gone + 1) <= Len(files) - 1
          BY <1>2, <1>13, <2>1, <3>4
        <4> QED
          BY <3>2, <4>1
      <3>3. CASE i + gone > loc.node /\ gone' = gone /\ Len(files') = Len(files) - 1
        <4>1. loc.node - gone <= Len(files) - 1
          BY <1>2, <1>13, <3>3, <3>4
        <4> QED
          BY <3>3, <4>1
      <3> QED
        BY <1>1, <1>5, <2>1, <3>1, <3>2, <3>3 DEF Removed
    <2> QED
      BY <1>1, <2>1, <2>2 DEF Visiting
  <1>12. TypeInv'
    BY <1>1, <1>9, <1>10, <1>11 DEF TypeInv, InSave
  <1> QED
    BY <1>7, <1>8, <1>12

(* A write leaves a file its name, and its sectors to it. *)
Grown(f, g) ==
    /\ g \in Files /\ g.name = f.name /\ Len(f.data) <= Len(g.data)
    /\ Own(f) => Own(g)

LEMMA FileExcept ==
    ASSUME NEW f \in Files, NEW e
    PROVE  /\ [f EXCEPT !.data = e] = [name |-> f.name, data |-> e, buffer |-> f.buffer]
           /\ [f EXCEPT !.buffer = TRUE, !.data = e] = [name |-> f.name, data |-> e, buffer |-> TRUE]
PROOF
  <1> DEFINE n == f.name
             d == f.data
             b == f.buffer
  <1>1. f = [name |-> n, data |-> d, buffer |-> b]
    BY DEF Files
  <1> HIDE DEF n, d, b
  <1>2. \A h, m : h = [name |-> n, data |-> d, buffer |-> m]
                    => [h EXCEPT !.data = e] = [name |-> n, data |-> e, buffer |-> m]
    OBVIOUS
  <1>3. [f EXCEPT !.buffer = TRUE, !.data = e] = [[f EXCEPT !.buffer = TRUE] EXCEPT !.data = e]
    OBVIOUS
  <1>7. \A h, m, c : h = [name |-> n, data |-> d, buffer |-> m]
                       => [h EXCEPT !.buffer = c] = [name |-> n, data |-> d, buffer |-> c]
    OBVIOUS
  <1>4. [f EXCEPT !.buffer = TRUE] = [name |-> n, data |-> d, buffer |-> TRUE]
    BY <1>1, <1>7, Zenon
  <1>5. [f EXCEPT !.data = e] = [name |-> n, data |-> e, buffer |-> b]
    BY <1>1, <1>2
  <1>6. [f EXCEPT !.buffer = TRUE, !.data = e] = [name |-> n, data |-> e, buffer |-> TRUE]
    BY <1>2, <1>3, <1>4
  <1> QED
    BY <1>5, <1>6 DEF n, b

LEMMA GrownFacts ==
    ASSUME NEW f \in Files, NEW x \in Sectors(f.name), NEW b \in BOOLEAN
    PROVE  /\ f.data # <<>> =>
                Grown(f, [name |-> f.name, data |-> [f.data EXCEPT ![1] = x], buffer |-> f.buffer])
           /\ Len(f.data) < MaxSize =>
                Grown(f, [name |-> f.name, data |-> Append(f.data, x), buffer |-> TRUE])
PROOF
  <1> DEFINE d == f.data
             n == f.name
             R == Sectors(n)
             over == [d EXCEPT ![1] = x]
             more == Append(d, x)
  <1>1. /\ n \in Named /\ d \in Seq(Marks) /\ Len(d) \in 0..MaxSize /\ f.buffer \in BOOLEAN
        /\ ~f.buffer => d = <<>>
    BY FileFacts
  <1>2. x \in Marks /\ x \in R /\ MaxSize \in Nat
    BY <1>1, MarkFacts, Numbers
  <1>3. \A g : Own(g) <=> \A k \in DOMAIN g.data : g.data[k] \in Sectors(g.name)
    BY DEF Own
  <1>4. Own(f) <=> \A k \in 1..Len(d) : d[k] \in R
    BY <1>1, <1>3
  <1> HIDE DEF d, n, R
  <1>5. ASSUME d # <<>>
        PROVE  Grown(f, [name |-> n, data |-> over, buffer |-> f.buffer])
    <2>1. over \in Seq(Marks) /\ Len(over) = Len(d)
      <3>1. d \in [1..Len(d) -> Marks] /\ Len(d) \in Nat
        BY <1>1
      <3>2. over \in [1..Len(d) -> Marks]
        BY <1>2, <3>1
      <3> HIDE DEF over
      <3> QED
        BY <3>1, <3>2
    <2>2. \A k \in 1..Len(d) : over[k] = IF k = 1 THEN x ELSE d[k]
      BY <1>1
    <2> DEFINE g == [name |-> n, data |-> over, buffer |-> f.buffer]
    <2> HIDE DEF over
    <2>3. over # <<>>
      BY <1>1, <1>5, <2>1
    <2>4. g \in Files
      BY <1>1, <1>5, <2>1, MadeFile
    <2>5. g.name = n /\ g.data = over
      OBVIOUS
    <2> HIDE DEF g
    <2>6. Own(g) <=> \A k \in DOMAIN over : over[k] \in R
      BY <1>3, <2>5 DEF R
    <2>7. Own(f) => Own(g)
      BY <1>1, <1>2, <1>4, <2>1, <2>2, <2>6
    <2>8. Grown(f, g)
      BY <1>1, <2>1, <2>4, <2>5, <2>7 DEF Grown, d, n
    <2> QED
      BY <2>8 DEF g
  <1>6. ASSUME Len(d) < MaxSize
        PROVE  Grown(f, [name |-> n, data |-> more, buffer |-> TRUE])
    <2>1. more \in Seq(Marks) /\ Len(more) = Len(d) + 1 /\ Len(d) \in Nat
      BY <1>1, <1>2
    <2>2. \A k \in 1..Len(d) + 1 : more[k] = IF k = Len(d) + 1 THEN x ELSE d[k]
      BY <1>1, <1>2
    <2> DEFINE g == [name |-> n, data |-> more, buffer |-> TRUE]
    <2> HIDE DEF more
    <2>3. Len(more) <= MaxSize
      BY <1>2, <1>6, <2>1
    <2>4. g \in Files
      BY <1>1, <2>1, <2>3, MadeFile
    <2>5. g.name = n /\ g.data = more
      OBVIOUS
    <2> HIDE DEF g
    <2>6. Own(g) <=> \A k \in DOMAIN more : more[k] \in R
      BY <1>3, <2>5 DEF R
    <2>7. Own(f) => Own(g)
      BY <1>1, <1>2, <1>4, <2>1, <2>2, <2>6
    <2>8. Grown(f, g)
      BY <1>1, <2>1, <2>4, <2>5, <2>7 DEF Grown, d, n
    <2> QED
      BY <2>8 DEF g
  <1> QED
    BY <1>5, <1>6 DEF d, n

LEMMA WriteFacts ==
    ASSUME TypeInv, NEW i \in DOMAIN files, SYS_WRITE(i)
    PROVE  /\ files' \in Seq(Files) /\ Len(files') = Len(files) /\ i \in 1..Len(files)
           /\ Grown(files[i], files'[i])
           /\ \A j \in 1..Len(files) : j # i => files'[j] = files[j]
           /\ files[i].name \in Named
           /\ written' = IF pc = "up" THEN written ELSE written \cup {files[i].name}
PROOF
  <1> DEFINE f == files[i]
             d == f.data
  <1>1. /\ i \in 1..Len(files) /\ files \in Seq(Files) /\ f \in Files
    BY TypeParts
  <1>2. f.name \in Named /\ d \in Seq(Marks)
    BY <1>1, FileFacts
  <1>3. \A g : g \in Files => /\ [files EXCEPT ![i] = g] \in Seq(Files)
                               /\ Len([files EXCEPT ![i] = g]) = Len(files)
                               /\ [files EXCEPT ![i] = g][i] = g
                               /\ \A j \in 1..Len(files) : j # i => [files EXCEPT ![i] = g][j] = files[j]
    BY <1>1
  <1>4. /\ \/ d # <<>> /\ files' = [files EXCEPT ![i].data[1] = <<f.name, "new">>]
           \/ Len(d) < MaxSize /\ files' = [files EXCEPT ![i].buffer = TRUE,
                                                          ![i].data = Append(@, <<f.name, "old">>)]
        /\ written' = IF pc = "up" THEN written ELSE written \cup {f.name}
    BY DEF SYS_WRITE
  <1>5. f = [name |-> f.name, data |-> d, buffer |-> f.buffer]
    BY <1>1 DEF Files
  <1>6. <<f.name, "new">> \in Sectors(f.name) /\ <<f.name, "old">> \in Sectors(f.name)
    BY DEF Sectors
  <1>7. \E g : Grown(f, g) /\ files' = [files EXCEPT ![i] = g]
    <2>1. CASE d # <<>> /\ files' = [files EXCEPT ![i].data[1] = <<f.name, "new">>]
      <3> DEFINE g == [name |-> f.name, data |-> [d EXCEPT ![1] = <<f.name, "new">>], buffer |-> f.buffer]
      <3>1. files' = [files EXCEPT ![i] = [f EXCEPT !.data = [d EXCEPT ![1] = <<f.name, "new">>]]]
        BY <2>1
      <3>2. [f EXCEPT !.data = [d EXCEPT ![1] = <<f.name, "new">>]] = g
        BY <1>1, FileExcept, Zenon
      <3>3. Grown(f, g)
        BY <1>1, <1>6, <2>1, GrownFacts
      <3> QED
        BY <3>1, <3>2, <3>3
    <2>2. CASE Len(d) < MaxSize /\ files' = [files EXCEPT ![i].buffer = TRUE,
                                                          ![i].data = Append(@, <<f.name, "old">>)]
      <3> DEFINE g == [name |-> f.name, data |-> Append(d, <<f.name, "old">>), buffer |-> TRUE]
      <3>1. files' = [files EXCEPT ![i] = [f EXCEPT !.buffer = TRUE, !.data = Append(d, <<f.name, "old">>)]]
        BY <2>2, <1>1, <1>5
      <3>2. [f EXCEPT !.buffer = TRUE, !.data = Append(d, <<f.name, "old">>)] = g
        BY <1>1, FileExcept, Zenon
      <3>3. Grown(f, g)
        BY <1>1, <1>6, <2>2, GrownFacts
      <3> QED
        BY <3>1, <3>2, <3>3
    <2> QED
      BY <1>4, <2>1, <2>2
  <1>8. PICK g : Grown(f, g) /\ files' = [files EXCEPT ![i] = g]
    BY <1>7
  <1>9. g \in Files
    BY <1>8 DEF Grown
  <1> HIDE DEF d, f
  <1> QED
    BY <1>1, <1>2, <1>3, <1>4, <1>8, <1>9 DEF f

LEMMA TypeWrite ==
    ASSUME TypeInv, NEW i \in DOMAIN files, SYS_WRITE(i)
    PROVE  TypeInv'
PROOF
  <1>1. files' \in Seq(Files) /\ written' \in SUBSET Named /\ Len(files') = Len(files)
    BY WriteFacts, TypeParts
  <1>2. calls' \in 0..MaxCalls /\ UNCHANGED <<disk, pc, loc, gone, fault, saves, complete, saved>>
    <2>1. calls < MaxCalls /\ calls' = calls + 1 /\ calls \in 0..MaxCalls
      BY DEF SYS_WRITE, Call, TypeInv
    <2>2. calls' \in 0..MaxCalls
      BY <2>1, Numbers
    <2>3. UNCHANGED <<disk, pc, loc, gone, fault, saves, complete, saved>>
      BY Zenon DEF SYS_WRITE
    <2> QED
      BY <2>2, <2>3
  <1> QED
    BY <1>1, <1>2 DEF TypeInv, InSave, Visiting

LEMMA TypeSave ==
    ASSUME TypeInv, fs_save_to_disk
    PROVE  /\ TypeInv' /\ loc'.node = 1 /\ loc'.sector_offset = 0 /\ loc'.queue = <<>>
           /\ \A u \in InTable : loc'.table[u] = Blank
           /\ saved' = files /\ written' = {} /\ pc' = "entry" /\ saves' = saves + 1
           /\ complete' = FALSE /\ gone = 0 /\ gone' = 0 /\ UNCHANGED <<disk, files, fault>>
PROOF
  <1> DEFINE t == [u \in 1..MAX_FILES * EntryUnits |-> Blank]
  <1>1. t \in Tabled
    BY DEF Tabled, InTable, UnitSet, UnitAt
  <1>2. loc' = [NoLocals EXCEPT !.table = t]
    BY DEF fs_save_to_disk
  <1>3. \A u \in InTable : t[u] = Blank
    BY DEF InTable
  <1> HIDE DEF t
  <1>4. loc' = [node |-> 1, table |-> t, sector_offset |-> 0, sectors |-> 0, queue |-> <<>>]
    BY <1>2 DEF NoLocals
  <1>5. /\ 1 \in 1..MAX_FILES + 1 /\ 0 \in 0..MAX_FILES * MaxSize /\ 0 \in 0..MaxSize
        /\ <<>> \in Seq(Writes) /\ t \in Tabled \cup {Blank}
    BY <1>1, Numbers
  <1>6. loc' \in Locs
    BY <1>4, <1>5, LocFacts, Zenon
  <1>7. /\ loc'.node = 1 /\ loc'.sector_offset = 0 /\ loc'.queue = <<>> /\ loc'.table = t
    BY <1>4
  <1>8. loc'.sector_offset <= (loc'.node - 1) * MaxSize
    <2>1. (loc'.node - 1) * MaxSize = 0
      BY <1>7, Numbers
    <2> QED
      BY <1>7, <2>1
  <1>9. saves' \in 0..MaxSaves /\ saves' = saves + 1
    <2>1. saves \in 0..MaxSaves /\ saves < MaxSaves /\ saves' = saves + 1
      BY DEF fs_save_to_disk, TypeInv
    <2> QED
      BY <2>1, Numbers
  <1>10. /\ saved' = files /\ written' = {} /\ pc' = "entry" /\ complete' = FALSE
         /\ UNCHANGED <<disk, files, gone, fault, calls>>
    BY Zenon DEF fs_save_to_disk
  <1>11. gone = 0
    <2>1. loc = NoLocals /\ gone \in 0..loc.node - 1
      BY DEF fs_save_to_disk, Up, TypeInv, InSave
    <2> QED
      BY <2>1, LocFacts
  <1>12. gone' \in 0..loc'.node - 1
    BY <1>7, <1>10, <1>11
  <1> QED
    BY <1>1, <1>3, <1>6, <1>7, <1>8, <1>9, <1>10, <1>11, <1>12 DEF TypeInv, InSave

(* The file the walk is at. *)
LEMMA NodeFacts ==
    ASSUME TypeInv, Visiting
    PROVE  /\ loc.node \in 1..MAX_FILES /\ loc.node - gone \in 1..Len(files) /\ Node \in Files
           /\ \A n \in 0..MaxSize : loc.sector_offset + n \in 0..MAX_FILES * MaxSize
           /\ \A n \in 0..MaxSize : loc.sector_offset + n <= ((loc.node + 1) - 1) * MaxSize
PROOF
  <1>1. /\ loc.node \in 1..MAX_FILES + 1 /\ loc.node <= MAX_FILES /\ loc.node - gone <= Len(files)
        /\ gone \in 0..loc.node - 1
        /\ files \in Seq(Files) /\ loc.sector_offset \in 0..MAX_FILES * MaxSize
        /\ loc.sector_offset <= (loc.node - 1) * MaxSize
    BY TypeParts DEF Visiting, TypeInv
  <1>2. loc.node \in 1..MAX_FILES /\ loc.node - gone \in 1..Len(files) /\ loc.sector_offset \in Nat
    BY <1>1, Numbers
  <1>3. Node \in Files
    BY <1>1, <1>2 DEF Node
  <1>4. \A n \in 0..MaxSize :
           /\ loc.sector_offset + n <= loc.node * MaxSize
           /\ loc.sector_offset + n \in 0..MAX_FILES * MaxSize
           /\ loc.node * MaxSize = ((loc.node + 1) - 1) * MaxSize
    BY <1>1, <1>2, Room
  <1> QED
    BY <1>2, <1>3, <1>4

LEMMA EnteredFacts ==
    ASSUME TypeInv, Visiting, loc.table \in Tabled
    PROVE  /\ Entered(loc.table) \in Tabled
           /\ \A k \in 1..EntryUnits :
                 Entered(loc.table)[At(loc.node) + k] =
                     IF k <= Len(Node.name) THEN <<Node.name[k]>>
                     ELSE IF k = EntryUnits THEN <<Len(Node.data), loc.sector_offset>>
                     ELSE loc.table[At(loc.node) + k]
           /\ \A u \in InTable : u <= At(loc.node) \/ u > At(loc.node + 1)
                                    => Entered(loc.table)[u] = loc.table[u]
PROOF
  <1> DEFINE i == loc.node
             e == Entered(loc.table)
             n == Node.name
             end == <<Len(Node.data), loc.sector_offset>>
  <1>1. /\ i \in 1..MAX_FILES /\ Node \in Files
        /\ \A m \in 0..MaxSize : loc.sector_offset + m \in 0..MAX_FILES * MaxSize
    BY NodeFacts
  <1>2. /\ n \in Seq(Units) /\ Len(n) \in 1..NameUnits /\ Len(Node.data) \in 0..MaxSize
    BY <1>1, FileFacts
  <1>3. /\ End(At(i + 1)) /\ At(i + 1) = At(i) + EntryUnits
        /\ \A k \in 1..NameUnits : ~End(At(i) + k)
        /\ \A k \in 1..EntryUnits : At(i) + k \in InTable
    BY <1>1, EndFacts
  <1>4. /\ At(i) \in Nat /\ NameUnits \in Nat /\ EntryUnits = NameUnits + 1 /\ InTable \subseteq Nat
        /\ MaxSize \in Nat /\ MAX_FILES * MaxSize \in Nat
    <2>1. InTable \subseteq Nat
      BY Numbers DEF InTable
    <2>2. i \in Nat \ {0}
      BY <1>1, Numbers
    <2>3. At(i) \in Nat
      BY <2>2, AtFacts
    <2> QED
      BY <2>1, <2>3, Numbers
  <1>5. loc.table \in [InTable -> UnitSet] /\ \A u \in InTable : loc.table[u] \in UnitAt(u)
    BY DEF Tabled
  <1>6. e = [u \in InTable |-> IF u - At(i) \in 1..Len(n) THEN <<n[u - At(i)]>>
                               ELSE IF u - At(i) = EntryUnits THEN end ELSE loc.table[u]]
    BY <1>5 DEF Entered
  <1>7. end \in Pairs
    <2>1. loc.sector_offset \in 0..MAX_FILES * MaxSize
      BY TypeParts
    <2>2. loc.sector_offset + Len(Node.data) <= MAX_FILES * MaxSize
      BY <1>1, <1>2, <1>4
    <2> QED
      BY <1>2, <2>1, <2>2 DEF Pairs
  <1>8. \A k \in 1..Len(n) : <<n[k]>> \in Letters
    BY <1>2 DEF Letters
  <1> HIDE DEF e, end, n, i
  <1>9. ASSUME NEW u \in InTable PROVE e[u] \in UnitAt(u) /\ e[u] \in UnitSet
    <2>1. CASE u - At(i) \in 1..Len(n)
      <3>1. e[u] = <<n[u - At(i)]>> /\ u - At(i) \in 1..NameUnits /\ At(i) + (u - At(i)) = u
        BY <1>2, <1>4, <1>6, <2>1
      <3>2. ~End(u) /\ e[u] \in Letters
        BY <1>3, <1>8, <2>1, <3>1
      <3> QED
        BY <3>2 DEF UnitAt, UnitSet
    <2>2. CASE u - At(i) \notin 1..Len(n) /\ u - At(i) = EntryUnits
      <3>1. e[u] = end /\ u = At(i + 1)
        BY <1>3, <1>4, <1>6, <2>2
      <3> QED
        BY <1>3, <1>7, <3>1 DEF UnitAt, UnitSet
    <2>3. CASE u - At(i) \notin 1..Len(n) /\ u - At(i) # EntryUnits
      <3>1. e[u] = loc.table[u]
        BY <1>6, <2>3
      <3> QED
        BY <1>5, <3>1
    <2> QED
      BY <2>1, <2>2, <2>3
  <1>10. e \in Tabled
    BY <1>6, <1>9 DEF Tabled
  <1>11. ASSUME NEW k \in 1..EntryUnits
         PROVE  e[At(i) + k] = IF k <= Len(n) THEN <<n[k]>> ELSE IF k = EntryUnits THEN end
                               ELSE loc.table[At(i) + k]
    <2>1. At(i) + k \in InTable /\ (At(i) + k) - At(i) = k /\ k \in Nat
      BY <1>3, <1>4
    <2>2. k \in 1..Len(n) <=> k <= Len(n)
      BY <1>2, <2>1
    <2> QED
      BY <1>6, <2>1, <2>2
  <1>12. ASSUME NEW u \in InTable, u <= At(i) \/ u > At(i + 1) PROVE e[u] = loc.table[u]
    <2>1. ~(u - At(i) \in 1..Len(n)) /\ u - At(i) # EntryUnits
      BY <1>2, <1>3, <1>4, <1>12
    <2> QED
      BY <1>6, <2>1
  <1> QED
    BY <1>10, <1>11, <1>12 DEF e, end, n, i

LocRecord(n, t, o, s, q) ==
    [node |-> n, table |-> t, sector_offset |-> o, sectors |-> s, queue |-> q]

LEMMA LocExcept ==
    ASSUME NEW x \in Locs, NEW v, NEW w
    PROVE  /\ [x EXCEPT !.table = v] = LocRecord(x.node, v, x.sector_offset, x.sectors, x.queue)
           /\ [x EXCEPT !.sectors = v] = LocRecord(x.node, x.table, x.sector_offset, v, x.queue)
           /\ [x EXCEPT !.queue = v] = LocRecord(x.node, x.table, x.sector_offset, x.sectors, v)
           /\ [x EXCEPT !.node = v, !.sector_offset = w]
                  = LocRecord(v, x.table, w, x.sectors, x.queue)
PROOF
  <1> DEFINE n == x.node
             t == x.table
             o == x.sector_offset
             s == x.sectors
             q == x.queue
             y == [x EXCEPT !.node = v]
  <1>1. x = LocRecord(n, t, o, s, q)
    BY LocFacts, Zenon DEF LocRecord
  <1>2. [x EXCEPT !.node = v, !.sector_offset = w] = [y EXCEPT !.sector_offset = w]
    OBVIOUS
  <1> HIDE DEF n, t, o, s, q
  <1>3. y = LocRecord(v, t, o, s, q)
    BY <1>1, SMT DEF LocRecord
  <1> HIDE DEF y
  <1>4. [y EXCEPT !.sector_offset = w] = LocRecord(v, t, w, s, q)
    BY <1>3, SMT DEF LocRecord
  <1>5. [x EXCEPT !.table = v] = LocRecord(n, v, o, s, q)
    BY <1>1, SMT DEF LocRecord
  <1>6. [x EXCEPT !.sectors = v] = LocRecord(n, t, o, v, q)
    BY <1>1, SMT DEF LocRecord
  <1>7. [x EXCEPT !.queue = v] = LocRecord(n, t, o, s, v)
    BY <1>1, SMT DEF LocRecord
  <1> QED
    BY <1>2, <1>4, <1>5, <1>6, <1>7 DEF n, t, o, s, q

IsLoc(x, n, t, o, s, q) ==
    x.node = n /\ x.table = t /\ x.sector_offset = o /\ x.sectors = s /\ x.queue = q

LEMMA LocMade ==
    ASSUME NEW n \in 1..MAX_FILES + 1, NEW t \in Tabled \cup {Blank}, NEW o \in 0..MAX_FILES * MaxSize,
           NEW s \in 0..MaxSize, NEW q \in Seq(Writes)
    PROVE  /\ LocRecord(n, t, o, s, q) \in Locs
           /\ IsLoc(LocRecord(n, t, o, s, q), n, t, o, s, q)
PROOF
  <1>1. LocRecord(n, t, o, s, q) \in Locs
    BY LocFacts, Zenon DEF LocRecord
  <1>2. IsLoc(LocRecord(n, t, o, s, q), n, t, o, s, q)
    BY DEF LocRecord, IsLoc
  <1> QED
    BY <1>1, <1>2

(* Everything but the locals. *)
TypeRest ==
    /\ DOMAIN disk = Lba /\ \A l \in Lba : disk[l] \in SectorAt(l)
    /\ files \in Seq(Files) /\ saved \in Seq(Files) /\ written \in SUBSET Named
    /\ fault \in {"none", "stall", "overflow", "stale"}
    /\ calls \in 0..MaxCalls /\ saves \in 0..MaxSaves /\ complete \in BOOLEAN

LEMMA TypeRestKept ==
    ASSUME TypeInv
    PROVE  /\ TypeRest
           /\ UNCHANGED <<disk, files, saved, written, fault, calls, saves, complete>> => TypeRest'
           /\ UNCHANGED <<disk, files, saved, written, calls, saves, complete>>
                /\ fault' \in {"none", "stall", "overflow", "stale"} => TypeRest'
PROOF
  BY DEF TypeInv, TypeRest

LEMMA TypeEntry ==
    ASSUME TypeInv, flatten_entry
    PROVE  /\ TypeInv' /\ Visiting /\ loc.queue = <<>> /\ pc = "entry" /\ fault = "none"
           /\ pc' = "sectors" /\ loc'.node = loc.node /\ loc'.sector_offset = loc.sector_offset
           /\ loc'.sectors = loc.sectors /\ loc'.queue = loc.queue
           /\ loc.table \in Tabled /\ loc'.table = Entered(loc.table)
           /\ UNCHANGED <<disk, files, gone, fault, calls, saves, complete, saved, written>>
PROOF
  <1>1. /\ Visiting /\ loc.queue = <<>> /\ pc = "entry" /\ fault = "none" /\ pc' = "sectors"
        /\ loc' = [loc EXCEPT !.table = Entered(loc.table)]
        /\ UNCHANGED <<disk, files, gone, fault, calls, saves, complete, saved, written>>
    BY DEF flatten_entry, Up, Goto, ghosts
  <1>2. loc.table \in Tabled /\ ~complete
    BY <1>1 DEF TypeInv, InSave
  <1>3. Entered(loc.table) \in Tabled \cup {Blank}
    BY <1>1, <1>2, EnteredFacts
  <1> DEFINE e == Entered(loc.table)
  <1> HIDE DEF e
  <1>4. loc' = LocRecord(loc.node, e, loc.sector_offset, loc.sectors, loc.queue)
    BY <1>1, TypeParts, LocExcept, Zenon DEF e
  <1>5. /\ loc' \in Locs /\ loc'.node = loc.node /\ loc'.table = e
        /\ loc'.sector_offset = loc.sector_offset /\ loc'.sectors = loc.sectors
        /\ loc'.queue = loc.queue
    <2>1. e \in Tabled \cup {Blank}
      BY <1>3 DEF e
    <2>2. /\ loc.node \in 1..MAX_FILES + 1 /\ loc.sector_offset \in 0..MAX_FILES * MaxSize
          /\ loc.sectors \in 0..MaxSize /\ loc.queue \in Seq(Writes)
      BY TypeParts
    <2>3. /\ LocRecord(loc.node, e, loc.sector_offset, loc.sectors, loc.queue) \in Locs
          /\ IsLoc(LocRecord(loc.node, e, loc.sector_offset, loc.sectors, loc.queue),
                   loc.node, e, loc.sector_offset, loc.sectors, loc.queue)
      BY <2>1, <2>2, LocMade, Zenon
    <2> QED
      BY <1>4, <2>3 DEF IsLoc
  <1>6. Visiting' /\ e \in Tabled
    BY <1>1, <1>2, <1>5, EnteredFacts DEF Visiting, e
  <1>7. TypeRest'
    BY <1>1, TypeRestKept
  <1>8. TypeInv'
    BY <1>1, <1>2, <1>5, <1>6, <1>7 DEF TypeInv, TypeRest, InSave
  <1> QED
    BY <1>1, <1>2, <1>5, <1>8 DEF e

LEMMA TypeSectors ==
    ASSUME TypeInv, flatten_sectors
    PROVE  /\ TypeInv' /\ Visiting /\ pc = "sectors" /\ fault = "none"
           /\ pc' = "copy" /\ loc'.node = loc.node /\ loc'.sector_offset = loc.sector_offset
           /\ loc'.sectors = Len(Node.data) /\ loc'.queue = loc.queue
           /\ loc.table \in Tabled /\ loc'.table = loc.table
           /\ UNCHANGED <<disk, files, gone, fault, calls, saves, complete, saved, written>>
PROOF
  <1>1. /\ pc = "sectors" /\ fault = "none" /\ pc' = "copy"
        /\ loc' = [loc EXCEPT !.sectors = Len(Node.data)]
        /\ UNCHANGED <<disk, files, gone, fault, calls, saves, complete, saved, written>>
    BY DEF flatten_sectors, Up, Goto, ghosts
  <1>2. loc.table \in Tabled /\ ~complete /\ Visiting
    BY <1>1 DEF TypeInv, InSave
  <1> DEFINE s == Len(Node.data)
  <1>3. s \in 0..MaxSize
    BY <1>2, NodeFacts, FileFacts
  <1> HIDE DEF s
  <1>4. loc' = LocRecord(loc.node, loc.table, loc.sector_offset, s, loc.queue)
    BY <1>1, TypeParts, LocExcept, Zenon DEF s
  <1>5. /\ loc' \in Locs /\ loc'.node = loc.node /\ loc'.table = loc.table
        /\ loc'.sector_offset = loc.sector_offset /\ loc'.sectors = s
        /\ loc'.queue = loc.queue
    <2>1. loc.table \in Tabled \cup {Blank}
      BY <1>2
    <2>2. /\ loc.node \in 1..MAX_FILES + 1 /\ loc.sector_offset \in 0..MAX_FILES * MaxSize
          /\ loc.queue \in Seq(Writes)
      BY TypeParts
    <2>3. /\ LocRecord(loc.node, loc.table, loc.sector_offset, s, loc.queue) \in Locs
          /\ IsLoc(LocRecord(loc.node, loc.table, loc.sector_offset, s, loc.queue),
                   loc.node, loc.table, loc.sector_offset, s, loc.queue)
      BY <1>3, <2>1, <2>2, LocMade, Zenon
    <2> QED
      BY <1>4, <2>3 DEF IsLoc
  <1>6. Visiting'
    BY <1>1, <1>2, <1>5 DEF Visiting
  <1>7. TypeRest'
    BY <1>1, TypeRestKept
  <1>8. TypeInv'
    BY <1>1, <1>2, <1>5, <1>6, <1>7 DEF TypeInv, TypeRest, InSave
  <1> QED
    BY <1>1, <1>2, <1>5, <1>8 DEF s

WriteOf(l, x) == [lba |-> l, sector |-> x]

LEMMA WriteMade ==
    ASSUME NEW l \in Lba, NEW x \in SectorAt(l)
    PROVE  WriteOf(l, x) \in Writes /\ WriteOf(l, x).lba = l /\ WriteOf(l, x).sector = x
PROOF
  <1>1. x \in AllSectors
    BY SectorFacts
  <1> QED
    BY <1>1 DEF Writes, WriteOf

LEMMA WriteIs ==
    ASSUME NEW w \in Writes
    PROVE  w.lba \in Lba /\ w.sector \in SectorAt(w.lba)
PROOF
  BY DEF Writes

(* The sectors of a file, as they are sent. *)
LEMMA SentFacts ==
    ASSUME NEW lba \in Nat, NEW d \in Seq(Marks),
           \A k \in 1..Len(d) : lba + k - 1 \in Lba /\ lba + k - 1 > TableSectors
    PROVE  /\ ata_write_sectors(lba, d) \in Seq(Writes)
           /\ Len(ata_write_sectors(lba, d)) = Len(d) % CountRange
           /\ Len(d) % CountRange \in 0..Len(d)
           /\ \A j \in 1..Len(d) % CountRange :
                 /\ ata_write_sectors(lba, d)[j].lba = lba + (j - 1)
                 /\ ata_write_sectors(lba, d)[j].sector = d[j]
PROOF
  <1> DEFINE m == Len(d) % CountRange
             q == ata_write_sectors(lba, d)
  <1>1. Len(d) \in Nat /\ CountRange \in Nat \ {0}
    BY Numbers
  <1>2. m \in 0..CountRange - 1 /\ Len(d) = (Len(d) \div CountRange) * CountRange + m
        /\ Len(d) \div CountRange \in Nat
    BY <1>1, DivMod
  <1>3. m \in 0..Len(d)
    <2> DEFINE x == (Len(d) \div CountRange) * CountRange
    <2>1. x \in Nat
      BY <1>1, <1>2
    <2> HIDE DEF x, m
    <2>2. Len(d) = x + m
      BY <1>2 DEF x
    <2> QED
      BY <1>1, <1>2, <2>1, <2>2
  <1>4. q = [j \in 1..m |-> WriteOf(lba + j - 1, d[j])]
    BY DEF ata_write_sectors, WriteOf
  <1> HIDE DEF m, q
  <1>5. \A j \in 1..m : j \in 1..Len(d)
    BY <1>1, <1>3
  <1>6. ASSUME NEW j \in 1..m
        PROVE  /\ WriteOf(lba + j - 1, d[j]) \in Writes
               /\ WriteOf(lba + j - 1, d[j]).lba = lba + j - 1
               /\ WriteOf(lba + j - 1, d[j]).sector = d[j]
    <2>1. lba + j - 1 \in Lba /\ lba + j - 1 > TableSectors /\ d[j] \in Marks
      BY <1>5
    <2>2. d[j] \in SectorAt(lba + j - 1)
      BY <2>1, SectorFacts
    <2> QED
      BY <2>1, <2>2, WriteMade, Zenon
  <1>7. q \in [1..m -> Writes] /\ m \in Nat
    BY <1>1, <1>3, <1>4, <1>6
  <1>8. q \in Seq(Writes) /\ Len(q) = m
    BY <1>7
  <1>9. \A j \in 1..m : q[j].lba = lba + (j - 1) /\ q[j].sector = d[j]
    <2>1. \A j \in 1..m : q[j] = WriteOf(lba + j - 1, d[j])
      BY <1>4
    <2>2. \A j \in 1..m : lba + j - 1 = lba + (j - 1)
      BY <1>3
    <2> QED
      BY <1>6, <2>1, <2>2
  <1> QED
    BY <1>3, <1>8, <1>9 DEF m, q

(* The header and the table, as they are sent. *)
LEMMA TablesFacts ==
    ASSUME NEW n \in 0..MAX_FILES, NEW t \in Tabled
    PROVE  /\ Tables(n, t) \in Seq(Writes) /\ Len(Tables(n, t)) = TableSectors + 1
           /\ \A j \in 1..TableSectors + 1 :
                 /\ Tables(n, t)[j].lba = j - 1
                 /\ Tables(n, t)[j].sector = IF j = 1 THEN <<n>> ELSE TableSector(j - 1, t)
PROOF
  <1> DEFINE h == WriteOf(0, <<n>>)
             r == [s \in 1..TableSectors |-> WriteOf(s, TableSector(s, t))]
  <1>1. Tables(n, t) = <<h>> \o r
    BY DEF Tables, WriteOf
  <1>2. 0 \in Lba /\ TableSectors \in Nat /\ (\A s \in 1..TableSectors : s \in Lba)
    BY LbaFacts, Numbers
  <1>3. h \in Writes /\ h.lba = 0 /\ h.sector = <<n>>
    <2>1. <<n>> \in SectorAt(0)
      BY DEF SectorAt, Headers
    <2> QED
      BY <1>2, <2>1, WriteMade, Zenon
  <1>4. ASSUME NEW s \in 1..TableSectors
        PROVE  WriteOf(s, TableSector(s, t)) \in Writes /\ WriteOf(s, TableSector(s, t)).lba = s
               /\ WriteOf(s, TableSector(s, t)).sector = TableSector(s, t)
    <2> DEFINE x == TableSector(s, t)
    <2>1. ASSUME NEW k \in 1..SectorUnits
          PROVE  x[k] \in UnitAt((s - 1) * SectorUnits + k) /\ x[k] \in UnitSet
      <3> DEFINE u == (s - 1) * SectorUnits + k
      <3>1. x[k] = IF u \in DOMAIN t THEN t[u] ELSE Blank
        BY DEF TableSector
      <3>2. t \in [InTable -> UnitSet] /\ (\A v \in InTable : t[v] \in UnitAt(v)) /\ DOMAIN t = InTable
        BY DEF Tabled
      <3> HIDE DEF u, x
      <3>3. Blank \in UnitAt(u) /\ Blank \in UnitSet
        BY DEF UnitAt, UnitSet
      <3>4. x[k] \in UnitAt(u) /\ x[k] \in UnitSet
        BY <3>1, <3>2, <3>3
      <3> QED
        BY <3>4 DEF u
    <2>2. x = [k \in 1..SectorUnits |-> x[k]]
      BY DEF TableSector
    <2> HIDE DEF x
    <2>3. x \in [1..SectorUnits -> UnitSet]
      BY <2>1, <2>2
    <2>4. x \in TableSectorAt(s)
      BY <2>1, <2>3 DEF TableSectorAt
    <2>5. s # 0 /\ s <= TableSectors
      BY <1>2
    <2>6. x \in SectorAt(s)
      BY <2>4, <2>5 DEF SectorAt
    <2>7. x = TableSector(s, t)
      BY DEF x
    <2> QED
      BY <1>2, <2>6, <2>7, WriteMade
  <1>5. r \in [1..TableSectors -> Writes]
    BY <1>4
  <1>6. r \in Seq(Writes) /\ Len(r) = TableSectors
    <2> HIDE DEF r
    <2> QED
      BY <1>2, <1>5
  <1>7. \A s \in 1..TableSectors : r[s].lba = s /\ r[s].sector = TableSector(s, t)
    BY <1>4
  <1> DEFINE q == <<h>> \o r
  <1> HIDE DEF h, r
  <1>8. q \in Seq(Writes) /\ Len(q) = TableSectors + 1
        /\ \A j \in 1..TableSectors + 1 : q[j] = IF j = 1 THEN h ELSE r[j - 1]
    <2>1. <<h>> \in Seq(Writes) /\ Len(<<h>>) = 1 /\ <<h>>[1] = h
      BY <1>3
    <2>2. /\ q \in Seq(Writes) /\ Len(q) = 1 + TableSectors
          /\ \A j \in 1..1 + TableSectors : q[j] = IF j <= 1 THEN <<h>>[j] ELSE r[j - 1]
      BY <1>6, <2>1, ConcatProperties
    <2> HIDE DEF q
    <2> QED
      BY <1>2, <2>1, <2>2
  <1> HIDE DEF q
  <1>9. \A j \in 1..TableSectors + 1 :
            q[j].lba = j - 1 /\ q[j].sector = IF j = 1 THEN <<n>> ELSE TableSector(j - 1, t)
    <2> SUFFICES ASSUME NEW j \in 1..TableSectors + 1
                 PROVE  q[j].lba = j - 1
                        /\ q[j].sector = IF j = 1 THEN <<n>> ELSE TableSector(j - 1, t)
      OBVIOUS
    <2>1. CASE j = 1
      BY <1>3, <1>8, <2>1
    <2>2. CASE j # 1
      <3>1. j - 1 \in 1..TableSectors
        BY <1>2, <2>2
      <3> QED
        BY <1>7, <1>8, <2>2, <3>1
    <2> QED
      BY <2>1, <2>2
  <1> QED
    BY <1>1, <1>8, <1>9 DEF q

(* How the copy of a file may end. *)
CopyEnds ==
    \/ fault' # "none"
    \/ /\ fault' = "none" /\ loc'.node = loc.node + 1 /\ loc'.table = loc.table
       /\ loc'.sector_offset = loc.sector_offset + loc.sectors
       /\ \/ ~Node.buffer /\ loc'.queue = loc.queue
          \/ /\ Len(Node.data) = loc.sectors /\ loc.sectors % CountRange # 0
             /\ loc'.queue = ata_write_sectors(DATA_START_SECTOR + loc.sector_offset, Node.data)

LEMMA TypeCopy ==
    ASSUME TypeInv, flatten_copy
    PROVE  /\ TypeInv' /\ CopyEnds /\ Visiting /\ pc = "copy" /\ fault = "none" /\ pc' = "entry"
           /\ UNCHANGED <<disk, files, gone, calls, saves, complete, saved, written>>
PROOF
  <1> DEFINE after == [loc EXCEPT !.node = loc.node + 1, !.sector_offset = loc.sector_offset + loc.sectors]
             sent == ata_write_sectors(DATA_START_SECTOR + loc.sector_offset, Node.data)
             n == loc.node + 1
             o == loc.sector_offset + loc.sectors
  <1>1. /\ pc = "copy" /\ fault = "none" /\ pc' = "entry"
        /\ UNCHANGED <<disk, files, gone, calls, saves, complete, saved, written>>
    BY DEF flatten_copy, Up, Goto, ghosts
  <1>2. loc.table \in Tabled /\ ~complete /\ Visiting /\ loc \in Locs
    BY <1>1 DEF TypeInv, InSave
  <1>3. \/ ~Node.buffer /\ loc' = after /\ fault' = fault
        \/ Node.buffer /\ fault' = "overflow" /\ loc' = loc
        \/ /\ Node.buffer /\ Len(Node.data) = loc.sectors
           /\ fault' = IF loc.sectors % CountRange = 0 THEN "stall" ELSE "none"
           /\ loc' = [after EXCEPT !.queue = sent]
    BY DEF flatten_copy
  <1>4. /\ loc.node \in 1..MAX_FILES /\ Node \in Files /\ loc.sectors \in 0..MaxSize
        /\ n \in 1..MAX_FILES + 1 /\ o \in 0..MAX_FILES * MaxSize /\ o <= (n - 1) * MaxSize
        /\ gone \in 0..n - 1
    <2>1. loc.node \in 1..MAX_FILES /\ Node \in Files /\ loc.sectors \in 0..MaxSize
      BY <1>2, NodeFacts, TypeParts
    <2>2. n \in 1..MAX_FILES + 1
      BY <2>1, Numbers
    <2>3. gone \in 0..loc.node - 1 /\ loc.node \in Nat
      BY <2>1 DEF TypeInv
    <2>4. gone \in 0..n - 1
      BY <2>3
    <2> QED
      BY <1>2, <2>1, <2>2, <2>4, NodeFacts
  <1>5. /\ loc.queue \in Seq(Writes) /\ loc.table \in Tabled \cup {Blank}
    BY <1>2, TypeParts
  <1>6. TypeRest'
    <2>1. fault' \in {"none", "stall", "overflow", "stale"}
      BY <1>1, <1>3
    <2> QED
      BY <1>1, <2>1, TypeRestKept
  <1>7. sent \in Seq(Writes)
    <2>1. /\ Node.data \in Seq(Marks) /\ Len(Node.data) \in 0..MaxSize /\ MaxSize \in Nat
          /\ loc.sector_offset \in 0..MAX_FILES * MaxSize
          /\ DATA_START_SECTOR + loc.sector_offset \in Nat
          /\ MAX_FILES * MaxSize \in Nat
      <3>1. Node.data \in Seq(Marks) /\ Len(Node.data) \in 0..MaxSize
        BY <1>4, FileFacts
      <3>2. loc.sector_offset \in 0..MAX_FILES * MaxSize
        BY TypeParts
      <3> QED
        BY <3>1, <3>2, Numbers
    <2>2. loc.sector_offset + Len(Node.data) <= MAX_FILES * MaxSize
      <3>1. loc.sector_offset + Len(Node.data) \in 0..MAX_FILES * MaxSize
        BY <1>2, <2>1, NodeFacts
      <3> QED
        BY <2>1, <3>1
    <2>3. \A k \in 1..Len(Node.data) :
              /\ k \in 1..MaxSize /\ loc.sector_offset + k <= MAX_FILES * MaxSize
      BY <2>1, <2>2
    <2>4. \A k \in 1..Len(Node.data) : /\ DATA_START_SECTOR + loc.sector_offset + k - 1 \in Lba
                                       /\ DATA_START_SECTOR + loc.sector_offset + k - 1 > TableSectors
      BY <2>1, <2>3, LbaFacts
    <2> QED
      BY <2>1, <2>4, SentFacts
  <1>8. after = LocRecord(n, loc.table, o, loc.sectors, loc.queue)
    BY <1>2, LocExcept, Zenon
  <1> HIDE DEF after, sent, n, o
  <1>9. after \in Locs /\ IsLoc(after, n, loc.table, o, loc.sectors, loc.queue)
    <2>1. /\ LocRecord(n, loc.table, o, loc.sectors, loc.queue) \in Locs
          /\ IsLoc(LocRecord(n, loc.table, o, loc.sectors, loc.queue),
                   n, loc.table, o, loc.sectors, loc.queue)
      BY <1>4, <1>5, LocMade, Zenon
    <2> QED
      BY <1>8, <2>1
  <1>10. /\ [after EXCEPT !.queue = sent] \in Locs
         /\ IsLoc([after EXCEPT !.queue = sent], n, loc.table, o, loc.sectors, sent)
    <2>1. [after EXCEPT !.queue = sent]
              = LocRecord(after.node, after.table, after.sector_offset, after.sectors, sent)
      BY <1>9, LocExcept, Zenon
    <2>2. [after EXCEPT !.queue = sent] = LocRecord(n, loc.table, o, loc.sectors, sent)
      BY <1>9, <2>1 DEF IsLoc
    <2>3. /\ LocRecord(n, loc.table, o, loc.sectors, sent) \in Locs
          /\ IsLoc(LocRecord(n, loc.table, o, loc.sectors, sent), n, loc.table, o, loc.sectors, sent)
      BY <1>4, <1>5, <1>7, LocMade, Zenon
    <2> QED
      BY <2>2, <2>3
  <1>11. CASE ~Node.buffer /\ loc' = after /\ fault' = fault
    <2>1. TypeInv'
      BY <1>1, <1>2, <1>4, <1>6, <1>9, <1>11 DEF TypeInv, TypeRest, InSave, IsLoc
    <2>2. CopyEnds
      BY <1>1, <1>9, <1>11 DEF CopyEnds, IsLoc, n, o
    <2> QED
      BY <1>1, <1>2, <2>1, <2>2
  <1>12. CASE Node.buffer /\ fault' = "overflow" /\ loc' = loc
    <2>1. TypeInv'
      BY <1>1, <1>2, <1>6, <1>12 DEF TypeInv, TypeRest, InSave
    <2>2. CopyEnds
      BY <1>12 DEF CopyEnds
    <2> QED
      BY <1>1, <1>2, <2>1, <2>2
  <1>13. CASE /\ Node.buffer /\ Len(Node.data) = loc.sectors
              /\ fault' = IF loc.sectors % CountRange = 0 THEN "stall" ELSE "none"
              /\ loc' = [after EXCEPT !.queue = sent]
    <2>1. TypeInv'
      BY <1>1, <1>2, <1>4, <1>6, <1>10, <1>13 DEF TypeInv, TypeRest, InSave, IsLoc
    <2>2. CopyEnds
      BY <1>1, <1>10, <1>13 DEF CopyEnds, IsLoc, n, o, sent
    <2> QED
      BY <1>1, <1>2, <2>1, <2>2
  <1> QED
    BY <1>3, <1>11, <1>12, <1>13

LEMMA TypeTables ==
    ASSUME TypeInv, save_tables
    PROVE  /\ TypeInv' /\ ~Visiting /\ loc.queue = <<>> /\ pc = "entry" /\ fault = "none"
           /\ pc' = "tables" /\ loc'.node = loc.node /\ loc'.sector_offset = loc.sector_offset
           /\ loc'.table = loc.table /\ loc.table \in Tabled /\ loc.node - 1 \in 0..MAX_FILES
           /\ loc'.queue = Tables(loc.node - 1, loc.table)
           /\ UNCHANGED <<disk, files, gone, fault, calls, saves, complete, saved, written>>
PROOF
  <1> DEFINE q == Tables(loc.node - 1, loc.table)
  <1>1. /\ ~Visiting /\ loc.queue = <<>> /\ pc = "entry" /\ fault = "none" /\ pc' = "tables"
        /\ loc' = [loc EXCEPT !.queue = q]
        /\ UNCHANGED <<disk, files, gone, fault, calls, saves, complete, saved, written>>
    BY DEF save_tables, Up, Goto, ghosts
  <1>2. loc.table \in Tabled /\ ~complete /\ loc \in Locs
    BY <1>1 DEF TypeInv, InSave
  <1>3. loc.node - 1 \in 0..MAX_FILES
    BY TypeParts, Numbers
  <1>4. q \in Seq(Writes)
    BY <1>2, <1>3, TablesFacts
  <1> HIDE DEF q
  <1>5. loc' = LocRecord(loc.node, loc.table, loc.sector_offset, loc.sectors, q)
    BY <1>1, <1>2, LocExcept, Zenon
  <1>6. loc' \in Locs /\ IsLoc(loc', loc.node, loc.table, loc.sector_offset, loc.sectors, q)
    <2>1. /\ loc.node \in 1..MAX_FILES + 1 /\ loc.sector_offset \in 0..MAX_FILES * MaxSize
          /\ loc.sectors \in 0..MaxSize /\ loc.table \in Tabled \cup {Blank}
      BY <1>2, TypeParts
    <2>2. /\ LocRecord(loc.node, loc.table, loc.sector_offset, loc.sectors, q) \in Locs
          /\ IsLoc(LocRecord(loc.node, loc.table, loc.sector_offset, loc.sectors, q),
                   loc.node, loc.table, loc.sector_offset, loc.sectors, q)
      BY <1>4, <2>1, LocMade, Zenon
    <2> QED
      BY <1>5, <2>2
  <1>7. TypeRest'
    BY <1>1, TypeRestKept
  <1>8. TypeInv'
    BY <1>1, <1>2, <1>6, <1>7 DEF TypeInv, TypeRest, InSave, IsLoc
  <1> QED
    BY <1>1, <1>2, <1>3, <1>6, <1>8 DEF IsLoc, q

LEMMA TypeWriteSector ==
    ASSUME TypeInv, write_sector
    PROVE  /\ TypeInv' /\ InSave /\ fault = "none" /\ Len(loc.queue) \in Nat \ {0}
           /\ loc.queue[1].lba \in Lba
           /\ \A l \in Lba : disk'[l] = IF l = loc.queue[1].lba THEN loc.queue[1].sector ELSE disk[l]
           /\ Len(loc'.queue) = Len(loc.queue) - 1
           /\ \A j \in 1..Len(loc'.queue) : loc'.queue[j] = loc.queue[j + 1]
           /\ loc'.node = loc.node /\ loc'.sector_offset = loc.sector_offset
           /\ loc'.table = loc.table /\ loc'.sectors = loc.sectors
           /\ UNCHANGED <<files, pc, gone, fault, calls, saves, complete, saved, written>>
PROOF
  <1> DEFINE w == Head(loc.queue)
             q == Tail(loc.queue)
  <1>1. /\ fault = "none" /\ loc.queue # <<>>
        /\ disk' = [disk EXCEPT ![w.lba] = w.sector] /\ loc' = [loc EXCEPT !.queue = q]
        /\ UNCHANGED <<files, pc, gone, fault, calls, saves, complete, saved, written>>
    BY DEF write_sector, ghosts
  <1>2. InSave
    <2>1. ~InSave => loc = NoLocals
      BY DEF TypeInv
    <2> QED
      BY <1>1, <2>1, LocFacts
  <1>3. loc.table \in Tabled /\ ~complete /\ loc \in Locs /\ loc.queue \in Seq(Writes)
    BY <1>2, TypeParts DEF TypeInv
  <1>4. /\ Len(loc.queue) \in Nat \ {0} /\ w = loc.queue[1] /\ w \in Writes
        /\ q \in Seq(Writes) /\ Len(q) = Len(loc.queue) - 1
        /\ \A j \in 1..Len(q) : q[j] = loc.queue[j + 1]
    BY <1>1, <1>3
  <1>5. w.lba \in Lba /\ w.sector \in SectorAt(w.lba)
    BY <1>4, WriteIs
  <1> HIDE DEF w, q
  <1>6. loc' = LocRecord(loc.node, loc.table, loc.sector_offset, loc.sectors, q)
    BY <1>1, <1>3, LocExcept, Zenon
  <1>7. loc' \in Locs /\ IsLoc(loc', loc.node, loc.table, loc.sector_offset, loc.sectors, q)
    <2>1. /\ loc.node \in 1..MAX_FILES + 1 /\ loc.sector_offset \in 0..MAX_FILES * MaxSize
          /\ loc.sectors \in 0..MaxSize /\ loc.table \in Tabled \cup {Blank}
      BY <1>3, TypeParts
    <2>2. /\ LocRecord(loc.node, loc.table, loc.sector_offset, loc.sectors, q) \in Locs
          /\ IsLoc(LocRecord(loc.node, loc.table, loc.sector_offset, loc.sectors, q),
                   loc.node, loc.table, loc.sector_offset, loc.sectors, q)
      BY <1>4, <2>1, LocMade, Zenon
    <2> QED
      BY <1>6, <2>2
  <1>8. DOMAIN disk' = Lba /\ \A l \in Lba : disk'[l] = IF l = w.lba THEN w.sector ELSE disk[l]
    <2>1. DOMAIN disk = Lba
      BY TypeParts
    <2> QED
      BY <1>1, <2>1
  <1>9. \A l \in Lba : disk'[l] \in SectorAt(l)
    BY <1>5, <1>8, TypeParts
  <1>10. TypeRest'
    BY <1>1, <1>8, <1>9, TypeRestKept DEF TypeRest
  <1>11. TypeInv'
    <2>1. pc \in {"sectors", "copy"} => Visiting
      BY DEF TypeInv
    <2>2. loc.sector_offset <= (loc.node - 1) * MaxSize
          /\ pc \in {"up", "entry", "sectors", "copy", "tables", "off"}
      BY DEF TypeInv
    <2> QED
      BY <1>1, <1>2, <1>3, <1>7, <1>10, <2>1, <2>2 DEF TypeInv, TypeRest, InSave, IsLoc, Visiting
  <1> QED
    BY <1>1, <1>2, <1>4, <1>5, <1>7, <1>8, <1>11 DEF IsLoc

LEMMA TypeReturns ==
    ASSUME TypeInv, save_returns
    PROVE  /\ TypeInv' /\ pc = "tables" /\ fault = "none" /\ loc.queue = <<>> /\ loc'.queue = <<>>
           /\ pc' = "up" /\ complete' = TRUE
           /\ UNCHANGED <<disk, files, fault, calls, saves, saved, written>>
PROOF
  <1>1. /\ pc = "tables" /\ fault = "none" /\ loc.queue = <<>> /\ loc' = NoLocals
        /\ pc' = "up" /\ complete' = TRUE /\ gone' = 0
        /\ UNCHANGED <<disk, files, fault, calls, saves, saved, written>>
    BY DEF save_returns, Up
  <1>2. loc' \in Locs /\ loc'.queue = <<>> /\ loc'.node = 1 /\ loc'.sector_offset = 0
    BY <1>1, LocFacts
  <1>3. loc'.sector_offset <= (loc'.node - 1) * MaxSize
    <2>1. (loc'.node - 1) * MaxSize = 0
      BY <1>2, Numbers
    <2> QED
      BY <1>2, <2>1
  <1>4. TypeRest'
    BY <1>1, TypeRestKept DEF TypeRest
  <1>5. TypeInv'
    BY <1>1, <1>2, <1>3, <1>4 DEF TypeInv, TypeRest, InSave
  <1> QED
    BY <1>1, <1>2, <1>5

LEMMA TypeStop ==
    ASSUME TypeInv, Stop
    PROVE  /\ TypeInv' /\ fault = "none" /\ pc' = "off" /\ loc'.queue = <<>>
           /\ UNCHANGED <<disk, fault, calls, saves, complete, saved, written>>
PROOF
  <1>1. /\ fault = "none" /\ loc' = NoLocals /\ pc' = "off" /\ files' = <<>> /\ gone' = 0
        /\ UNCHANGED <<disk, fault, calls, saves, complete, saved, written>>
    BY DEF Stop, ghosts
  <1>2. loc' \in Locs /\ loc'.queue = <<>> /\ loc'.node = 1 /\ loc'.sector_offset = 0
    BY <1>1, LocFacts
  <1>3. loc'.sector_offset <= (loc'.node - 1) * MaxSize
    <2>1. (loc'.node - 1) * MaxSize = 0
      BY <1>2, Numbers
    <2> QED
      BY <1>2, <2>1
  <1>4. TypeRest'
    BY <1>1, TypeRestKept DEF TypeRest
  <1>5. TypeInv'
    BY <1>1, <1>2, <1>3, <1>4 DEF TypeInv, TypeRest, InSave
  <1> QED
    BY <1>1, <1>2, <1>5

LEMMA TypeBoot ==
    ASSUME TypeInv, boot
    PROVE  /\ TypeInv' /\ pc = "off" /\ pc' \in {"up", "off"}
           /\ \/ fault' = "stale" /\ files' = files /\ pc' = "off"
              \/ ~Overrun /\ files' = init_fs
           /\ UNCHANGED <<disk, loc, gone, calls, saves, complete, saved, written>>
PROOF
  <1>1. /\ pc = "off" /\ fault = "none"
        /\ \/ fault' = "stale" /\ UNCHANGED <<files, pc, loc, gone>>
           \/ ~Overrun /\ files' = init_fs /\ pc' = "up" /\ UNCHANGED <<loc, gone, fault>>
        /\ UNCHANGED <<disk, calls, saves, complete, saved, written>>
    BY DEF boot, Up, memory, ghosts
  <1>2. ~Overrun => init_fs \in Seq(Files)
    <2>1. Reverse(Modules) \in Seq(Files)
      BY ModuleFacts, ReverseFacts
    <2> QED
      BY <2>1, LoadedList DEF init_fs
  <1>3. TypeRest'
    BY <1>1, <1>2, TypeRestKept DEF TypeRest
  <1>4. loc' = loc /\ pc' \in {"up", "off"} /\ loc \in Locs /\ loc = NoLocals
        /\ loc.sector_offset <= (loc.node - 1) * MaxSize /\ gone' \in 0..loc.node - 1
    BY <1>1 DEF TypeInv, InSave
  <1>5. TypeInv'
    BY <1>3, <1>4 DEF TypeInv, TypeRest, InSave
  <1> QED
    BY <1>1, <1>4, <1>5
-----------------------------------------------------------------------------
(* The walk.                                                               *)

LEMMA WillUnchanged ==
    ASSUME NEW limit, disk' = disk, loc'.queue = loc.queue
    PROVE  WillKeptUnder(limit)
PROOF
  <1> SUFFICES ASSUME NEW l \in Nat, NEW X, Will(l, X) PROVE Will(l, X)'
    BY DEF WillKeptUnder
  <1>1. disk'[l] = disk[l]
    OBVIOUS
  <1> QED
    BY <1>1, WillKept

LEMMA WillElsewhere ==
    ASSUME NEW limit, disk' = disk, loc.queue = <<>>,
           \A j \in 1..Len(loc'.queue) :
               ~(/\ DATA_START_SECTOR <= loc'.queue[j].lba
                 /\ loc'.queue[j].lba < DATA_START_SECTOR + limit)
    PROVE  WillKeptUnder(limit)
PROOF
  <1> SUFFICES ASSUME NEW l \in Nat, NEW X, DATA_START_SECTOR <= l,
                      l < DATA_START_SECTOR + limit, Will(l, X)
               PROVE  Will(l, X)'
    BY DEF WillKeptUnder
  <1>1. disk'[l] = disk[l]
    OBVIOUS
  <1>2. \A j \in 1..Len(loc.queue) : loc.queue[j].lba # l
    OBVIOUS
  <1>3. \A j \in 1..Len(loc'.queue) : loc'.queue[j].lba # l
    OBVIOUS
  <1> QED
    BY <1>1, <1>2, <1>3, WillKept

LEMMA WillWritten ==
    ASSUME TypeInv, write_sector, NEW limit \in 0..MAX_FILES * MaxSize
    PROVE  WillKeptUnder(limit)
PROOF
  <1> SUFFICES ASSUME NEW l \in Nat, NEW X, DATA_START_SECTOR <= l,
                      l < DATA_START_SECTOR + limit, Will(l, X)
               PROVE  Will(l, X)'
    BY DEF WillKeptUnder
  <1>1. l \in Lba
    BY Numbers DEF Lba
  <1> DEFINE q == loc.queue
             p == loc'.queue
  <1>2. /\ Len(q) \in Nat \ {0} /\ Len(p) = Len(q) - 1
        /\ \A j \in 1..Len(p) : p[j] = q[j + 1]
        /\ disk'[l] = IF l = q[1].lba THEN q[1].sector ELSE disk[l]
    BY <1>1, TypeWriteSector
  <1>3. /\ \A j \in 1..Len(q) : q[j].lba = l => q[j].sector \in X
        /\ (\A j \in 1..Len(q) : q[j].lba # l) => disk[l] \in X
    BY DEF Will
  <1>4. Will(l, X)' <=>
          /\ \A j \in 1..Len(p) : p[j].lba = l => p[j].sector \in X
          /\ (\A j \in 1..Len(p) : p[j].lba # l) => disk'[l] \in X
    BY DEF Will
  <1> HIDE DEF q, p
  <1>5. \A j \in 1..Len(p) : p[j].lba = l => p[j].sector \in X
    <2>1. \A j \in 1..Len(p) : j + 1 \in 1..Len(q)
      BY <1>2
    <2> QED
      BY <1>2, <1>3, <2>1
  <1>6. ASSUME \A j \in 1..Len(p) : p[j].lba # l PROVE disk'[l] \in X
    <2>1. CASE l = q[1].lba
      <3>1. 1 \in 1..Len(q)
        BY <1>2
      <3> QED
        BY <1>2, <1>3, <2>1, <3>1
    <2>2. CASE l # q[1].lba
      <3>1. ASSUME NEW j \in 1..Len(q) PROVE q[j].lba # l
        <4>1. CASE j = 1
          BY <2>2, <4>1
        <4>2. CASE j # 1
          <5>1. j - 1 \in 1..Len(p) /\ (j - 1) + 1 = j
            BY <1>2, <4>2
          <5> QED
            BY <1>2, <1>6, <5>1
        <4> QED
          BY <4>1, <4>2
      <3> QED
        BY <1>2, <1>3, <2>2, <3>1
    <2> QED
      BY <2>1, <2>2
  <1> QED
    BY <1>4, <1>5, <1>6

(* What the first files of the walk keep while the table changes behind    *)
(* them.                                                                   *)
LEMMA DoneGoesOn ==
    ASSUME TypeInv, Done(loc.table, loc.node - 1, loc.sector_offset),
           loc'.node = loc.node, loc'.sector_offset = loc.sector_offset,
           \A i \in 1..loc.node - 1 : \A k \in 1..EntryUnits :
               loc'.table[At(i) + k] = loc.table[At(i) + k],
           \A i \in 1..loc.node - 1 : saved'[i] = saved[i],
           written \subseteq written', WillKeptUnder(loc.sector_offset)
    PROVE  Done(loc.table, loc.node - 1, loc.sector_offset)'
PROOF
  <1> DEFINE n == loc.node - 1
             limit == loc.sector_offset
             t == loc.table
             t2 == loc'.table
  <1>1. n \in Nat /\ limit \in Nat
    BY TypeParts, Numbers
  <1>2. /\ Done(t, n, limit) /\ WillKeptUnder(limit)
        /\ SameEntries(t, t2, n)
    BY DEF SameEntries
  <1>3. Done(loc.table, loc.node - 1, loc.sector_offset)' <=>
          \A i \in 1..n : \E size \in 0..MaxSize, off \in 0..MAX_FILES * MaxSize :
              Entry(t2, i, saved'[i], size, off) /\ off + size <= limit /\ Holds(saved[i], size, off)'
    BY DEF Done
  <1> HIDE DEF n, limit, t, t2
  <1>4. DoneThen(t2, n, limit)
    BY <1>1, <1>2, DoneKept, Zenon
  <1>5. \A i : \A size, off : saved'[i] = saved[i] /\ (\A f : f = saved[i] => Holds(f, size, off)')
                                   => Holds(saved[i], size, off)'
    OBVIOUS
  <1>6. \A i \in 1..n : saved'[i] = saved[i]
    BY DEF n
  <1>7. \A i \in 1..n : \A size, off : Entry(t2, i, saved[i], size, off) => Entry(t2, i, saved'[i], size, off)
    BY <1>6
  <1> QED
    BY <1>3, <1>4, <1>5, <1>6, <1>7, Zenon DEF DoneThen

(* The parts of WalkInv. *)
AtEntry ==
    /\ \A u \in InTable : u > At(loc.node) => loc.table[u] = Blank
    /\ \A j \in 1..Len(loc.queue) :
          /\ loc.queue[j].lba = loc.queue[1].lba + (j - 1)
          /\ loc.queue[j].lba >= DATA_START_SECTOR
AtFile ==
    /\ loc.queue = <<>>
    /\ \A u \in InTable : u > At(loc.node + 1) => loc.table[u] = Blank
    /\ \E size \in 0..MaxSize : Begun(size)
AtTables ==
    /\ ~Visiting /\ Len(loc.queue) <= TableSectors + 1
    /\ \A j \in 1..Len(loc.queue) :
          /\ loc.queue[j].lba = TableSectors - Len(loc.queue) + j
          /\ loc.queue[j].sector = OfTable(loc.queue[j].lba)
    /\ \A s \in 0..TableSectors - Len(loc.queue) : disk[s] = OfTable(s)
WalkPart ==
    /\ Same /\ loc.node - 1 <= Len(saved)
    /\ Done(loc.table, loc.node - 1, loc.sector_offset)
    /\ pc = "entry" => AtEntry
    /\ pc \in {"sectors", "copy"} => AtFile
    /\ pc = "tables" => AtTables

LEMMA WalkParts ==
    /\ WalkInv <=> (fault = "none" /\ InSave => WalkPart)
    /\ WalkInv' <=> (fault' = "none" /\ InSave' => WalkPart')
PROOF
  <1>1. WalkInv <=> (fault = "none" /\ InSave => WalkPart)
    BY DEF WalkInv, WalkPart, AtEntry, AtFile, AtTables
  <1>2. WalkInv' <=> (fault' = "none" /\ InSave' => WalkPart')
    BY DEF WalkInv, WalkPart, AtEntry, AtFile, AtTables
  <1> QED
    BY <1>1, <1>2

(* The file the walk is at, and those behind it. *)
LEMMA SameNode ==
    ASSUME TypeInv, Same, Visiting
    PROVE  /\ loc.node \in 1..Len(saved) /\ loc.node - gone \in 1..Len(files)
           /\ Node = files[loc.node - gone] /\ SameFile(Node, saved[loc.node])
PROOF
  <1>1. loc.node - gone \in 1..Len(files) /\ loc.node \in Nat \ {0} /\ gone \in Nat
    BY NodeFacts DEF TypeInv
  <1>2. Len(files) + gone = Len(saved) /\ Len(files) \in Nat /\ Len(saved) \in Nat
    BY TypeParts DEF Same
  <1>3. loc.node \in 1..Len(saved) /\ loc.node \in loc.node..Len(saved)
    BY <1>1, <1>2
  <1> QED
    BY <1>1, <1>3 DEF Same, Node

LEMMA SameKept ==
    ASSUME TypeInv, Same, UNCHANGED <<files, gone, saved, written>>,
           loc'.node = loc.node \/ loc'.node = loc.node + 1
    PROVE  Same'
PROOF
  <1>1. loc.node \in Nat /\ Len(saved) \in Nat
    BY TypeParts, Numbers
  <1>2. \A f, g : SameFile(f, g) => SameFile(f, g)'
    BY DEF SameFile
  <1>3. \A i \in loc'.node..Len(saved) : i \in loc.node..Len(saved)
    BY <1>1
  <1>4. ASSUME NEW i \in loc'.node..Len(saved) PROVE SameFile(files[i - gone], saved[i])'
    <2>1. PICK f, g : f = files[i - gone] /\ g = saved[i]
      OBVIOUS
    <2>2. SameFile(f, g)'
      BY <1>2, <1>3, <2>1 DEF Same
    <2>3. f = files'[i - gone'] /\ g = saved'[i]
      BY <2>1
    <2> QED
      BY <2>2, <2>3
  <1> QED
    BY <1>4 DEF Same

LEMMA WalkElsewhere ==
    ASSUME ~InSave'
    PROVE  WalkInv'
PROOF
  BY WalkParts

LEMMA WalkBegins ==
    ASSUME TypeInv, fs_save_to_disk
    PROVE  WalkInv'
PROOF
  <1>1. /\ loc'.node = 1 /\ loc'.sector_offset = 0 /\ loc'.queue = <<>>
        /\ \A u \in InTable : loc'.table[u] = Blank
        /\ saved' = files /\ written' = {} /\ pc' = "entry" /\ files' = files /\ files \in Seq(Files)
        /\ gone' = 0
    BY TypeSave, TypeParts
  <1>2. Same'
    <2>1. ASSUME NEW i \in 1..Len(files) PROVE SameFile(files[i - gone], saved[i])'
      <3>1. i - gone' = i
        BY <1>1
      <3>2. files[i] \in Files
        BY <1>1
      <3>3. Len(files[i].data) \in 0..MaxSize
        BY <3>2, FileFacts
      <3>4. Len(files[i].data) <= Len(files[i].data)
        BY <3>3, Numbers
      <3>5. files'[i - gone'] = files[i] /\ saved'[i] = files[i]
        BY <1>1, <3>1
      <3> QED
        BY <3>4, <3>5 DEF SameFile
    <2>2. Len(files') + gone' = Len(saved')
      BY <1>1
    <2> QED
      BY <1>1, <2>1, <2>2 DEF Same
  <1>3. loc'.node - 1 = 0 /\ 0 <= Len(saved')
    BY <1>1
  <1>4. Done(loc.table, loc.node - 1, loc.sector_offset)'
    BY <1>3 DEF Done
  <1>5. AtEntry'
    BY <1>1 DEF AtEntry
  <1> QED
    BY <1>1, <1>2, <1>3, <1>4, <1>5, WalkParts DEF WalkPart

LEMMA WalkWrite ==
    ASSUME TypeInv, WalkInv, NEW i \in DOMAIN files, SYS_WRITE(i)
    PROVE  WalkInv'
PROOF
  <1> SUFFICES ASSUME InSave PROVE WalkPart'
    <2>1. pc' = pc
      BY DEF SYS_WRITE
    <2>2. InSave' <=> InSave
      BY <2>1 DEF InSave
    <2> QED
      BY <2>2, WalkParts
  <1>1. /\ UNCHANGED <<disk, pc, loc, gone, fault, saves, complete, saved>> /\ fault = "none"
    BY Zenon DEF SYS_WRITE
  <1>2. WalkPart
    BY <1>1, WalkParts
  <1>3. /\ Len(files') = Len(files) /\ i \in 1..Len(files) /\ Grown(files[i], files'[i])
        /\ \A j \in 1..Len(files) : j # i => files'[j] = files[j]
        /\ written' = written \cup {files[i].name} /\ files \in Seq(Files)
    BY WriteFacts, TypeParts DEF InSave
  <1>4. \A j \in 1..Len(files) :
            /\ files'[j].name = files[j].name /\ Len(files[j].data) <= Len(files'[j].data)
            /\ files[j].name \notin written' => files'[j] = files[j] /\ files[j].name \notin written
            /\ Own(files[j]) => Own(files'[j])
    <2> SUFFICES ASSUME NEW j \in 1..Len(files)
                 PROVE  /\ files'[j].name = files[j].name /\ Len(files[j].data) <= Len(files'[j].data)
                        /\ files[j].name \notin written' =>
                               files'[j] = files[j] /\ files[j].name \notin written
                        /\ Own(files[j]) => Own(files'[j])
      OBVIOUS
    <2>1. CASE j = i
      BY <1>3, <2>1 DEF Grown
    <2>2. CASE j # i
      <3>1. files[j] \in Files /\ files'[j] = files[j]
        BY <1>3, <2>2
      <3>2. Len(files[j].data) \in Nat
        BY <3>1, FileFacts
      <3> QED
        BY <1>3, <3>1, <3>2
    <2> QED
      BY <2>1, <2>2
  <1>5. Same'
    <2>1. Len(files) + gone = Len(saved) /\ \A k \in loc.node..Len(saved) : SameFile(files[k - gone], saved[k])
      BY <1>2 DEF WalkPart, Same
    <2>2. ASSUME NEW k \in loc.node..Len(saved) PROVE SameFile(files[k - gone], saved[k])'
      <3> DEFINE j == k - gone
                 f == files[j]
                 g == saved[k]
                 h == files'[j]
      <3>1. loc.node \in Nat /\ gone \in 0..loc.node - 1 /\ Len(files) \in Nat /\ Len(saved) \in Nat
        BY TypeParts, Numbers DEF TypeInv
      <3>2. j \in 1..Len(files) /\ k \in 1..Len(saved)
        <4>1. \A n, d, L, M \in Nat : \A x \in n..M :
                  d <= n - 1 /\ L + d = M => x - d \in 1..L /\ x \in 1..M
          OBVIOUS
        <4>2. gone \in Nat /\ gone <= loc.node - 1 /\ Len(files) + gone = Len(saved)
          BY <2>1, <3>1
        <4> QED
          BY <3>1, <4>1, <4>2
      <3>3. SameFile(f, g)
        BY <2>1
      <3>4. f \in Files /\ g \in Files /\ h \in Files
        BY <3>2, <1>3, WriteFacts, TypeParts
      <3>8. j = k - gone' /\ saved'[k] = saved[k]
        BY <1>1
      <3> HIDE DEF j
      <3>5. /\ h.name = f.name /\ Len(f.data) <= Len(h.data)
            /\ f.name \notin written' => h = f /\ f.name \notin written
            /\ Own(f) => Own(h)
        BY <1>4, <3>2
      <3>9. files'[k - gone'] = h /\ saved'[k] = g
        BY <3>8
      <3> HIDE DEF f, g, h
      <3>6. Len(f.data) \in Int /\ Len(g.data) \in Int /\ Len(h.data) \in Int
        <4>1. \A x \in Files : Len(x.data) \in Int
          BY FileFacts
        <4> QED
          BY <3>4, <4>1
      <3>7. Len(g.data) <= Len(h.data)
        BY <3>3, <3>5, <3>6 DEF SameFile
      <3>10. PICK x, y : x = h /\ y = g
        OBVIOUS
      <3>11. SameFile(x, y)'
        BY <3>3, <3>5, <3>7, <3>10 DEF SameFile
      <3>12. x = files'[k - gone'] /\ y = saved'[k]
        BY <3>9, <3>10
      <3> QED
        BY <3>11, <3>12
    <2> QED
      BY <1>1, <1>3, <2>1, <2>2 DEF Same
  <1>6. Done(loc.table, loc.node - 1, loc.sector_offset)'
    <2>1. WillKeptUnder(loc.sector_offset)
      BY <1>1, WillUnchanged
    <2>2. Done(loc.table, loc.node - 1, loc.sector_offset)
      BY <1>2 DEF WalkPart
    <2> QED
      BY <1>1, <1>3, <2>1, <2>2, DoneGoesOn
  <1>7. pc = "entry" => AtEntry'
    BY <1>1, <1>2 DEF WalkPart, AtEntry
  <1>8. ASSUME pc \in {"sectors", "copy"} PROVE AtFile'
    <2>1. AtFile /\ Visiting
      BY <1>2, <1>8 DEF WalkPart, TypeInv
    <2>2. PICK size \in 0..MaxSize : Begun(size)
      BY <2>1 DEF AtFile
    <2>3. /\ loc.node - gone \in 1..Len(files) /\ Node = files[loc.node - gone]
          /\ Node' = files'[loc.node - gone]
      BY <1>1, <2>1, NodeFacts DEF Node
    <2>4. /\ Node'.name = Node.name /\ Len(Node.data) <= Len(Node'.data)
          /\ Node.name \notin written' => Node' = Node /\ Node.name \notin written
      BY <1>4, <2>3
    <2>5. /\ Len(Node.data) \in Nat /\ Len(Node'.data) \in Nat /\ MaxSize \in Nat /\ loc.sectors \in Nat
      <3>1. files' \in Seq(Files)
        BY WriteFacts
      <3>2. Node \in Files /\ Node' \in Files
        BY <1>3, <2>3, <3>1
      <3>3. Len(Node.data) \in 0..MaxSize /\ Len(Node'.data) \in 0..MaxSize
        BY <3>2, FileFacts
      <3> QED
        BY <3>3, TypeParts, Numbers
    <2>6. /\ Entry(loc.table, loc.node, saved[loc.node], size, loc.sector_offset)
          /\ Len(saved[loc.node].data) <= size
          /\ size <= Len(Node.data) /\ (Node.name \notin written => size = Len(Node.data))
          /\ pc = "copy" => size <= loc.sectors /\ loc.sectors <= Len(Node.data)
      BY <2>2 DEF Begun
    <2>7. /\ Entry(loc.table, loc.node, saved[loc.node], size, loc.sector_offset)'
          /\ Len(saved'[loc'.node].data) <= size
      BY <1>1, <2>6 DEF Entry
    <2>8. size <= Len(Node'.data) /\ (Node'.name \notin written' => size = Len(Node'.data))
      BY <2>4, <2>5, <2>6
    <2>9. pc' = "copy" => loc'.sectors <= Len(Node'.data) /\ size <= loc'.sectors
      BY <1>1, <2>4, <2>5, <2>6
    <2>10. Begun(size)'
      BY <2>7, <2>8, <2>9 DEF Begun
    <2> QED
      BY <1>1, <2>1, <2>10 DEF AtFile
  <1>9. ASSUME pc = "tables" PROVE AtTables'
    <2>1. AtTables
      BY <1>2, <1>9 DEF WalkPart
    <2>2. ~Visiting'
      BY <1>1, <1>3, <2>1 DEF AtTables, Visiting
    <2>3. \A s : OfTable(s)' = OfTable(s)
      BY <1>1 DEF OfTable
    <2> QED
      BY <1>1, <2>1, <2>2 DEF AtTables, OfTable
  <1>10. loc'.node - 1 <= Len(saved')
    BY <1>1, <1>2 DEF WalkPart
  <1> QED
    BY <1>1, <1>5, <1>6, <1>7, <1>8, <1>9, <1>10 DEF WalkPart

(* What is left of the files, and of those that are saved. *)
Without(s, t, i) ==
    Len(t) = Len(s) - 1 /\ \A k \in 1..Len(s) - 1 : t[k] = IF k < i THEN s[k] ELSE s[k + 1]

LEMMA WalkDelete ==
    ASSUME TypeInv, WalkInv, NEW i \in DOMAIN files, fs_delete(i)
    PROVE  WalkInv'
PROOF
  <1>1. /\ Removed(i) /\ i \in 1..Len(files) /\ fault = "none"
        /\ UNCHANGED <<disk, pc, loc, saves, complete, written>>
    BY RemovedWhen
  <1> SUFFICES ASSUME fault' = "none", InSave PROVE WalkPart'
    <2>1. InSave' <=> InSave
      BY <1>1 DEF InSave
    <2> QED
      BY <2>1, WalkParts
  <1> DEFINE n == loc.node
             g == gone
             L == Len(files)
             M == Len(saved)
  <1>2. WalkPart /\ Same
    BY <1>1, WalkParts DEF WalkPart
  <1>14. files \in Seq(Files) /\ saved \in Seq(Files)
    BY TypeParts
  <1>3. /\ L \in Nat /\ M \in Nat /\ n \in Nat /\ g \in Nat /\ i \in Nat
        /\ g < n /\ i > 0 /\ i <= L /\ L + g = M
    <2>1. files \in Seq(Files) /\ saved \in Seq(Files) /\ n \in Nat /\ g \in 0..n - 1
      BY TypeParts, Numbers DEF TypeInv
    <2>2. L + g = M
      BY <1>2 DEF Same
    <2> QED
      BY <1>1, <2>1, <2>2
  <1>15. n = loc.node /\ g = gone /\ L = Len(files) /\ M = Len(saved)
    OBVIOUS
  <1> HIDE DEF n, g, L, M
  <1>16. \A h, k \in Nat :    /\ (i + g < n /\ h = g + 1 /\ k \in n..M =>
                                  k - h \in 1..L - 1 /\ ~(k - h < i) /\ (k - h) + 1 = k - g)
                             /\ (i + g >= n /\ k \in n..M - 1 =>
                                  /\ k \in 1..M - 1 /\ k - g \in 1..L - 1 /\ k \in n..M /\ k + 1 \in n..M
                                  /\ (k - g < i <=> k < i + g) /\ (k - g) + 1 = (k + 1) - g)
                             /\ (i + g >= n /\ k \in 1..n - 1 => k \in 1..M - 1 /\ k < i + g)
                             /\ (i + g > n => n \in n..M - 1 /\ n < i + g)
    BY <1>3
  <1>4. Without(files, files', i) /\ gone' \in Nat
    <2>1. files' = RemoveAt(files, i)
      BY <1>1 DEF Removed
    <2>2. gone' = gone \/ gone' = gone + 1
      BY <1>1 DEF Removed
    <2>3. Without(files, RemoveAt(files, i), i)
      BY <1>1, <1>14, RemoveFacts, Zenon DEF Without
    <2>4. gone' \in Nat
      BY <1>3, <1>15, <2>2
    <2> QED
      BY <2>1, <2>3, <2>4
  <1>5. \/ i + g < n /\ saved' = saved /\ gone' = g + 1
        \/ /\ i + g >= n /\ (pc \in {"sectors", "copy"} => i + g > n)
           /\ Without(saved, saved', i + g) /\ gone' = g
    <2> DEFINE d == i + g
    <2>1. d \in 1..M
      BY <1>3
    <2>2. \/ d < n /\ saved' = saved /\ gone' = g + 1
          \/ /\ d >= n /\ (pc \in {"sectors", "copy"} => d > n)
             /\ saved' = RemoveAt(saved, d) /\ gone' = g
      BY <1>1, <1>15 DEF Removed
    <2> HIDE DEF d
    <2>3. Without(saved, RemoveAt(saved, d), d)
      <3>1. d \in 1..Len(saved)
        BY <1>15, <2>1
      <3> QED
        BY <1>14, <3>1, RemoveFacts, Zenon DEF Without
    <2>4. \/ d < n /\ saved' = saved /\ gone' = g + 1
          \/ /\ d >= n /\ (pc \in {"sectors", "copy"} => d > n)
             /\ Without(saved, saved', d) /\ gone' = g
      BY <2>2, <2>3
    <2> QED
      BY <2>4 DEF d
  <1>6. Len(files') + gone' = Len(saved') /\ n - 1 <= Len(saved')
    <2>1. n - 1 <= M
      BY <1>2, <1>15 DEF WalkPart
    <2>2. Len(files') = L - 1
      BY <1>4, <1>15 DEF Without
    <2>3. CASE i + g < n /\ saved' = saved /\ gone' = g + 1
      <3>1. (L - 1) + (g + 1) = M
        BY <1>3
      <3> QED
        BY <1>15, <2>1, <2>2, <2>3, <3>1
    <2>4. CASE i + g >= n /\ Without(saved, saved', i + g) /\ gone' = g
      <3>1. Len(saved') = M - 1
        BY <1>15, <2>4 DEF Without
      <3>2. (L - 1) + g = M - 1 /\ (i + g >= n => n - 1 <= M - 1)
        BY <1>3
      <3> QED
        BY <2>2, <2>4, <3>1, <3>2
    <2> QED
      BY <1>5, <2>3, <2>4
  <1>7. ASSUME NEW k \in n..Len(saved')
        PROVE  \E m \in n..M : files'[k - gone'] = files[m - g] /\ saved'[k] = saved[m]
    <2>1. \A x \in 1..L - 1 : files'[x] = IF x < i THEN files[x] ELSE files[x + 1]
      BY <1>4, <1>15 DEF Without
    <2>2. CASE i + g < n /\ saved' = saved /\ gone' = g + 1
      <3>2. k \in n..M /\ k \in Nat
        BY <1>3, <1>15, <2>2
      <3>1. k - gone' \in 1..L - 1 /\ ~(k - gone' < i) /\ (k - gone') + 1 = k - g
        BY <1>4, <1>16, <2>2, <3>2
      <3> QED
        BY <2>1, <2>2, <3>1, <3>2
    <2>3. CASE i + g >= n /\ Without(saved, saved', i + g) /\ gone' = g
      <3>1. /\ Len(saved') = M - 1
            /\ \A x \in 1..M - 1 : saved'[x] = IF x < i + g THEN saved[x] ELSE saved[x + 1]
        BY <1>15, <2>3 DEF Without
      <3>5. k \in n..M - 1 /\ k \in Nat
        BY <1>3, <3>1
      <3>2. /\ k \in 1..M - 1 /\ k - g \in 1..L - 1 /\ k \in n..M /\ k + 1 \in n..M
            /\ (k - g < i <=> k < i + g)
            /\ (k - g) + 1 = (k + 1) - g
        BY <1>4, <1>16, <2>3, <3>5
      <3>3. CASE k < i + g
        BY <2>1, <2>3, <3>1, <3>2, <3>3
      <3>4. CASE ~(k < i + g)
        BY <2>1, <2>3, <3>1, <3>2, <3>4
      <3> QED
        BY <3>3, <3>4
    <2> QED
      BY <1>5, <2>2, <2>3
  <1>8. Same'
    <2>1. \A x, y : SameFile(x, y) => SameFile(x, y)'
      BY <1>1 DEF SameFile
    <2>2. ASSUME NEW k \in n..Len(saved') PROVE SameFile(files[k - gone], saved[k])'
      <3>1. PICK m \in n..M : files'[k - gone'] = files[m - g] /\ saved'[k] = saved[m]
        BY <1>7
      <3>2. PICK x, y : x = files[m - g] /\ y = saved[m]
        OBVIOUS
      <3>3. SameFile(x, y)
        BY <1>2, <1>15, <3>2 DEF Same
      <3>4. SameFile(x, y)' /\ x = files'[k - gone'] /\ y = saved'[k]
        BY <2>1, <3>1, <3>2, <3>3
      <3> QED
        BY <3>4
    <2>3. n = loc'.node
      BY <1>1, <1>15
    <2> QED
      BY <1>6, <2>2, <2>3 DEF Same
  <1>9. /\ \A k \in 1..n - 1 : saved'[k] = saved[k]
        /\ pc \in {"sectors", "copy"} => saved'[n] = saved[n] /\ Node' = Node
    <2>1. \A x \in 1..L - 1 : files'[x] = IF x < i THEN files[x] ELSE files[x + 1]
      BY <1>4, <1>15 DEF Without
    <2>2. pc \in {"sectors", "copy"} => n - g <= L
      BY <1>15 DEF TypeInv, Visiting
    <2>3. Node = files[n - g] /\ Node' = files'[n - gone']
      BY <1>1, <1>15 DEF Node
    <2>4. CASE i + g < n /\ saved' = saved /\ gone' = g + 1
      <3> SUFFICES ASSUME pc \in {"sectors", "copy"} PROVE Node' = Node
        BY <2>4
      <3>2. n \in n..M
        BY <1>3, <2>2
      <3>1. n - gone' \in 1..L - 1 /\ ~(n - gone' < i) /\ (n - gone') + 1 = n - g
        BY <1>3, <1>4, <1>16, <2>4, <3>2
      <3> QED
        BY <2>1, <2>3, <3>1
    <2>5. CASE /\ i + g >= n /\ (pc \in {"sectors", "copy"} => i + g > n)
               /\ Without(saved, saved', i + g) /\ gone' = g
      <3>1. \A x \in 1..M - 1 : saved'[x] = IF x < i + g THEN saved[x] ELSE saved[x + 1]
        BY <1>15, <2>5 DEF Without
      <3>2. ASSUME NEW k \in 1..n - 1 PROVE k \in 1..M - 1 /\ k < i + g
        <4>1. k \in Nat
          BY <1>3
        <4> QED
          BY <1>4, <1>16, <2>5, <4>1
      <3>3. ASSUME pc \in {"sectors", "copy"} PROVE saved'[n] = saved[n] /\ Node' = Node
        <4>1. n \in 1..M - 1 /\ n < i + g /\ n - g \in 1..L - 1 /\ n - g < i
          BY <1>3, <1>4, <1>16, <2>5, <3>3
        <4> QED
          BY <2>1, <2>3, <2>5, <3>1, <4>1
      <3> QED
        BY <3>1, <3>2, <3>3
    <2> QED
      BY <1>5, <2>4, <2>5
  <1>10. Done(loc.table, loc.node - 1, loc.sector_offset)'
    <2>1. WillKeptUnder(loc.sector_offset)
      BY <1>1, WillUnchanged
    <2>2. Done(loc.table, loc.node - 1, loc.sector_offset)
      BY <1>2 DEF WalkPart
    <2>3. \A k \in 1..loc.node - 1 : saved'[k] = saved[k]
      BY <1>9, <1>15
    <2> QED
      BY <1>1, <2>1, <2>2, <2>3, DoneGoesOn
  <1>11. pc = "entry" => AtEntry'
    BY <1>1, <1>2 DEF WalkPart, AtEntry
  <1>12. ASSUME pc \in {"sectors", "copy"} PROVE AtFile'
    <2>1. AtFile
      BY <1>2, <1>12 DEF WalkPart
    <2>2. PICK size \in 0..MaxSize : Begun(size)
      BY <2>1 DEF AtFile
    <2>3. Begun(size)'
      BY <1>1, <1>9, <1>12, <1>15, <2>2 DEF Begun, Entry
    <2> QED
      BY <1>1, <2>1, <2>3 DEF AtFile
  <1>13. ASSUME pc = "tables" PROVE AtTables'
    <2>1. AtTables
      BY <1>2, <1>13 DEF WalkPart
    <2>2. ~Visiting'
      <3>1. ~(n - g <= L /\ n <= MAX_FILES) /\ Len(files') = L - 1
        BY <1>4, <1>15, <2>1 DEF AtTables, Visiting, Without
      <3>3. /\ n - (g + 1) <= L - 1 => n - g <= L
            /\ n - g <= L - 1 => n - g <= L
        BY <1>3
      <3>2. ~(n - gone' <= L - 1 /\ n <= MAX_FILES)
        BY <1>5, <3>1, <3>3
      <3> QED
        BY <1>1, <1>15, <3>1, <3>2 DEF Visiting
    <2>3. \A s : OfTable(s)' = OfTable(s)
      BY <1>1 DEF OfTable
    <2> QED
      BY <1>1, <2>1, <2>2 DEF AtTables, OfTable
  <1> QED
    BY <1>1, <1>6, <1>8, <1>15, <1>10, <1>11, <1>12, <1>13 DEF WalkPart

(* Files before the one the walk is at have their entries before its.      *)
LEMMA EarlierEntries ==
    ASSUME NEW n \in Nat \ {0}, NEW i \in 1..n - 1, NEW k \in 1..EntryUnits
    PROVE  At(i) + k <= At(n) /\ At(i) + k \in Nat \ {0}
PROOF
  <1>1. i \in Nat \ {0} /\ n \in Nat \ {0} /\ i < n /\ EntryUnits \in Nat
    BY Numbers
  <1>2. /\ At(i) \in Nat /\ At(i + 1) = At(i) + EntryUnits /\ At(i + 1) <= At(n)
    BY <1>1, AtFacts
  <1>3. At(n) \in Nat
    BY AtFacts
  <1> QED
    BY <1>1, <1>2, <1>3

LEMMA WalkEntry ==
    ASSUME TypeInv, WalkInv, flatten_entry
    PROVE  WalkInv'
PROOF
  <1> DEFINE i == loc.node
             off == loc.sector_offset
             size == Len(Node.data)
  <1>1. /\ Visiting /\ loc.queue = <<>> /\ pc = "entry" /\ fault = "none"
        /\ pc' = "sectors" /\ loc'.node = i /\ loc'.sector_offset = off
        /\ loc'.sectors = loc.sectors /\ loc'.queue = loc.queue
        /\ loc.table \in Tabled /\ loc'.table = Entered(loc.table)
        /\ UNCHANGED <<disk, files, gone, fault, calls, saves, complete, saved, written>>
    BY TypeEntry
  <1>2. WalkPart /\ AtEntry
    <2>1. WalkPart
      BY <1>1, WalkParts DEF InSave
    <2> QED
      BY <1>1, <2>1 DEF WalkPart
  <1>3. /\ i \in 1..MAX_FILES /\ Node \in Files /\ i \in Nat \ {0} /\ size \in 0..MaxSize
    <2>1. i \in 1..MAX_FILES /\ Node \in Files
      BY <1>1, NodeFacts
    <2> QED
      BY <2>1, FileFacts, Numbers
  <1>4. /\ At(i) \in Nat /\ At(i + 1) = At(i) + EntryUnits /\ EntryUnits \in Nat \ {0}
        /\ EntryUnits = NameUnits + 1 /\ NameUnits \in Nat
    BY <1>3, AtFacts, Numbers
  <1>5. /\ \A k \in 1..EntryUnits :
              loc'.table[At(i) + k] =
                     IF k <= Len(Node.name) THEN <<Node.name[k]>>
                     ELSE IF k = EntryUnits THEN <<size, off>> ELSE loc.table[At(i) + k]
        /\ \A u \in InTable : u <= At(i) \/ u > At(i + 1) => loc'.table[u] = loc.table[u]
    BY <1>1, EnteredFacts
  <1>6. \A u \in InTable : u > At(i) => loc.table[u] = Blank
    BY <1>2 DEF AtEntry
  <1>7. \A k \in 1..EntryUnits : At(i) + k \in InTable /\ At(i) + k > At(i)
    BY <1>3, <1>4, EndFacts
  <1>8. Same /\ loc.node - 1 <= Len(saved) /\ Done(loc.table, loc.node - 1, loc.sector_offset)
    BY <1>2 DEF WalkPart
  <1>9. Same'
    BY <1>1, <1>8, SameKept
  <1>10. Node.name = saved[i].name /\ Len(saved[i].data) <= size
    BY <1>1, <1>8, SameNode DEF SameFile
  <1>11. Entry(loc'.table, i, saved[i], size, off)
    <2>1. \A k \in 1..EntryUnits : loc'.table[At(i) + k] = UnitOf(saved[i], size, off, k)
      BY <1>5, <1>6, <1>7, <1>10 DEF UnitOf
    <2> QED
      BY <2>1 DEF Entry
  <1>12. PICK s \in 0..MaxSize : s = size
    BY <1>3
  <1>16. Begun(s)'
    BY <1>1, <1>3, <1>10, <1>11, <1>12 DEF Begun, Node, Entry
  <1>13. \A u \in InTable : u > At(i + 1) => loc'.table[u] = Blank
    <2>1. InTable \subseteq Nat
      BY Numbers DEF InTable
    <2>2. \A u \in InTable : u > At(i + 1) => u > At(i)
      BY <1>4, <2>1
    <2> QED
      BY <1>5, <1>6, <2>2
  <1>14. AtFile'
    <2>1. \E m \in 0..MaxSize : Begun(m)'
      BY <1>16
    <2> QED
      BY <1>1, <1>13, <2>1 DEF AtFile
  <1>15. Done(loc.table, loc.node - 1, loc.sector_offset)'
    <2>1. WillKeptUnder(loc.sector_offset)
      BY <1>1, WillUnchanged
    <2>2. ASSUME NEW j \in 1..loc.node - 1, NEW k \in 1..EntryUnits
          PROVE  loc'.table[At(j) + k] = loc.table[At(j) + k]
      <3>1. At(j) + k <= At(i) /\ At(j) + k \in Nat \ {0}
        BY <1>3, EarlierEntries
      <3>2. At(j) + k \in InTable
        <4>1. j \in 1..MAX_FILES
          BY <1>3, Numbers
        <4> QED
          BY <4>1, EndFacts
      <3> QED
        BY <1>5, <3>1, <3>2
    <2> QED
      BY <1>1, <1>8, <2>1, <2>2, DoneGoesOn
  <1> QED
    BY <1>1, <1>8, <1>9, <1>14, <1>15, WalkParts DEF WalkPart

LEMMA WalkSectors ==
    ASSUME TypeInv, WalkInv, flatten_sectors
    PROVE  WalkInv'
PROOF
  <1>1. /\ Visiting /\ pc = "sectors" /\ fault = "none"
        /\ pc' = "copy" /\ loc'.node = loc.node /\ loc'.sector_offset = loc.sector_offset
        /\ loc'.sectors = Len(Node.data) /\ loc'.queue = loc.queue
        /\ loc.table \in Tabled /\ loc'.table = loc.table
        /\ UNCHANGED <<disk, files, gone, fault, calls, saves, complete, saved, written>>
    BY TypeSectors
  <1>2. WalkPart
    BY <1>1, WalkParts DEF InSave
  <1>3. /\ Same /\ loc.node - 1 <= Len(saved) /\ AtFile
        /\ Done(loc.table, loc.node - 1, loc.sector_offset)
    BY <1>1, <1>2 DEF WalkPart
  <1>4. Same'
    BY <1>1, <1>3, SameKept
  <1>5. PICK size \in 0..MaxSize : Begun(size)
    BY <1>3 DEF AtFile
  <1>6. Node' = Node /\ Len(Node.data) \in Nat
    <2>1. Node \in Files
      BY <1>1, NodeFacts
    <2>2. Len(Node.data) \in 0..MaxSize
      BY <2>1, FileFacts
    <2> QED
      BY <1>1, <2>2, Numbers DEF Node
  <1>7. /\ Entry(loc.table, loc.node, saved[loc.node], size, loc.sector_offset)'
        /\ Len(saved'[loc'.node].data) <= size
        /\ size <= Len(Node.data) /\ (Node.name \notin written => size = Len(Node.data))
    BY <1>1, <1>5 DEF Begun, Entry
  <1>8. Begun(size)'
    BY <1>1, <1>6, <1>7 DEF Begun
  <1>9. AtFile'
    <2>1. \E s \in 0..MaxSize : Begun(s)'
      BY <1>8
    <2> QED
      BY <1>1, <1>3, <2>1 DEF AtFile
  <1>10. Done(loc.table, loc.node - 1, loc.sector_offset)'
    <2>1. WillKeptUnder(loc.sector_offset)
      BY <1>1, WillUnchanged
    <2> QED
      BY <1>1, <1>3, <2>1, DoneGoesOn
  <1> QED
    BY <1>1, <1>3, <1>4, <1>9, <1>10, WalkParts DEF WalkPart

LEMMA WalkTables ==
    ASSUME TypeInv, WalkInv, save_tables
    PROVE  WalkInv'
PROOF
  <1>1. /\ ~Visiting /\ loc.queue = <<>> /\ pc = "entry" /\ fault = "none"
        /\ pc' = "tables" /\ loc'.node = loc.node /\ loc'.sector_offset = loc.sector_offset
        /\ loc'.table = loc.table /\ loc.table \in Tabled /\ loc.node - 1 \in 0..MAX_FILES
        /\ loc'.queue = Tables(loc.node - 1, loc.table)
        /\ UNCHANGED <<disk, files, gone, fault, calls, saves, complete, saved, written>>
    BY TypeTables
  <1>2. WalkPart
    BY <1>1, WalkParts DEF InSave
  <1>3. /\ Same /\ loc.node - 1 <= Len(saved)
        /\ Done(loc.table, loc.node - 1, loc.sector_offset)
    BY <1>2 DEF WalkPart
  <1>4. Same'
    BY <1>1, <1>3, SameKept
  <1> DEFINE q == loc'.queue
             T == TableSectors
  <1>5. /\ T \in Nat /\ Len(q) = T + 1
        /\ \A j \in 1..T + 1 : /\ q[j].lba = j - 1
                               /\ q[j].sector = IF j = 1 THEN <<loc.node - 1>>
                                                ELSE TableSector(j - 1, loc.table)
    <2>1. T \in Nat
      BY Numbers
    <2>2. q = Tables(loc.node - 1, loc.table)
      BY <1>1
    <2> HIDE DEF q
    <2> QED
      BY <1>1, <2>1, <2>2, TablesFacts
  <1> HIDE DEF q
  <1>6. \A j \in 1..Len(q) : q[j].lba = T - Len(q) + j
    BY <1>5
  <1>7. ASSUME NEW j \in 1..Len(q)
        PROVE  q[j].sector = IF q[j].lba = 0 THEN <<loc.node - 1>> ELSE TableSector(q[j].lba, loc.table)
    <2>1. /\ q[j].lba = j - 1 /\ q[j].sector = IF j = 1 THEN <<loc.node - 1>>
                                                ELSE TableSector(j - 1, loc.table)
      BY <1>5
    <2>2. j - 1 = 0 <=> j = 1
      BY <1>5
    <2> QED
      BY <2>1, <2>2
  <1>8. AtTables'
    <2>1. ~Visiting'
      BY <1>1 DEF Visiting
    <2>2. T - Len(q) = -1 /\ 0..-1 = {}
      BY <1>5
    <2>3. \A s \in 0..T - Len(q) : disk'[s] = OfTable(s)'
      BY <2>2
    <2>4. Len(q) <= T + 1
      BY <1>5
    <2>5. \A j \in 1..Len(q) :
              q[j].sector = IF q[j].lba = 0 THEN <<loc'.node - 1>> ELSE TableSector(q[j].lba, loc'.table)
      BY <1>1, <1>7
    <2> QED
      BY <1>6, <2>1, <2>3, <2>4, <2>5 DEF AtTables, OfTable, q
  <1>9. Done(loc.table, loc.node - 1, loc.sector_offset)'
    <2>1. \A j \in 1..Len(q) : q[j].lba < DATA_START_SECTOR
      BY <1>5, Numbers
    <2>2. \A j \in 1..Len(q) : q[j].lba \in Int
      BY <1>5
    <2>3. DATA_START_SECTOR \in Nat
      BY Numbers
    <2>4. \A j \in 1..Len(loc'.queue) : ~(DATA_START_SECTOR <= loc'.queue[j].lba)
      BY <2>1, <2>2, <2>3 DEF q
    <2>5. WillKeptUnder(loc.sector_offset)
      BY <1>1, <2>4, WillElsewhere
    <2> QED
      BY <1>1, <1>3, <2>5, DoneGoesOn
  <1> QED
    BY <1>1, <1>3, <1>4, <1>8, <1>9, WalkParts DEF WalkPart

(* A count that fits in a byte is the length of the file. *)
LEMMA CountFits ==
    ASSUME NEW m \in 0..MaxSize, NEW size \in 0..MaxSize, size < CountRange, m % CountRange # 0,
           m = size \/ MaxSize <= CountRange
    PROVE  m % CountRange = m
PROOF
  <1>1. CountRange \in Nat \ {0} /\ MaxSize \in Nat
    BY Numbers
  <1>2. CASE m < CountRange
    BY <1>1, <1>2
  <1>3. CASE m >= CountRange
    <2>1. m = CountRange
      BY <1>1, <1>3
    <2>2. m % CountRange = 0
      BY <1>1, <2>1
    <2> QED
      BY <2>2
  <1> QED
    BY <1>1, <1>2, <1>3

(* The queue alone decides about its own sectors. *)
LEMMA WillQueue ==
    ASSUME NEW l \in Nat, NEW n \in Nat, NEW k \in 1..n, NEW X, Len(loc'.queue) = n,
           \A j \in 1..n : loc'.queue[j].lba = l + (j - 1), loc'.queue[k].sector \in X
    PROVE  Will(l + k - 1, X)'
PROOF
  <1> DEFINE q == loc'.queue
  <1>1. Will(l + k - 1, X)' <=>
          /\ \A j \in 1..Len(q) : q[j].lba = l + k - 1 => q[j].sector \in X
          /\ (\A j \in 1..Len(q) : q[j].lba # l + k - 1) => disk'[l + k - 1] \in X
    BY DEF Will
  <1>2. Len(q) = n /\ (\A j \in 1..n : q[j].lba = l + (j - 1)) /\ q[k].sector \in X
    OBVIOUS
  <1> HIDE DEF q
  <1>3. \A j \in 1..n : q[j].lba = l + k - 1 => j = k
    BY <1>2
  <1>4. q[k].lba = l + k - 1
    BY <1>2
  <1> QED
    BY <1>1, <1>2, <1>3, <1>4

LEMMA WalkCopied ==
    ASSUME TypeInv, WalkInv, flatten_copy, fault' = "none", NEW size \in 0..MaxSize, Begun(size),
           NEW f, f = saved[loc.node], NEW off, off = loc.sector_offset
    PROVE  Holds(f, size, off)'
PROOF
  <1>1. /\ CopyEnds /\ Visiting /\ pc = "copy" /\ fault = "none"
        /\ UNCHANGED <<disk, files, gone, calls, saves, complete, saved, written>> /\ WalkPart
    BY TypeCopy, WalkParts DEF InSave
  <1> DEFINE d == Node.data
             q == loc'.queue
             l == DATA_START_SECTOR + off
  <1>2. /\ Node \in Files
        /\ d \in Seq(Marks) /\ Len(d) \in 0..MaxSize /\ Len(d) \in Nat
        /\ ~Node.buffer => d = <<>>
    <2>1. Node \in Files
      BY <1>1, NodeFacts
    <2>2. d \in Seq(Marks) /\ Len(d) \in 0..MaxSize /\ (~Node.buffer => d = <<>>)
      BY <2>1, FileFacts
    <2> QED
      BY <2>1, <2>2, Numbers
  <1>3. /\ Node.name = f.name /\ (f.name \notin written => d = f.data)
        /\ Own(f) => Own(Node)
    <2>1. Same
      BY <1>1 DEF WalkPart
    <2> QED
      BY <1>1, <2>1, SameNode DEF SameFile
  <1>4. /\ size <= Len(d) /\ (f.name \notin written => size = Len(d)) /\ Len(f.data) <= size
        /\ size <= loc.sectors /\ loc.sectors <= Len(d)
    BY <1>1, <1>3 DEF Begun
  <1>5. f.name \notin written' => size = Len(f.data)
    BY <1>1, <1>3, <1>4
  <1>6. ASSUME size < CountRange, f.name \in written' => MaxSize <= CountRange, NEW k \in 1..size
        PROVE  /\ f.name \notin written' => Will(l + k - 1, {f.data[k]})'
               /\ Own(f) => Will(l + k - 1, Sectors(f.name))'
    <2>1. CASE ~Node.buffer
      <3>1. Len(d) = 0
        BY <1>2, <2>1
      <3>2. FALSE
        BY <1>4, <1>6, <3>1
      <3> QED
        BY <3>2
    <2>2. CASE /\ Len(d) = loc.sectors /\ loc.sectors % CountRange # 0
               /\ q = ata_write_sectors(l, d)
      <3>1. Len(d) % CountRange = Len(d)
        <4>1. Len(d) = size \/ MaxSize <= CountRange
          BY <1>1, <1>4, <1>6
        <4>2. Len(d) % CountRange # 0
          BY <2>2
        <4> QED
          BY <1>2, <1>6, <4>1, <4>2, CountFits
      <3>2. off \in 0..MAX_FILES * MaxSize /\ l \in Nat
        BY TypeParts, Numbers
      <3>3. off + Len(d) <= MAX_FILES * MaxSize
        <4>1. off + Len(d) \in 0..MAX_FILES * MaxSize
          BY <1>1, <1>2, NodeFacts
        <4> QED
          BY <4>1, Numbers
      <3>4. \A j \in 1..Len(d) : l + j - 1 \in Lba /\ l + j - 1 > TableSectors
        <4>2. \A n, m, a, b \in Nat : n <= m /\ a + n <= b =>
                 \A j \in 1..n : j \in 1..m /\ a + j <= b
          OBVIOUS
        <4>3. Len(d) \in Nat /\ Len(d) <= MaxSize /\ MaxSize \in Nat
          BY <1>2, Numbers
        <4>4. off \in Nat /\ MAX_FILES * MaxSize \in Nat
          BY <3>2, Numbers
        <4>1. \A j \in 1..Len(d) : j \in 1..MaxSize /\ off + j <= MAX_FILES * MaxSize
          <5> DEFINE L == Len(d)
                     P == MAX_FILES * MaxSize
          <5>1. L \in Nat /\ L <= MaxSize /\ MaxSize \in Nat /\ off \in Nat /\ P \in Nat /\ off + L <= P
            BY <3>3, <4>3, <4>4
          <5> HIDE DEF L, P
          <5>2. \A j \in 1..L : j \in 1..MaxSize /\ off + j <= P
            BY <4>2, <5>1
          <5> QED
            BY <5>2 DEF L, P
        <4> QED
          BY <3>2, <4>1, LbaFacts
      <3> DEFINE p == ata_write_sectors(l, d)
      <3>5. /\ Len(p) = Len(d) % CountRange
            /\ \A j \in 1..Len(d) % CountRange : p[j].lba = l + (j - 1) /\ p[j].sector = d[j]
        BY <1>2, <3>2, <3>4, SentFacts
      <3> HIDE DEF l, d, p
      <3>6. /\ Len(q) = Len(d) /\ \A j \in 1..Len(d) : q[j].lba = l + (j - 1)
            /\ \A j \in 1..Len(d) : q[j].sector = d[j]
        BY <2>2, <3>1, <3>5 DEF p
      <3>7. k \in 1..Len(d) /\ q[k].sector = d[k]
        BY <1>2, <1>4, <1>6, <3>6
      <3>8. \A X : d[k] \in X => Will(l + k - 1, X)'
        <4> SUFFICES ASSUME NEW X, d[k] \in X PROVE Will(l + k - 1, X)'
          OBVIOUS
        <4>1. loc'.queue[k].sector \in X /\ Len(loc'.queue) = Len(d)
              /\ \A j \in 1..Len(d) : loc'.queue[j].lba = l + (j - 1)
          BY <3>6, <3>7 DEF q
        <4> QED
          BY <1>2, <3>2, <3>7, <4>1, WillQueue
      <3>9. f.name \notin written' => d[k] \in {f.data[k]}
        BY <1>1, <1>3
      <3>10. Own(f) => d[k] \in Sectors(f.name)
        <4>1. Own(Node) => \A j \in DOMAIN d : d[j] \in Sectors(Node.name)
          BY DEF Own, d
        <4>2. k \in DOMAIN d
          BY <1>2, <3>7
        <4> QED
          BY <1>3, <4>1, <4>2
      <3> QED
        BY <3>8, <3>9, <3>10
    <2> QED
      BY <1>1, <2>1, <2>2 DEF CopyEnds
  <1>7. Holds(f, size, off)' <=>
          /\ Len(f.data) <= size /\ (f.name \notin written' => size = Len(f.data))
          /\ size < CountRange /\ (f.name \in written' => MaxSize <= CountRange) =>
               \A k \in 1..size :
                   /\ f.name \notin written' => Will(l + k - 1, {f.data[k]})'
                   /\ Own(f) => Will(l + k - 1, Sectors(f.name))'
    BY DEF Holds
  <1> HIDE DEF l, d, q
  <1> QED
    BY <1>4, <1>5, <1>6, <1>7

LEMMA WalkCopy ==
    ASSUME TypeInv, WalkInv, flatten_copy
    PROVE  WalkInv'
PROOF
  <1> SUFFICES ASSUME fault' = "none" PROVE WalkPart'
    BY WalkParts
  <1> DEFINE n == loc.node
             off == loc.sector_offset
             limit == off + loc.sectors
  <1>1. /\ CopyEnds /\ Visiting /\ pc = "copy" /\ fault = "none" /\ pc' = "entry"
        /\ UNCHANGED <<disk, files, gone, calls, saves, complete, saved, written>> /\ WalkPart
    BY TypeCopy, WalkParts DEF InSave
  <1>2. /\ Same /\ AtFile /\ Done(loc.table, n - 1, off)
    BY <1>1 DEF WalkPart
  <1>3. /\ loc'.node = n + 1 /\ loc'.table = loc.table /\ loc'.sector_offset = limit
        /\ \/ loc'.queue = loc.queue
           \/ loc'.queue = ata_write_sectors(DATA_START_SECTOR + off, Node.data)
    BY <1>1 DEF CopyEnds
  <1>4. /\ n \in 1..MAX_FILES /\ n \in Nat \ {0} /\ n <= Len(saved) /\ Node \in Files
        /\ off \in 0..MAX_FILES * MaxSize /\ off \in Nat /\ loc.sectors \in 0..MaxSize
        /\ loc.sectors \in Nat /\ limit \in Nat /\ DATA_START_SECTOR \in Nat
    <2>1. n \in 1..MAX_FILES /\ n \in 1..Len(saved) /\ Node \in Files
      BY <1>1, <1>2, NodeFacts, SameNode
    <2>2. off \in 0..MAX_FILES * MaxSize /\ loc.sectors \in 0..MaxSize
      BY TypeParts
    <2> QED
      BY <2>1, <2>2, Numbers
  <1>5. \A j \in 1..Len(loc'.queue) : loc'.queue[j].lba = DATA_START_SECTOR + off + (j - 1)
    <2>1. CASE loc'.queue = loc.queue
      BY <1>2, <2>1 DEF AtFile
    <2>2. CASE loc'.queue = ata_write_sectors(DATA_START_SECTOR + off, Node.data)
      <3> DEFINE m == Len(Node.data) % CountRange
      <3>1. loc'.queue = [j \in 1..m |->
                [lba |-> DATA_START_SECTOR + off + j - 1, sector |-> Node.data[j]]]
        BY <2>2 DEF ata_write_sectors
      <3>2. m \in Nat
        <4>1. Len(Node.data) \in 0..MaxSize
          BY <1>4, FileFacts
        <4>2. Len(Node.data) \in Nat /\ CountRange \in Nat \ {0}
          BY <4>1, Numbers
        <4>3. m \in 0..CountRange - 1
          BY <4>2, DivMod
        <4> HIDE DEF m
        <4> QED
          BY <4>2, <4>3
      <3> HIDE DEF m
      <3>3. Len(loc'.queue) = m
        BY <3>1, <3>2
      <3>4. \A j \in 1..m : loc'.queue[j].lba = DATA_START_SECTOR + off + j - 1
        BY <3>1
      <3> QED
        BY <1>4, <3>2, <3>3, <3>4
    <2> QED
      BY <1>3, <2>1, <2>2
  <1>6. AtEntry'
    <2>1. \A u \in InTable : u > At(n + 1) => loc.table[u] = Blank
      BY <1>2 DEF AtFile
    <2>2. \A u \in InTable : u > At(loc'.node) => loc'.table[u] = Blank
      BY <1>3, <2>1
    <2> DEFINE q == loc'.queue
               c == DATA_START_SECTOR + off
    <2>3. c \in Nat /\ c >= DATA_START_SECTOR /\ \A j \in 1..Len(q) : q[j].lba = c + (j - 1)
      BY <1>4, <1>5
    <2>4. Len(q) \in Nat
      <3>1. TypeInv'
        BY TypeCopy
      <3>2. q \in Seq(Writes)
        BY <3>1 DEF TypeInv, Locs
      <3> QED
        BY <3>2
    <2> HIDE DEF q, c
    <2>5. \A j \in 1..Len(q) : q[j].lba = q[1].lba + (j - 1) /\ q[j].lba >= DATA_START_SECTOR
      <3>1. \A j \in 1..Len(q) : 1 \in 1..Len(q)
        BY <2>4
      <3> QED
        BY <1>4, <2>3, <2>4, <3>1
    <2> QED
      BY <2>2, <2>5 DEF AtEntry, q
  <1>7. WillKeptUnder(off)
    <2>1. \A j \in 1..Len(loc'.queue) : ~(loc'.queue[j].lba < DATA_START_SECTOR + off)
      BY <1>4, <1>5
    <2> QED
      BY <1>1, <1>2, <2>1, WillElsewhere DEF AtFile
  <1>8. DoneThen(loc.table, n - 1, off)
    <2>1. SameEntries(loc.table, loc.table, n - 1) /\ n - 1 \in Nat /\ written \subseteq written'
      BY <1>1, <1>4 DEF SameEntries
    <2> QED
      BY <1>2, <1>4, <1>7, <2>1, DoneKept, Zenon
  <1>9. PICK size \in 0..MaxSize : Begun(size)
    BY <1>2 DEF AtFile
  <1>10. /\ Entry(loc.table, n, saved[n], size, off) /\ size <= loc.sectors /\ size \in Nat
         /\ \A f, o : f = saved[n] /\ o = off => Holds(f, size, o)'
    <2>1. Entry(loc.table, n, saved[n], size, off) /\ size <= loc.sectors
      BY <1>1, <1>9 DEF Begun
    <2>2. ASSUME NEW f, NEW o, f = saved[n], o = off PROVE Holds(f, size, o)'
      BY <1>9, <2>2, WalkCopied
    <2> QED
      BY <2>1, <2>2, Numbers
  <1>11. ASSUME NEW i \in 1..n
         PROVE  \E s \in 0..MaxSize, o \in 0..MAX_FILES * MaxSize :
                    /\ Entry(loc.table, i, saved[i], s, o) /\ o + s <= limit
                    /\ \A f : f = saved[i] => Holds(f, s, o)'
    <2>1. CASE i = n
      <3>1. PICK o \in 0..MAX_FILES * MaxSize : o = off
        BY <1>4
      <3>2. /\ Entry(loc.table, i, saved[i], size, o) /\ o + size <= limit
            /\ \A f : f = saved[i] => Holds(f, size, o)'
        BY <1>4, <1>10, <2>1, <3>1
      <3> QED
        BY <3>2
    <2>2. CASE i # n
      <3>1. i \in 1..n - 1
        BY <1>4, <2>2
      <3>2. PICK s \in 0..MaxSize, o \in 0..MAX_FILES * MaxSize :
                /\ Entry(loc.table, i, saved[i], s, o) /\ o + s <= off
                /\ \A f : f = saved[i] => Holds(f, s, o)'
        BY <1>8, <3>1 DEF DoneThen
      <3>3. o + s <= limit
        <4>1. o \in Nat /\ s \in Nat
          BY Numbers
        <4> QED
          BY <1>4, <3>2, <4>1
      <3> QED
        BY <3>2, <3>3
    <2> QED
      BY <2>1, <2>2
  <1>12. Done(loc.table, loc.node - 1, loc.sector_offset)'
    <2>1. Done(loc.table, loc.node - 1, loc.sector_offset)' <=>
            \A i \in 1..loc'.node - 1 : \E s \in 0..MaxSize, o \in 0..MAX_FILES * MaxSize :
                /\ Entry(loc'.table, i, saved'[i], s, o) /\ o + s <= loc'.sector_offset
                /\ Holds(saved[i], s, o)'
      BY DEF Done
    <2>2. loc'.node - 1 = n /\ saved' = saved
      BY <1>1, <1>3, <1>4
    <2>3. ASSUME NEW i \in 1..n
          PROVE  \E s \in 0..MaxSize, o \in 0..MAX_FILES * MaxSize :
                    /\ Entry(loc'.table, i, saved'[i], s, o) /\ o + s <= loc'.sector_offset
                    /\ Holds(saved[i], s, o)'
      <3>1. PICK s \in 0..MaxSize, o \in 0..MAX_FILES * MaxSize :
                /\ Entry(loc.table, i, saved[i], s, o) /\ o + s <= limit
                /\ \A f : f = saved[i] => Holds(f, s, o)'
        BY <1>11
      <3>2. Holds(saved[i], s, o)'
        BY <2>2, <3>1
      <3>3. Entry(loc'.table, i, saved'[i], s, o) /\ o + s <= loc'.sector_offset
        BY <1>3, <2>2, <3>1
      <3> QED
        BY <3>2, <3>3
    <2> QED
      BY <2>1, <2>2, <2>3
  <1>13. Same'
    BY <1>1, <1>2, <1>3, SameKept
  <1>14. loc'.node - 1 <= Len(saved')
    BY <1>1, <1>3, <1>4
  <1> QED
    BY <1>1, <1>6, <1>12, <1>13, <1>14 DEF WalkPart

LEMMA WalkWriteSector ==
    ASSUME TypeInv, WalkInv, write_sector
    PROVE  WalkInv'
PROOF
  <1> SUFFICES WalkPart'
    BY WalkParts
  <1> DEFINE q == loc.queue
             p == loc'.queue
             T == TableSectors
  <1>1. /\ InSave /\ fault = "none" /\ Len(q) \in Nat \ {0} /\ q[1].lba \in Lba
        /\ \A l \in Lba : disk'[l] = IF l = q[1].lba THEN q[1].sector ELSE disk[l]
        /\ Len(p) = Len(q) - 1 /\ \A j \in 1..Len(p) : p[j] = q[j + 1]
        /\ loc'.node = loc.node /\ loc'.sector_offset = loc.sector_offset
        /\ loc'.table = loc.table /\ loc'.sectors = loc.sectors
        /\ UNCHANGED <<files, pc, gone, fault, calls, saves, complete, saved, written>>
    BY TypeWriteSector
  <1>2. WalkPart
    BY <1>1, WalkParts
  <1>3. /\ Same /\ loc.node - 1 <= Len(saved) /\ Done(loc.table, loc.node - 1, loc.sector_offset)
    BY <1>2 DEF WalkPart
  <1>4. Same' /\ loc'.node - 1 <= Len(saved')
    BY <1>1, <1>3, SameKept
  <1>5. Done(loc.table, loc.node - 1, loc.sector_offset)'
    <2>1. WillKeptUnder(loc.sector_offset)
      BY TypeParts, WillWritten
    <2> QED
      BY <1>1, <1>3, <2>1, DoneGoesOn
  <1>6. q # <<>> /\ \A j \in 1..Len(p) : j + 1 \in 1..Len(q)
    BY <1>1
  <1>7. ASSUME pc = "entry" PROVE AtEntry'
    <2>1. AtEntry
      BY <1>2, <1>7 DEF WalkPart
    <2>2. \A j \in 1..Len(q) : q[j].lba = q[1].lba + (j - 1) /\ q[j].lba >= DATA_START_SECTOR
      BY <2>1 DEF AtEntry
    <2>3. \A u \in InTable : u > At(loc'.node) => loc'.table[u] = Blank
      BY <1>1, <2>1 DEF AtEntry
    <2>4. q[1].lba \in Nat
      BY <1>1, LbaFacts
    <2> HIDE DEF q, p
    <2>5. \A j \in 1..Len(p) : p[j].lba = p[1].lba + (j - 1) /\ p[j].lba >= DATA_START_SECTOR
      <3> SUFFICES ASSUME NEW j \in 1..Len(p)
                   PROVE  p[j].lba = p[1].lba + (j - 1) /\ p[j].lba >= DATA_START_SECTOR
        OBVIOUS
      <3>1. 1 \in 1..Len(p) /\ j + 1 \in 1..Len(q) /\ 1 + 1 \in 1..Len(q)
        BY <1>1, <1>6
      <3>2. p[j].lba = q[1].lba + ((j + 1) - 1) /\ p[1].lba = q[1].lba + ((1 + 1) - 1)
        BY <1>1, <2>2, <3>1
      <3>3. p[j].lba >= DATA_START_SECTOR
        BY <1>1, <2>2, <3>1
      <3> QED
        BY <2>4, <3>2, <3>3
    <2> QED
      BY <2>3, <2>5 DEF AtEntry, p
  <1>8. pc \notin {"sectors", "copy"}
    BY <1>2, <1>6 DEF WalkPart, AtFile
  <1>9. ASSUME pc = "tables" PROVE AtTables'
    <2>1. AtTables
      BY <1>2, <1>9 DEF WalkPart
    <2>2. /\ ~Visiting /\ Len(q) <= T + 1
          /\ \A j \in 1..Len(q) : q[j].lba = T - Len(q) + j /\ q[j].sector = OfTable(q[j].lba)
          /\ \A s \in 0..T - Len(q) : disk[s] = OfTable(s)
      BY <2>1 DEF AtTables
    <2>3. ~Visiting'
      BY <1>1, <2>2 DEF Visiting
    <2>4. T \in Nat /\ 0..T \subseteq Lba
      BY Numbers, LbaFacts
    <2> HIDE DEF q, p
    <2>5. \A j \in 1..Len(p) : p[j].lba = T - Len(p) + j /\ p[j].sector = OfTable(p[j].lba)
      <3> SUFFICES ASSUME NEW j \in 1..Len(p)
                   PROVE  p[j].lba = T - Len(p) + j /\ p[j].sector = OfTable(p[j].lba)
        OBVIOUS
      <3>1. p[j] = q[j + 1] /\ j + 1 \in 1..Len(q)
        BY <1>1, <1>6
      <3>2. T - Len(q) + (j + 1) = T - Len(p) + j
        BY <1>1, <2>4
      <3> QED
        BY <2>2, <3>1, <3>2
    <2>6. ASSUME NEW s \in 0..T - Len(p) PROVE disk'[s] = OfTable(s)
      <3>1. s \in 0..T /\ s \in Lba /\ 1 \in 1..Len(q)
        BY <1>1, <2>4
      <3>2. q[1].lba = T - Len(q) + 1 /\ q[1].sector = OfTable(q[1].lba)
        BY <2>2, <3>1
      <3>3. CASE s = q[1].lba
        BY <1>1, <3>1, <3>2, <3>3
      <3>4. CASE s # q[1].lba
        <4>1. s \in 0..T - Len(q)
          BY <1>1, <2>4, <3>2, <3>4
        <4> QED
          BY <1>1, <2>2, <3>1, <3>4, <4>1
      <3> QED
        BY <3>3, <3>4
    <2>7. \A s : OfTable(s)' = OfTable(s)
      BY <1>1 DEF OfTable
    <2>8. Len(p) <= T + 1
      BY <1>1, <2>2, <2>4
    <2>9. \A j \in 1..Len(p) :
              p[j].sector = IF p[j].lba = 0 THEN <<loc'.node - 1>> ELSE TableSector(p[j].lba, loc'.table)
      BY <1>1, <2>5 DEF OfTable
    <2>10. \A s \in 0..T - Len(p) :
              disk'[s] = IF s = 0 THEN <<loc'.node - 1>> ELSE TableSector(s, loc'.table)
      BY <1>1, <2>6 DEF OfTable
    <2> QED
      BY <2>3, <2>5, <2>8, <2>9, <2>10 DEF AtTables, OfTable, p
  <1> QED
    BY <1>1, <1>4, <1>5, <1>7, <1>8, <1>9 DEF WalkPart
-----------------------------------------------------------------------------
(* What is on the disk.                                                    *)

LEMMA WillCut ==
    ASSUME NEW limit, disk' = disk, loc'.queue = <<>>,
           \A j \in 1..Len(loc.queue) : ~(DATA_START_SECTOR <= loc.queue[j].lba)
    PROVE  WillKeptUnder(limit)
PROOF
  <1> SUFFICES ASSUME NEW l \in Nat, NEW X, DATA_START_SECTOR <= l, Will(l, X)
               PROVE  Will(l, X)'
    BY DEF WillKeptUnder
  <1>1. disk'[l] = disk[l]
    OBVIOUS
  <1>2. \A j \in 1..Len(loc.queue) : loc.queue[j].lba # l
    OBVIOUS
  <1>3. \A j \in 1..Len(loc'.queue) : loc'.queue[j].lba # l
    OBVIOUS
  <1> QED
    BY <1>1, <1>2, <1>3, WillKept

LEMMA DiskDoneSame ==
    ASSUME UNCHANGED <<disk, saved, written>>, loc'.queue = loc.queue, NEW c, DiskDone(c)
    PROVE  DiskDone(c)'
PROOF
  <1>1. \A l, X : Will(l, X) => Will(l, X)'
    BY DEF Will
  <1>2. ASSUME NEW f, NEW size, NEW off, Holds(f, size, off) PROVE Holds(f, size, off)'
    BY <1>1, <1>2 DEF Holds
  <1>3. TableOnDisk' = TableOnDisk /\ Header' = Header
    BY DEF TableOnDisk, Header
  <1>4. ASSUME NEW i, NEW f, NEW size, NEW off, Shown(i, f, size, off, c)
        PROVE  Shown(i, f, size, off, c)'
    BY <1>3, <1>4 DEF Shown
  <1>5. /\ Header # Blank /\ Header[1] <= Len(saved)
        /\ \A i \in 1..Header[1] : \E size \in 0..MaxSize, off \in 0..MAX_FILES * MaxSize :
              Shown(i, saved[i], size, off, c) /\ Holds(saved[i], size, off)
    BY DEF DiskDone
  <1>6. ASSUME NEW i \in 1..Header[1]
        PROVE  \E size \in 0..MaxSize, off \in 0..MAX_FILES * MaxSize :
                  Shown(i, saved[i], size, off, c)' /\ Holds(saved[i], size, off)'
    <2>1. PICK size \in 0..MaxSize, off \in 0..MAX_FILES * MaxSize :
              Shown(i, saved[i], size, off, c) /\ Holds(saved[i], size, off)
      BY <1>5
    <2>2. PICK f : f = saved[i]
      OBVIOUS
    <2>3. Shown(i, f, size, off, c)' /\ Holds(f, size, off)'
      BY <1>2, <1>4, <2>1, <2>2
    <2>4. f = saved'[i]
      BY <2>2
    <2>5. Shown(i, saved[i], size, off, c)' /\ Holds(saved[i], size, off)'
      BY <2>3, <2>4
    <2> QED
      BY <2>5
  <1> QED
    BY <1>3, <1>5, <1>6 DEF DiskDone

(* A sector of the table that has been written shows the table. *)
LEMMA SectorShown ==
    ASSUME TypeInv, NEW u \in 1..TableUnits, NEW t, disk[SectorOf(u)] = TableSector(SectorOf(u), t)
    PROVE  TableOnDisk[u] = IF u \in DOMAIN t THEN t[u] ELSE Blank
PROOF
  <1> DEFINE s == SectorOf(u)
             x == TableSector(s, t)
  <1>1. u \in Nat \ {0} /\ u <= TableUnits /\ SectorUnits \in Nat \ {0}
    BY Numbers
  <1>2. /\ PlaceIn(u) \in 1..SectorUnits /\ (s - 1) * SectorUnits + PlaceIn(u) = u
    BY <1>1, UnitPlace
  <1>3. DOMAIN x = 1..SectorUnits /\ x[PlaceIn(u)] = IF u \in DOMAIN t THEN t[u] ELSE Blank
    BY <1>2 DEF TableSector
  <1>4. x # Blank
    BY <1>1, <1>3 DEF Blank
  <1>5. TableOnDisk[u] = IF disk[s] = Blank THEN Blank ELSE disk[s][PlaceIn(u)]
    BY TableFacts
  <1> QED
    BY <1>3, <1>4, <1>5

LEMMA TablesShown ==
    ASSUME TypeInv, WalkInv, fault = "none", pc = "tables", NEW c \in 0..TableSectors,
           c = TableSectors - Len(loc.queue),
           \A s \in 0..TableSectors : s > c => disk[s] = Blank,
           NEW i \in 1..loc.node - 1, NEW f, NEW size, NEW off, Entry(loc.table, i, f, size, off)
    PROVE  Shown(i, f, size, off, c)
PROOF
  <1>1. WalkPart /\ loc.table \in Tabled
    BY WalkParts DEF InSave, TypeInv
  <1>2. \A s \in 0..c : disk[s] = OfTable(s)
    BY <1>1 DEF WalkPart, AtTables
  <1>3. i \in 1..MAX_FILES
    BY TypeParts, Numbers
  <1>4. DOMAIN loc.table = InTable
    BY <1>1 DEF Tabled
  <1> SUFFICES ASSUME NEW k \in 1..EntryUnits, At(i) + k <= TableUnits
               PROVE  TableOnDisk[At(i) + k] =
                        IF SectorOf(At(i) + k) <= c THEN UnitOf(f, size, off, k) ELSE Blank
    BY DEF Shown
  <1> DEFINE u == At(i) + k
  <1>5. u \in InTable /\ u \in Nat \ {0} /\ u \in 1..TableUnits
    <2>1. u \in InTable
      BY <1>3, EndFacts
    <2>2. u \in Nat \ {0}
      BY <2>1, Numbers DEF InTable
    <2> QED
      BY <2>1, <2>2, Numbers
  <1>6. SectorOf(u) \in 1..TableSectors /\ TableSectors \in Nat
    BY <1>5, UnitPlace, Numbers
  <1>7. loc.table[u] = UnitOf(f, size, off, k)
    BY DEF Entry
  <1> HIDE DEF u
  <1>8. CASE SectorOf(u) <= c
    <2>1. disk[SectorOf(u)] = TableSector(SectorOf(u), loc.table)
      BY <1>2, <1>6, <1>8 DEF OfTable
    <2>2. TableOnDisk[u] = loc.table[u]
      BY <1>4, <1>5, <2>1, SectorShown
    <2> QED
      BY <1>7, <1>8, <2>2 DEF u
  <1>9. CASE ~(SectorOf(u) <= c)
    <2>1. disk[SectorOf(u)] = Blank
      BY <1>6, <1>9
    <2>2. TableOnDisk[u] = Blank
      BY <1>5, <2>1, TableFacts
    <2> QED
      BY <1>9, <2>2 DEF u
  <1> QED
    BY <1>8, <1>9

(* A save that ends in the tables, by itself or because the machine stops. *)
LEMMA TablesDone ==
    ASSUME TypeInv, WalkInv, fault = "none", pc = "tables", NEW c \in 0..TableSectors,
           c = TableSectors - Len(loc.queue),
           \A s \in 0..TableSectors : s > c => disk[s] = Blank,
           UNCHANGED <<disk, saved, written>>, loc'.queue = <<>>
    PROVE  DiskDone(c)' /\ Header' = <<loc.node - 1>>
PROOF
  <1> DEFINE n == loc.node - 1
  <1>1. /\ Same /\ n <= Len(saved) /\ AtTables /\ Done(loc.table, n, loc.sector_offset)
    <2>1. WalkPart
      BY WalkParts DEF InSave
    <2> QED
      BY <2>1 DEF WalkPart
  <1>2. n \in Nat /\ loc.sector_offset \in Nat /\ DATA_START_SECTOR > TableSectors
        /\ DATA_START_SECTOR \in Nat /\ TableSectors \in Nat
    BY TypeParts, Numbers
  <1>3. Header' = <<n>>
    <2>1. 0 \in 0..c
      OBVIOUS
    <2>2. disk[0] = OfTable(0)
      BY <1>1, <2>1 DEF AtTables
    <2> QED
      BY <2>2 DEF OfTable, Header
  <1>4. WillKeptUnder(loc.sector_offset)
    <2>1. Len(loc.queue) \in Nat
      BY TypeParts
    <2>2. \A j \in 1..Len(loc.queue) : loc.queue[j].lba = TableSectors - Len(loc.queue) + j
      BY <1>1 DEF AtTables
    <2>3. \A j \in 1..Len(loc.queue) : ~(DATA_START_SECTOR <= loc.queue[j].lba)
      <3> SUFFICES ASSUME NEW j \in 1..Len(loc.queue)
                   PROVE  ~(DATA_START_SECTOR <= loc.queue[j].lba)
        OBVIOUS
      <3> DEFINE m == Len(loc.queue)
                 l == loc.queue[j].lba
      <3>1. m \in Nat /\ j \in 1..m /\ l = TableSectors - m + j
        BY <2>1, <2>2
      <3> HIDE DEF m, l
      <3>2. ~(DATA_START_SECTOR <= l)
        BY <1>2, <3>1
      <3> QED
        BY <3>2 DEF l
    <2> QED
      BY <2>3, WillCut
  <1>5. DoneThen(loc.table, n, loc.sector_offset)
    <2>1. SameEntries(loc.table, loc.table, n) /\ written \subseteq written'
      BY DEF SameEntries
    <2> QED
      BY <1>1, <1>2, <1>4, <2>1, DoneKept, Zenon
  <1>6. TableOnDisk' = TableOnDisk
    BY DEF TableOnDisk
  <1>7. ASSUME NEW i \in 1..n
        PROVE  \E size \in 0..MaxSize, off \in 0..MAX_FILES * MaxSize :
                  Shown(i, saved[i], size, off, c)' /\ Holds(saved[i], size, off)'
    <2>1. PICK size \in 0..MaxSize, off \in 0..MAX_FILES * MaxSize :
              /\ Entry(loc.table, i, saved[i], size, off)
              /\ \A f : f = saved[i] => Holds(f, size, off)'
      BY <1>5 DEF DoneThen
    <2>2. PICK f : f = saved[i]
      OBVIOUS
    <2>3. Shown(i, f, size, off, c)
      BY <2>1, <2>2, TablesShown
    <2>4. Shown(i, f, size, off, c)'
      BY <1>6, <2>3 DEF Shown
    <2>5. Holds(f, size, off)' /\ f = saved'[i]
      BY <2>1, <2>2
    <2>6. Shown(i, saved[i], size, off, c)' /\ Holds(saved[i], size, off)'
      BY <2>4, <2>5
    <2> QED
      BY <2>6
  <1>8. n <= Len(saved')
    BY <1>1
  <1>9. Header' # Blank /\ Header'[1] = n
    BY <1>3 DEF Blank
  <1>10. \A i \in 1..Header'[1] : \E size \in 0..MaxSize, off \in 0..MAX_FILES * MaxSize :
             Shown(i, saved[i], size, off, c)' /\ Holds(saved[i], size, off)'
    BY <1>7, <1>9
  <1> QED
    BY <1>3, <1>8, <1>9, <1>10 DEF DiskDone

LEMMA DiskAtRest ==
    ASSUME TypeInv, DoneInv, FirstInv, ~InSave, ~InSave',
           UNCHANGED <<disk, saved, written, complete, saves>>, loc'.queue = loc.queue,
           saves = 0 => \A i \in 1..Len(files') : Own(files'[i])
    PROVE  DoneInv' /\ FirstInv'
PROOF
  <1>1. Header' = Header
    BY DEF Header
  <1>2. \A c : DiskDone(c) => DiskDone(c)'
    <2> SUFFICES ASSUME NEW c, DiskDone(c) PROVE DiskDone(c)'
      OBVIOUS
    <2> QED
      BY DiskDoneSame
  <1>3. DoneInv'
    <2> SUFFICES ASSUME complete
                 PROVE  DiskDone(TableSectors)' /\ (Header'[1] = Len(saved') \/ Header'[1] = MAX_FILES)
      BY DEF DoneInv
    <2>1. DiskDone(TableSectors) /\ (Header[1] = Len(saved) \/ Header[1] = MAX_FILES)
      BY DEF DoneInv
    <2> QED
      BY <1>1, <2>1, DiskDoneSame
  <1>4. ASSUME saves = 0
        PROVE  /\ ~complete' /\ \A s \in 0..TableSectors : disk'[s] = Blank
               /\ \A i \in 1..Len(files') : Own(files'[i])
    BY <1>4 DEF FirstInv
  <1>5. ASSUME saves = 1
        PROVE  /\ \A i \in 1..Len(saved') : Own(saved'[i])
               /\ ~complete' => Header' = Blank \/ \E c \in 0..TableSectors : DiskDone(c)'
    BY <1>1, <1>2, <1>5 DEF FirstInv
  <1>6. FirstInv'
    BY <1>4, <1>5 DEF FirstInv, InSave
  <1> QED
    BY <1>3, <1>6

LEMMA DiskInSave ==
    ASSUME TypeInv, FirstInv, InSave, InSave', UNCHANGED <<saved, saves, complete>>,
           saves = 1 /\ pc' # "tables" => \A s \in 0..TableSectors : disk'[s] = Blank,
           saves = 1 /\ pc' = "tables" =>
               \A s \in 0..TableSectors : s > TableSectors - Len(loc'.queue) => disk'[s] = Blank
    PROVE  DoneInv' /\ FirstInv'
PROOF
  <1>1. saves # 0 /\ ~complete
    BY DEF FirstInv, TypeInv
  <1>2. saves = 1 => \A i \in 1..Len(saved) : Own(saved[i])
    BY DEF FirstInv
  <1>3. DoneInv'
    BY <1>1 DEF DoneInv
  <1>4. FirstInv'
    <2>1. saves' # 0
      BY <1>1
    <2>2. saves' = 1 => \A i \in 1..Len(saved') : Own(saved'[i])
      BY <1>2
    <2>3. saves' = 1 /\ pc' \in {"entry", "sectors", "copy"} => \A s \in 0..TableSectors : disk'[s] = Blank
      OBVIOUS
    <2> QED
      BY <2>1, <2>2, <2>3 DEF FirstInv
  <1> QED
    BY <1>3, <1>4

LEMMA DiskTouch ==
    ASSUME DiskInv, NEW n \in Created, fs_touch(n)
    PROVE  DoneInv' /\ FirstInv'
PROOF
  <1> DEFINE f == [name |-> n, data |-> <<>>, buffer |-> FALSE]
  <1>1. TypeInv /\ DoneInv /\ FirstInv
    BY DEF DiskInv
  <1>2. /\ ~InSave /\ ~InSave' /\ loc'.queue = loc.queue
        /\ UNCHANGED <<disk, saved, written, complete, saves>>
    BY DEF fs_touch, Up, InSave
  <1>3. ASSUME saves = 0, NEW i \in 1..Len(files') PROVE Own(files'[i])
    <2>1. files' = Prepended(f, files) /\ files \in Seq(Files)
      BY <1>1, TypeTouch, TypeParts
    <2>2. f \in Files
      <3>1. n \in Named /\ <<>> \in Seq(Marks) /\ Len(<<>>) <= MaxSize
        BY NamedFacts, Numbers DEF Names
      <3> QED
        BY <3>1, MadeFile
    <2>3. Own(f)
      BY DEF Own
    <2> HIDE DEF f
    <2>4. /\ Len(files') = Len(files) + 1 /\ files'[1] = f
          /\ \A k \in 1..Len(files) : files'[k + 1] = files[k]
      <3> DEFINE r == Prepended(f, files)
      <3>1. /\ Len(r) = Len(files) + 1 /\ r[1] = f /\ \A k \in 1..Len(files) : r[k + 1] = files[k]
        <4>1. files \in Seq(Files)
          BY <2>1
        <4> QED
          BY <2>2, <4>1, PrependFacts
      <3>2. files' = r
        BY <2>1 DEF f
      <3> HIDE DEF r
      <3> QED
        BY <3>1, <3>2
    <2>5. \A k \in 1..Len(files) : Own(files[k])
      BY <1>1, <1>3 DEF FirstInv
    <2>6. CASE i = 1
      BY <2>3, <2>4, <2>6
    <2>7. CASE i # 1
      <3>1. i - 1 \in 1..Len(files) /\ (i - 1) + 1 = i
        BY <2>1, <2>4, <2>7
      <3> QED
        BY <2>4, <2>5, <3>1
    <2> QED
      BY <2>6, <2>7
  <1> QED
    BY <1>1, <1>2, <1>3, DiskAtRest

LEMMA DiskDelete ==
    ASSUME DiskInv, NEW i \in DOMAIN files, fs_delete(i)
    PROVE  DoneInv' /\ FirstInv'
PROOF
  <1>1. TypeInv /\ WalkInv /\ DoneInv /\ FirstInv
    BY DEF DiskInv
  <1>2. /\ Removed(i) /\ fault = "none" /\ pc # "off" /\ loc'.queue = loc.queue
        /\ UNCHANGED <<disk, pc, loc, saves, complete, written>>
    BY <1>1, RemovedWhen
  <1>3. ASSUME saves = 0, NEW k \in 1..Len(files') PROVE Own(files'[k])
    <2>1. \E j \in 1..Len(files) : files'[k] = files[j]
      BY <1>1, TypeDelete
    <2>2. \A j \in 1..Len(files) : Own(files[j])
      BY <1>1, <1>3 DEF FirstInv
    <2> QED
      BY <2>1, <2>2
  <1>4. InSave' <=> InSave
    BY <1>2 DEF InSave
  <1>5. CASE ~InSave
    <2>1. saved' = saved
      BY <1>2, <1>5 DEF Removed
    <2> QED
      BY <1>1, <1>2, <1>3, <1>4, <1>5, <2>1, DiskAtRest
  <1>6. CASE InSave
    <2>1. saves # 0 /\ ~complete
      BY <1>1, <1>6 DEF FirstInv, TypeInv
    <2>2. ASSUME saves = 1, NEW k \in 1..Len(saved') PROVE Own(saved'[k])
      <3>1. \E j \in 1..Len(saved) : saved'[k] = saved[j]
        BY <1>1, TypeDelete
      <3>2. \A j \in 1..Len(saved) : Own(saved[j])
        BY <1>1, <2>2 DEF FirstInv
      <3> QED
        BY <3>1, <3>2
    <2>3. DoneInv'
      BY <1>2, <2>1 DEF DoneInv
    <2>4. FirstInv'
      BY <1>1, <1>2, <1>4, <1>6, <2>1, <2>2 DEF FirstInv
    <2> QED
      BY <2>3, <2>4
  <1> QED
    BY <1>5, <1>6

LEMMA DiskWrite ==
    ASSUME DiskInv, NEW i \in DOMAIN files, SYS_WRITE(i)
    PROVE  DoneInv' /\ FirstInv'
PROOF
  <1>1. TypeInv /\ DoneInv /\ FirstInv
    BY DEF DiskInv
  <1>2. UNCHANGED <<disk, pc, loc, gone, fault, saves, complete, saved>> /\ pc # "off"
    BY Zenon DEF SYS_WRITE
  <1>3. /\ Len(files') = Len(files) /\ i \in 1..Len(files) /\ Grown(files[i], files'[i])
        /\ \A j \in 1..Len(files) : j # i => files'[j] = files[j]
        /\ written' = IF pc = "up" THEN written ELSE written \cup {files[i].name}
    BY <1>1, WriteFacts
  <1>4. CASE ~InSave
    <2>1. pc = "up"
      BY <1>1, <1>2, <1>4 DEF TypeInv, InSave
    <2>2. ASSUME saves = 0, NEW k \in 1..Len(files') PROVE Own(files'[k])
      <3>1. \A j \in 1..Len(files) : Own(files[j])
        BY <1>1, <2>2 DEF FirstInv
      <3>2. Own(files[i]) => Own(files'[i])
        BY <1>3 DEF Grown
      <3> QED
        BY <1>3, <2>2, <3>1, <3>2
    <2>3. ~InSave'
      BY <1>2, <1>4 DEF InSave
    <2>4. written' = written
      BY <1>3, <2>1
    <2> QED
      BY <1>1, <1>2, <1>4, <2>2, <2>3, <2>4, DiskAtRest
  <1>5. CASE InSave
    <2>1. InSave'
      BY <1>2, <1>5 DEF InSave
    <2>2. saves = 1 /\ pc' # "tables" => \A s \in 0..TableSectors : disk'[s] = Blank
      BY <1>1, <1>2, <1>5 DEF FirstInv, InSave
    <2>3. saves = 1 /\ pc' = "tables" =>
             \A s \in 0..TableSectors : s > TableSectors - Len(loc'.queue) => disk'[s] = Blank
      BY <1>1, <1>2 DEF FirstInv
    <2> QED
      BY <1>1, <1>2, <1>5, <2>1, <2>2, <2>3, DiskInSave
  <1> QED
    BY <1>4, <1>5

LEMMA DiskSave ==
    ASSUME DiskInv, fs_save_to_disk
    PROVE  DoneInv' /\ FirstInv'
PROOF
  <1>1. TypeInv /\ FirstInv
    BY DEF DiskInv
  <1>2. /\ saved' = files /\ pc' = "entry" /\ saves' = saves + 1 /\ complete' = FALSE
        /\ disk' = disk /\ saves \in Nat
    <2>1. /\ saved' = files /\ pc' = "entry" /\ saves' = saves + 1 /\ complete' = FALSE
          /\ disk' = disk
      BY <1>1, TypeSave
    <2>2. saves \in 0..MaxSaves
      BY <1>1 DEF TypeInv
    <2> QED
      BY <2>1, <2>2, Numbers
  <1>3. DoneInv'
    BY <1>2 DEF DoneInv
  <1>4. ASSUME saves' = 1
        PROVE  (\A i \in 1..Len(saved') : Own(saved'[i])) /\ \A s \in 0..TableSectors : disk'[s] = Blank
    <2>1. saves = 0
      BY <1>2, <1>4
    <2> QED
      BY <1>1, <1>2, <2>1 DEF FirstInv
  <1>5. saves' # 0
    BY <1>2
  <1>6. FirstInv'
    BY <1>2, <1>4, <1>5 DEF FirstInv, InSave
  <1> QED
    BY <1>3, <1>6

(* Steps of the walk write nothing. *)
LEMMA DiskWalk ==
    ASSUME DiskInv, flatten_entry \/ flatten_sectors \/ flatten_copy \/ save_tables
    PROVE  DoneInv' /\ FirstInv'
PROOF
  <1>1. TypeInv /\ FirstInv
    BY DEF DiskInv
  <1>2. /\ pc \in {"entry", "sectors", "copy"} /\ pc' \in {"entry", "sectors", "copy", "tables"}
        /\ UNCHANGED <<disk, saved, saves, complete>>
    <2>1. CASE flatten_entry
      BY <1>1, <2>1, TypeEntry
    <2>2. CASE flatten_sectors
      BY <1>1, <2>2, TypeSectors
    <2>3. CASE flatten_copy
      BY <1>1, <2>3, TypeCopy
    <2>4. CASE save_tables
      BY <1>1, <2>4, TypeTables
    <2> QED
      BY <2>1, <2>2, <2>3, <2>4
  <1>3. InSave /\ InSave'
    BY <1>2 DEF InSave
  <1>4. saves = 1 => \A s \in 0..TableSectors : disk'[s] = Blank
    BY <1>1, <1>2 DEF FirstInv
  <1> QED
    BY <1>1, <1>2, <1>3, <1>4, DiskInSave

LEMMA DiskWriteSector ==
    ASSUME DiskInv, write_sector
    PROVE  DoneInv' /\ FirstInv'
PROOF
  <1> DEFINE q == loc.queue
             p == loc'.queue
             T == TableSectors
  <1>1. TypeInv /\ FirstInv /\ WalkInv
    BY DEF DiskInv
  <1>2. /\ InSave /\ fault = "none" /\ Len(q) \in Nat \ {0}
        /\ \A l \in Lba : disk'[l] = IF l = q[1].lba THEN q[1].sector ELSE disk[l]
        /\ Len(p) = Len(q) - 1
        /\ UNCHANGED <<files, pc, gone, fault, calls, saves, complete, saved, written>>
    BY <1>1, TypeWriteSector
  <1>3. WalkPart /\ 1 \in 1..Len(q) /\ q # <<>>
    BY <1>1, <1>2, WalkParts
  <1>4. T \in Nat /\ 0..T \subseteq Lba /\ DATA_START_SECTOR > T /\ DATA_START_SECTOR \in Nat
    BY Numbers, LbaFacts
  <1>5. pc \in {"entry", "tables"}
    BY <1>2, <1>3 DEF WalkPart, AtFile, InSave
  <1>6. ASSUME saves = 1, pc = "entry", NEW s \in 0..T PROVE disk'[s] = Blank
    <2>1. q[1].lba >= DATA_START_SECTOR
      BY <1>3, <1>6 DEF WalkPart, AtEntry
    <2>2. q[1].lba \in Nat
      <3>1. q[1].lba \in Lba
        BY <1>1, TypeWriteSector
      <3> QED
        BY <3>1, LbaFacts
    <2>3. s # q[1].lba /\ s \in Lba
      BY <1>4, <1>6, <2>1, <2>2
    <2>4. disk[s] = Blank
      BY <1>1, <1>6 DEF FirstInv
    <2> QED
      BY <1>2, <2>3, <2>4
  <1>7. ASSUME saves = 1, pc = "tables", NEW s \in 0..T, s > T - Len(p) PROVE disk'[s] = Blank
    <2>1. q[1].lba = T - Len(q) + 1
      BY <1>3, <1>7 DEF WalkPart, AtTables
    <2>2. s # q[1].lba /\ s \in Lba /\ s > T - Len(q)
      <3> DEFINE m == Len(q)
                 n == Len(p)
                 x == q[1].lba
      <3>1. m \in Nat \ {0} /\ n = m - 1
        BY <1>2
      <3>2. T \in Nat /\ s \in Lba /\ s \in 0..T
        BY <1>4
      <3>3. s > T - n
        BY <1>7
      <3>4. x = T - m + 1
        BY <2>1
      <3> HIDE DEF m, n, x, T
      <3>5. s \in Nat
        BY <3>2
      <3>6. s # x /\ s > T - m
        BY <3>1, <3>2, <3>3, <3>4, <3>5
      <3> QED
        BY <3>2, <3>6 DEF m, x
    <2>3. disk[s] = Blank
      BY <1>1, <1>7, <2>2 DEF FirstInv
    <2> QED
      BY <1>2, <2>2, <2>3
  <1>8. InSave'
    BY <1>2 DEF InSave
  <1> QED
    BY <1>1, <1>2, <1>5, <1>6, <1>7, <1>8, DiskInSave

LEMMA DiskReturns ==
    ASSUME DiskInv, save_returns
    PROVE  DoneInv' /\ FirstInv'
PROOF
  <1>1. TypeInv /\ FirstInv /\ WalkInv
    BY DEF DiskInv
  <1>2. /\ pc = "tables" /\ fault = "none" /\ loc.queue = <<>> /\ loc'.queue = <<>>
        /\ pc' = "up" /\ complete' = TRUE
        /\ UNCHANGED <<disk, files, fault, calls, saves, saved, written>>
    BY <1>1, TypeReturns
  <1>3. TableSectors = TableSectors - Len(loc.queue) /\ TableSectors \in 0..TableSectors
        /\ TableSectors \in Nat
    BY <1>2, Numbers
  <1>4. \A s \in 0..TableSectors : s > TableSectors => disk[s] = Blank
    BY <1>3
  <1>5. DiskDone(TableSectors)' /\ Header' = <<loc.node - 1>>
    BY <1>1, <1>2, <1>3, <1>4, TablesDone
  <1>6. Header'[1] = Len(saved') \/ Header'[1] = MAX_FILES
    <2>1. WalkPart
      BY <1>1, <1>2, WalkParts DEF InSave
    <2>2. /\ loc.node - 1 <= Len(saved) /\ (loc.node > Len(saved) \/ loc.node > MAX_FILES)
      <3>1. Same /\ AtTables /\ loc.node - 1 <= Len(saved)
        BY <1>2, <2>1 DEF WalkPart
      <3>2. Len(files) + gone = Len(saved) /\ ~(loc.node - gone <= Len(files) /\ loc.node <= MAX_FILES)
        BY <3>1 DEF Same, AtTables, Visiting
      <3>3. loc.node \in Nat /\ Len(files) \in Nat /\ Len(saved) \in Nat /\ MAX_FILES \in Nat /\ gone \in Nat
        BY <1>1, TypeParts, Numbers DEF TypeInv
      <3> QED
        BY <3>1, <3>2, <3>3
    <2>3. loc.node \in 1..MAX_FILES + 1 /\ Len(saved) \in Nat /\ MAX_FILES \in Nat
      BY <1>1, TypeParts, Numbers
    <2>4. loc.node - 1 = Len(saved) \/ loc.node - 1 = MAX_FILES
      BY <2>2, <2>3
    <2>5. Header'[1] = loc.node - 1
      BY <1>5
    <2> QED
      BY <1>2, <2>4, <2>5
  <1>7. DoneInv'
    BY <1>5, <1>6 DEF DoneInv
  <1>8. saves # 0 /\ (saves = 1 => \A i \in 1..Len(saved) : Own(saved[i]))
    BY <1>1, <1>2 DEF FirstInv, InSave
  <1>9. FirstInv'
    BY <1>2, <1>8 DEF FirstInv
  <1> QED
    BY <1>7, <1>9

LEMMA DiskStop ==
    ASSUME DiskInv, Stop
    PROVE  DoneInv' /\ FirstInv'
PROOF
  <1>1. TypeInv /\ FirstInv /\ WalkInv /\ DoneInv
    BY DEF DiskInv
  <1>2. /\ fault = "none" /\ pc' = "off" /\ loc'.queue = <<>> /\ files' = <<>>
        /\ UNCHANGED <<disk, fault, calls, saves, complete, saved, written>>
    BY <1>1, TypeStop DEF Stop
  <1>3. ~InSave'
    BY <1>2 DEF InSave
  <1>4. CASE ~InSave
    <2>1. loc.queue = <<>>
      BY <1>1, <1>4, LocFacts DEF TypeInv
    <2>2. \A i \in 1..Len(files') : Own(files'[i])
      BY <1>2
    <2> QED
      BY <1>1, <1>2, <1>3, <1>4, <2>1, <2>2, DiskAtRest
  <1>5. CASE InSave
    <2>1. ~complete /\ saves # 0 /\ (saves = 1 => \A i \in 1..Len(saved) : Own(saved[i]))
      BY <1>1, <1>5 DEF TypeInv, FirstInv
    <2>2. DoneInv'
      BY <1>2, <2>1 DEF DoneInv
    <2>3. ASSUME saves = 1 PROVE Header' = Blank \/ \E c \in 0..TableSectors : DiskDone(c)'
      <3>1. CASE pc # "tables"
        <4>1. disk[0] = Blank
          <5>1. \A s \in 0..TableSectors : disk[s] = Blank
            BY <1>1, <1>5, <2>3, <3>1 DEF FirstInv, InSave
          <5>2. 0 \in 0..TableSectors
            BY Numbers
          <5> QED
            BY <5>1, <5>2
        <4> QED
          BY <1>2, <4>1 DEF Header
      <3>2. CASE pc = "tables"
        <4> DEFINE c == TableSectors - Len(loc.queue)
        <4>1. WalkPart
          BY <1>1, <1>2, <1>5, WalkParts
        <4>2. Len(loc.queue) \in Nat /\ Len(loc.queue) <= TableSectors + 1 /\ TableSectors \in Nat
          BY <1>1, <3>2, <4>1, TypeParts, Numbers DEF WalkPart, AtTables
        <4>3. \A s \in 0..TableSectors : s > c => disk[s] = Blank
          BY <1>1, <2>3, <3>2 DEF FirstInv
        <4>4. CASE c \in 0..TableSectors
          <5>1. PICK d \in 0..TableSectors : d = c
            BY <4>4
          <5>2. DiskDone(d)'
            <6>1. d = TableSectors - Len(loc.queue) /\ \A s \in 0..TableSectors : s > d => disk[s] = Blank
              BY <4>3, <5>1
            <6> QED
              BY <1>1, <1>2, <3>2, <5>1, <6>1, TablesDone
          <5> QED
            BY <5>2
        <4>5. CASE c \notin 0..TableSectors
          <5>1. 0 > c /\ 0 \in 0..TableSectors
            BY <4>2, <4>5
          <5>2. disk[0] = Blank
            BY <4>3, <5>1
          <5> QED
            BY <1>2, <5>2 DEF Header
        <4> QED
          BY <4>4, <4>5
      <3> QED
        BY <3>1, <3>2
    <2>4. FirstInv'
      BY <1>2, <2>1, <2>3 DEF FirstInv
    <2> QED
      BY <2>2, <2>4
  <1> QED
    BY <1>4, <1>5

LEMMA DiskBoot ==
    ASSUME DiskInv, boot
    PROVE  DoneInv' /\ FirstInv'
PROOF
  <1>1. TypeInv /\ FirstInv /\ DoneInv
    BY DEF DiskInv
  <1>2. /\ pc = "off" /\ pc' \in {"up", "off"}
        /\ \/ fault' = "stale" /\ files' = files /\ pc' = "off"
           \/ ~Overrun /\ files' = init_fs
        /\ UNCHANGED <<disk, loc, gone, calls, saves, complete, saved, written>>
    BY <1>1, TypeBoot
  <1>3. ~InSave /\ ~InSave'
    BY <1>2 DEF InSave
  <1>4. ASSUME saves = 0, NEW i \in 1..Len(files') PROVE Own(files'[i])
    <2>1. CASE files' = files
      BY <1>1, <1>4, <2>1 DEF FirstInv
    <2>2. CASE ~Overrun /\ files' = init_fs
      <3>1. Header = Blank
        <4>1. \A s \in 0..TableSectors : disk[s] = Blank
          BY <1>1, <1>4 DEF FirstInv
        <4>2. 0 \in 0..TableSectors
          BY Numbers
        <4> QED
          BY <4>1, <4>2 DEF Header
      <3>2. Reverse(Modules) \in Seq(Files) /\ Len(Reverse(Modules)) = Len(Modules)
            /\ \A k \in 1..Len(Modules) : \E j \in 1..Len(Modules) : Reverse(Modules)[k] = Modules[j]
        BY ModuleFacts, ReverseFacts
      <3>3. files' = Reverse(Modules)
        BY <1>1, <2>2, <3>1, <3>2, LoadedList DEF init_fs
      <3> QED
        BY <1>4, <3>2, <3>3, ModuleFacts
    <2> QED
      BY <1>2, <2>1, <2>2
  <1> QED
    BY <1>1, <1>2, <1>3, <1>4, DiskAtRest
-----------------------------------------------------------------------------
(* What a boot finds.                                                      *)

(* Entry i of the table on the disk is, in full, that of f. *)
Whole(i, f, size, off) ==
    \A k \in 1..EntryUnits : At(i) + k <= TableUnits =>
        TableOnDisk[At(i) + k] = UnitOf(f, size, off, k)

(* No sector for files is waiting to be written. *)
Settled == \A l \in Nat : \A X : DATA_START_SECTOR <= l /\ Will(l, X) => disk[l] \in X

LEMMA NotBlank ==
    ASSUME NEW x
    PROVE  <<x>> # Blank
PROOF
  <1>1. Len(<<x>>) = 1 /\ Len(Blank) = 0
    BY DEF Blank
  <1> QED
    BY <1>1

LEMMA EntryRead ==
    ASSUME TypeInv, ~Overrun, Header # Blank, NEW i \in 1..Header[1], NEW f \in Files,
           NEW size, NEW off, Whole(i, f, size, off)
    PROVE  i \in Entries /\ NameAt(i) = f.name /\ SizeAt(i) = <<size, off>>
PROOF
  <1> DEFINE n == f.name
  <1>1. /\ n \in Seq(Units) /\ Len(n) \in 1..NameUnits /\ NameUnits \in Nat \ {0}
        /\ EntryUnits = NameUnits + 1 /\ TableUnits \in Nat
    BY FileFacts, Numbers
  <1>2. Header[1] \in 0..MAX_FILES /\ Count = Header[1] /\ i \in Nat \ {0} /\ i \in 1..Count
    BY HeaderFacts, Numbers
  <1>3. At(i) \in Nat /\ At(i + 1) = At(i) + EntryUnits
    BY <1>2, AtFacts
  <1>4. \A k \in 1..EntryUnits : At(i) + k <= TableUnits =>
            TableOnDisk[At(i) + k] = IF k <= Len(n) THEN <<n[k]>>
                                     ELSE IF k = EntryUnits THEN <<size, off>> ELSE Blank
    BY DEF Whole, UnitOf
  <1> HIDE DEF n
  <1>5. At(i + 1) <= TableUnits
    <2> SUFFICES ASSUME At(i + 1) > TableUnits PROVE FALSE
      BY <1>1, <1>3
    <2>1. ~(At(i) + 1 > TableUnits \/ TableOnDisk[At(i) + 1] # Blank)
      BY <1>2 DEF Overrun
    <2>2. At(i) + 1 <= TableUnits /\ 1 \in 1..EntryUnits /\ 1 <= Len(n)
      BY <1>1, <1>3, <2>1
    <2>3. TableOnDisk[At(i) + 1] = <<n[1]>>
      BY <1>4, <2>2
    <2> QED
      BY <2>1, <2>3, NotBlank
  <1>6. \A k \in 1..EntryUnits :
            TableOnDisk[At(i) + k] = IF k <= Len(n) THEN <<n[k]>>
                                     ELSE IF k = EntryUnits THEN <<size, off>> ELSE Blank
    <2>1. \A k \in 1..EntryUnits : At(i) + k <= TableUnits
      BY <1>1, <1>3, <1>5
    <2> QED
      BY <1>4, <2>1
  <1>7. i \in Entries
    <2>1. 1 \in 1..EntryUnits /\ 1 <= Len(n)
      BY <1>1
    <2>2. TableOnDisk[At(i) + 1] # Blank
      <3>1. TableOnDisk[At(i) + 1] = <<n[1]>>
        BY <1>6, <2>1
      <3> QED
        BY <3>1, NotBlank
    <2> QED
      BY <1>2, <2>2 DEF Entries
  <1>8. SizeAt(i) = <<size, off>>
    <2>1. EntryUnits \in 1..EntryUnits /\ ~(EntryUnits <= Len(n))
      BY <1>1
    <2>2. TableOnDisk[At(i + 1)] = <<size, off>>
      BY <1>3, <1>6, <2>1
    <2> QED
      BY <2>2 DEF SizeAt, Blank
  <1>9. NameAt(i) = n
    <2>1. PICK m \in 1..NameUnits + 1 :
              /\ NameAt(i) = [k \in 1..m - 1 |-> TableOnDisk[At(i) + k][1]]
              /\ \A k \in 1..m - 1 : TableOnDisk[At(i) + k] # Blank
              /\ m <= NameUnits => TableOnDisk[At(i) + m] = Blank
      BY NameEnd
    <2>2. ASSUME m - 1 < Len(n) PROVE FALSE
      <3>1. m \in 1..EntryUnits /\ m <= Len(n) /\ m <= NameUnits
        BY <1>1, <2>2
      <3>2. TableOnDisk[At(i) + m] = <<n[m]>> /\ TableOnDisk[At(i) + m] = Blank
        BY <1>6, <2>1, <3>1
      <3> QED
        BY <3>2, NotBlank
    <2>3. ASSUME m - 1 > Len(n) PROVE FALSE
      <3> DEFINE k == Len(n) + 1
      <3>1. k \in 1..m - 1 /\ k \in 1..EntryUnits /\ ~(k <= Len(n)) /\ k # EntryUnits
        BY <1>1, <2>3
      <3> HIDE DEF k
      <3>2. TableOnDisk[At(i) + k] = Blank
        BY <1>6, <3>1
      <3> QED
        BY <2>1, <3>1, <3>2
    <2>4. m - 1 = Len(n)
      BY <1>1, <2>2, <2>3
    <2>5. ASSUME NEW k \in 1..Len(n) PROVE TableOnDisk[At(i) + k][1] = n[k]
      <3>1. k \in 1..EntryUnits /\ k <= Len(n)
        BY <1>1
      <3>2. TableOnDisk[At(i) + k] = <<n[k]>>
        BY <1>6, <3>1
      <3> QED
        BY <3>2
    <2>6. n = [k \in 1..Len(n) |-> n[k]]
      BY <1>1
    <2>7. NameAt(i) = [k \in 1..Len(n) |-> TableOnDisk[At(i) + k][1]]
      BY <2>1, <2>4
    <2> QED
      BY <2>5, <2>6, <2>7
  <1> QED
    BY <1>7, <1>8, <1>9 DEF n

LEMMA EntryLoaded ==
    ASSUME TypeInv, ~Overrun, Header # Blank, NEW i \in 1..Header[1], NEW f \in Files,
           NEW size, NEW off, Whole(i, f, size, off), Holds(f, size, off), Settled
    PROVE  /\ i \in Entries /\ Loaded(i) \in Files /\ Loaded(i).name = f.name
           /\ Len(Loaded(i).data) = size /\ Len(f.data) <= size
           /\ Countable(Loaded(i)) /\ Own(f) => Own(Loaded(i))
           /\ f.name \notin written /\ Countable(f) => Loaded(i).data = f.data
PROOF
  <1> DEFINE g == Loaded(i)
             d == g.data
             l == DATA_START_SECTOR + off
  <1>1. i \in Entries /\ NameAt(i) = f.name /\ SizeAt(i) = <<size, off>>
    BY EntryRead
  <1>2. /\ size \in 0..MaxSize /\ off \in 0..MAX_FILES * MaxSize
        /\ off + size <= MAX_FILES * MaxSize
    BY <1>1, SizeFacts
  <1>3. g \in Files /\ g.name = f.name /\ d = ata_read_sectors(l, size)
    BY <1>1, LoadedFacts
  <1>4. /\ d \in Seq(Marks) /\ Len(d) = size
        /\ size < CountRange => \A k \in 1..size : d[k] = disk[l + k - 1]
    BY <1>2, <1>3, ReadFacts
  <1>5. /\ f.name \in Named /\ f.data \in Seq(Marks) /\ size \in Nat
        /\ CountRange \in Nat /\ DATA_START_SECTOR \in Nat /\ off \in Nat
    BY <1>2, FileFacts, Numbers
  <1>6. \A k \in 1..size : l + k - 1 \in Nat /\ DATA_START_SECTOR <= l + k - 1
    BY <1>5
  <1>7. /\ Len(f.data) <= size /\ (f.name \notin written => size = Len(f.data))
        /\ size < CountRange /\ (f.name \in written => MaxSize <= CountRange) =>
             \A k \in 1..size :
                 /\ f.name \notin written => Will(l + k - 1, {f.data[k]})
                 /\ Own(f) => Will(l + k - 1, Sectors(f.name))
    BY DEF Holds
  <1> HIDE DEF d, l, g
  <1>8. ASSUME size < CountRange, f.name \in written => MaxSize <= CountRange, Own(f), NEW k \in 1..size
        PROVE  d[k] \in Sectors(f.name)
    <2>1. Will(l + k - 1, Sectors(f.name))
      BY <1>7, <1>8
    <2>2. disk[l + k - 1] \in Sectors(f.name)
      BY <1>6, <2>1 DEF Settled
    <2> QED
      BY <1>4, <1>8, <2>2
  <1>9. ASSUME Countable(g), Own(f) PROVE Own(g)
    <2>1. size < CountRange /\ (f.name \in written => MaxSize <= CountRange)
      BY <1>3, <1>4, <1>9 DEF Countable, d
    <2>2. \A k \in 1..size : d[k] \in Sectors(f.name)
      BY <1>8, <1>9, <2>1
    <2>3. DOMAIN d = 1..size
      BY <1>4
    <2>4. Own(g) <=> \A k \in DOMAIN d : d[k] \in Sectors(g.name)
      BY DEF Own, d
    <2> QED
      BY <1>3, <2>2, <2>3, <2>4
  <1>10. ASSUME f.name \notin written, Countable(f) PROVE d = f.data
    <2>1. size = Len(f.data) /\ size < CountRange
      BY <1>7, <1>10 DEF Countable
    <2>2. \A k \in 1..size : d[k] = f.data[k]
      <3> SUFFICES ASSUME NEW k \in 1..size PROVE d[k] = f.data[k]
        OBVIOUS
      <3>1. Will(l + k - 1, {f.data[k]})
        BY <1>7, <1>10, <2>1
      <3>2. disk[l + k - 1] \in {f.data[k]}
        BY <1>6, <3>1 DEF Settled
      <3> QED
        BY <1>4, <2>1, <3>2
    <2> QED
      BY <1>4, <1>5, <2>1, <2>2
  <1> QED
    BY <1>1, <1>3, <1>4, <1>7, <1>9, <1>10 DEF d, g

LEMMA SettledWhen ==
    ASSUME TypeInv, WalkInv, ~InSave \/ (pc = "tables" /\ fault = "none")
    PROVE  Settled
PROOF
  <1> SUFFICES ASSUME NEW l \in Nat, NEW X, DATA_START_SECTOR <= l, Will(l, X) PROVE disk[l] \in X
    BY DEF Settled
  <1>1. \A j \in 1..Len(loc.queue) : loc.queue[j].lba # l
    <2>1. CASE ~InSave
      BY <2>1, LocFacts DEF TypeInv
    <2>2. CASE pc = "tables" /\ fault = "none"
      <3>1. AtTables
        BY <2>2, WalkParts DEF InSave, WalkPart
      <3>2. DATA_START_SECTOR \in Nat /\ TableSectors \in Nat /\ DATA_START_SECTOR > TableSectors
            /\ Len(loc.queue) \in Nat
        BY TypeParts, Numbers
      <3> SUFFICES ASSUME NEW j \in 1..Len(loc.queue) PROVE loc.queue[j].lba # l
        OBVIOUS
      <3> DEFINE m == Len(loc.queue)
                 b == loc.queue[j].lba
      <3>3. m \in Nat /\ j \in 1..m /\ b = TableSectors - m + j
        BY <3>1, <3>2 DEF AtTables
      <3> HIDE DEF m, b
      <3>4. b # l
        BY <3>2, <3>3
      <3> QED
        BY <3>4 DEF b
    <2> QED
      BY <2>1, <2>2
  <1> QED
    BY <1>1 DEF Will

LEMMA SavedFiles ==
    ASSUME TypeInv, NEW c, DiskDone(c), ~Overrun, NEW i \in 1..Header[1]
    PROVE  /\ i \in 1..Len(saved) /\ i \in DOMAIN saved /\ saved[i] \in Files
           /\ \E size \in 0..MaxSize, off \in 0..MAX_FILES * MaxSize :
                 Shown(i, saved[i], size, off, c) /\ Holds(saved[i], size, off)
PROOF
  <1>1. /\ Header # Blank /\ Header[1] <= Len(saved) /\ saved \in Seq(Files)
        /\ \E size \in 0..MaxSize, off \in 0..MAX_FILES * MaxSize :
              Shown(i, saved[i], size, off, c) /\ Holds(saved[i], size, off)
    BY TypeParts DEF DiskDone
  <1>2. Header[1] \in 0..MAX_FILES
    BY <1>1, HeaderFacts
  <1>3. i \in 1..Len(saved)
    BY <1>1, <1>2, Numbers
  <1> QED
    BY <1>1, <1>3

LEMMA ShownWhole ==
    ASSUME NEW i \in Nat \ {0}, NEW f, NEW size, NEW off, NEW c \in Nat, Shown(i, f, size, off, c),
           \/ c = TableSectors
           \/ At(i + 1) <= TableUnits /\ TableOnDisk[At(i + 1)] # Blank
    PROVE  Whole(i, f, size, off)
PROOF
  <1> SUFFICES ASSUME NEW k \in 1..EntryUnits, At(i) + k <= TableUnits
               PROVE  TableOnDisk[At(i) + k] = UnitOf(f, size, off, k)
    BY DEF Whole
  <1>1. \A m \in 1..EntryUnits : At(i) + m <= TableUnits =>
           TableOnDisk[At(i) + m] =
               IF SectorOf(At(i) + m) <= c THEN UnitOf(f, size, off, m) ELSE Blank
    BY DEF Shown
  <1>2. /\ At(i) \in Nat /\ At(i + 1) = At(i) + EntryUnits /\ EntryUnits \in Nat \ {0}
        /\ TableUnits \in Nat
    BY AtFacts, Numbers
  <1>3. At(i) + k \in Nat \ {0} /\ At(i) + k <= At(i + 1) /\ At(i + 1) \in Nat \ {0}
    BY <1>2
  <1>4. SectorOf(At(i) + k) <= c
    <2>1. CASE c = TableSectors
      <3>1. SectorOf(At(i) + k) \in 1..TableSectors
        BY <1>3, UnitPlace
      <3> QED
        BY <2>1, <3>1
    <2>2. CASE At(i + 1) <= TableUnits /\ TableOnDisk[At(i + 1)] # Blank
      <3>1. SectorOf(At(i + 1)) <= c
        <4>1. EntryUnits \in 1..EntryUnits
          BY <1>2
        <4> QED
          BY <1>1, <1>2, <2>2, <4>1
      <3>2. SectorOf(At(i) + k) <= SectorOf(At(i + 1))
        BY <1>3, PlaceOrder
      <3>3. SectorOf(At(i) + k) \in Nat /\ SectorOf(At(i + 1)) \in Nat
        BY <1>3, UnitPlace
      <3> QED
        BY <3>1, <3>2, <3>3
    <2> QED
      BY <2>1, <2>2
  <1> QED
    BY <1>1, <1>4

(* Where an entry that is loaded comes from. *)
LEMMA LoadedFrom ==
    ASSUME TypeInv, WalkInv, ~InSave \/ (pc = "tables" /\ fault = "none"), ~Overrun,
           NEW c \in Nat, DiskDone(c), NEW i \in 1..Header[1],
           c = TableSectors \/ (i \in Entries /\ Loaded(i).data # <<>>)
    PROVE  /\ i \in 1..Len(saved) /\ saved[i] \in Files
           /\ i \in Entries /\ Loaded(i) \in Files /\ Loaded(i).name = saved[i].name
           /\ Len(saved[i].data) <= Len(Loaded(i).data)
           /\ Countable(Loaded(i)) /\ Own(saved[i]) => Own(Loaded(i))
           /\ saved[i].name \notin written /\ Countable(saved[i]) => Loaded(i).data = saved[i].data
PROOF
  <1>1. Settled
    BY SettledWhen
  <1>2. i \in 1..Len(saved) /\ saved[i] \in Files
    BY SavedFiles
  <1>3. PICK size \in 0..MaxSize, off \in 0..MAX_FILES * MaxSize :
            Shown(i, saved[i], size, off, c) /\ Holds(saved[i], size, off)
    BY SavedFiles
  <1>4. Header # Blank /\ i \in Nat \ {0}
    <2>1. Header # Blank
      BY DEF DiskDone
    <2>2. Header[1] \in 0..MAX_FILES
      BY <2>1, HeaderFacts
    <2> QED
      BY <2>1, <2>2, Numbers
  <1>5. \/ c = TableSectors
        \/ At(i + 1) <= TableUnits /\ TableOnDisk[At(i + 1)] # Blank
    <2> SUFFICES ASSUME i \in Entries, Loaded(i).data # <<>>
                 PROVE  At(i + 1) <= TableUnits /\ TableOnDisk[At(i + 1)] # Blank
      OBVIOUS
    <2>1. At(i + 1) <= TableUnits
      BY EntryFacts
    <2>2. ASSUME TableOnDisk[At(i + 1)] = Blank PROVE FALSE
      <3>1. SizeAt(i)[1] = 0 /\ SizeAt(i)[2] = 0
        BY <2>2 DEF SizeAt
      <3>2. /\ SizeAt(i)[1] \in 0..MaxSize /\ SizeAt(i)[2] \in 0..MAX_FILES * MaxSize
            /\ SizeAt(i)[2] + SizeAt(i)[1] <= MAX_FILES * MaxSize
        BY SizeFacts
      <3>3. Len(Loaded(i).data) = 0 /\ Loaded(i).data \in Seq(Marks)
        BY <3>1, <3>2, LoadedFacts, ReadFacts
      <3> QED
        BY <3>3
    <2> QED
      BY <2>1, <2>2
  <1>6. Whole(i, saved[i], size, off)
    BY <1>3, <1>4, <1>5, ShownWhole
  <1>7. /\ i \in Entries /\ Loaded(i) \in Files /\ Loaded(i).name = saved[i].name
        /\ Len(saved[i].data) <= Len(Loaded(i).data)
        /\ Countable(Loaded(i)) /\ Own(saved[i]) => Own(Loaded(i))
        /\ saved[i].name \notin written /\ Countable(saved[i]) => Loaded(i).data = saved[i].data
    BY <1>1, <1>2, <1>3, <1>4, <1>6, EntryLoaded
  <1> QED
    BY <1>2, <1>7

LEMMA TypeIsOK ==
    ASSUME TypeInv
    PROVE  TypeOK
PROOF
  <1>1. DOMAIN disk = Lba /\ DOMAIN loc = DOMAIN NoLocals
    <2>1. DOMAIN loc = {"node", "table", "sector_offset", "sectors", "queue"}
      <3>1. loc = LocRecord(loc.node, loc.table, loc.sector_offset, loc.sectors, loc.queue)
        BY TypeParts, LocFacts, Zenon DEF LocRecord
      <3>2. \A n, t, o, s, q :
                DOMAIN LocRecord(n, t, o, s, q) = {"node", "table", "sector_offset", "sectors", "queue"}
        BY DEF LocRecord
      <3> QED
        BY <3>1, <3>2, Zenon
    <2>2. DOMAIN NoLocals = {"node", "table", "sector_offset", "sectors", "queue"}
      BY DEF NoLocals
    <2> QED
      BY <2>1, <2>2, TypeParts
  <1>2. \A i \in DOMAIN files : Len(files[i].data) <= MaxSize
    <2> SUFFICES ASSUME NEW i \in DOMAIN files PROVE Len(files[i].data) <= MaxSize
      OBVIOUS
    <2>1. files[i] \in Files
      BY TypeParts
    <2> QED
      BY <2>1, FileFacts, Numbers
  <1>3. \A i \in DOMAIN loc.queue : loc.queue[i].lba \in Lba
    <2> SUFFICES ASSUME NEW i \in DOMAIN loc.queue PROVE loc.queue[i].lba \in Lba
      OBVIOUS
    <2>1. loc.queue[i] \in Writes
      BY TypeParts
    <2> QED
      BY <2>1, WriteIs
  <1>4. /\ loc.node \in 1..MAX_FILES + 1 /\ loc.sector_offset \in 0..MAX_FILES * MaxSize
    BY TypeParts
  <1> QED
    BY <1>1, <1>2, <1>3, <1>4 DEF TypeInv, TypeOK

LEMMA AtRestWhenComplete ==
    ASSUME TypeInv, complete
    PROVE  ~InSave
PROOF
  BY DEF TypeInv

LEMMA FindsSaved ==
    ASSUME TypeInv, WalkInv, DoneInv
    PROVE  SavedIsFound
PROOF
  <1> SUFFICES ASSUME complete, ~Overrun, NEW i \in DOMAIN saved \cap 1..MAX_FILES,
                      saved[i].name \notin written, Countable(saved[i]),
                      \A j \in DOMAIN saved : saved[j].name = saved[i].name => j = i
               PROVE  \E k \in DOMAIN init_fs :
                        /\ init_fs[k].name = saved[i].name /\ init_fs[k].data = saved[i].data
                        /\ \A l \in 1..k - 1 : init_fs[l].name # saved[i].name
    BY DEF SavedIsFound, OnDisk
  <1>1. ~InSave /\ DiskDone(TableSectors) /\ (Header[1] = Len(saved) \/ Header[1] = MAX_FILES)
    BY AtRestWhenComplete DEF DoneInv
  <1>2. /\ Header # Blank /\ Header[1] \in 0..MAX_FILES /\ TableSectors \in Nat
        /\ saved \in Seq(Files) /\ Count = Header[1]
    BY <1>1, HeaderFacts, TypeParts, Numbers DEF DiskDone
  <1>3. i \in 1..Header[1]
    BY <1>1, <1>2
  <1>4. ASSUME NEW j \in 1..Header[1]
        PROVE  /\ j \in DOMAIN saved /\ j \in Entries /\ Loaded(j) \in Files
               /\ Loaded(j).name = saved[j].name
               /\ saved[j].name \notin written /\ Countable(saved[j]) => Loaded(j).data = saved[j].data
    BY <1>1, <1>2, LoadedFrom
  <1>5. \A j \in Entries : Loaded(j).name = Loaded(i).name => j = i
    <2>1. Entries \subseteq 1..Header[1]
      BY <1>2 DEF Entries
    <2> QED
      BY <1>3, <1>4, <2>1
  <1>6. Reverse(Modules) \in Seq(Files)
    BY ModuleFacts, ReverseFacts
  <1>7. FoundFirst(init_fs, Loaded(i))
    <2>1. i \in Entries
      BY <1>3, <1>4
    <2> QED
      BY <1>5, <1>6, <2>1, LoadedFirst DEF init_fs
  <1>8. init_fs \in Seq(Files)
    BY <1>6, LoadedList DEF init_fs
  <1>9. Loaded(i).name = saved[i].name /\ Loaded(i).data = saved[i].data
    BY <1>3, <1>4
  <1>10. PICK k \in 1..Len(init_fs) :
             init_fs[k] = Loaded(i) /\ \A l \in 1..k - 1 : init_fs[l].name # Loaded(i).name
    BY <1>7 DEF FoundFirst
  <1>11. k \in DOMAIN init_fs
    BY <1>8
  <1> QED
    BY <1>9, <1>10, <1>11

LEMMA LoadsOwn ==
    ASSUME TypeInv, WalkInv, DoneInv
    PROVE  OwnSectors
PROOF
  <1>1. TypeOK
    BY TypeIsOK
  <1> SUFFICES ASSUME complete, ~Overrun, \A i \in DOMAIN saved : Own(saved[i]),
                      NEW i \in Entries, Countable(Loaded(i))
               PROVE  Own(Loaded(i))
    BY <1>1 DEF OwnSectors, OnDisk
  <1>2. ~InSave /\ DiskDone(TableSectors) /\ TableSectors \in Nat
    BY AtRestWhenComplete, Numbers DEF DoneInv
  <1>3. i \in 1..Header[1] /\ saved \in Seq(Files)
    <2>1. Header # Blank
      BY <1>2 DEF DiskDone
    <2>2. Count = Header[1]
      BY <2>1, HeaderFacts
    <2> QED
      BY <2>2, TypeParts DEF Entries
  <1>4. i \in 1..Len(saved) /\ (Countable(Loaded(i)) /\ Own(saved[i]) => Own(Loaded(i)))
    BY <1>2, <1>3, LoadedFrom
  <1>5. Own(saved[i])
    BY <1>3, <1>4
  <1> QED
    BY <1>4, <1>5

(* A fault ends a save before its tables. *)
FaultInv == fault # "none" => pc \in {"entry", "sectors", "copy", "off"}

LEMMA FindsWhole ==
    ASSUME TypeInv, WalkInv, FirstInv, FaultInv
    PROVE  FirstSaveWhole
PROOF
  <1> SUFFICES ASSUME saves = 1, ~complete, ~Overrun, NEW i \in Entries,
                      Loaded(i).data # <<>>, Countable(Loaded(i))
               PROVE  /\ Own(Loaded(i))
                      /\ \E j \in DOMAIN saved :
                            /\ saved[j].name = Loaded(i).name /\ Len(saved[j].data) <= Len(Loaded(i).data)
                            /\ Loaded(i).name \notin written => Loaded(i).data = saved[j].data
    BY DEF FirstSaveWhole
  <1>1. Header # Blank /\ i \in 1..Header[1] /\ Count = Header[1]
    <2>1. Header # Blank
      BY EntryFacts
    <2>2. Count = Header[1]
      BY <2>1, HeaderFacts
    <2> QED
      BY <2>1, <2>2 DEF Entries
  <1>2. \A j \in 1..Len(saved) : Own(saved[j])
    BY DEF FirstInv
  <1>3. pc \notin {"entry", "sectors", "copy"}
    <2>1. ASSUME pc \in {"entry", "sectors", "copy"} PROVE FALSE
      <3>1. \A s \in 0..TableSectors : disk[s] = Blank
        BY <2>1 DEF FirstInv
      <3>2. 0 \in 0..TableSectors
        BY Numbers
      <3> QED
        BY <1>1, <3>1, <3>2 DEF Header
    <2> QED
      BY <2>1
  <1>4. \E c \in 0..TableSectors : DiskDone(c) /\ (~InSave \/ (pc = "tables" /\ fault = "none"))
    <2>1. CASE ~InSave
      BY <1>1, <2>1 DEF FirstInv
    <2>2. CASE InSave
      <3>1. pc = "tables" /\ fault = "none"
        BY <1>3, <2>2 DEF InSave, FaultInv
      <3>2. /\ Same /\ loc.node - 1 <= Len(saved) /\ AtTables
            /\ Done(loc.table, loc.node - 1, loc.sector_offset)
        <4>1. WalkPart
          BY <2>2, <3>1, WalkParts
        <4> QED
          BY <3>1, <4>1 DEF WalkPart
      <3>3. /\ Len(loc.queue) \in Nat /\ Len(loc.queue) <= TableSectors + 1 /\ TableSectors \in Nat
        BY <3>2, TypeParts, Numbers DEF AtTables
      <3>4. \A s \in 0..TableSectors : s > TableSectors - Len(loc.queue) => disk[s] = Blank
        BY <3>1 DEF FirstInv
      <3>5. ~(0 > TableSectors - Len(loc.queue))
        <4>1. 0 \in 0..TableSectors
          BY <3>3
        <4> QED
          BY <1>1, <3>4, <4>1 DEF Header
      <3>6. PICK c \in 0..TableSectors : c = TableSectors - Len(loc.queue)
        <4> DEFINE m == Len(loc.queue)
        <4>1. m \in Nat /\ TableSectors \in Nat /\ ~(0 > TableSectors - m)
          BY <3>3, <3>5
        <4> HIDE DEF m
        <4>2. TableSectors - m \in 0..TableSectors
          BY <4>1
        <4>3. TableSectors - Len(loc.queue) = TableSectors - m
          BY DEF m
        <4> QED
          BY <4>2, <4>3
      <3>7. Header = <<loc.node - 1>> /\ Header[1] = loc.node - 1
        <4>1. 0 \in 0..c
          BY <3>3
        <4>2. disk[0] = OfTable(0)
          BY <3>2, <3>6, <4>1 DEF AtTables
        <4> QED
          BY <4>2 DEF OfTable, Header
      <3>8. \A s \in 0..TableSectors : s > c => disk[s] = Blank
        BY <3>4, <3>6
      <3>9. ASSUME NEW k \in 1..loc.node - 1
            PROVE  \E size \in 0..MaxSize, off \in 0..MAX_FILES * MaxSize :
                      Shown(k, saved[k], size, off, c) /\ Holds(saved[k], size, off)
        <4>1. PICK size \in 0..MaxSize, off \in 0..MAX_FILES * MaxSize :
                  Entry(loc.table, k, saved[k], size, off) /\ Holds(saved[k], size, off)
          BY <3>2 DEF Done
        <4>2. Shown(k, saved[k], size, off, c)
          BY <3>1, <3>6, <3>8, <4>1, TablesShown
        <4> QED
          BY <4>1, <4>2
      <3>10. Header[1] <= Len(saved)
        BY <3>2, <3>7
      <3>11. DiskDone(c)
        BY <1>1, <3>7, <3>9, <3>10 DEF DiskDone
      <3> QED
        BY <3>1, <3>11
    <2> QED
      BY <2>1, <2>2
  <1>5. PICK c \in 0..TableSectors : DiskDone(c) /\ (~InSave \/ (pc = "tables" /\ fault = "none"))
    BY <1>4
  <1>6. /\ i \in 1..Len(saved) /\ Loaded(i).name = saved[i].name
        /\ Countable(Loaded(i)) /\ Own(saved[i]) => Own(Loaded(i))
        /\ Len(saved[i].data) <= Len(Loaded(i).data) /\ saved[i] \in Files /\ Loaded(i) \in Files
        /\ saved[i].name \notin written /\ Countable(saved[i]) => Loaded(i).data = saved[i].data
    <2>1. c \in Nat
      BY Numbers
    <2> QED
      BY <1>1, <1>5, <2>1, LoadedFrom
  <1>7. i \in DOMAIN saved
    BY <1>6, TypeParts
  <1>8. Countable(saved[i])
    <2>1. Len(saved[i].data) \in 0..MaxSize /\ Len(Loaded(i).data) \in 0..MaxSize
      BY <1>6, FileFacts
    <2>2. CountRange \in Nat /\ MaxSize \in Nat
      BY Numbers
    <2>3. /\ Len(Loaded(i).data) < CountRange
          /\ saved[i].name \in written => MaxSize <= CountRange
      BY <1>6 DEF Countable
    <2> DEFINE a == Len(saved[i].data)
               b == Len(Loaded(i).data)
    <2>4. a \in Nat /\ b \in Nat /\ a <= b /\ b < CountRange
      BY <1>6, <2>1, <2>2, <2>3
    <2> HIDE DEF a, b
    <2>5. a < CountRange
      BY <2>2, <2>4
    <2> QED
      BY <2>3, <2>5 DEF Countable, a
  <1> QED
    BY <1>2, <1>6, <1>7, <1>8
-----------------------------------------------------------------------------
(* The invariant holds.                                                    *)
PersistInv == DiskInv /\ FaultInv

LEMMA InitDisk ==
    ASSUME Init
    PROVE  PersistInv
PROOF
  <1>1. TypeInv
    BY TypeInit
  <1>2. /\ disk = [l \in Lba |-> Blank] /\ files = Reverse(Modules) /\ pc = "up"
        /\ fault = "none" /\ saves = 0 /\ complete = FALSE
    BY DEF Init
  <1>3. ~InSave
    BY <1>2 DEF InSave
  <1>4. \A s \in 0..TableSectors : disk[s] = Blank
    BY <1>2, LbaFacts
  <1>5. \A i \in 1..Len(files) : Own(files[i])
    <2>1. TAKE i \in 1..Len(files)
    <2>2. /\ Len(Reverse(Modules)) = Len(Modules)
          /\ \A k \in 1..Len(Modules) : \E j \in 1..Len(Modules) : Reverse(Modules)[k] = Modules[j]
      BY ModuleFacts, ReverseFacts
    <2>3. PICK j \in 1..Len(Modules) : files[i] = Modules[j]
      BY <1>2, <2>2
    <2> QED
      BY <2>3, ModuleFacts
  <1>6. WalkInv
    BY <1>3 DEF WalkInv
  <1>7. DoneInv
    BY <1>2 DEF DoneInv
  <1>8. FirstInv
    BY <1>2, <1>3, <1>4, <1>5 DEF FirstInv
  <1>9. FaultInv
    BY <1>2 DEF FaultInv
  <1> QED
    BY <1>1, <1>6, <1>7, <1>8, <1>9 DEF PersistInv, DiskInv

(* Nothing is lost when nothing happens. *)
LEMMA Stutters ==
    ASSUME PersistInv, UNCHANGED vars
    PROVE  PersistInv'
PROOF
  <1>1. /\ UNCHANGED <<disk, files, pc, loc, gone>>
        /\ UNCHANGED <<fault, calls, saves, complete, saved, written>>
    BY DEF vars, memory, ghosts
  <1>2. FaultInv'
    BY <1>1 DEF PersistInv, FaultInv
  <1>3. TypeInv /\ WalkInv /\ DoneInv /\ FirstInv
    BY DEF PersistInv, DiskInv
  <1>4. InSave' = InSave /\ Visiting' = Visiting /\ Node' = Node
    BY <1>1 DEF InSave, Visiting, Node
  <1>5. TypeInv'
    BY <1>1, <1>3, <1>4 DEF TypeInv
  <1>6. ASSUME fault = "none", InSave PROVE WalkPart'
    <2>1. WalkPart
      BY <1>3, <1>6, WalkParts
    <2>2. Same /\ loc.node - 1 <= Len(saved) /\ Done(loc.table, loc.node - 1, loc.sector_offset)
      BY <2>1 DEF WalkPart
    <2>3. Same'
      BY <1>1, <1>3, <2>2, SameKept
    <2>4. Done(loc.table, loc.node - 1, loc.sector_offset)'
      <3>1. WillKeptUnder(loc.sector_offset)
        BY <1>1, WillUnchanged
      <3>2. written \subseteq written'
        BY <1>1
      <3> QED
        BY <1>1, <1>3, <2>2, <3>1, <3>2, DoneGoesOn
    <2>5. pc' = "entry" => AtEntry'
      BY <1>1, <2>1 DEF WalkPart, AtEntry
    <2>6. pc' \in {"sectors", "copy"} => AtFile'
      <3>1. ASSUME NEW size \in 0..MaxSize, Begun(size) PROVE Begun(size)'
        BY <1>1, <1>4, <3>1 DEF Begun, Entry
      <3> QED
        BY <1>1, <2>1, <3>1 DEF WalkPart, AtFile
    <2>7. pc' = "tables" => AtTables'
      BY <1>1, <1>4, <2>1 DEF WalkPart, AtTables, OfTable
    <2> QED
      BY <1>1, <2>2, <2>3, <2>4, <2>5, <2>6, <2>7 DEF WalkPart
  <1>7. WalkInv'
    BY <1>1, <1>4, <1>6, WalkParts
  <1>8. DoneInv' /\ FirstInv'
    <2>1. CASE InSave
      <3>1. saves = 1 /\ pc' # "tables" => \A s \in 0..TableSectors : disk'[s] = Blank
        BY <1>1, <1>3, <2>1 DEF FirstInv, InSave
      <3>2. saves = 1 /\ pc' = "tables" =>
                \A s \in 0..TableSectors : s > TableSectors - Len(loc'.queue) => disk'[s] = Blank
        BY <1>1, <1>3 DEF FirstInv
      <3> QED
        BY <1>1, <1>3, <1>4, <2>1, <3>1, <3>2, DiskInSave
    <2>2. CASE ~InSave
      <3>1. saves = 0 => \A i \in 1..Len(files') : Own(files'[i])
        BY <1>1, <1>3 DEF FirstInv
      <3> QED
        BY <1>1, <1>3, <1>4, <2>2, <3>1, DiskAtRest
    <2> QED
      BY <2>1, <2>2
  <1> QED
    BY <1>2, <1>5, <1>7, <1>8 DEF PersistInv, DiskInv

(* A fault stops the walk where it is, or the boot. *)
LEMMA FaultStep ==
    ASSUME FaultInv, Next
    PROVE  FaultInv'
PROOF
  <1>1. ASSUME NEW i \in DOMAIN files, fs_delete(i) PROVE FaultInv'
    <2>1. pc' = pc /\ fault = "none" /\ (UNCHANGED fault \/ i + gone \in Held \cup Followed)
      BY <1>1 DEF fs_delete
    <2>2. Held \cup Followed # {} => pc \in {"entry", "sectors", "copy"}
      BY DEF Held, Followed
    <2> QED
      BY <2>1, <2>2 DEF FaultInv
  <1>2. ASSUME NEW i \in DOMAIN files, SYS_WRITE(i) PROVE fault' = "none"
    BY <1>2, Zenon DEF SYS_WRITE
  <1>3. ASSUME NEW n \in Created, fs_touch(n) PROVE fault' = "none"
    BY <1>3 DEF fs_touch, Up
  <1>4. CASE flatten_copy
    BY <1>4 DEF flatten_copy, Goto, FaultInv
  <1>5. CASE boot
    BY <1>5 DEF boot, Up, memory, FaultInv
  <1>6. CASE fs_save_to_disk \/ flatten_entry \/ flatten_sectors \/ save_tables
    BY <1>6 DEF fs_save_to_disk, flatten_entry, flatten_sectors, save_tables, Up, FaultInv
  <1>7. CASE write_sector \/ save_returns \/ Stop
    BY <1>7 DEF write_sector, save_returns, Stop, Up, FaultInv
  <1> QED
    BY <1>1, <1>2, <1>3, <1>4, <1>5, <1>6, <1>7 DEF Next, FaultInv

LEMMA DiskNext ==
    ASSUME DiskInv, Next
    PROVE  DiskInv'
PROOF
  <1> USE DEF DiskInv
  <1>1. ASSUME NEW n \in Created, fs_touch(n) PROVE DiskInv'
    <2>1. ~InSave'
      BY <1>1 DEF fs_touch, Up, InSave
    <2> QED
      BY <1>1, <2>1, TypeTouch, WalkElsewhere, DiskTouch
  <1>2. ASSUME NEW i \in DOMAIN files, fs_delete(i) PROVE DiskInv'
    BY <1>2, TypeDelete, WalkDelete, DiskDelete
  <1>3. ASSUME NEW i \in DOMAIN files, SYS_WRITE(i) PROVE DiskInv'
    BY <1>3, TypeWrite, WalkWrite, DiskWrite
  <1>4. CASE fs_save_to_disk
    BY <1>4, TypeSave, WalkBegins, DiskSave
  <1>5. CASE flatten_entry
    BY <1>5, TypeEntry, WalkEntry, DiskWalk
  <1>6. CASE flatten_sectors
    BY <1>6, TypeSectors, WalkSectors, DiskWalk
  <1>7. CASE flatten_copy
    BY <1>7, TypeCopy, WalkCopy, DiskWalk
  <1>8. CASE save_tables
    BY <1>8, TypeTables, WalkTables, DiskWalk
  <1>9. CASE write_sector
    BY <1>9, TypeWriteSector, WalkWriteSector, DiskWriteSector
  <1>10. CASE save_returns
    <2>1. TypeInv' /\ pc' = "up"
      BY <1>10, TypeReturns
    <2>2. ~InSave'
      BY <2>1 DEF InSave
    <2> QED
      BY <1>10, <2>1, <2>2, WalkElsewhere, DiskReturns
  <1>11. CASE Stop
    <2>1. TypeInv' /\ pc' = "off"
      BY <1>11, TypeStop
    <2>2. ~InSave'
      BY <2>1 DEF InSave
    <2> QED
      BY <1>11, <2>1, <2>2, WalkElsewhere, DiskStop
  <1>12. CASE boot
    <2>1. TypeInv' /\ pc' \in {"up", "off"}
      BY <1>12, TypeBoot
    <2>2. ~InSave'
      BY <2>1 DEF InSave
    <2> QED
      BY <1>12, <2>1, <2>2, WalkElsewhere, DiskBoot
  <1> QED
    BY <1>1, <1>2, <1>3, <1>4, <1>5, <1>6, <1>7, <1>8, <1>9, <1>10, <1>11, <1>12 DEF Next

LEMMA PersistStep ==
    ASSUME PersistInv, [Next]_vars
    PROVE  PersistInv'
PROOF
  <1>1. CASE Next
    BY <1>1, DiskNext, FaultStep DEF PersistInv
  <1>2. CASE UNCHANGED vars
    BY <1>2, Stutters
  <1> QED
    BY <1>1, <1>2

LEMMA PersistAlways == Spec => []PersistInv
PROOF
  <1>1. Init => PersistInv
    BY InitDisk
  <1>2. PersistInv /\ [Next]_vars => PersistInv'
    BY PersistStep
  <1> QED
    BY <1>1, <1>2, PTL DEF Spec

(* What a save that came to its end has saved is found by every boot after *)
(* it, until the next save begins: under its name, with all its sectors,   *)
(* and before the boot module of that name, unless a program wrote to it   *)
(* while it was being saved - whatever files programs deleted while the    *)
(* save was walking the list, before it or behind it (fs_save_to_disk,     *)
(* fs_flatten_tree, fs_delete, fs_load_from_disk, init_fs of fs.c).        *)
THEOREM PersistSavedIsFound == Spec => []SavedIsFound
PROOF
  <1>1. PersistInv => SavedIsFound
    BY FindsSaved DEF PersistInv, DiskInv
  <1> QED
    BY <1>1, PersistAlways, PTL

(* No sector is written outside the area for files, and no file loaded     *)
(* from a completed save shows sectors of another, however the files grew  *)
(* between the entry, the buffer and the copy (fs_flatten_tree of fs.c,    *)
(* ata_write_sectors and ata_read_sectors of ata.c).                       *)
THEOREM PersistOwnSectors == Spec => []OwnSectors
PROOF
  <1>1. PersistInv => OwnSectors
    BY LoadsOwn DEF PersistInv, DiskInv
  <1> QED
    BY <1>1, PersistAlways, PTL

(* A boot after the machine stopped at any sector of its first save finds  *)
(* each file with the data it had when the save began - with no less than  *)
(* its size then and no sector of another file, if a program wrote to it   *)
(* meanwhile -, or empty, or not at all: the data are on the disk before   *)
(* the header and the table that point to them (fs_save_to_disk).          *)
THEOREM PersistFirstSaveWhole == Spec => []FirstSaveWhole
PROOF
  <1>1. PersistInv => FirstSaveWhole
    BY FindsWhole DEF PersistInv, DiskInv
  <1> QED
    BY <1>1, PersistAlways, PTL
=============================================================================
