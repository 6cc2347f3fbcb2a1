------------------------------ MODULE Persist ------------------------------
(***************************************************************************)
(* Files on the disk: fs_save_to_disk and fs_load_from_disk of             *)
(* src/src/kernel/fs.c over the sector commands of src/src/drivers/ata.c,  *)
(* with a machine that may stop between any two sectors and boot again.    *)
(* Nothing calls fs_save_to_disk yet; here the shell does, as it calls the *)
(* other operations: with interrupts enabled, so that programs write files *)
(* while they are being saved, and delete them (system call 14).           *)
(*                                                                         *)
(* The disk is external: it writes a sector whole or not at all.  A sector *)
(* of the table holds SectorUnits units; an entry is a name of NameUnits   *)
(* units and a last one with size and place, so that names lie across the  *)
(* border of two sectors and the last entry across the end of the table,   *)
(* as they do with 64, 8 and 8 (units of eight bytes).  A file is saved    *)
(* under its path and loaded into the root under it: its name here is the  *)
(* path.  Left out: directories but for the paths (that of an empty one    *)
(* removed under the walk too), paths too long for a name, the lock of the *)
(* driver, which has no second taker, and the kernel heap running out.     *)
(***************************************************************************)
EXTENDS Integers, Sequences, SequencesExt, FiniteSets

CONSTANTS
    Modules,            \* the boot modules, in order: [name, data, buffer]
    Created,            \* the names of the files the shell makes
    MAX_FILES, TableSectors, SectorUnits, NameUnits, DATA_START_SECTOR,
    CountRange,         \* 256: a sector count is a uint8_t
    MaxSize,            \* bound: the sectors of a file
    MaxSaves,           \* bound: the saves that are begun
    MaxCalls            \* bound: fs_touch, fs_delete and SYS_WRITE together

EntryUnits == NameUnits + 1
TableUnits == TableSectors * SectorUnits
Lba == 0..DATA_START_SECTOR + MAX_FILES * MaxSize - 1
Blank == <<>>           \* a sector, or a unit, of zeros
Names == Created \cup {Modules[i].name : i \in DOMAIN Modules}
Units == UNION {ToSet(n) : n \in Names}
Sectors(n) == {<<n, "old">>, <<n, "new">>}

(* A sector of a file says whose it is.  buffer: whether data is a pointer; *)
(* a file of no bytes may have one.                                         *)
Own(f) == \A k \in DOMAIN f.data : f.data[k] \in Sectors(f.name)
ASSUME PersistAssumption ==
    /\ {MAX_FILES, TableSectors, SectorUnits, NameUnits, CountRange, MaxSize, MaxSaves, MaxCalls} \subseteq Nat \ {0}
    /\ DATA_START_SECTOR \in Nat /\ DATA_START_SECTOR > TableSectors
    /\ \A n \in Names : n \in Seq(Units) /\ Len(n) \in 1..NameUnits
    /\ Modules \in Seq([name : Names, data : Seq(UNION {Sectors(n) : n \in Names}), buffer : {TRUE}])
    /\ \A i \in DOMAIN Modules : Len(Modules[i].data) <= MaxSize /\ Own(Modules[i])

VARIABLES
    disk,
    files,      \* the files in the order fs_flatten_tree meets them
    pc, loc,    \* where fs_save_to_disk is, and its locals; the file it is at ...
    gone,       \* ... is as many places further up in the list: the number
                \* of files that were deleted after it had passed them
    fault,      \* "none", or what the machine goes on with that nobody knows
    calls,      \* fs_touch, fs_delete and SYS_WRITE so far
    saves,      \* the number of saves begun ...
    complete,   \* ... and whether the last of them came to its end
    saved,      \* the files when the last save began, without those that
                \* were deleted before it came to them
    written     \* the names written to while that save was under way

memory == <<files, pc, loc, gone>>
ghosts == <<calls, saves, complete, saved, written>>
vars == <<disk, memory, fault, ghosts>>

NoLocals == [node |-> 1, table |-> Blank, sector_offset |-> 0, sectors |-> 0, queue |-> <<>>]

TypeOK ==
    /\ DOMAIN disk = Lba /\ DOMAIN loc = DOMAIN NoLocals
    /\ \A i \in DOMAIN files : Len(files[i].data) <= MaxSize
    /\ pc \in {"up", "entry", "sectors", "copy", "tables", "off"}
    /\ loc.node \in 1..MAX_FILES + 1 /\ loc.sector_offset \in 0..MAX_FILES * MaxSize
    /\ gone \in 0..loc.node - 1
    /\ \A i \in DOMAIN loc.queue : loc.queue[i].lba \in Lba
    /\ fault \in {"none", "stall", "overflow", "stale"}
    /\ calls \in 0..MaxCalls /\ saves \in 0..MaxSaves /\ complete \in BOOLEAN
-----------------------------------------------------------------------------
(* ata_read_sectors: beyond the count, a buffer is as kmalloc returned it.  *)
ata_read_sectors(lba, sectors) ==
    [j \in 1..sectors |-> IF j <= sectors % CountRange THEN disk[lba + j - 1] ELSE <<<<"stale">>>>]

(* The sectors ata_write_sectors sends, one by one. *)
ata_write_sectors(lba, source) ==
    [j \in 1..Len(source) % CountRange |-> [lba |-> lba + j - 1, sector |-> source[j]]]

(* The header is the number of files. *)
Header == disk[0]
TableOnDisk == [u \in 1..TableUnits |->
    LET sector == disk[1 + ((u - 1) \div SectorUnits)]
    IN  IF sector = Blank THEN Blank ELSE sector[1 + ((u - 1) % SectorUnits)]]

(* Where the name of entry i starts, counted from 1. *)
At(i) == (i - 1) * EntryUnits

(* The name in the units from At(i) on: it ends at the first zero. *)
NameAt(i) ==
    LET end == {k \in 1..NameUnits : TableOnDisk[At(i) + k] = Blank} \cup {NameUnits + 1}
    IN  [k \in 1..(CHOOSE k \in end : \A l \in end : k <= l) - 1 |-> TableOnDisk[At(i) + k][1]]

(* A size and a place that were never written are zeros. *)
SizeAt(i) == IF TableOnDisk[At(i + 1)] = Blank THEN <<0, 0>> ELSE TableOnDisk[At(i + 1)]

(* The loop looks at an entry whose last unit is behind what was read.     *)
Overrun ==
    Header # Blank /\ \E i \in 1..Header[1] :
        /\ At(i + 1) > TableUnits
        /\ At(i) + 1 > TableUnits \/ TableOnDisk[At(i) + 1] # Blank

(* Seeded fault: the place is taken from the start of the disk. *)
LoadedFromStart(i) ==
    [name |-> NameAt(i), data |-> ata_read_sectors(SizeAt(i)[2], SizeAt(i)[1]), buffer |-> TRUE]

Loaded(i) ==
    [name |-> NameAt(i), buffer |-> TRUE,
     data |-> ata_read_sectors(DATA_START_SECTOR + SizeAt(i)[2], SizeAt(i)[1])]

(* fs_load_from_disk puts each file of the table at the head of the list;  *)
(* entries without a name are passed over.                                 *)
Count == IF Header = Blank THEN 0 ELSE Header[1]
Entries == {i \in 1..Count : TableOnDisk[At(i) + 1] # Blank}

fs_load_from_disk(list) ==
    LET after[i \in 0..Count] == IF i = 0 THEN list
                                 ELSE IF i \in Entries THEN <<Loaded(i)>> \o after[i - 1]
                                 ELSE after[i - 1]
    IN  after[Count]

(* Seeded fault: the disk is loaded before the modules. *)
DiskFirst == Reverse(Modules) \o fs_load_from_disk(<<>>)

(* The modules first, then the disk. *)
init_fs == fs_load_from_disk(Reverse(Modules))

Init ==
    /\ disk = [l \in Lba |-> Blank]
    /\ files = Reverse(Modules) /\ pc = "up" /\ loc = NoLocals /\ gone = 0
    /\ fault = "none"
    /\ calls = 0 /\ saves = 0 /\ complete = FALSE /\ saved = <<>> /\ written = {}
-----------------------------------------------------------------------------
Call == calls < MaxCalls /\ calls' = calls + 1

Up(at) == fault = "none" /\ pc = at

(* Between saves the shell makes files ... *)
fs_touch(n) ==
    /\ Up("up") /\ Call
    /\ \A i \in DOMAIN files : files[i].name # n
    /\ files' = <<[name |-> n, data |-> <<>>, buffer |-> FALSE]>> \o files
    /\ UNCHANGED <<disk, pc, loc, gone, fault, saves, complete, saved, written>>

(* The file the walk is at; it stops when MAX_FILES have been entered. *)
Visiting == loc.node - gone <= Len(files) /\ loc.node <= MAX_FILES
Node == files[loc.node - gone]

(* The file whose node the walk has yet to read from, by its number in     *)
(* saved: the one it is at, or whose next it has not followed.  At an      *)
(* entry it may have done so, and hold the next.                           *)
Held == CASE pc = "entry" -> {loc.node - 1}
          [] pc \in {"sectors", "copy"} -> {loc.node}
          [] OTHER -> {}
Followed == IF pc = "entry" /\ loc.queue = <<>> /\ Visiting THEN {loc.node} ELSE {}

(* Has the walk passed file k of saved? *)
Passed(k) == k < loc.node

(* ... and deletes them, and programs do so at any time.  What the save    *)
(* does with a node that has been freed is not followed.                   *)
fs_delete(i) ==
    /\ fault = "none" /\ pc # "off" /\ Call /\ \A j \in 1..i - 1 : files[j].name # files[i].name
    /\ \/ /\ i + gone \in Held \cup Followed
          /\ fault' = "stale" /\ UNCHANGED <<files, saved, gone>>
       \/ /\ i + gone \notin Held
          /\ files' = RemoveAt(files, i) /\ UNCHANGED fault
          /\ saved' = IF pc = "up" \/ Passed(i + gone) THEN saved ELSE RemoveAt(saved, i + gone)
          /\ gone' = IF Passed(i + gone) THEN gone + 1 ELSE gone
    /\ UNCHANGED <<disk, pc, loc, saves, complete, written>>

(* A program overwrites the first sector of a file, or appends one. *)
SYS_WRITE(i) ==
    /\ fault = "none" /\ pc # "off" /\ Call
    /\ LET f == files[i]
       IN  /\ \/ /\ f.data # <<>>
                 /\ files' = [files EXCEPT ![i].data[1] = <<f.name, "new">>]
              \/ /\ Len(f.data) < MaxSize
                 /\ files' = [files EXCEPT ![i].buffer = TRUE,
                                          ![i].data = Append(@, <<f.name, "old">>)]
           /\ written' = IF pc = "up" THEN written ELSE written \cup {f.name}
    /\ UNCHANGED <<disk, pc, loc, gone, fault, saves, complete, saved>>

(* fs_save_to_disk up to the walk; from here on the disk is in change. *)
fs_save_to_disk ==
    /\ Up("up") /\ saves < MaxSaves
    /\ pc' = "entry"
    /\ loc' = [NoLocals EXCEPT !.table = [u \in 1..MAX_FILES * EntryUnits |-> Blank]]
    /\ saved' = files /\ written' = {}
    /\ saves' = saves + 1 /\ complete' = FALSE
    /\ UNCHANGED <<disk, files, gone, fault, calls>>

Goto(label) == pc' = label

(* Seeded fault: the offset written to the entry is that of the next file. *)
EntryOffByOne(table) ==
    [u \in DOMAIN table |->
        LET k == u - At(loc.node)
        IN  IF k \in 1..Len(Node.name) THEN <<Node.name[k]>>
            ELSE IF k = EntryUnits THEN <<Len(Node.data), loc.sector_offset + 1>> ELSE table[u]]

(* The table with the entry of the file. *)
Entered(table) ==
    [u \in DOMAIN table |->
        LET k == u - At(loc.node)
        IN  IF k \in 1..Len(Node.name) THEN <<Node.name[k]>>
            ELSE IF k = EntryUnits THEN <<Len(Node.data), loc.sector_offset>> ELSE table[u]]

(* fs_flatten_tree: the entry ... *)
flatten_entry ==
    /\ Up("entry") /\ loc.queue = <<>> /\ Visiting
    /\ loc' = [loc EXCEPT !.table = Entered(@)]
    /\ Goto("sectors")
    /\ UNCHANGED <<disk, files, gone, fault, ghosts>>

(* ... the buffer, with the size read again ... *)
flatten_sectors ==
    /\ Up("sectors")
    /\ loc' = [loc EXCEPT !.sectors = Len(Node.data)]
    /\ Goto("copy")
    /\ UNCHANGED <<disk, files, gone, fault, ghosts>>

(* ... and the copy, up to the size read once more.  A count that is 0 as  *)
(* a uint8_t starts a command that is never given its data.                *)
flatten_copy ==
    /\ Up("copy")
    /\ LET after == [loc EXCEPT !.node = @ + 1, !.sector_offset = @ + loc.sectors]
       IN  \/ ~Node.buffer /\ loc' = after /\ UNCHANGED fault
           \/ /\ Node.buffer /\ Len(Node.data) > loc.sectors
              /\ fault' = "overflow" /\ UNCHANGED loc
           \/ /\ Node.buffer /\ Len(Node.data) = loc.sectors
              /\ fault' = IF loc.sectors % CountRange = 0 THEN "stall" ELSE "none"
              /\ loc' = [after EXCEPT !.queue =
                            ata_write_sectors(DATA_START_SECTOR + loc.sector_offset, Node.data)]
    /\ Goto("entry")
    /\ UNCHANGED <<disk, files, gone, ghosts>>

(* Sector s of the table, zeros behind its end. *)
TableSector(s, table) == [k \in 1..SectorUnits |->
    LET u == (s - 1) * SectorUnits + k IN IF u \in DOMAIN table THEN table[u] ELSE Blank]

(* The header, then the sectors of the table. *)
Tables(count, table) ==
    <<[lba |-> 0, sector |-> <<count>>]>>
    \o [s \in 1..TableSectors |-> [lba |-> s, sector |-> TableSector(s, table)]]

save_tables ==
    /\ Up("entry") /\ loc.queue = <<>> /\ ~Visiting
    /\ loc' = [loc EXCEPT !.queue = Tables(loc.node - 1, loc.table)]
    /\ Goto("tables")
    /\ UNCHANGED <<disk, files, gone, fault, ghosts>>

write_sector ==
    /\ fault = "none" /\ loc.queue # <<>>
    /\ disk' = [disk EXCEPT ![Head(loc.queue).lba] = Head(loc.queue).sector]
    /\ loc' = [loc EXCEPT !.queue = Tail(@)]
    /\ UNCHANGED <<files, pc, gone, fault, ghosts>>

save_returns ==
    /\ Up("tables") /\ loc.queue = <<>>
    /\ pc' = "up" /\ loc' = NoLocals /\ gone' = 0 /\ complete' = TRUE
    /\ UNCHANGED <<disk, files, fault, calls, saves, saved, written>>

(* The machine stops, and boots. *)
Stop ==
    /\ fault = "none" /\ pc # "off"
    /\ pc' = "off" /\ files' = <<>> /\ loc' = NoLocals /\ gone' = 0
    /\ UNCHANGED <<disk, fault, ghosts>>

boot ==
    /\ Up("off")
    /\ \/ Overrun /\ fault' = "stale" /\ UNCHANGED memory
       \/ /\ ~Overrun
          /\ files' = init_fs /\ pc' = "up" /\ UNCHANGED <<loc, gone, fault>>
    /\ UNCHANGED <<disk, ghosts>>

Next ==
    \/ \E n \in Created : fs_touch(n)
    \/ \E i \in DOMAIN files : fs_delete(i) \/ SYS_WRITE(i)
    \/ fs_save_to_disk \/ flatten_entry \/ flatten_sectors \/ flatten_copy
    \/ save_tables \/ write_sector \/ save_returns
    \/ Stop \/ boot

Spec == Init /\ [][Next]_vars
-----------------------------------------------------------------------------
(* Properties, of what a boot at this instant would find.                  *)

(* The count of sectors is a byte (ata.c:110); a file that was written to  *)
(* during the save may have grown past it after its entry was made.        *)
Countable(f) ==
    Len(f.data) < CountRange /\ (f.name \in written => MaxSize <= CountRange)

OnDisk == complete /\ ~Overrun

(* What was saved is found again after a boot, before the boot module of   *)
(* the same name, if no program wrote to it meanwhile or deleted it before *)
(* the save came to it, its name was there once (fs.c:476) and its sectors *)
(* can be counted in a byte - whatever programs deleted before and after   *)
(* it in the list the save was walking.                                    *)
SavedIsFound ==
    OnDisk => \A i \in DOMAIN saved \cap 1..MAX_FILES :
        LET f == saved[i]
        IN  f.name \notin written /\ Countable(f)
            /\ (\A j \in DOMAIN saved : saved[j].name = f.name => j = i)
            => \E k \in DOMAIN init_fs :
                   /\ init_fs[k].name = f.name /\ init_fs[k].data = f.data
                   /\ \A l \in 1..k - 1 : init_fs[l].name # f.name

(* No file that is loaded shows sectors of another, if none did when the   *)
(* save began, though programs wrote to files, and made them longer,       *)
(* between the parts of the save; and no sector is written outside the     *)
(* area of the disk that is for files.                                     *)
OwnSectors ==
    /\ TypeOK
    /\ OnDisk /\ (\A i \in DOMAIN saved : Own(saved[i])) =>
           \A i \in Entries : Countable(Loaded(i)) => Own(Loaded(i))

(* When the machine stops in the first save ever made, a boot finds each   *)
(* file whole - with the data it had when the save began, or at least its  *)
(* size if a program has written to it since -, or finds it empty (and its *)
(* name may be cut), or does not find it.                                  *)
FirstSaveWhole ==
    saves = 1 /\ ~complete /\ ~Overrun => \A i \in Entries :
        LET f == Loaded(i)
        IN  f.data # <<>> /\ Countable(f) =>
                /\ Own(f)
                /\ \E j \in DOMAIN saved :
                      /\ saved[j].name = f.name /\ Len(saved[j].data) <= Len(f.data)
                      /\ f.name \notin written => f.data = saved[j].data
=============================================================================
