------------------------------- MODULE Memory -------------------------------
(***************************************************************************)
(* Frames and address spaces: the frame allocator src/src/mm/pmm.c, the    *)
(* page directories and tables of src/src/mm/vmm.c, and the three pieces   *)
(* of code that take frames after boot: elf_load_file, create_process for  *)
(* a program, and the system call SYS_SBRK.                                *)
(*                                                                         *)
(* The shell is a kernel thread: while it allocates, a tick may come after *)
(* pmm_find_first_free has read the bitmap and before pmm_set writes it,   *)
(* and a program may run.  A program's system call runs with interrupts    *)
(* disabled and is one step, and so is the loop of elf_load_file.          *)
(*                                                                         *)
(* A directory or a table is a frame that holds P entries; a virtual page  *)
(* v is entry v % P of the table in entry v \div P of the directory.       *)
(*                                                                         *)
(* Left out: what the processor does with an access (the flags of an       *)
(* entry, faults, the TLB), the contents of pages that are not tables, and *)
(* vmm_free_address_space: process_exit calls it only when cr3 is not the  *)
(* current process's, and schedule() has always loaded that one.           *)
(***************************************************************************)
EXTENDS Integers, Sequences, FiniteSets, FiniteSetsExt

CONSTANTS
    MaxBlocks,      \* max_blocks: the frames the machine has
    MemStart,       \* mem_start_block: the frames below are never given out
    P,              \* 1024, the entries of a directory or a table
    KernelEntries,  \* 32, the entries of the identity map
    HeapPage,       \* HEAP_START as a page number
    HeapPages,      \* HEAP_SIZE in pages
    ImagePage,      \* the page programs are linked at
    ImagePages,     \* the pages of each program's image
    StackPage,      \* the page of the user stack
    PageSize,       \* 4096
    Increments      \* the arguments of SYS_SBRK

Programs == DOMAIN ImagePages
None == -1
KernelPages == 0..KernelEntries * P - 1
Frames == KernelPages       \* the identity map covers every frame
HeapRange == HeapPage..HeapPage + HeapPages - 1

(* Addresses are 32 bits wide.  A break in the last page has its top at 0. *)
Space == P * P * PageSize
Top(address) == ((address + PageSize - 1) % Space) \div PageSize

ASSUME MemoryAssumption ==
    /\ {MaxBlocks, MemStart, P, KernelEntries, PageSize, HeapPages} \subseteq Nat \ {0}
    /\ KernelEntries < P
    /\ MemStart < MaxBlocks /\ MaxBlocks <= KernelEntries * P
    /\ MemStart <= 8 * (MaxBlocks \div 8)      \* 4 MB: whole bytes of the bitmap
    /\ {HeapPage, ImagePage, StackPage} \subseteq KernelEntries * P..P * P - 1
    /\ HeapPage + HeapPages <= P * P
    /\ \A p \in Programs : ImagePages[p] \in Nat /\ ImagePage + ImagePages[p] <= HeapPage
    /\ Increments \subseteq Int

VARIABLES
    ram,            \* the bitmap, its counter, directories and tables
    kernel_directory,
    pc, loc,        \* the shell's place in elf_load_file, and its locals
    image_pd,       \* the directory elf_load_file gives each program
    cr3,            \* the directory create_process gives it
    running,        \* the programs that have been created and not exited
    program_break, allocated_pages,     \* fields of process_t
    strayed         \* ghost: the programs whose break has left its place,
                    \* which is between the end of the image and the last page

process == <<cr3, running, program_break, allocated_pages, strayed>>
vars == <<ram, kernel_directory, pc, loc, image_pd, process>>

Empty == [i \in 0..P - 1 |-> None]
Wants == {"image_pd", "cr3", "stack", "table"}
NoLocals == [program |-> None, want |-> "image_pd", frame |-> 0, count |-> 0, stack |-> 0]

(* The counter exceeds the number of frames when the shell counts the last *)
(* one, after a program has taken and counted it.                          *)
TypeOK ==
    /\ ram \in [used : SUBSET (0..MaxBlocks - 1), used_blocks : 0..MaxBlocks + 1,
                mem : [Frames -> [0..P - 1 -> Frames \cup {None}]],
                fault : {"none", "null", "clash", "kernel", "heap"}]
    /\ kernel_directory \in ram.used
    /\ pc \in {"prompt", "choose", "take", "load"}
    /\ loc \in [program : Programs \cup {None}, want : Wants, frame : Frames,
                count : 0..MaxBlocks, stack : Frames]
    /\ image_pd \in [Programs -> Frames \cup {None}]
    /\ cr3 \in [Programs -> Frames \cup {None}]
    /\ running \subseteq Programs
    /\ program_break \in [Programs -> 0..Space - 1]
    /\ \A p \in Programs :
          allocated_pages[p] \subseteq [phys : Frames, virt : KernelEntries * P..P * P - 1]
    /\ strayed \subseteq Programs
-----------------------------------------------------------------------------
(* pmm.c.                                                                  *)

(* The free frames the search sees: it looks at whole bytes of the bitmap. *)
Visible(m) == {f \in 0..8 * (MaxBlocks \div 8) - 1 : f \notin m.used}

(* Seeded fault: one frame is kept back. *)
ChoiceKeepsOne(m) ==
    IF m.used_blocks >= MaxBlocks - 1 \/ Cardinality(Visible(m)) <= 1 THEN 0
    ELSE Min(Visible(m))

(* The frame pmm_alloc_block chooses; 0 is failure. *)
Choice(m) ==
    IF m.used_blocks = MaxBlocks \/ Visible(m) = {} THEN 0 ELSE Min(Visible(m))

(* Seeded fault: the bit is not set. *)
MarkedNot(m, f, count) == [m EXCEPT !.used_blocks = IF f = 0 THEN @ ELSE count + 1]

(* Seeded fault: pmm_set counts too, and the counter steps over its limit. *)
MarkedCountedTwice(m, f, count) ==
    IF f = 0 THEN m
    ELSE [m EXCEPT !.used = @ \cup {f}, !.used_blocks = count + 2,
                   !.fault = IF f \in m.used THEN "clash" ELSE @]

(* Its other half, with the counter as it was read before the search.  A   *)
(* frame that was given out in between now has two uses.                   *)
Marked(m, f, count) ==
    IF f = 0 THEN m
    ELSE [m EXCEPT !.used = @ \cup {f}, !.used_blocks = count + 1,
                   !.fault = IF f \in m.used THEN "clash" ELSE @]

(* pmm_alloc_block uninterrupted, by callers that do not look at its       *)
(* result: frame 0 is then used as if it had been allocated.               *)
Unchecked(m, f) == IF f = 0 THEN [m EXCEPT !.fault = "null"] ELSE m
Allocated(m) == Unchecked(Marked(m, Choice(m), m.used_blocks), Choice(m))
-----------------------------------------------------------------------------
(* vmm.c.                                                                  *)

(* Seeded fault: the upper half of the kernel's entries is not copied. *)
DirectoryHalf(m, d, kernel) ==
    [m EXCEPT !.mem[d] = [i \in 0..P - 1 |->
        IF i < KernelEntries \div 2 THEN m.mem[kernel][i] ELSE None]]

(* vmm_create_address_space, once it has its frame. *)
Directory(m, d, kernel) ==
    [m EXCEPT !.mem[d] = [i \in 0..P - 1 |->
        IF i < KernelEntries THEN m.mem[kernel][i] ELSE None]]

(* A table t, cleared, in the entry of page v. *)
WithTable(m, d, v, t) == [m EXCEPT !.mem[t] = Empty, !.mem[d][v \div P] = t]
Entered(m, d, phys, v) == [m EXCEPT !.mem[m.mem[d][v \div P]][v % P] = phys]

vmm_map_page_in_dir(m, d, phys, v) ==
    IF m.mem[d][v \div P] # None THEN Entered(m, d, phys, v)
    ELSE Entered(WithTable(Allocated(m), d, v, Choice(m)), d, phys, v)

(* A page with a frame of its own. *)
WithPage(m, d, v) == vmm_map_page_in_dir(Allocated(m), d, Choice(m), v)

(* As many pages from v on. *)
MappedFresh(m, d, v, pages) ==
    LET mapped[k \in 0..pages] == IF k = 0 THEN m ELSE WithPage(mapped[k - 1], d, v + k - 1)
    IN  mapped[pages]
-----------------------------------------------------------------------------
(* init_pmm ... *)
AtStart == [used |-> {f \in 0..MemStart - 1 : f \div 8 < MaxBlocks \div 8},
            used_blocks |-> MemStart, mem |-> [f \in Frames |-> Empty], fault |-> "none"]

(* ... init_vmm, which maps every page of the kernel to itself ... *)
KernelDirectory == Choice(AtStart)
IdentityMapped ==
    LET mapped[k \in 0..KernelEntries * P] ==
            IF k = 0 THEN Allocated(AtStart)
            ELSE vmm_map_page_in_dir(mapped[k - 1], KernelDirectory, k - 1, k - 1)
    IN  mapped[KernelEntries * P]

(* ... and init_heap, which returns at the first page without a frame. *)
WithHeapPage(m, v) == IF Choice(m) = 0 THEN m ELSE WithPage(m, KernelDirectory, v)
HeapMapped ==
    LET mapped[k \in 0..HeapPages] ==
            IF k = 0 THEN IdentityMapped ELSE WithHeapPage(mapped[k - 1], HeapPage + k - 1)
    IN  mapped[HeapPages]

Init ==
    /\ ram = HeapMapped
    /\ kernel_directory = KernelDirectory
    /\ pc = "prompt" /\ loc = NoLocals
    /\ image_pd = [p \in Programs |-> None]
    /\ cr3 = [p \in Programs |-> None]
    /\ running = {}
    /\ program_break = [p \in Programs |-> ImagePage * PageSize]
    /\ allocated_pages = [p \in Programs |-> {}]
    /\ strayed = {}

Runs == ram.fault = "none"

(* The shell in pmm_alloc_block up to the search ... *)
ChooseFor(p, want, stack) ==
    /\ loc' = [program |-> p, want |-> want, frame |-> Choice(ram),
               count |-> ram.used_blocks, stack |-> stack]
    /\ pc' = "take"
    /\ UNCHANGED <<ram, kernel_directory, image_pd, process>>

(* ... and its next allocation. *)
Choose == Runs /\ pc = "choose" /\ ChooseFor(loc.program, loc.want, loc.stack)

(* The counter is written as it was read before the search, which is how   *)
(* the code is compiled, or read again.                                    *)
Taking(want) == Runs /\ pc = "take" /\ loc.want = want
AfterTaking == {Marked(ram, loc.frame, count) : count \in {loc.count, ram.used_blocks}}

Continue(label) == pc' = label /\ UNCHANGED loc
Allocate(want) == pc' = "choose" /\ loc' = [loc EXCEPT !.want = want]
Return == pc' = "prompt" /\ loc' = NoLocals

(* elf_load_file makes a directory, and gives up if there is no frame (page *)
(* 0 has been cleared by then); each program is loaded once ...             *)
elf_load_file(p) ==
    /\ Runs /\ pc = "prompt" /\ image_pd[p] = None
    /\ ChooseFor(p, "image_pd", 0)

elf_load_file_directory ==
    /\ Taking("image_pd")
    /\ \/ loc.frame = 0 /\ Return /\ UNCHANGED <<ram, image_pd>>
       \/ /\ loc.frame # 0
          /\ \E m \in AfterTaking : ram' = Directory(m, loc.frame, kernel_directory)
          /\ image_pd' = [image_pd EXCEPT ![loc.program] = loc.frame]
          /\ Continue("load")
    /\ UNCHANGED <<kernel_directory, process>>

(* ... maps the image in it with interrupts disabled, and calls            *)
(* create_process.                                                         *)
ImageEnd(p) == ImagePage + ImagePages[p]
elf_load_file_image ==
    /\ Runs /\ pc = "load"
    /\ ram' = MappedFresh(ram, image_pd[loc.program], ImagePage, ImagePages[loc.program])
    /\ Allocate("cr3")
    /\ UNCHANGED <<kernel_directory, image_pd, process>>

(* create_process: another directory ... *)
create_process_directory ==
    /\ Taking("cr3")
    /\ \E m \in AfterTaking :
          ram' = Directory(Unchecked(m, loc.frame), loc.frame, kernel_directory)
    /\ cr3' = [cr3 EXCEPT ![loc.program] = loc.frame]
    /\ Allocate("stack")
    /\ UNCHANGED <<kernel_directory, image_pd, running, program_break, allocated_pages,
                   strayed>>

(* ... a stack ... *)
create_process_stack ==
    /\ Taking("stack")
    /\ \E m \in AfterTaking : ram' = Unchecked(m, loc.frame)
    /\ pc' = "choose" /\ loc' = [loc EXCEPT !.want = "table", !.stack = loc.frame]
    /\ UNCHANGED <<kernel_directory, image_pd, process>>

(* ... and, in vmm_map_page_in_dir, a table for it; then it is scheduled.  *)
create_process_table ==
    /\ Taking("table")
    /\ LET d == cr3[loc.program]
       IN  \E m \in AfterTaking :
             ram' = Entered(WithTable(Unchecked(m, loc.frame), d, StackPage, loc.frame),
                            d, loc.stack, StackPage)
    /\ running' = running \cup {loc.program}
    /\ program_break' = [program_break EXCEPT ![loc.program] = ImageEnd(loc.program) * PageSize]
    /\ Return
    /\ UNCHANGED <<kernel_directory, image_pd, cr3, allocated_pages, strayed>>

(* The page in kernel_directory, for one of the program's.  A page that    *)
(* shows the kernel its memory or its heap would now be another frame, and *)
(* what the kernel does from then on is not followed.                      *)
Given(s, v) ==
    IF v \in KernelPages THEN [s EXCEPT !.m.fault = "kernel"]
    ELSE IF v \in HeapRange THEN [s EXCEPT !.m.fault = "heap"]
    ELSE [s EXCEPT !.m = WithPage(@, kernel_directory, v),
                   !.pages = @ \cup {[phys |-> Choice(s.m), virt |-> v]}]

(* Seeded fault: without a frame the loop ends, but the break is moved. *)
GrownOn(s, v) == IF s.failed \/ Choice(s.m) = 0 THEN s ELSE Given(s, v)

(* One page of sys_sbrk, which stops at the first it gets no frame for.    *)
(* vmm_map_page maps it in current_directory, which is kernel_directory    *)
(* whoever calls.                                                          *)
GrownBy(s, v) ==
    IF s.failed \/ Choice(s.m) = 0 THEN [s EXCEPT !.failed = TRUE] ELSE Given(s, v)

(* As many pages from v on, for program p. *)
Grown(p, v, pages) ==
    LET grown[k \in 0..pages] ==
            IF k = 0 THEN [m |-> ram, pages |-> allocated_pages[p], failed |-> FALSE]
            ELSE GrownBy(grown[k - 1], v + k - 1)
    IN  grown[pages]

(* The places of a break: behind the image and before the last page. *)
Place(p) == ImageEnd(p) * PageSize..(P * P - 1) * PageSize

(* The new break is only compared with the old, and rounded up, modulo the *)
(* size of an address: a negative increment may take it below the image,   *)
(* or past 0 to the other end of the address space.                        *)
SYS_SBRK(p, increment) ==
    /\ Runs /\ p \in running
    /\ LET old_break == program_break[p]
           new_break == (old_break + increment) % Space
           grown == Grown(p, Top(old_break),
                          IF Top(new_break) > Top(old_break) THEN Top(new_break) - Top(old_break)
                          ELSE 0)
           final == IF grown.failed THEN old_break ELSE new_break
       IN  /\ ram' = grown.m
           /\ allocated_pages' = [allocated_pages EXCEPT ![p] = grown.pages]
           /\ program_break' = [program_break EXCEPT ![p] = final]
           /\ strayed' = IF final = old_break \/ old_break + increment \in Place(p) THEN strayed
                         ELSE strayed \cup {p}
    /\ UNCHANGED <<kernel_directory, pc, loc, image_pd, cr3, running>>

(* process_exit gives nothing back. *)
process_exit(p) ==
    /\ Runs /\ p \in running
    /\ running' = running \ {p}
    /\ UNCHANGED <<ram, kernel_directory, pc, loc, image_pd, cr3, program_break,
                   allocated_pages, strayed>>
-----------------------------------------------------------------------------
(* What the shell does, and programs that exit. *)
Loads ==
    \/ Choose
    \/ \E p \in Programs : elf_load_file(p)
    \/ elf_load_file_directory \/ elf_load_file_image
    \/ create_process_directory \/ create_process_stack \/ create_process_table
    \/ \E p \in Programs : process_exit(p)

Next == Loads \/ \E p \in Programs, increment \in Increments : SYS_SBRK(p, increment)

Spec == Init /\ [][Next]_vars
-----------------------------------------------------------------------------
(* Properties.                                                             *)

(* The directories, by what they are for.  *)
Directories ==
    {[of |-> <<"kernel">>, frame |-> kernel_directory]}
    \cup {[of |-> <<"image", p>>, frame |-> image_pd[p]] : p \in Programs}
    \cup {[of |-> <<"process", p>>, frame |-> cr3[p]] : p \in Programs}

Made == {d \in Directories : d.frame # None}

(* The entries with tables, and the mapped pages, that a directory has of  *)
(* its own: it shares the tables of the kernel's memory, and of the pages  *)
(* above it the kernel's directory has those of the heap; it also maps     *)
(* pages of programs.                                                      *)
Tables(m, d) ==
    {e \in 0..P - 1 : /\ m.mem[d.frame][e] # None
                      /\ d.of = <<"kernel">> \/ e >= KernelEntries}
Pages(m, d) ==
    {v \in KernelEntries * P..P * P - 1 :
        /\ m.mem[d.frame][v \div P] # None
        /\ m.mem[m.mem[d.frame][v \div P]][v % P] # None
        /\ d.of = <<"kernel">> => v \in HeapRange}

TableUse(m, d, e) == [of |-> <<"table", d.of, e>>, frame |-> m.mem[d.frame][e]]
PageUse(m, d, v) ==
    [of |-> <<"page", d.of, v>>, frame |-> m.mem[m.mem[d.frame][v \div P]][v % P]]
BreakUse(p, t) == [of |-> <<"break", p, t>>, frame |-> t.phys]

(* What frames are used for: directories D, the tables and pages each of   *)
(* them has of its own, and what the programs have got from SYS_SBRK.      *)
UsesIn(m, D, breaks) ==
    D \cup (UNION {{TableUse(m, d, e) : e \in Tables(m, d)} : d \in D})
      \cup (UNION {{PageUse(m, d, v) : v \in Pages(m, d)} : d \in D})
      \cup breaks
Breaks == UNION {{BreakUse(p, t) : t \in allocated_pages[p]} : p \in Programs}
Uses == UsesIn(ram, Made, Breaks)

(* Unless a program has overtaken the shell in pmm_alloc_block or frame 0  *)
(* was used for want of another, every frame has one use: no program's     *)
(* page is also a table or a page of another program or of the heap, and   *)
(* none is still marked free.                                              *)
Isolated ==
    Runs => /\ Cardinality({u.frame : u \in Uses}) = Cardinality(Uses)
            /\ \A u \in Uses : u.frame \in ram.used

(* Every directory shows the kernel its own memory, through tables that    *)
(* still map each page to itself: the kernel can use a physical address as *)
(* a pointer whichever process is running.  SYS_SBRK maps a program's page *)
(* over one of these only when some break has left its place.              *)
KernelShared ==
    /\ Runs => \A d \in Made :
                  \A v \in KernelPages :
                     LET t == ram.mem[d.frame][v \div P]
                     IN  t # None /\ ram.mem[t][v % P] = v
    /\ ram.fault = "kernel" => strayed # {}

(* Every page between the end of a program's image and its break was given *)
(* a frame, whatever calls grew, shrank, wrapped or failed half way before *)
(* - except to a break in the last page of the address space, whose top is *)
(* 0: SYS_SBRK moves a break there and allocates nothing.                  *)
BreakBacked ==
    Runs => \A p \in running :
               program_break[p] <= (P * P - 1) * PageSize =>
                  \A v \in ImageEnd(p)..Top(program_break[p]) - 1 :
                     \E t \in allocated_pages[p] : t.virt = v

(* The kernel goes on with frame 0 only when the search would find none:   *)
(* the counter, which is asked first and also counts the frames past the   *)
(* last whole byte of the bitmap, never refuses a frame too early.  (It    *)
(* drifts when a program overtakes the shell in pmm_alloc_block; that is a *)
(* clash, and nothing is said of what follows.)                            *)
NullOnlyWhenFull == ram.fault = "null" => Visible(ram) = {}
=============================================================================
