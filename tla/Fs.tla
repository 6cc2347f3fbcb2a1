--------------------------------- MODULE Fs ---------------------------------
(***************************************************************************)
(* The file system in memory, src/src/kernel/fs.c: a tree of file_t nodes  *)
(* on the kernel heap, a working directory and a table of descriptors for  *)
(* each process.                                                           *)
(*                                                                         *)
(* Two kinds of process use it.  The shell is a kernel thread that calls   *)
(* fs_mkdir, fs_touch, fs_delete and sys_chdir with interrupts enabled     *)
(* (execute_command in shell.c): a tick may come between any two of its    *)
(* steps.  A program makes system calls, which run with interrupts         *)
(* disabled: each of them is one step.                                     *)
(*                                                                         *)
(* Left out: listing and printing, which change nothing; fs_write and      *)
(* sys_seek, which nothing calls (system call 12 is in no case of          *)
(* syscall_handler); failure of kmalloc, which the code does not check,    *)
(* and with it files longer than the heap, which a wrapped offset asks for.*)
(***************************************************************************)
EXTENDS Integers, Sequences, SequencesExt, FiniteSets, FiniteSetsExt

CONSTANTS
    Nodes,          \* bound: the heap addresses file_t nodes can be put at
    Root,           \* fs_root
    NULL,
    Names,          \* the names that are typed
    Stored,         \* what file_t.name, 32 bytes, keeps of each of them
    Paths,          \* the paths: whether absolute, and the components
    Shell,          \* the shell's process
    Programs,       \* the processes it starts
    Modules,        \* the boot modules, in order: [node, name, size]
    Commands,       \* the commands typed, of "mkdir", "touch" and "rm"
    Unlinkers,      \* the programs that delete files
    Fds,            \* 0..MAX_OPEN_FILES - 1
    Leftovers,      \* what a new process may find in its descriptor table
    Half,           \* 2^31: an int is one of -Half..Half - 1
    UserBase,       \* 0x08000000, where the memory of programs starts
    MaxSize         \* bound: the size of a file

Wild == "wild"      \* a pointer to memory that is not an allocated node
Up == ".."
Procs == {Shell} \cup Programs
Address == Nodes \cup {NULL, Wild}
Byte == {"written", "garbage"}      \* what kmalloc returns is not cleared

ASSUME FsAssumption ==
    /\ Root \in Nodes /\ NULL \notin Nodes /\ Wild \notin Nodes /\ NULL # Wild
    /\ IsFiniteSet(Nodes)
    /\ Stored \in [Names -> Names] /\ Up \notin Names
    /\ Paths \subseteq [absolute : BOOLEAN, components : Seq(Names \cup {Up})]
    /\ Shell \notin Programs
    /\ Modules \in Seq([node : Nodes \ {Root}, name : Names, size : Nat])
    /\ \A i, j \in DOMAIN Modules : i # j => Modules[i].node # Modules[j].node
    /\ \A i \in DOMAIN Modules : Modules[i].size <= MaxSize
    /\ Unlinkers \subseteq Programs
    /\ Fds \subseteq Nat
    /\ Leftovers \subseteq {NULL, Wild}
    /\ {MaxSize, UserBase, Half} \subseteq Nat /\ MaxSize < UserBase /\ UserBase < Half

VARIABLES
    live,                           \* the allocated nodes
    name, dirs,                     \* file_t.name; the nodes with FS_DIRECTORY
    parent, children, next,         \* the tree pointers
    data,                           \* the contents, of length file_t.size
    started,                        \* the processes that exist
    cwd, fd_table,                  \* fields of process_t
    pc, loc,                        \* the shell's place in a command, and its locals
    eax,                            \* what the last system call returned
    fault,                          \* a step has used memory that was freed, or
                                    \* memory outside the block of its file
    misled                          \* the files of which a descriptor was
                                    \* moved by a negative size

tree == <<live, name, dirs, parent, children, next, data>>
shell == <<pc, loc>>
vars == <<tree, started, cwd, fd_table, shell, eax, fault, misled>>

NoLocals == [dir |-> NULL, node |-> NULL, prev |-> NULL]
Closed == [file_node |-> NULL, offset |-> 0]

TypeOK ==
    /\ Root \in live /\ live \subseteq Nodes
    /\ name \in [Nodes -> Names \cup {NULL}]
    /\ dirs \subseteq Nodes
    /\ parent \in [Nodes -> Nodes \cup {NULL}]
    /\ children \in [Nodes -> Nodes \cup {NULL}]
    /\ next \in [Nodes -> Nodes \cup {NULL}]
    /\ data \in [Nodes -> BoundedSeq(Byte, MaxSize)]
    /\ started \subseteq Procs
    /\ cwd \in [Procs -> Nodes]
    /\ fd_table \in [Procs -> [Fds -> [file_node : Address, offset : -Half..Half - 1]]]
    /\ pc \in {"prompt", "insert", "free", "unlink"}
    /\ loc \in [dir : Nodes \cup {NULL}, node : Nodes \cup {NULL}, prev : Nodes \cup {NULL}]
    /\ eax \in Int
    /\ fault \in BOOLEAN /\ misled \subseteq Nodes
-----------------------------------------------------------------------------
(* Walks.                                                                  *)

(* The k-th node of the list of children of d.  The walk stays where it is *)
(* once it has met NULL or a node that is not allocated.                   *)
Sibling(d) ==
    LET nth[k \in 0..Cardinality(Nodes)] ==
          IF k = 0 THEN children[d]
          ELSE IF nth[k - 1] \in live THEN next[nth[k - 1]] ELSE nth[k - 1]
    IN  nth

(* The first child of d called s and the one before it, [node, prev]; node *)
(* is NULL if there is none, Wild if the walk leaves allocated memory.     *)
Search(d, s) ==
    LET nth == Sibling(d)
        stops == {k \in DOMAIN nth : nth[k] \notin live \/ name[nth[k]] = s}
        at(k) == IF nth[k] \in live \cup {NULL} THEN nth[k] ELSE Wild
    IN  IF d \notin live \/ stops = {} THEN [node |-> Wild, prev |-> NULL]
        ELSE LET k == Min(stops)
             IN  [node |-> at(k), prev |-> IF k = 0 THEN NULL ELSE nth[k - 1]]

fs_find_child(d, s) ==
    IF d \in live /\ d \notin dirs THEN NULL ELSE Search(d, s).node

(* One component of a path, cut to what its 32-byte buffer holds. *)
Component(current, c) ==
    IF current \in {NULL, Wild} THEN current
    ELSE IF current \notin live THEN Wild
    ELSE IF c = Up THEN IF parent[current] = NULL THEN current ELSE parent[current]
    ELSE fs_find_child(current, Stored[c])

fs_resolve_path(p, path) ==
    LET current[k \in 0..Len(path.components)] ==
          IF k = 0 THEN IF path.absolute THEN Root ELSE cwd[p]
          ELSE Component(current[k - 1], path.components[k])
    IN  current[Len(path.components)]

get_free_fd(p) == {f \in Fds : fd_table[p][f].file_node = NULL}

(* A step follows a pointer into memory that was freed, or reaches outside *)
(* the block of a file: what it finds or destroys there is not known, and  *)
(* the model goes no further.                                              *)
Misuse == fault' = TRUE /\ UNCHANGED <<tree, started, cwd, fd_table, shell, eax, misled>>
-----------------------------------------------------------------------------
(* init_fs: each module becomes a file, put at the head of the root's list. *)
Init ==
    LET loaded == {m.node : m \in Range(Modules)}
        nth == [n \in loaded |-> CHOOSE i \in DOMAIN Modules : Modules[i].node = n]
    IN  /\ live = {Root} \cup loaded /\ dirs = {Root}
        /\ name = [n \in Nodes |-> IF n \in loaded THEN Stored[Modules[nth[n]].name] ELSE NULL]
        /\ parent = [n \in Nodes |-> IF n \in loaded THEN Root ELSE NULL]
        /\ children = [n \in Nodes |-> IF n = Root /\ loaded # {} THEN Last(Modules).node ELSE NULL]
        /\ next = [n \in Nodes |-> IF n \in loaded /\ n # Modules[1].node
                                   THEN Modules[nth[n] - 1].node ELSE NULL]
        /\ data = [n \in Nodes |-> IF n \in loaded
                                   THEN [i \in 1..Modules[nth[n]].size |-> "written"] ELSE <<>>]
        /\ started = {Shell}
        /\ cwd = [p \in Procs |-> Root]
        /\ fd_table = [p \in Procs |-> [f \in Fds |-> Closed]]
        /\ pc = "prompt" /\ loc = NoLocals
        /\ eax = 0 /\ fault = FALSE /\ misled = {}

(* fs_create_node, and fs_insert_child up to its last assignment: nobody   *)
(* sees the node yet.                                                      *)
Created(n, d, s, directory) ==
    /\ live' = live \cup {n}
    /\ name' = [name EXCEPT ![n] = s]
    /\ dirs' = IF directory THEN dirs \cup {n} ELSE dirs \ {n}
    /\ data' = [data EXCEPT ![n] = <<>>]
    /\ parent' = [parent EXCEPT ![n] = d]
    /\ next' = [next EXCEPT ![n] = children[d]]
    /\ children' = [children EXCEPT ![n] = NULL]

(* Seeded fault: the name is not looked up first. *)
CreateAnyway(s, directory) ==
    /\ (IF directory THEN "mkdir" ELSE "touch") \in Commands
    /\ pc = "prompt" /\ ~fault
    /\ \E n \in Nodes \ live :
          /\ Created(n, cwd[Shell], Stored[s], directory)
          /\ loc' = [NoLocals EXCEPT !.dir = cwd[Shell], !.node = n]
    /\ pc' = "insert"
    /\ UNCHANGED <<started, cwd, fd_table, eax, fault, misled>>

(* fs_mkdir and fs_touch: the name is looked up as typed, kept as Stored. *)
fs_mkdir_or_touch(s, directory) ==
    /\ (IF directory THEN "mkdir" ELSE "touch") \in Commands
    /\ pc = "prompt" /\ ~fault
    /\ \/ fs_find_child(cwd[Shell], s) = Wild /\ Misuse
       \/ /\ fs_find_child(cwd[Shell], s) = NULL
          /\ \E n \in Nodes \ live :
                /\ Created(n, cwd[Shell], Stored[s], directory)
                /\ loc' = [NoLocals EXCEPT !.dir = cwd[Shell], !.node = n]
          /\ pc' = "insert"
          /\ UNCHANGED <<started, cwd, fd_table, eax, fault, misled>>

(* parent->children = child; *)
fs_insert_child ==
    /\ pc = "insert" /\ ~fault
    /\ \/ loc.dir \notin live /\ Misuse
       \/ /\ loc.dir \in live
          /\ children' = [children EXCEPT ![loc.dir] = loc.node]
          /\ pc' = "prompt" /\ loc' = NoLocals
          /\ UNCHANGED <<live, name, dirs, parent, next, data, started, cwd, fd_table,
                         eax, fault, misled>>

(* Seeded fault: the first child is freed without moving parent->children. *)
UnlinkedExceptHead(d, n, prev) ==
    /\ next' = IF prev # NULL THEN [next EXCEPT ![prev] = next[n]] ELSE next
    /\ live' = live \ {n}
    /\ UNCHANGED <<name, dirs, parent, children, data>>

(* The last assignments of fs_delete; both nodes are given back to the heap *)
(* with the fields they had.                                               *)
Unlinked(d, n, prev) ==
    /\ IF prev # NULL
       THEN next' = [next EXCEPT ![prev] = next[n]] /\ UNCHANGED children
       ELSE children' = [children EXCEPT ![d] = next[n]] /\ UNCHANGED next
    /\ live' = live \ {n}
    /\ UNCHANGED <<name, dirs, parent, data>>

(* Seeded fault: a directory is deleted with what is in it. *)
DeletableFull(n) == n \in live

Deletable(n) == n \in live /\ ~(n \in dirs /\ children[n] # NULL)

(* fs_delete called by the shell: the search ... *)
fs_delete(s) ==
    /\ "rm" \in Commands
    /\ pc = "prompt" /\ ~fault
    /\ LET found == Search(cwd[Shell], s)
       IN  \/ found.node = Wild /\ Misuse
           \/ /\ Deletable(found.node)
              /\ pc' = "free"
              /\ loc' = [dir |-> cwd[Shell], node |-> found.node, prev |-> found.prev]
              /\ UNCHANGED <<tree, started, cwd, fd_table, eax, fault, misled>>

(* Does n have a block of data?  A boot module of no bytes has one.        *)
HasBlock(n) == data[n] # <<>> \/ \E m \in Range(Modules) : m.node = n /\ m.size = 0

(* ... if (curr->data) kfree(curr->data), with the node still in its list  *)
(* and in the descriptors of programs ...                                  *)
fs_delete_data ==
    /\ pc = "free" /\ ~fault
    /\ \/ loc.node \notin live /\ Misuse
       \/ /\ loc.node \in live /\ HasBlock(loc.node)
          /\ pc' = "unlink"
          /\ UNCHANGED <<tree, started, cwd, fd_table, loc, eax, fault, misled>>

(* The file whose data the shell has freed and whose node is still there.  *)
Freed == IF pc = "unlink" THEN {loc.node} ELSE {}

(* ... and the rest. *)
fs_delete_unlink ==
    /\ pc = "unlink" \/ (pc = "free" /\ data[loc.node] = <<>>)
    /\ ~fault
    /\ LET touched == {loc.dir, loc.node, loc.prev} \ {NULL}
       IN  \/ ~(touched \subseteq live) /\ Misuse
           \/ /\ touched \subseteq live
              /\ Unlinked(loc.dir, loc.node, loc.prev)
              /\ pc' = "prompt" /\ loc' = NoLocals
              /\ UNCHANGED <<started, cwd, fd_table, eax, fault, misled>>

(* The shell starts a program: create_process hands down the working       *)
(* directory and leaves the descriptor table as kmalloc returned it.       *)
create_process(p) ==
    /\ pc = "prompt" /\ ~fault
    /\ p \in Programs \ started
    /\ started' = started \cup {p}
    /\ cwd' = [cwd EXCEPT ![p] = cwd[Shell]]
    /\ \E left \in [Fds -> Leftovers] :
          fd_table' = [fd_table EXCEPT ![p] =
                          [f \in Fds |-> [file_node |-> left[f], offset |-> 0]]]
    /\ UNCHANGED <<tree, shell, eax, fault, misled>>
-----------------------------------------------------------------------------
(* System calls.                                                           *)

Calling(p) == ~fault /\ p \in started /\ (p = Shell => pc = "prompt")

(* Seeded fault: a file is taken for a directory. *)
ChdirAnywhere(p, path) ==
    /\ Calling(p)
    /\ fs_resolve_path(p, path) \in live
    /\ cwd' = [cwd EXCEPT ![p] = fs_resolve_path(p, path)]
    /\ eax' = 0
    /\ UNCHANGED <<tree, started, fd_table, shell, fault, misled>>

(* Seeded fault: it is not checked that the path led anywhere. *)
ChdirUnchecked(p, path) ==
    /\ Calling(p)
    /\ fs_resolve_path(p, path) \notin live \ dirs
    /\ cwd' = [cwd EXCEPT ![p] = fs_resolve_path(p, path)]
    /\ eax' = 0
    /\ UNCHANGED <<tree, started, fd_table, shell, fault, misled>>

(* `cd' in the shell, system call 15 in a program. *)
sys_chdir(p, path) ==
    /\ Calling(p)
    /\ LET d == fs_resolve_path(p, path)
       IN  \/ d = Wild /\ Misuse
           \/ /\ d = NULL \/ d \in live \ dirs
              /\ eax' = -1
              /\ UNCHANGED <<tree, started, cwd, fd_table, shell, fault, misled>>
           \/ /\ d \in live \cap dirs
              /\ cwd' = [cwd EXCEPT ![p] = d]
              /\ eax' = 0
              /\ UNCHANGED <<tree, started, fd_table, shell, fault, misled>>
           \/ d \in Nodes \ live /\ Misuse

SYS_OPEN(p, path) ==
    /\ Calling(p) /\ p \in Programs
    /\ LET n == fs_resolve_path(p, path)
       IN  \/ n = Wild /\ Misuse
           \/ /\ n = NULL \/ (n # Wild /\ get_free_fd(p) = {})
              /\ eax' = -1
              /\ UNCHANGED <<tree, started, cwd, fd_table, shell, fault, misled>>
           \/ /\ n \in Nodes /\ get_free_fd(p) # {}
              /\ LET f == Min(get_free_fd(p))
                 IN  /\ fd_table' = [fd_table EXCEPT ![p][f] = [file_node |-> n, offset |-> 0]]
                     /\ eax' = f
              /\ UNCHANGED <<tree, started, cwd, shell, fault, misled>>

SYS_CLOSE(p, f) ==
    /\ Calling(p) /\ p \in Programs
    /\ fd_table' = [fd_table EXCEPT ![p][f].file_node = NULL]
    /\ UNCHANGED <<tree, started, cwd, shell, eax, fault, misled>>

(* What SYS_FREAD and SYS_WRITE do first with a descriptor that is not a   *)
(* live one.                                                               *)
BadDescriptor(p, f) ==
    LET n == fd_table[p][f].file_node
    IN  \/ n = NULL /\ eax' = -1 /\ UNCHANGED <<tree, started, cwd, fd_table, shell, fault, misled>>
        \/ n \notin live \cup {NULL} /\ Misuse

(* Two ints added or subtracted. *)
Int32(x) == IF x >= Half THEN x - 2 * Half ELSE IF x < -Half THEN x + 2 * Half ELSE x

(* What programs can pass for a size: addresses are unsigned, so that a    *)
(* negative size is one of up to nearly 4 GB that fits behind some address. *)
is_valid_user_ptr(addr, size) ==
    LET end == (addr + size) % (2 * Half)
    IN  addr <= end /\ UserBase <= addr /\ UserBase <= end
Sizes == {size \in -Half..MaxSize : \E addr \in 0..2 * Half - 1 : is_valid_user_ptr(addr, size)}

(* A descriptor of the file is moved by so many bytes.                     *)
MovedBy(p, f, size) ==
    /\ fd_table' = [fd_table EXCEPT ![p][f].offset = Int32(@ + size)]
    /\ misled' = IF size < 0 THEN misled \cup {fd_table[p][f].file_node} ELSE misled

(* The loops run for positive sizes only; a negative one moves the offset. *)
SYS_FREAD(p, f, size) ==
    /\ Calling(p) /\ p \in Programs
    /\ \/ BadDescriptor(p, f)
       \/ LET desc == fd_table[p][f]
              left == Int32(Len(data[desc.file_node]) - desc.offset)
              to_read == IF left <= 0 THEN 0 ELSE IF size < left THEN size ELSE left
              outside == to_read > 0 /\ (desc.offset < 0 \/ desc.file_node \in Freed)
          IN  /\ desc.file_node \in live
              /\ \/ outside /\ Misuse
                 \/ /\ ~outside
                    /\ eax' = to_read /\ MovedBy(p, f, to_read)
                    /\ UNCHANGED <<tree, started, cwd, shell, fault>>

(* Seeded fault: the old contents are not copied. *)
GrownEmpty(old, end_pos) == [i \in 1..end_pos |-> "garbage"]

(* A file written past its end moves to a larger block: the old contents   *)
(* are copied, the rest is as kmalloc left it, then the buffer is written. *)
Grown(old, end_pos) ==
    [i \in 1..end_pos |-> IF i <= Len(old) THEN old[i] ELSE "garbage"]
Overwritten(old, offset, size) ==
    LET end_pos == Int32(offset + size)
        block == IF end_pos > Len(old) THEN Grown(old, end_pos) ELSE old
    IN  [i \in DOMAIN block |-> IF i \in offset + 1..offset + size THEN "written" ELSE block[i]]

SYS_WRITE(p, f, size) ==
    /\ Calling(p) /\ p \in Programs
    /\ \/ BadDescriptor(p, f)
       \/ LET desc == fd_table[p][f]
              end_pos == Int32(desc.offset + size)
              outside == \/ size > 0 /\ (desc.offset < 0 \/ end_pos < 0)
                         \/ /\ desc.file_node \in Freed
                            /\ size > 0 \/ end_pos > Len(data[desc.file_node])
          IN  /\ desc.file_node \in live
              /\ \/ outside /\ Misuse
                 \/ /\ ~outside /\ end_pos <= MaxSize
                    /\ data' = [data EXCEPT ![desc.file_node] = Overwritten(@, desc.offset, size)]
                    /\ eax' = size /\ MovedBy(p, f, size)
                    /\ UNCHANGED <<live, name, dirs, parent, children, next, started, cwd,
                                   shell, fault>>

(* System call 14. *)
SYS_UNLINK(p, s) ==
    /\ Calling(p) /\ p \in Unlinkers
    /\ LET found == Search(cwd[p], s)
       IN  \/ found.node \in {Wild} \cup Freed /\ Misuse
           \/ /\ found.node \notin {Wild} \cup Freed
              /\ IF Deletable(found.node) THEN Unlinked(cwd[p], found.node, found.prev)
                 ELSE UNCHANGED tree
              /\ eax' = 0
              /\ UNCHANGED <<started, cwd, fd_table, shell, fault, misled>>
-----------------------------------------------------------------------------
Next ==
    \/ \E s \in Names, directory \in BOOLEAN : fs_mkdir_or_touch(s, directory)
    \/ fs_insert_child
    \/ \E s \in Names : fs_delete(s)
    \/ fs_delete_data \/ fs_delete_unlink
    \/ \E p \in Programs : create_process(p)
    \/ \E p \in Procs, path \in Paths : sys_chdir(p, path)
    \/ \E p \in Programs, path \in Paths : SYS_OPEN(p, path)
    \/ \E p \in Programs, f \in Fds :
          \/ SYS_CLOSE(p, f)
          \/ \E size \in Sizes : SYS_FREAD(p, f, size) \/ SYS_WRITE(p, f, size)
    \/ \E p \in Programs, s \in Names : SYS_UNLINK(p, s)

Spec == Init /\ [][Next]_vars
-----------------------------------------------------------------------------
(* Properties.                                                             *)

InList(d) == {Sibling(d)[k] : k \in DOMAIN Sibling(d)}

(* The node the shell has made but not yet hung into its directory. *)
Pending == IF pc = "insert" THEN {loc.node} ELSE {}

(* Whatever is interrupted where, the pointers form one tree: every        *)
(* allocated node is in the list of the directory it names as its parent   *)
(* and in no other, the lists hold allocated nodes only and end, and the   *)
(* parents lead to the root.                                               *)
Tree ==
    ~fault =>
        /\ \A d \in live : InList(d) = {n \in live \ Pending : parent[n] = d} \cup {NULL}
        /\ \A d \in live \ dirs : children[d] = NULL
        /\ \A C \in (SUBSET (live \ {Root})) \ {{}} : \E n \in C : parent[n] \notin C

(* A file that was created is found under its name in its directory: no    *)
(* two of one name, of which the second would hide the first.  Names that  *)
(* were cut are excepted: fs_touch looks them up as typed (fs.c:152).      *)
Cut(s) == \E t \in Names : t # s /\ Stored[t] = s
Findable ==
    ~fault => \A n \in live \ ({Root} \cup Pending) :
                 fs_find_child(parent[n], name[n]) = n \/ Cut(name[n])

(* The shell cannot delete the directory it is in: its working directory   *)
(* is always one of the tree.                                              *)
CwdLive == cwd[Shell] \in live \cap dirs

(* As long as nobody but the shell has run, no step uses a node that was   *)
(* freed.  (A program may keep a node that the shell deletes.)             *)
Sound == fault => started # {Shell}

(* As long as no descriptor of a file was moved by a negative size: no     *)
(* offset lies outside the file, so a write never leaves a gap, and the    *)
(* file contains no bytes that were never written to it.                   *)
Intact ==
    ~fault =>
        /\ \A p \in started, f \in Fds :
              LET desc == fd_table[p][f]
              IN  desc.file_node \in live \ misled =>
                      desc.offset \in 0..Len(data[desc.file_node])
        /\ \A n \in live \ misled : \A i \in DOMAIN data[n] : data[n][i] = "written"
=============================================================================
