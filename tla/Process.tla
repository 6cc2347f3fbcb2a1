------------------------------ MODULE Process ------------------------------
(***************************************************************************)
(* Process control of the kernel, src/src/kernel/process.c: the circular   *)
(* list of processes, the round-robin schedule(), process creation, exit,  *)
(* wait, block and unblock, with the two other pieces of code that drive   *)
(* it: the SYS_READ handler of syscall.c and the keyboard interrupt.       *)
(*                                                                         *)
(* A step of the model is a stretch of kernel code that runs with          *)
(* interrupts disabled, or, where they are enabled, one access to shared   *)
(* state.  So an interrupt can arrive between any two steps: a timer tick  *)
(* (which calls schedule() for the running process) and a key press.       *)
(* Entering the kernel by `int 0x80' disables interrupts; every return     *)
(* from schedule() enables them again, also inside a system call.          *)
(*                                                                         *)
(* Left out: the address spaces, the contents of stacks and registers, the *)
(* exit code, and the acknowledgement of the timer interrupt (module Irq). *)
(* Here a tick may come whenever interrupts are enabled, which includes    *)
(* every tick the interrupt controller lets through.                       *)
(***************************************************************************)
EXTENDS Integers, FiniteSets

CONSTANTS
    MaxPid,     \* bound: the highest pid that is ever created
    KBD,        \* bound: the capacity of the keyboard buffer
    Readers,    \* the processes that call SYS_READ
    WaitsFor    \* the pairs <<process, argument>> of the SYS_WAIT calls

Pids == 0..MaxPid
Monitor == 1
Shell == 2
Threads == 3..MaxPid
AnyChild == -1      \* the pid argument -1 of process_wait
Wild == -1          \* a next pointer, or ready_queue, nobody has written yet
KeyReason == 1      \* process_block(1) in SYS_READ, process_unblock(1) in the
                    \* keyboard interrupt; it is also the pid of the monitor

ASSUME ConstantsAssumption ==
    /\ MaxPid \in Nat /\ MaxPid >= 2
    /\ KBD \in Nat \ {0}
    /\ Readers \subseteq Shell..MaxPid
    /\ WaitsFor \subseteq (Shell..MaxPid) \X (Pids \cup {AnyChild})

VARIABLES
    next_pid, ready_queue, current_process,         \* the C globals
    state, wait_reason, parent_pid, next,           \* fields of process_t
    stacks,     \* the processes whose kernel stack is allocated
    pc,         \* where in the kernel code each process is
    loc,        \* the local variables of that code
    kbd,        \* the number of characters in the keyboard buffer
    fault       \* how the machine has gone wrong, if it has

vars == <<next_pid, ready_queue, current_process, state, wait_reason,
          parent_pid, next, stacks, pc, loc, kbd, fault>>

States == {"UNUSED", "READY", "BLOCKED", "ZOMBIE"}
PCs == {"init", "run", "retry", "link1", "link2", "wait", "reap", "unlink",
        "sleep1", "sleep2"}
Faults == {"none", "wild_next", "stale_esp"}
Node == Pids \cup {Wild}
NoLocals == [target |-> 0, node |-> 0, prev |-> 0, succ |-> 0]

TypeOK ==
    /\ next_pid \in 1..MaxPid + 1
    /\ ready_queue \in Node
    /\ current_process \in Pids
    /\ state \in [Pids -> States]
    /\ wait_reason \in [Pids -> Node]
    /\ parent_pid \in [Pids -> Node]
    /\ next \in [Pids -> Node]
    /\ stacks \subseteq Pids
    /\ pc \in [Pids -> PCs]
    /\ loc \in [Pids -> [target : Node, node : Pids, prev : Node, succ : Node]]
    /\ kbd \in 0..KBD
    /\ fault \in Faults
-----------------------------------------------------------------------------
(* Walks over the list.                                                    *)

(* The process of S that is met first on following next from p, or Wild if *)
(* an unwritten pointer is met before; as a set, empty if the walk never   *)
(* ends.  Over holds the processes stepped over; no part of it is closed   *)
(* under next.                                                             *)
Landing(p, S) ==
    {q \in S \cup {Wild} :
        \E Over \in SUBSET (Pids \ S) :
            /\ \A x \in Over \cup {p} : next[x] \in Over \cup {q}
            /\ \A C \in (SUBSET Over) \ {{}} : \E x \in C : next[x] \notin C}

(* The do-while walks that start at ready_queue and stop there: the first  *)
(* process of S, or Wild, or the head again when there is none.            *)
FirstInQueue(S) ==
    IF ready_queue \in S \cup {Wild} THEN {ready_queue}
    ELSE Landing(ready_queue, S \cup {ready_queue})

Sleepers(reason) == {x \in Pids : state[x] = "BLOCKED" /\ wait_reason[x] = reason}

(* process_unblock(reason), once the walk has found q. *)
Woken(st, reason, q) == IF q \in Sleepers(reason) THEN [st EXCEPT ![q] = "READY"] ELSE st
Cleared(reason, q) ==
    IF q \in Sleepers(reason) THEN [wait_reason EXCEPT ![q] = 0] ELSE wait_reason

(* The machine runs on through a pointer nobody has written. *)
Crash ==
    /\ fault' = "wild_next"
    /\ UNCHANGED <<next_pid, ready_queue, current_process, state, wait_reason,
                   parent_pid, next, stacks, pc, loc, kbd>>

(* Seeded faults.  schedule() as it would be if its loop took every process *)
(* that is not BLOCKED, and if it started at the current process itself.   *)
ScheduleTakesZombies(st) ==
    \E q \in Landing(current_process,
                     {x \in Pids : st[x] # "BLOCKED"} \cup {current_process}) :
        /\ state' = st
        /\ current_process' = IF q = Wild THEN current_process ELSE q
        /\ fault' = IF q = Wild THEN "wild_next" ELSE "none"
ScheduleFromCurrent(st) ==
    \E q \in (IF st[current_process] = "READY" THEN {current_process}
              ELSE Landing(current_process, {x \in Pids : st[x] = "READY"})) :
        /\ state' = st
        /\ current_process' = IF q = Wild THEN current_process ELSE q
        /\ fault' = CASE q = Wild -> "wild_next"
                      [] q = current_process -> "stale_esp"
                      [] OTHER -> "none"

(* schedule(), entered with the process states st.  With no other process  *)
(* READY it either stays with a current process that is not READY (the hlt *)
(* branch), or switches the current process to itself: switch_task then    *)
(* saves the current esp and loads the one that was saved there before.    *)
Schedule(st) ==
    LET ready == {x \in Pids : st[x] = "READY"}
        cur == current_process
    IN  \E q \in Landing(cur, ready \cup {cur}) :
          /\ state' = st
          /\ current_process' = IF q = Wild THEN cur ELSE q
          /\ fault' = CASE q = Wild -> "wild_next"
                        [] q = cur /\ q \in ready -> "stale_esp"
                        [] OTHER -> "none"

Running(p, labels) == fault = "none" /\ current_process = p /\ pc[p] \in labels
Goto(p, label) == pc' = [pc EXCEPT ![p] = label]
Set(p, field, v) == loc' = [loc EXCEPT ![p][field] = v]
-----------------------------------------------------------------------------
(* kmain has run up to init_multitasking, which has set current_process and *)
(* its first fields but not yet ready_queue and next.  parent_pid of        *)
(* process 0 is never written: any value may be found there.                *)
Init ==
    /\ next_pid = 1 /\ ready_queue = Wild /\ current_process = 0
    /\ state = [p \in Pids |-> IF p = 0 THEN "READY" ELSE "UNUSED"]
    /\ wait_reason = [p \in Pids |-> 0]
    /\ \E garbage \in Node : parent_pid = [p \in Pids |-> IF p = 0 THEN garbage ELSE 0]
    /\ next = [p \in Pids |-> Wild]
    /\ stacks = {0}
    /\ pc = [p \in Pids |-> IF p = 0 THEN "init" ELSE "run"]
    /\ loc = [p \in Pids |-> NoLocals]
    /\ kbd = 0 /\ fault = "none"

init_multitasking ==
    /\ Running(0, {"init"})
    /\ ready_queue' = 0
    /\ next' = [next EXCEPT ![0] = 0]
    /\ Goto(0, "run")
    /\ UNCHANGED <<next_pid, current_process, state, wait_reason, parent_pid,
                   stacks, loc, kbd, fault>>

(* Seeded fault: the new process is linked behind the head of the list,    *)
(* without the walk to its last process.                                   *)
CreateBehindHead(p) ==
    /\ Running(p, {"run"})
    /\ p = IF next_pid <= Shell THEN 0 ELSE Shell
    /\ next_pid <= MaxPid
    /\ next_pid' = next_pid + 1
    /\ state' = [state EXCEPT ![next_pid] = "READY"]
    /\ parent_pid' = [parent_pid EXCEPT ![next_pid] = p]
    /\ stacks' = stacks \cup {next_pid}
    /\ loc' = [loc EXCEPT ![p].node = next_pid, ![p].prev = ready_queue]
    /\ Goto(p, "link1")
    /\ UNCHANGED <<ready_queue, current_process, wait_reason, next, kbd, fault>>

(* create_process runs with interrupts enabled.  kmain creates the monitor *)
(* and the shell, then the shell creates every other process.  The new     *)
(* process is out of sight until it is linked; `last' is found last.       *)
create_process(p) ==
    /\ Running(p, {"run"})
    /\ p = IF next_pid <= Shell THEN 0 ELSE Shell
    /\ next_pid <= MaxPid
    /\ \E last \in FirstInQueue({x \in Pids : next[x] = ready_queue}) :
          /\ \/ last = Wild /\ Crash
             \/ /\ last # Wild
                /\ next_pid' = next_pid + 1
                /\ state' = [state EXCEPT ![next_pid] = "READY"]
                /\ parent_pid' = [parent_pid EXCEPT ![next_pid] = p]
                /\ stacks' = stacks \cup {next_pid}
                /\ loc' = [loc EXCEPT ![p].node = next_pid, ![p].prev = last]
                /\ Goto(p, "link1")
                /\ UNCHANGED <<ready_queue, current_process, wait_reason, next, kbd, fault>>

(* last->next = new_proc; *)
create_link_last(p) ==
    /\ Running(p, {"link1"})
    /\ next' = [next EXCEPT ![loc[p].prev] = loc[p].node]
    /\ Goto(p, "link2")
    /\ UNCHANGED <<next_pid, ready_queue, current_process, state, wait_reason,
                   parent_pid, stacks, loc, kbd, fault>>

(* Seeded fault: the pointer of the new process is not written. *)
LinkNewForgotten(p) ==
    /\ Running(p, {"link2"})
    /\ Goto(p, "run")
    /\ loc' = [loc EXCEPT ![p] = NoLocals]
    /\ UNCHANGED <<next_pid, ready_queue, current_process, state, wait_reason,
                   parent_pid, next, stacks, kbd, fault>>

(* new_proc->next = ready_queue; *)
create_link_new(p) ==
    /\ Running(p, {"link2"})
    /\ next' = [next EXCEPT ![loc[p].node] = ready_queue]
    /\ Goto(p, "run")
    /\ loc' = [loc EXCEPT ![p] = NoLocals]
    /\ UNCHANGED <<next_pid, ready_queue, current_process, state, wait_reason,
                   parent_pid, stacks, kbd, fault>>

(* The timer interrupt, or SYS_YIELD: schedule() for the running process. *)
timer_or_yield ==
    /\ fault = "none"
    /\ Schedule(state)
    /\ UNCHANGED <<next_pid, ready_queue, wait_reason, parent_pid, next, stacks,
                   pc, loc, kbd>>

(* process_block(reason), entered with interrupts disabled by p, which     *)
(* goes on at label when it is scheduled again.                            *)
process_block(p, reason, label) ==
    /\ wait_reason' = [wait_reason EXCEPT ![p] = reason]
    /\ Schedule([state EXCEPT ![p] = "BLOCKED"])
    /\ Goto(p, label)
    /\ UNCHANGED <<next_pid, ready_queue, parent_pid, next, stacks, kbd>>

(* SYS_READ: take a character, or block and return 0 when woken; a caller  *)
(* that gets 0 calls it again.                                             *)
SYS_READ(p) ==
    /\ Running(p, {"run", "retry"})
    /\ p \in Readers
    /\ \/ /\ kbd > 0
          /\ kbd' = kbd - 1
          /\ Goto(p, "run")
          /\ UNCHANGED <<next_pid, ready_queue, current_process, state, wait_reason,
                         parent_pid, next, stacks, loc, fault>>
       \/ /\ kbd = 0
          /\ process_block(p, KeyReason, "retry")
          /\ UNCHANGED loc

(* Seeded fault: a wake-up only for the character that finds the buffer    *)
(* empty.                                                                  *)
KeyWakesOnEmpty ==
    /\ fault = "none"
    /\ \E q \in FirstInQueue(Sleepers(KeyReason)) \ {Wild} :
          /\ kbd' = IF kbd < KBD THEN kbd + 1 ELSE kbd
          /\ state' = IF kbd = 0 THEN Woken(state, KeyReason, q) ELSE state
          /\ wait_reason' = IF kbd = 0 THEN Cleared(KeyReason, q) ELSE wait_reason
    /\ UNCHANGED <<next_pid, ready_queue, current_process, parent_pid, next, stacks,
                   pc, loc, fault>>

(* The keyboard interrupt for a key that yields a character: it is stored, *)
(* or dropped when the buffer is full, and one sleeper is woken.           *)
keyboard_handler ==
    /\ fault = "none"
    /\ \E q \in FirstInQueue(Sleepers(KeyReason)) :
          /\ \/ q = Wild /\ Crash
             \/ /\ q # Wild
                /\ kbd' = IF kbd < KBD THEN kbd + 1 ELSE kbd
                /\ state' = Woken(state, KeyReason, q)
                /\ wait_reason' = Cleared(KeyReason, q)
                /\ UNCHANGED <<next_pid, ready_queue, current_process, parent_pid,
                               next, stacks, pc, loc, fault>>

(* Seeded faults: exit wakes those who wait for its parent; exit returns   *)
(* without schedule().                                                     *)
ExitWakesParentsWaiters(p) ==
    /\ Running(p, {"run"})
    /\ p \in Threads
    /\ \E q \in FirstInQueue(Sleepers(parent_pid[p])) \ {Wild} :
          /\ wait_reason' = Cleared(parent_pid[p], q)
          /\ Schedule(Woken([state EXCEPT ![p] = "ZOMBIE"], parent_pid[p], q))
    /\ stacks' = stacks \ {p}
    /\ UNCHANGED <<next_pid, ready_queue, parent_pid, next, pc, loc, kbd>>
ExitRunsOn(p) ==
    /\ Running(p, {"run"})
    /\ p \in Threads
    /\ \E q \in FirstInQueue(Sleepers(p)) \ {Wild} :
          /\ wait_reason' = Cleared(p, q)
          /\ state' = Woken([state EXCEPT ![p] = "ZOMBIE"], p, q)
    /\ stacks' = stacks \ {p}
    /\ UNCHANGED <<next_pid, ready_queue, current_process, parent_pid, next, pc, loc,
                   kbd, fault>>

(* SYS_EXIT.  The stack freed here stays in use until schedule() leaves it. *)
process_exit(p) ==
    /\ Running(p, {"run"})
    /\ p \in Threads
    /\ \E q \in FirstInQueue(Sleepers(p)) :
          /\ \/ q = Wild /\ Crash
             \/ /\ q # Wild
                /\ stacks' = stacks \ {p}
                /\ wait_reason' = Cleared(p, q)
                /\ Schedule(Woken([state EXCEPT ![p] = "ZOMBIE"], p, q))
                /\ UNCHANGED <<next_pid, ready_queue, parent_pid, next, pc, loc, kbd>>
-----------------------------------------------------------------------------
(* process_wait: the processes its first loop takes for the awaited child. *)
Awaited(p, target) ==
    {x \in Pids : x = target \/ (target = AnyChild /\ parent_pid[x] = p)}

(* Seeded fault: the pointers are exchanged, child->next = prev.           *)
UnlinkedSwapped(prev, child, succ) ==
    /\ next' = [next EXCEPT ![child] = prev]
    /\ ready_queue' = IF ready_queue = child THEN succ ELSE ready_queue

(* prev->next = succ; and, if the child was the head, ready_queue = succ;  *)
Unlinked(prev, child, succ) ==
    /\ next' = [next EXCEPT ![prev] = succ]
    /\ ready_queue' = IF ready_queue = child THEN succ ELSE ready_queue

(* SYS_WAIT up to its return or its first process_block: one step, because *)
(* interrupts are disabled.  A target that is not found returns -1.  The    *)
(* walk that found the child has passed its predecessor.                   *)
process_wait(p, target) ==
    /\ Running(p, {"run"})
    /\ <<p, target>> \in WaitsFor
    /\ \E child \in FirstInQueue(Awaited(p, target)) :
          /\ \/ child = Wild /\ Crash
             \/ /\ child \in Awaited(p, target) /\ state[child] = "ZOMBIE"
                /\ \E prev \in FirstInQueue({x \in Pids : next[x] = child}) \ {Wild} :
                      /\ next[prev] = child
                      /\ Unlinked(prev, child, next[child])
                /\ UNCHANGED <<next_pid, current_process, state, wait_reason,
                               parent_pid, stacks, pc, loc, kbd, fault>>
             \/ /\ child \in Awaited(p, target) /\ state[child] # "ZOMBIE"
                /\ Set(p, "target", target)
                /\ process_block(p, child, "wait")

(* The loop after a wake-up runs with interrupts enabled. *)
wait_again(p) ==
    /\ Running(p, {"wait"})
    /\ LET awaited == Awaited(p, loc[p].target)
       IN  \E child \in FirstInQueue(awaited) :
          /\ \/ child = Wild /\ Crash
             \/ /\ child # Wild
                /\ Goto(p, IF child \notin awaited THEN "run"
                           ELSE IF state[child] = "ZOMBIE" THEN "reap" ELSE "sleep1")
                /\ loc' = [loc EXCEPT ![p] =
                             IF child \in awaited THEN [@ EXCEPT !.node = child] ELSE NoLocals]
                /\ UNCHANGED <<next_pid, ready_queue, current_process, state, wait_reason,
                               parent_pid, next, stacks, kbd, fault>>

(* The search for prev, and the load of child->next.  When no process      *)
(* points to the child any more the search never ends: no step is enabled. *)
wait_find_prev(p) ==
    /\ Running(p, {"reap"})
    /\ \E prev \in FirstInQueue({x \in Pids : next[x] = loc[p].node}) :
          /\ \/ prev = Wild /\ Crash
             \/ /\ prev # Wild /\ next[prev] = loc[p].node
                /\ loc' = [loc EXCEPT ![p].prev = prev, ![p].succ = next[loc[p].node]]
                /\ Goto(p, "unlink")
                /\ UNCHANGED <<next_pid, ready_queue, current_process, state, wait_reason,
                               parent_pid, next, stacks, kbd, fault>>

wait_unlink(p) ==
    /\ Running(p, {"unlink"})
    /\ Unlinked(loc[p].prev, loc[p].node, loc[p].succ)
    /\ Goto(p, "run")
    /\ loc' = [loc EXCEPT ![p] = NoLocals]
    /\ UNCHANGED <<next_pid, current_process, state, wait_reason, parent_pid, stacks,
                   kbd, fault>>

(* process_block entered with interrupts enabled: its first assignment ... *)
wait_block_state(p) ==
    /\ Running(p, {"sleep1"})
    /\ state' = [state EXCEPT ![p] = "BLOCKED"]
    /\ Goto(p, "sleep2")
    /\ UNCHANGED <<next_pid, ready_queue, current_process, wait_reason, parent_pid,
                   next, stacks, loc, kbd, fault>>

(* ... and the rest of it. *)
wait_block_reason(p) ==
    /\ Running(p, {"sleep2"})
    /\ wait_reason' = [wait_reason EXCEPT ![p] = loc[p].node]
    /\ Schedule(state)
    /\ Goto(p, "wait")
    /\ UNCHANGED <<next_pid, ready_queue, parent_pid, next, stacks, loc, kbd>>
-----------------------------------------------------------------------------
Next ==
    \/ init_multitasking
    \/ timer_or_yield
    \/ keyboard_handler
    \/ \E p \in Pids :
          \/ create_process(p) \/ create_link_last(p) \/ create_link_new(p)
          \/ SYS_READ(p)
          \/ process_exit(p)
          \/ \E target \in Node : process_wait(p, target)
          \/ wait_again(p) \/ wait_find_prev(p) \/ wait_unlink(p)
          \/ wait_block_state(p) \/ wait_block_reason(p)

Spec == Init /\ [][Next]_vars
-----------------------------------------------------------------------------
(* Properties.                                                             *)

(* The processor is only ever given to a process that may run: schedule()  *)
(* leaves a process that blocked or exited for a READY one, and never      *)
(* returns to a kernel stack that process_exit has freed.  (A waiter that  *)
(* process_block is about to put to sleep may be interrupted half way.)    *)
RunsReady ==
    fault = "none" =>
        /\ state[current_process] = "READY" \/ pc[current_process] = "sleep2"
        /\ current_process \in stacks

(* An exited process is never made READY again and never scheduled.        *)
ZombieFinal ==
    [][\A p \in Pids : state[p] = "ZOMBIE" =>
            state'[p] = "ZOMBIE" /\ (fault' = "none" => current_process' # p)]_vars

(* Once the monitor is linked, schedule() always finds a process other     *)
(* than the current one, so it never switches a process to itself.         *)
SelfSwitchOnlyInBoot == fault = "stale_esp" => next[0] = 0

(* The loop of schedule(), which runs with interrupts disabled, comes to   *)
(* an end whichever process is running when it is called.                  *)
ScheduleReturns ==
    fault = "none" =>
        Landing(current_process, {x \in Pids : state[x] = "READY"} \cup {current_process}) # {}

(* The processes that a walk from ready_queue reaches. *)
Reachable ==
    {p \in Pids : \A C \in SUBSET Pids :
        ready_queue \in C /\ (\A x \in C : next[x] \in C \cup {Wild}) => p \in C}

(* Every process that create_process has finished linking and that has not *)
(* exited is on the list, so schedule() and the wake-ups find it.          *)
NothingLost ==
    fault = "none" =>
        \A p \in Pids : state[p] \in {"READY", "BLOCKED"} /\ next[p] # Wild => p \in Reachable

(* No reader sleeps on a key that is there for it: while one is blocked,   *)
(* there are no more characters than readers already woken to take them.   *)
(* A process that waits for the monitor sleeps on the same number, takes   *)
(* the readers' wake-ups and goes back to sleep (syscall.c:82): the rest   *)
(* is about the time before one does.                                      *)
ReadersWoken ==
    Sleepers(KeyReason) # {} /\ (\A p \in Pids : loc[p].target # Monitor) =>
        kbd <= Cardinality({p \in Pids : state[p] = "READY" /\ pc[p] = "retry"})

(* Nobody sleeps waiting for a process that has already exited. *)
NoLostWakeup ==
    fault = "none" =>
        \A p \in Pids : state[p] = "BLOCKED" /\ pc[p] = "wait" /\ wait_reason[p] \in Pids
            => state[wait_reason[p]] # "ZOMBIE"

(* After boot the list is walked through a pointer nobody has written only *)
(* between the two assignments that link a new process (process.c:130-131).*)
WildOnlyWhileLinking ==
    fault = "wild_next" => pc[0] = "init" \/ \E p \in Pids : pc[p] = "link2"
=============================================================================
