-------------------------------- MODULE Irq --------------------------------
(***************************************************************************)
(* Preemption and the acknowledgement of interrupts: isr_handler() of      *)
(* src/src/cpu/idt.c calls schedule() for a timer tick and sends the end   *)
(* of interrupt to the PIC only after schedule() has returned, that is,    *)
(* when the preempted process is given the processor again.  Until then    *)
(* the PIC holds back the timer and everything of lower priority.          *)
(*                                                                         *)
(* All processes are on the ring and none exits (module Process has the    *)
(* rest of process control).  Each follows one of three habits: it never   *)
(* enters the kernel (kmain's loop, the monitor), it yields now and then,  *)
(* or it reads the keyboard (the shell).                                   *)
(***************************************************************************)
EXTENDS Integers

CONSTANTS
    N,          \* the number of processes; the ring is 0, 1, ..., N-1, 0
    Spinners,   \* the processes that never enter the kernel by themselves
    Readers,    \* the processes that read the keyboard; the others yield
    KBD         \* bound: the capacity of the keyboard buffer

Procs == 0..N - 1

(* Two processes never block, so schedule() always finds another one.      *)
ASSUME IrqAssumption ==
    /\ N \in Nat \ {0}
    /\ Spinners \subseteq Procs /\ Readers \subseteq Procs
    /\ Spinners \cap Readers = {}
    /\ \E p, q \in Procs \ Readers : p # q
    /\ KBD \in Nat \ {0}

VARIABLES
    current_process,
    state,          \* READY or BLOCKED
    where,          \* where a process goes on when it is switched to
    in_service,     \* the timer interrupt awaits its end of interrupt
    irr_timer,      \* a tick is pending in the PIC
    irr_kbd,        \* a key press is pending in the PIC
    kbd             \* the number of characters in the keyboard buffer

irqVars == <<current_process, state, where, in_service, irr_timer, irr_kbd, kbd>>

(* "fresh": create_process's frame, which jump_to_user takes to the entry  *)
(* point; "isr": inside isr_handler for a tick, before the acknowledgement;*)
(* "call": inside a system call.  The current process is at "user", or at  *)
(* "isr" when schedule() has just returned to it.                          *)
Places == {"fresh", "isr", "call", "user"}

IrqTypeOK ==
    /\ current_process \in Procs
    /\ state \in [Procs -> {"READY", "BLOCKED"}]
    /\ where \in [Procs -> Places]
    /\ in_service \in BOOLEAN /\ irr_timer \in BOOLEAN /\ irr_kbd \in BOOLEAN
    /\ kbd \in 0..KBD
-----------------------------------------------------------------------------
(* How many steps along the ring q is behind p. *)
Dist(p, q) == IF q > p THEN q - p ELSE q - p + N

(* schedule(), called by the current process at place, with states st: the *)
(* next READY process on the ring goes on where it was.                    *)
schedule(place, st) ==
    \E q \in Procs \ {current_process} :
        /\ st[q] = "READY"
        /\ \A r \in Procs : Dist(current_process, r) < Dist(current_process, q)
                                => st[r] # "READY"
        /\ current_process' = q
        /\ state' = st
        /\ where' = [where EXCEPT ![current_process] = place,
                                  ![q] = IF @ = "isr" THEN "isr" ELSE "user"]

AtUser(p) == current_process = p /\ where[p] = "user"
Interruptible == AtUser(current_process) /\ ~in_service

IrqInit ==
    /\ current_process = 0
    /\ state = [p \in Procs |-> "READY"]
    /\ where = [p \in Procs |-> IF p = 0 THEN "user" ELSE "fresh"]
    /\ in_service = FALSE /\ irr_timer = FALSE /\ irr_kbd = FALSE
    /\ kbd = 0

(* The devices raise their lines. *)
tick ==
    /\ ~irr_timer
    /\ irr_timer' = TRUE
    /\ UNCHANGED <<current_process, state, where, in_service, irr_kbd, kbd>>
key ==
    /\ ~irr_kbd
    /\ irr_kbd' = TRUE
    /\ UNCHANGED <<current_process, state, where, in_service, irr_timer, kbd>>

(* Seeded faults: the end of interrupt is sent before schedule() is called *)
(* and once more after it; a tick is taken while one is in service.        *)
TimerAcksTwice ==
    /\ irr_timer /\ Interruptible
    /\ irr_timer' = FALSE /\ in_service' = FALSE
    /\ schedule("isr", state)
    /\ UNCHANGED <<irr_kbd, kbd>>
TimerNests ==
    /\ irr_timer /\ AtUser(current_process)
    /\ irr_timer' = FALSE /\ in_service' = TRUE
    /\ schedule("isr", state)
    /\ UNCHANGED <<irr_kbd, kbd>>

(* isr_handler, int_no = 32, up to the switch inside schedule(). *)
timer_isr ==
    /\ irr_timer /\ Interruptible
    /\ irr_timer' = FALSE /\ in_service' = TRUE
    /\ schedule("isr", state)
    /\ UNCHANGED <<irr_kbd, kbd>>

(* Seeded fault: the range test leaves out the timer, int_no > 32. *)
NoEndOfInterrupt ==
    /\ where[current_process] = "isr"
    /\ where' = [where EXCEPT ![current_process] = "user"]
    /\ UNCHANGED <<current_process, state, in_service, irr_timer, irr_kbd, kbd>>

(* schedule() has returned to isr_handler: outb(0x20, 0x20) and iret.  A   *)
(* pending interrupt may come before the iret; it nests on the same stack. *)
end_of_interrupt ==
    /\ where[current_process] = "isr"
    /\ where' = [where EXCEPT ![current_process] = "user"]
    /\ in_service' = FALSE
    /\ UNCHANGED <<current_process, state, irr_timer, irr_kbd, kbd>>

(* isr_handler, int_no = 33, when no tick, which has priority, is pending:  *)
(* keyboard_handler stores the character and wakes the first sleeper from  *)
(* the head of the ring on, and the interrupt is acknowledged, all with    *)
(* interrupts disabled.                                                    *)
keyboard_isr ==
    /\ irr_kbd /\ ~irr_timer /\ Interruptible
    /\ irr_kbd' = FALSE
    /\ kbd' = IF kbd < KBD THEN kbd + 1 ELSE kbd
    /\ state' = [p \in Procs |->
                    IF \A r \in Procs : r < p => state[r] = "READY"
                    THEN "READY" ELSE state[p]]
    /\ UNCHANGED <<current_process, where, in_service, irr_timer>>

(* SYS_YIELD; the shell yields too when SYS_READ has returned 0. *)
SYS_YIELD(p) ==
    /\ AtUser(p) /\ p \notin Spinners
    /\ schedule("call", state)
    /\ UNCHANGED <<in_service, irr_timer, irr_kbd, kbd>>

(* SYS_READ: a character, or process_block(1). *)
SYS_READ(p) ==
    /\ AtUser(p) /\ p \in Readers
    /\ \/ /\ kbd > 0
          /\ kbd' = kbd - 1
          /\ UNCHANGED <<current_process, state, where>>
       \/ /\ kbd = 0
          /\ schedule("call", [state EXCEPT ![p] = "BLOCKED"])
          /\ UNCHANGED kbd
    /\ UNCHANGED <<in_service, irr_timer, irr_kbd>>
-----------------------------------------------------------------------------
IrqNext ==
    \/ tick \/ key
    \/ timer_isr \/ keyboard_isr \/ end_of_interrupt
    \/ \E p \in Procs : SYS_YIELD(p) \/ SYS_READ(p)

IrqSpec == IrqInit /\ [][IrqNext]_irqVars

(* The timer keeps ticking, the processor takes a pending interrupt it is  *)
(* let through and goes on with the code it is in, and a program that      *)
(* yields or reads comes to do so when nothing interrupts it.  Nobody has  *)
(* to press a key, and the ticks may come so fast that a pending key is    *)
(* always overtaken by one.                                                *)
Fairness ==
    /\ WF_irqVars(tick) /\ WF_irqVars(timer_isr) /\ WF_irqVars(keyboard_isr)
    /\ WF_irqVars(end_of_interrupt)
    /\ \A p \in Procs : WF_irqVars(SYS_YIELD(p)) /\ WF_irqVars(SYS_READ(p))

FairSpec == IrqSpec /\ Fairness
-----------------------------------------------------------------------------
(* Properties.                                                             *)

Owing == {p \in Procs : where[p] = "isr"}

(* The end of interrupt is owed by exactly one process while the timer is  *)
(* in service, and by none otherwise: none is sent twice or without a tick *)
(* (it would then acknowledge an interrupt that is still being handled).   *)
EoiOwed ==
    IF in_service THEN \E p \in Procs : Owing = {p} ELSE Owing = {}

(* While another process owes the end of interrupt, a process that never   *)
(* enters the kernel keeps the processor for ever, and no interrupt is     *)
(* taken any more.                                                         *)
Stuck == in_service /\ current_process \in Spinners /\ AtUser(current_process)
StuckForGood == [][Stuck => Stuck']_irqVars

(* Preemption shares the processor: every process that does not block runs *)
(* again and again (README.md:201, "Context switching via timer            *)
(* interrupt").                                                            *)
EveryoneRuns == \A p \in Procs \ Readers : []<>(current_process = p)

(* The tick that preempted a process is acknowledged in the end, so the    *)
(* timer, the keyboard and the mouse are let through again.                *)
Acknowledged == in_service ~> ~in_service
=============================================================================
