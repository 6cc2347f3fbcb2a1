--------------------------- MODULE ProcessProofs ---------------------------
(***************************************************************************)
(* Theorems about module Process, for any number of processes, any         *)
(* capacity of the keyboard buffer and any readers and waiters:            *)
(*   - TypeCorrect: every variable keeps its type;                         *)
(*   - RunsReadyAlways: schedule() only hands the processor to a process   *)
(*     that may run, whose kernel stack is allocated;                      *)
(*   - SelfSwitchNeverAfterBoot: no switch of a process to itself once the *)
(*     monitor is on the list;                                             *)
(*   - ScheduleAlwaysReturns: the search of schedule() comes to an end;    *)
(*   - ZombiesStayDead: an exited process is never scheduled again.        *)
(* These rest on one fact about the list: it is ordered by pid except      *)
(* where it returns to process 0 (Ordered), so no walk can go round        *)
(* without meeting process 0, which never blocks and never exits.          *)
(*   - WildNeverOtherwise: no walk meets an entry nobody has written,      *)
(*     except between the two assignments that link a process;             *)
(*   - NothingIsLost, NoWakeupIsLost, ReadersAreWoken: if only the shell   *)
(*     reaps, everybody is on the list, and nobody sleeps on a process     *)
(*     that has exited or on characters that are there (RingInv, RestInv). *)
(***************************************************************************)
EXTENDS Process, TLAPS, WellFoundedInduction, FiniteSetTheorems

-----------------------------------------------------------------------------
(* The inductive invariant.                                                *)

(* Processes 0 and 1 are never blocked and never exit. *)
AlwaysReady ==
    /\ state[0] = "READY"
    /\ next[0] \in {Wild, 0, 1}
    /\ next[0] = 1 => state[1] = "READY"

(* The list is ordered by pid, up to its end and its return to process 0. *)
Ordered ==
    /\ ready_queue \in {Wild, 0}
    /\ \A x \in Pids : next[x] \in {Wild, 0} \/ next[x] > x

(* The pids not given out yet are neither in use nor linked. *)
Unborn == \A x \in Pids : x >= next_pid => state[x] = "UNUSED" /\ next[x] = Wild

(* Every process that may run again still has its kernel stack. *)
StacksLive == \A x \in Pids : state[x] \in {"READY", "BLOCKED"} => x \in stacks

(* What a process in the middle of create_process or process_wait knows. *)
LocalsOK(p) ==
    /\ pc[p] \in {"retry", "wait", "reap", "unlink", "sleep1", "sleep2"} => p >= Shell
    /\ pc[p] \in {"link1", "link2"} =>
          /\ loc[p].node \in 1..next_pid - 1
          /\ loc[p].prev \in Pids
          /\ loc[p].prev < loc[p].node
          /\ loc[p].prev = 0 => loc[p].node = 1
    /\ pc[p] = "link1" /\ loc[p].node = 1 => p = 0 /\ next_pid = 2
    /\ pc[p] \in {"reap", "unlink"} => loc[p].node \in Pids /\ state[loc[p].node] = "ZOMBIE"
    /\ pc[p] = "unlink" =>
          /\ loc[p].prev \in 1..next_pid - 1
          /\ loc[p].prev < loc[p].node
          /\ loc[p].succ \in {Wild, 0} \/ loc[p].succ > loc[p].node

(* The monitor is linked before anything else is created. *)
MonitorLinked ==
    /\ pc[0] = "init" => next_pid = 1
    /\ next_pid >= 2 => \/ next[0] = 1
                        \/ pc[0] = "link1" /\ loc[0].node = 1
    /\ next_pid >= 2 => state[1] = "READY"

IInv ==
    /\ TypeOK
    /\ AlwaysReady
    /\ Ordered
    /\ Unborn
    /\ StacksLive
    /\ \A p \in Pids : LocalsOK(p)
    /\ MonitorLinked
    /\ RunsReady
    /\ SelfSwitchOnlyInBoot
-----------------------------------------------------------------------------
(* What the proofs use of the constants. *)
LEMMA Constants ==
    /\ MaxPid \in Nat /\ MaxPid >= 2
    /\ KBD \in Nat \ {0}
    /\ Readers \subseteq Shell..MaxPid
    /\ WaitsFor \subseteq (Shell..MaxPid) \X (Pids \cup {AnyChild})
PROOF
    BY ConstantsAssumption DEF ConstantsAssumption

(* Every non-empty set of pids has a largest element. *)
LEMMA LargestPid ==
    ASSUME NEW C \in SUBSET Pids, C # {}
    PROVE  \E m \in C : \A x \in C : x <= m
PROOF
  <1> DEFINE T == {MaxPid - x : x \in C}
             R == OpToRel(<, Nat)
  <1>1. T \subseteq Nat /\ T # {}
    <2>1. \A x \in C : MaxPid - x \in Nat
      BY Constants DEF Pids
    <2>2. PICK x \in C : TRUE
      OBVIOUS
    <2>3. MaxPid - x \in T
      BY <2>2
    <2> QED
      BY <2>1, <2>3
  <1>2. PICK t \in T : \A y \in T : ~ (<<y, t>> \in R)
    <2>1. IsWellFoundedOn(R, Nat)
      BY NatLessThanWellFounded
    <2> QED
      BY <1>1, <2>1, WFMin
  <1>3. \A y \in T : ~ (y < t)
    BY <1>1, <1>2 DEF OpToRel
  <1>4. PICK m \in C : t = MaxPid - m
    OBVIOUS
  <1>5. \A x \in C : x <= m
    BY <1>3, <1>4, Constants DEF Pids
  <1> QED
    BY <1>5

(* A set of processes that next does not lead out of contains process 0.   *)
LEMMA ClosedHasZero ==
    ASSUME TypeOK, Ordered,
           NEW C \in SUBSET Pids, C # {},
           \A x \in C : next[x] \in C
    PROVE  0 \in C
PROOF
  <1>1. PICK m \in C : \A x \in C : x <= m
    BY LargestPid
  <1>2. next[m] \in C /\ next[m] <= m
    BY <1>1
  <1>3. next[m] \in {Wild, 0}
    <2>1. m \in Pids /\ next[m] \in Pids
      BY <1>2
    <2>2. next[m] \in {Wild, 0} \/ next[m] > m
      BY DEF Ordered
    <2> QED
      BY <1>2, <2>1, <2>2, Constants DEF Pids
  <1> QED
    BY <1>2, <1>3 DEF Pids, Wild

(* What schedule() finds when process 0 is READY in st: an unwritten       *)
(* pointer or a READY process, and the current one only if that is process *)
(* 0 and process 0 has no READY successor.                                 *)
LEMMA LandingReady ==
    ASSUME TypeOK, Ordered,
           NEW st, st[0] = "READY",
           NEW q \in Landing(current_process,
                             {x \in Pids : st[x] = "READY"} \cup {current_process}),
           q # Wild
    PROVE  /\ q \in Pids /\ st[q] = "READY"
           /\ q = current_process =>
                 q = 0 /\ (next[0] = 0 \/ (next[0] \in Pids /\ st[next[0]] # "READY"))
PROOF
  <1> DEFINE ready == {x \in Pids : st[x] = "READY"}
             S == ready \cup {current_process}
  <1>1. current_process \in Pids /\ 0 \in Pids
    BY Constants DEF TypeOK, Pids
  <1>2. PICK Over \in SUBSET (Pids \ S) :
            \A x \in Over \cup {current_process} : next[x] \in Over \cup {q}
    BY DEF Landing
  <1>3. q \in S
    BY DEF Landing
  <1>4. q \in Pids
    BY <1>1, <1>3
  <1>5. q = current_process => q = 0 /\ next[0] \in Over \cup {0}
    <2> SUFFICES ASSUME q = current_process
                 PROVE  q = 0 /\ next[0] \in Over \cup {0}
      OBVIOUS
    <2>1. \A x \in Over \cup {q} : next[x] \in Over \cup {q}
      BY <1>2
    <2>2. 0 \in Over \cup {q}
      BY <1>1, <2>1, ClosedHasZero
    <2>3. 0 \notin Over
      BY <1>1, <1>2
    <2> QED
      BY <2>1, <2>2, <2>3
  <1>6. st[q] = "READY"
    BY <1>3, <1>5
  <1>7. \A x \in Over : x \in Pids /\ st[x] # "READY"
    OBVIOUS
  <1> QED
    BY <1>4, <1>5, <1>6, <1>7

(* A walk towards a set of processes that holds process 0 comes to an end, *)
(* wherever it starts.                                                     *)
LEMMA LandingExists ==
    ASSUME TypeOK, Ordered,
           NEW S \in SUBSET Pids, 0 \in S,
           NEW p \in Pids
    PROVE  Landing(p, S) # {}
PROOF
  <1> DEFINE Endless == {x \in Pids : Landing(x, S) = {}}
  <1>1. \A Over \in SUBSET (Pids \ S) :
            \A C \in (SUBSET Over) \ {{}} : \E x \in C : next[x] \notin C
    BY ClosedHasZero
  <1>2. SUFFICES ASSUME Endless # {} PROVE FALSE
    OBVIOUS
  <1>3. PICK m \in Endless : \A x \in Endless : x <= m
    BY <1>2, LargestPid
  <1>4. next[m] \in Pids \cup {Wild}
    BY DEF TypeOK, Node
  <1>5. CASE next[m] \in S \cup {Wild}
    <2>1. \A x \in {} \cup {m} : next[x] \in {} \cup {next[m]}
      OBVIOUS
    <2>2. next[m] \in Landing(m, S)
      BY <1>5, <2>1 DEF Landing
    <2> QED
      BY <2>2
  <1>6. CASE next[m] \notin S \cup {Wild}
    <2>1. next[m] \in Pids \ S /\ next[m] > m
      BY <1>4, <1>6 DEF Ordered
    <2>2. next[m] \notin Endless
      BY <1>3, <2>1 DEF Pids
    <2>3. PICK q \in Landing(next[m], S) : TRUE
      BY <2>1, <2>2
    <2>4. PICK Rest \in SUBSET (Pids \ S) :
              \A x \in Rest \cup {next[m]} : next[x] \in Rest \cup {q}
      BY DEF Landing
    <2> DEFINE Over == Rest \cup {next[m]}
    <2>5. Over \in SUBSET (Pids \ S)
      BY <2>1
    <2>6. \A x \in Over \cup {m} : next[x] \in Over \cup {q}
      BY <2>4
    <2>7. q \in S \cup {Wild}
      BY DEF Landing
    <2>8. q \in Landing(m, S)
      BY <1>1, <2>5, <2>6, <2>7 DEF Landing
    <2> QED
      BY <2>8
  <1> QED
    BY <1>5, <1>6

(* Where the walks that start at ready_queue can end. *)
LEMMA QueueWalk ==
    ASSUME NEW S, NEW q \in FirstInQueue(S)
    PROVE  q \in S \cup {ready_queue, Wild}
PROOF
    BY DEF FirstInQueue, Landing

(* What schedule() does to the types. *)
LEMMA ScheduleType ==
    ASSUME TypeOK, NEW st \in [Pids -> States], Schedule(st)
    PROVE  state' = st /\ current_process' \in Pids /\ fault' \in Faults
PROOF
  <1> DEFINE ready == {x \in Pids : st[x] = "READY"}
  <1>1. PICK q \in Landing(current_process, ready \cup {current_process}) :
            /\ state' = st
            /\ current_process' = IF q = Wild THEN current_process ELSE q
            /\ fault' = CASE q = Wild -> "wild_next"
                          [] q = current_process /\ q \in ready -> "stale_esp"
                          [] OTHER -> "none"
    BY DEF Schedule
  <1>2. q \in ready \cup {current_process, Wild}
    BY DEF Landing
  <1>3. current_process' \in Pids
    BY <1>1, <1>2 DEF TypeOK
  <1>4. fault' \in Faults
    BY <1>1 DEF Faults
  <1> QED
    BY <1>1, <1>3, <1>4

LEMMA WokenType ==
    ASSUME TypeOK, NEW st \in [Pids -> States], NEW reason, NEW q
    PROVE  /\ Woken(st, reason, q) \in [Pids -> States]
           /\ Cleared(reason, q) \in [Pids -> Node]
PROOF
  <1>1. 0 \in Node /\ "READY" \in States
    BY Constants DEF Node, Pids, States
  <1>2. CASE q \in Sleepers(reason)
    <2>1. [st EXCEPT ![q] = "READY"] \in [Pids -> States]
      BY <1>1
    <2>2. [wait_reason EXCEPT ![q] = 0] \in [Pids -> Node]
      BY <1>1 DEF TypeOK
    <2> QED
      BY <1>2, <2>1, <2>2 DEF Woken, Cleared
  <1>3. CASE q \notin Sleepers(reason)
    BY <1>3 DEF Woken, Cleared, TypeOK
  <1> QED
    BY <1>2, <1>3

LEMMA CrashType == TypeOK /\ Crash => TypeOK'
PROOF
    BY DEF TypeOK, Crash, Faults

LEMMA BlockType ==
    ASSUME TypeOK, NEW p \in Pids, NEW reason \in Node, NEW label \in PCs,
           process_block(p, reason, label),
           loc' \in [Pids -> [target : Node, node : Pids, prev : Node, succ : Node]]
    PROVE  TypeOK'
PROOF
  <1>1. [state EXCEPT ![p] = "BLOCKED"] \in [Pids -> States]
    BY DEF TypeOK, States
  <1>2. state' \in [Pids -> States] /\ current_process' \in Pids /\ fault' \in Faults
    BY <1>1, ScheduleType DEF process_block
  <1> QED
    BY <1>2 DEF process_block, TypeOK, Goto

LEMMA TypeInductive == TypeOK /\ [Next]_vars => TypeOK'
PROOF
  <1> SUFFICES ASSUME TypeOK, [Next]_vars PROVE TypeOK'
    OBVIOUS
  <1> DEFINE Locals == [target : Node, node : Pids, prev : Node, succ : Node]
  <1>0. /\ NoLocals \in Locals
        /\ 0 \in Pids /\ Pids \subseteq Node /\ KeyReason \in Pids
    BY Constants DEF NoLocals, Node, Pids, KeyReason
  <1>1. CASE init_multitasking
    BY <1>0, <1>1 DEF init_multitasking, TypeOK, Goto, PCs
  <1>2. CASE timer_or_yield
    <2>1. state' \in [Pids -> States] /\ current_process' \in Pids /\ fault' \in Faults
      BY <1>2, ScheduleType DEF timer_or_yield, TypeOK
    <2> QED
      BY <1>2, <2>1 DEF timer_or_yield, TypeOK
  <1>3. CASE keyboard_handler
    <2>1. PICK q \in FirstInQueue(Sleepers(KeyReason)) :
             \/ q = Wild /\ Crash
             \/ /\ q # Wild
                /\ kbd' = IF kbd < KBD THEN kbd + 1 ELSE kbd
                /\ state' = Woken(state, KeyReason, q)
                /\ wait_reason' = Cleared(KeyReason, q)
                /\ UNCHANGED <<next_pid, ready_queue, current_process, parent_pid,
                               next, stacks, pc, loc, fault>>
      BY <1>3 DEF keyboard_handler
    <2>2. CASE Crash
      BY <2>2, CrashType
    <2>3. CASE ~ Crash
      <3>1. state' \in [Pids -> States] /\ wait_reason' \in [Pids -> Node]
        BY <2>1, <2>3, WokenType DEF TypeOK
      <3>2. kbd' \in 0..KBD
        BY <2>1, <2>3, Constants DEF TypeOK
      <3> QED
        BY <2>1, <2>3, <3>1, <3>2 DEF TypeOK
    <2> QED
      BY <2>2, <2>3
  <1>4. ASSUME NEW p \in Pids, create_process(p) PROVE TypeOK'
    <2>1. PICK last \in FirstInQueue({x \in Pids : next[x] = ready_queue}) :
             \/ last = Wild /\ Crash
             \/ /\ last # Wild
                /\ next_pid' = next_pid + 1
                /\ state' = [state EXCEPT ![next_pid] = "READY"]
                /\ parent_pid' = [parent_pid EXCEPT ![next_pid] = p]
                /\ stacks' = stacks \cup {next_pid}
                /\ loc' = [loc EXCEPT ![p].node = next_pid, ![p].prev = last]
                /\ Goto(p, "link1")
                /\ UNCHANGED <<ready_queue, current_process, wait_reason, next, kbd, fault>>
      BY <1>4 DEF create_process
    <2>2. CASE Crash
      BY <2>2, CrashType
    <2>3. CASE ~ Crash
      <3>1. next_pid \in Pids /\ next_pid' \in 1..MaxPid + 1
        BY <1>4, <2>1, <2>3, Constants DEF create_process, TypeOK, Pids
      <3>2. last \in Node
        BY <2>1, QueueWalk DEF TypeOK, Node
      <3>3. loc' \in [Pids -> Locals]
        BY <2>1, <2>3, <3>1, <3>2 DEF TypeOK, Node
      <3>4. state' \in [Pids -> States] /\ parent_pid' \in [Pids -> Node]
        BY <1>0, <2>1, <2>3 DEF TypeOK, States
      <3>5. pc' \in [Pids -> PCs]
        BY <2>1, <2>3 DEF TypeOK, PCs, Goto
      <3>6. stacks' \subseteq Pids
        BY <2>1, <2>3, <3>1 DEF TypeOK
      <3>7. UNCHANGED <<ready_queue, current_process, wait_reason, next, kbd, fault>>
        BY <2>1, <2>3
      <3> QED
        BY <3>1, <3>3, <3>4, <3>5, <3>6, <3>7 DEF TypeOK
    <2> QED
      BY <2>2, <2>3
  <1>5. ASSUME NEW p \in Pids, create_link_last(p) PROVE TypeOK'
    BY <1>0, <1>5 DEF create_link_last, TypeOK, Goto, PCs
  <1>6. ASSUME NEW p \in Pids, create_link_new(p) PROVE TypeOK'
    BY <1>6, <1>0 DEF create_link_new, TypeOK, Goto, PCs
  <1>7. ASSUME NEW p \in Pids, SYS_READ(p) PROVE TypeOK'
    <2>1. CASE kbd > 0 /\ kbd' = kbd - 1 /\ Goto(p, "run")
               /\ UNCHANGED <<next_pid, ready_queue, current_process, state, wait_reason,
                              parent_pid, next, stacks, loc, fault>>
      BY <2>1, Constants DEF TypeOK, Goto, PCs
    <2>2. CASE process_block(p, KeyReason, "retry") /\ UNCHANGED loc
      <3>1. loc' \in [Pids -> Locals]
        BY <2>2 DEF TypeOK
      <3> QED
        BY <1>0, <2>2, <3>1, BlockType DEF PCs
    <2> QED
      BY <1>7, <2>1, <2>2 DEF SYS_READ
  <1>8. ASSUME NEW p \in Pids, process_exit(p) PROVE TypeOK'
    <2>1. PICK q \in FirstInQueue(Sleepers(p)) :
             \/ q = Wild /\ Crash
             \/ /\ q # Wild
                /\ stacks' = stacks \ {p}
                /\ wait_reason' = Cleared(p, q)
                /\ Schedule(Woken([state EXCEPT ![p] = "ZOMBIE"], p, q))
                /\ UNCHANGED <<next_pid, ready_queue, parent_pid, next, pc, loc, kbd>>
      BY <1>8 DEF process_exit
    <2>2. CASE Crash
      BY <2>2, CrashType
    <2>3. CASE ~ Crash
      <3> DEFINE st == [state EXCEPT ![p] = "ZOMBIE"]
      <3>1. st \in [Pids -> States]
        BY DEF TypeOK, States
      <3>2. wait_reason' = Cleared(p, q) /\ Schedule(Woken(st, p, q))
        BY <2>1, <2>3
      <3> HIDE DEF st
      <3>3. Woken(st, p, q) \in [Pids -> States] /\ wait_reason' \in [Pids -> Node]
        BY <3>1, <3>2, WokenType
      <3>4. state' \in [Pids -> States] /\ current_process' \in Pids /\ fault' \in Faults
        BY <3>2, <3>3, ScheduleType
      <3> QED
        BY <2>1, <2>3, <3>3, <3>4 DEF TypeOK
    <2> QED
      BY <2>2, <2>3
  <1>9. ASSUME NEW p \in Pids, NEW target \in Node, process_wait(p, target)
        PROVE  TypeOK'
    <2>1. PICK child \in FirstInQueue(Awaited(p, target)) :
             \/ child = Wild /\ Crash
             \/ /\ child \in Awaited(p, target)
                /\ \E prev \in Node : Unlinked(prev, child, next[child])
                /\ UNCHANGED <<next_pid, current_process, state, wait_reason,
                               parent_pid, stacks, pc, loc, kbd, fault>>
             \/ /\ child \in Awaited(p, target)
                /\ Set(p, "target", target)
                /\ process_block(p, child, "wait")
      <3>1. \A S : FirstInQueue(S) \subseteq S \cup {ready_queue, Wild}
        BY QueueWalk
      <3>2. PICK child \in FirstInQueue(Awaited(p, target)) :
               \/ child = Wild /\ Crash
               \/ /\ child \in Awaited(p, target)
                  /\ \E prev \in FirstInQueue({x \in Pids : next[x] = child}) :
                        Unlinked(prev, child, next[child])
                  /\ UNCHANGED <<next_pid, current_process, state, wait_reason,
                                 parent_pid, stacks, pc, loc, kbd, fault>>
               \/ /\ child \in Awaited(p, target)
                  /\ Set(p, "target", target)
                  /\ process_block(p, child, "wait")
        BY <1>9 DEF process_wait
      <3>3. \A prev \in FirstInQueue({x \in Pids : next[x] = child}) : prev \in Node
        BY <3>1 DEF TypeOK, Node
      <3> QED
        BY <3>2, <3>3
    <2>2. child \in Awaited(p, target) => child \in Pids
      BY DEF Awaited
    <2>3. CASE Crash
      BY <2>3, CrashType
    <2>4. CASE /\ child \in Awaited(p, target)
               /\ \E prev \in Node : Unlinked(prev, child, next[child])
               /\ UNCHANGED <<next_pid, current_process, state, wait_reason,
                              parent_pid, stacks, pc, loc, kbd, fault>>
      <3>1. next[child] \in Node
        BY <2>2, <2>4 DEF TypeOK
      <3>2. next' \in [Pids -> Node] /\ ready_queue' \in Node
        BY <2>4, <3>1 DEF TypeOK, Unlinked
      <3> QED
        BY <2>4, <3>2 DEF TypeOK
    <2>5. CASE /\ child \in Awaited(p, target)
               /\ Set(p, "target", target)
               /\ process_block(p, child, "wait")
      <3>1. loc' \in [Pids -> Locals]
        BY <2>5 DEF Set, TypeOK
      <3> QED
        BY <2>2, <2>5, <3>1, BlockType DEF Node, PCs
    <2> QED
      BY <2>1, <2>3, <2>4, <2>5
  <1>10. ASSUME NEW p \in Pids, wait_again(p) PROVE TypeOK'
    <2> DEFINE awaited == Awaited(p, loc[p].target)
    <2>1. PICK child \in FirstInQueue(awaited) :
             \/ child = Wild /\ Crash
             \/ /\ Goto(p, IF child \notin awaited THEN "run"
                           ELSE IF state[child] = "ZOMBIE" THEN "reap" ELSE "sleep1")
                /\ loc' = [loc EXCEPT ![p] =
                             IF child \in awaited THEN [@ EXCEPT !.node = child] ELSE NoLocals]
                /\ UNCHANGED <<next_pid, ready_queue, current_process, state, wait_reason,
                               parent_pid, next, stacks, kbd, fault>>
      BY <1>10 DEF wait_again
    <2>2. CASE Crash
      BY <2>2, CrashType
    <2>3. CASE ~ Crash
      <3>1. child \in awaited => child \in Pids
        BY DEF Awaited
      <3>2. loc' \in [Pids -> Locals]
        BY <1>0, <2>1, <2>3, <3>1 DEF TypeOK
      <3>3. pc' \in [Pids -> PCs]
        BY <2>1, <2>3 DEF TypeOK, Goto, PCs
      <3> QED
        BY <2>1, <2>3, <3>2, <3>3 DEF TypeOK
    <2> QED
      BY <2>2, <2>3
  <1>11. ASSUME NEW p \in Pids, wait_find_prev(p) PROVE TypeOK'
    <2>1. PICK prev \in FirstInQueue({x \in Pids : next[x] = loc[p].node}) :
             \/ prev = Wild /\ Crash
             \/ /\ prev # Wild /\ next[prev] = loc[p].node
                /\ loc' = [loc EXCEPT ![p].prev = prev, ![p].succ = next[loc[p].node]]
                /\ Goto(p, "unlink")
                /\ UNCHANGED <<next_pid, ready_queue, current_process, state, wait_reason,
                               parent_pid, next, stacks, kbd, fault>>
      BY <1>11 DEF wait_find_prev
    <2>2. CASE Crash
      BY <2>2, CrashType
    <2>3. CASE ~ Crash
      <3>1. prev \in Node
        BY QueueWalk DEF TypeOK, Node
      <3>2. next[loc[p].node] \in Node
        BY DEF TypeOK
      <3>3. loc' \in [Pids -> Locals]
        BY <2>1, <2>3, <3>1, <3>2 DEF TypeOK
      <3> QED
        BY <2>1, <2>3, <3>3 DEF TypeOK, Goto, PCs
    <2> QED
      BY <2>2, <2>3
  <1>12. ASSUME NEW p \in Pids, wait_unlink(p) PROVE TypeOK'
    BY <1>12, <1>0 DEF wait_unlink, Unlinked, TypeOK, Goto, PCs
  <1>13. ASSUME NEW p \in Pids, wait_block_state(p) PROVE TypeOK'
    BY <1>13 DEF wait_block_state, TypeOK, Goto, PCs, States
  <1>14. ASSUME NEW p \in Pids, wait_block_reason(p) PROVE TypeOK'
    <2>1. state' \in [Pids -> States] /\ current_process' \in Pids /\ fault' \in Faults
      BY <1>14, ScheduleType DEF wait_block_reason, TypeOK
    <2> QED
      BY <1>0, <1>14, <2>1 DEF wait_block_reason, TypeOK, Goto, PCs
  <1>15. CASE UNCHANGED vars
    BY <1>15 DEF vars, TypeOK
  <1> QED
    BY <1>1, <1>2, <1>3, <1>4, <1>5, <1>6, <1>7, <1>8, <1>9, <1>10, <1>11, <1>12, <1>13,
       <1>14, <1>15 DEF Next

(* Every variable keeps its type in every behaviour of the kernel. *)
THEOREM TypeCorrect == Spec => []TypeOK
PROOF
  <1>1. Init => TypeOK
    <2> SUFFICES ASSUME Init PROVE TypeOK
      OBVIOUS
    <2>1. NoLocals \in [target : Node, node : Pids, prev : Node, succ : Node]
      BY Constants DEF NoLocals, Node, Pids
    <2>2. 0 \in Pids /\ 0 \in Node /\ Wild \in Node /\ 1 \in 1..MaxPid + 1 /\ 0 \in 0..KBD
      BY Constants DEF Node, Pids
    <2> QED
      BY <2>1, <2>2 DEF Init, TypeOK, States, PCs, Faults
  <1> QED
    BY <1>1, TypeInductive, PTL DEF Spec
-----------------------------------------------------------------------------
(* The steps that leave the list alone keep the invariant when they keep   *)
(* processes 0 and 1 READY, wake no zombie and free no stack in use.       *)
LEMMA ListFrame ==
    ASSUME IInv, TypeOK', UNCHANGED <<next, ready_queue, next_pid>>,
           state'[0] = "READY",
           state[1] = "READY" => state'[1] = "READY",
           \A x \in Pids : state[x] \in {"ZOMBIE", "UNUSED"} => state'[x] = state[x],
           \A x \in Pids : state'[x] \in {"READY", "BLOCKED"} => x \in stacks',
           \A x \in Pids : \/ pc'[x] = pc[x] /\ loc'[x] = loc[x]
                           \/ x >= Shell /\ LocalsOK(x)',
           RunsReady', SelfSwitchOnlyInBoot'
    PROVE  IInv'
PROOF
  <1>1. AlwaysReady' /\ Ordered' /\ Unborn' /\ StacksLive'
    BY DEF IInv, AlwaysReady, Ordered, Unborn, StacksLive
  <1>2. ASSUME NEW x \in Pids PROVE LocalsOK(x)'
    <2>1. CASE pc'[x] = pc[x] /\ loc'[x] = loc[x]
      <3>1. LocalsOK(x) /\ next_pid' = next_pid
        BY DEF IInv
      <3>2. \A y \in Pids : state[y] = "ZOMBIE" => state'[y] = "ZOMBIE"
        OBVIOUS
      <3> QED
        BY <2>1, <3>1, <3>2 DEF LocalsOK
    <2> QED
      BY <2>1
  <1>3. MonitorLinked'
    <2>1. 0 \in Pids /\ ~ (0 >= Shell)
      BY Constants DEF Pids, Shell
    <2> QED
      BY <2>1 DEF IInv, MonitorLinked
  <1> QED
    BY <1>1, <1>2, <1>3 DEF IInv

(* schedule(), called with process states st in which processes 0 and 1    *)
(* are READY if they exist, hands the processor to a READY process.        *)
LEMMA SchedulePicks ==
    ASSUME IInv,
           NEW st \in [Pids -> States], Schedule(st),
           st[0] = "READY", next[0] = 1 => st[1] = "READY"
    PROVE  /\ state' = st
           /\ fault' = "none" => st[current_process'] = "READY" /\ current_process' \in Pids
           /\ fault' = "stale_esp" => next[0] = 0
PROOF
  <1> DEFINE ready == {x \in Pids : st[x] = "READY"}
  <1>1. TypeOK /\ Ordered /\ next[0] \in {Wild, 0, 1}
    BY DEF IInv, AlwaysReady
  <1>2. PICK q \in Landing(current_process, ready \cup {current_process}) :
            /\ state' = st
            /\ current_process' = IF q = Wild THEN current_process ELSE q
            /\ fault' = CASE q = Wild -> "wild_next"
                          [] q = current_process /\ q \in ready -> "stale_esp"
                          [] OTHER -> "none"
    BY DEF Schedule
  <1>3. CASE q = Wild
    <2>1. q \notin ready
      BY <1>3 DEF Wild, Pids
    <2>2. fault' = "wild_next"
      BY <1>2, <1>3, <2>1
    <2> QED
      BY <1>2, <2>2
  <1>4. CASE q # Wild
    <2>1. /\ q \in Pids /\ st[q] = "READY"
          /\ q = current_process =>
                q = 0 /\ (next[0] = 0 \/ (next[0] \in Pids /\ st[next[0]] # "READY"))
      BY <1>1, <1>2, <1>4, LandingReady
    <2>2. Wild \notin Pids
      BY DEF Wild, Pids
    <2>3. fault' = "stale_esp" => next[0] = 0
      BY <1>1, <1>2, <1>4, <2>1, <2>2
    <2> QED
      BY <1>2, <1>4, <2>1, <2>3
  <1> QED
    BY <1>3, <1>4

(* A crash freezes the machine. *)
LEMMA CrashStep == IInv /\ Crash => IInv'
PROOF
  <1> SUFFICES ASSUME IInv, Crash PROVE IInv'
    OBVIOUS
  <1>1. TypeOK'
    BY CrashType DEF IInv
  <1>2. RunsReady' /\ SelfSwitchOnlyInBoot'
    BY DEF Crash, RunsReady, SelfSwitchOnlyInBoot
  <1> QED
    BY <1>1, <1>2, ListFrame DEF Crash, IInv, AlwaysReady, StacksLive

(* The process at work at any label but "sleep2" is READY. *)
LEMMA RunningReady ==
    ASSUME IInv, NEW p \in Pids, NEW labels, Running(p, labels), "sleep2" \notin labels
    PROVE  state[p] = "READY" /\ p \in stacks /\ p = current_process /\ fault = "none"
PROOF
  <1>1. p = current_process /\ fault = "none" /\ pc[p] # "sleep2"
    BY DEF Running
  <1> QED
    BY <1>1 DEF IInv, RunsReady

LEMMA TimerStep == IInv /\ TypeOK' /\ timer_or_yield => IInv'
PROOF
  <1> SUFFICES ASSUME IInv, TypeOK', timer_or_yield PROVE IInv'
    OBVIOUS
  <1>1. /\ state' = state
        /\ fault' = "none" => state[current_process'] = "READY" /\ current_process' \in Pids
        /\ fault' = "stale_esp" => next[0] = 0
    BY SchedulePicks DEF timer_or_yield, IInv, TypeOK, AlwaysReady
  <1>2. RunsReady' /\ SelfSwitchOnlyInBoot'
    BY <1>1 DEF timer_or_yield, RunsReady, SelfSwitchOnlyInBoot, IInv, StacksLive
  <1> QED
    BY <1>1, <1>2, ListFrame DEF timer_or_yield, IInv, AlwaysReady, StacksLive

(* process_block called by a process that is READY. *)
LEMMA BlockStep ==
    ASSUME IInv, TypeOK', NEW p \in Pids, p >= Shell, NEW reason, NEW label,
           state[p] \in {"READY", "BLOCKED"},
           process_block(p, reason, label),
           \A x \in Pids \ {p} : loc'[x] = loc[x],
           LocalsOK(p)'
    PROVE  IInv'
PROOF
  <1> DEFINE st == [state EXCEPT ![p] = "BLOCKED"]
  <1>1. st \in [Pids -> States] /\ 0 \in Pids /\ 1 \in Pids /\ p # 0 /\ p # 1
    <2>1. st \in [Pids -> States]
      BY DEF IInv, TypeOK, States
    <2>2. 0 \in Pids /\ 1 \in Pids /\ p # 0 /\ p # 1
      BY Constants DEF Pids, Shell
    <2> QED
      BY <2>1, <2>2
  <1>2. st[0] = "READY" /\ st[1] = state[1]
    BY <1>1 DEF IInv, AlwaysReady, TypeOK
  <1>3. \A x \in Pids : st[x] = IF x = p THEN "BLOCKED" ELSE state[x]
    BY DEF IInv, TypeOK
  <1>4. Schedule(st) /\ Goto(p, label)
        /\ UNCHANGED <<next_pid, ready_queue, parent_pid, next, stacks, kbd>>
    BY DEF process_block
  <1> HIDE DEF st
  <1>5. /\ state' = st
        /\ fault' = "none" => st[current_process'] = "READY" /\ current_process' \in Pids
        /\ fault' = "stale_esp" => next[0] = 0
    BY <1>1, <1>2, <1>4, SchedulePicks DEF IInv, AlwaysReady
  <1>6. \A x \in Pids : state'[x] \in {"READY", "BLOCKED"} => x \in stacks'
    BY <1>3, <1>4, <1>5 DEF IInv, StacksLive
  <1>7. RunsReady' /\ SelfSwitchOnlyInBoot'
    BY <1>4, <1>5, <1>6 DEF RunsReady, SelfSwitchOnlyInBoot
  <1>8. \A x \in Pids \ {p} : pc'[x] = pc[x]
    BY <1>4 DEF Goto, IInv, TypeOK
  <1>9. \A x \in Pids : state[x] \in {"ZOMBIE", "UNUSED"} => state'[x] = state[x]
    BY <1>3, <1>5
  <1> QED
    BY <1>2, <1>4, <1>5, <1>6, <1>7, <1>8, <1>9, ListFrame

LEMMA KeyStep == IInv /\ TypeOK' /\ keyboard_handler => IInv'
PROOF
  <1> SUFFICES ASSUME IInv, TypeOK', keyboard_handler PROVE IInv'
    OBVIOUS
  <1>1. PICK q \in FirstInQueue(Sleepers(KeyReason)) :
           \/ Crash
           \/ /\ state' = Woken(state, KeyReason, q)
              /\ UNCHANGED <<next_pid, ready_queue, current_process, parent_pid,
                             next, stacks, pc, loc, fault>>
    BY DEF keyboard_handler
  <1>2. CASE Crash
    BY <1>2, CrashStep
  <1>3. CASE ~ Crash
    <2>1. \A x \in Pids : state'[x] = state[x]
                          \/ (state[x] = "BLOCKED" /\ state'[x] = "READY")
      BY <1>1, <1>3 DEF Woken, Sleepers, IInv, TypeOK
    <2>2. 0 \in Pids /\ 1 \in Pids /\ current_process \in Pids
      BY Constants DEF Pids, IInv, TypeOK
    <2>3. state'[0] = "READY" /\ (state[1] = "READY" => state'[1] = "READY")
      BY <2>1, <2>2 DEF IInv, AlwaysReady
    <2>4. \A x \in Pids : state'[x] \in {"READY", "BLOCKED"} => x \in stacks'
      BY <1>1, <1>3, <2>1 DEF IInv, StacksLive
    <2>5. RunsReady' /\ SelfSwitchOnlyInBoot'
      BY <1>1, <1>3, <2>1, <2>2 DEF IInv, RunsReady, SelfSwitchOnlyInBoot
    <2> QED
      BY <1>1, <1>3, <2>1, <2>3, <2>4, <2>5, ListFrame
  <1> QED
    BY <1>2, <1>3

LEMMA ReadStep ==
    ASSUME IInv, TypeOK', NEW p \in Pids, SYS_READ(p)
    PROVE  IInv'
PROOF
  <1>1. p >= Shell /\ state[p] = "READY" /\ p \in stacks /\ p = current_process
    <2>1. Running(p, {"run", "retry"}) /\ p \in Readers
      BY DEF SYS_READ
    <2>2. p >= Shell
      BY <2>1, Constants DEF Shell
    <2> QED
      BY <2>1, <2>2, RunningReady
  <1>2. \A x \in Pids : pc'[x] = IF x = p THEN pc'[p] ELSE pc[x]
    BY DEF SYS_READ, process_block, Goto, IInv, TypeOK
  <1>3. pc'[p] \in {"run", "retry"} /\ loc' = loc
    BY DEF SYS_READ, process_block, Goto, IInv, TypeOK
  <1>4. LocalsOK(p)'
    BY <1>1, <1>3 DEF LocalsOK
  <1>5. CASE process_block(p, KeyReason, "retry")
    BY <1>1, <1>3, <1>4, <1>5, BlockStep
  <1>6. CASE UNCHANGED <<next_pid, ready_queue, current_process, state, wait_reason,
                         parent_pid, next, stacks, loc, fault>>
    <2>1. RunsReady' /\ SelfSwitchOnlyInBoot'
      BY <1>1, <1>6 DEF IInv, RunsReady, SelfSwitchOnlyInBoot
    <2> QED
      BY <1>1, <1>2, <1>4, <1>6, <2>1, ListFrame DEF IInv, AlwaysReady, StacksLive
  <1> QED
    BY <1>5, <1>6 DEF SYS_READ

LEMMA ExitStep ==
    ASSUME IInv, TypeOK', NEW p \in Pids, process_exit(p)
    PROVE  IInv'
PROOF
  <1> DEFINE dead == [state EXCEPT ![p] = "ZOMBIE"]
  <1>1. PICK q \in FirstInQueue(Sleepers(p)) :
           \/ Crash
           \/ /\ stacks' = stacks \ {p}
              /\ Schedule(Woken(dead, p, q))
              /\ UNCHANGED <<next_pid, ready_queue, parent_pid, next, pc, loc, kbd>>
    BY DEF process_exit
  <1>2. CASE Crash
    BY <1>2, CrashStep
  <1>3. CASE ~ Crash
    <2> DEFINE st == Woken(dead, p, q)
    <2>1. p # 0 /\ p # 1 /\ 0 \in Pids /\ 1 \in Pids /\ state[p] = "READY"
      <3>1. Running(p, {"run"}) /\ p \in Threads
        BY DEF process_exit
      <3>2. p # 0 /\ p # 1 /\ 0 \in Pids /\ 1 \in Pids
        BY <3>1, Constants DEF Threads, Pids
      <3> QED
        BY <3>1, <3>2, RunningReady
    <2>2. dead \in [Pids -> States]
      BY DEF IInv, TypeOK, States
    <2>3. st \in [Pids -> States]
      BY <2>2, WokenType DEF IInv
    <2>4. \A x \in Pids : \/ x = p /\ st[x] = "ZOMBIE"
                          \/ x # p /\ st[x] = state[x]
                          \/ x # p /\ state[x] = "BLOCKED" /\ st[x] = "READY"
      BY <2>1, <2>2 DEF Woken, Sleepers, IInv, TypeOK
    <2>5. Schedule(st) /\ stacks' = stacks \ {p}
          /\ UNCHANGED <<next_pid, ready_queue, parent_pid, next, pc, loc, kbd>>
      BY <1>1, <1>3
    <2> HIDE DEF st
    <2>6. st[0] = "READY" /\ (state[1] = "READY" => st[1] = "READY")
      BY <2>1, <2>4 DEF IInv, AlwaysReady
    <2>7. /\ state' = st
          /\ fault' = "none" => st[current_process'] = "READY" /\ current_process' \in Pids
          /\ fault' = "stale_esp" => next[0] = 0
      BY <2>3, <2>5, <2>6, SchedulePicks DEF IInv, AlwaysReady
    <2>8. \A x \in Pids : state'[x] \in {"READY", "BLOCKED"} => x \in stacks'
      BY <2>4, <2>5, <2>7 DEF IInv, StacksLive
    <2>9. RunsReady' /\ SelfSwitchOnlyInBoot'
      BY <2>5, <2>7, <2>8 DEF RunsReady, SelfSwitchOnlyInBoot
    <2>10. \A x \in Pids : state[x] \in {"ZOMBIE", "UNUSED"} => state'[x] = state[x]
      BY <2>1, <2>4, <2>7
    <2> QED
      BY <2>5, <2>6, <2>7, <2>8, <2>9, <2>10, ListFrame
  <1> QED
    BY <1>2, <1>3

LEMMA BootStep == IInv /\ TypeOK' /\ init_multitasking => IInv'
PROOF
  <1> SUFFICES ASSUME IInv, TypeOK', init_multitasking PROVE IInv'
    OBVIOUS
  <1>1. 0 \in Pids /\ 1 \in Pids /\ next_pid = 1
    BY Constants DEF init_multitasking, Running, IInv, MonitorLinked, Pids
  <1>2. /\ \A x \in Pids : next'[x] = IF x = 0 THEN 0 ELSE next[x]
        /\ \A x \in Pids : pc'[x] = IF x = 0 THEN "run" ELSE pc[x]
        /\ ready_queue' = 0
        /\ UNCHANGED <<next_pid, current_process, state, stacks, loc, fault>>
    BY DEF init_multitasking, Goto, IInv, TypeOK
  <1>3. AlwaysReady' /\ Ordered' /\ StacksLive' /\ MonitorLinked'
    BY <1>1, <1>2 DEF IInv, AlwaysReady, Ordered, StacksLive, MonitorLinked
  <1>4. Unborn'
    BY <1>1, <1>2 DEF IInv, Unborn, Pids
  <1>5. \A x \in Pids : LocalsOK(x)'
    BY <1>1, <1>2 DEF IInv, LocalsOK
  <1>6. RunsReady' /\ SelfSwitchOnlyInBoot'
    BY <1>1, <1>2 DEF IInv, RunsReady, SelfSwitchOnlyInBoot, init_multitasking, Running
  <1> QED
    BY <1>3, <1>4, <1>5, <1>6 DEF IInv

LEMMA CreateStep ==
    ASSUME IInv, TypeOK', NEW p \in Pids, create_process(p)
    PROVE  IInv'
PROOF
  <1>1. PICK last \in FirstInQueue({x \in Pids : next[x] = ready_queue}) :
           \/ last = Wild /\ Crash
           \/ /\ last # Wild
              /\ next_pid' = next_pid + 1
              /\ state' = [state EXCEPT ![next_pid] = "READY"]
              /\ stacks' = stacks \cup {next_pid}
              /\ loc' = [loc EXCEPT ![p].node = next_pid, ![p].prev = last]
              /\ Goto(p, "link1")
              /\ UNCHANGED <<ready_queue, current_process, next, fault>>
    BY DEF create_process
  <1>2. CASE Crash
    BY <1>2, CrashStep
  <1>3. CASE ~ Crash
    <2>1. Running(p, {"run"}) /\ next_pid \in Pids /\ next_pid >= 1
          /\ p = (IF next_pid <= Shell THEN 0 ELSE Shell) /\ pc[p] = "run"
      BY Constants DEF create_process, Running, IInv, TypeOK, Pids
    <2>2. state[p] = "READY" /\ p \in stacks /\ p = current_process /\ fault = "none"
      BY <2>1, RunningReady
    <2>3. /\ \A x \in Pids : state'[x] = IF x = next_pid THEN "READY" ELSE state[x]
          /\ \A x \in Pids : pc'[x] = IF x = p THEN "link1" ELSE pc[x]
          /\ \A x \in Pids : x # p => loc'[x] = loc[x]
          /\ loc'[p].node = next_pid /\ loc'[p].prev = last
      BY <1>1, <1>3 DEF Goto, IInv, TypeOK
    <2>4. ready_queue = 0 /\ next[last] = 0 /\ last \in Pids
      <3>1. ready_queue = 0
        BY <1>1, <1>3 DEF FirstInQueue, IInv, Ordered
      <3>2. 0 \in Pids /\ 0 # Wild
        BY Constants DEF Pids, Wild
      <3>3. last \in Pids
        BY <1>1, <1>3, <3>1, <3>2, QueueWalk
      <3>4. CASE next[0] = 0
        BY <1>1, <3>1, <3>2, <3>4 DEF FirstInQueue
      <3>5. CASE next[0] # 0
        <4> DEFINE ends == {x \in Pids : next[x] = 0}
        <4>1. last \in Landing(0, ends \cup {0})
          BY <1>1, <3>1, <3>2, <3>5 DEF FirstInQueue
        <4>2. PICK Over \in SUBSET (Pids \ (ends \cup {0})) :
                 /\ \A x \in Over \cup {0} : next[x] \in Over \cup {last}
                 /\ \A C \in (SUBSET Over) \ {{}} : \E x \in C : next[x] \notin C
          BY <4>1 DEF Landing
        <4>3. CASE last = 0
          <5>1. next[0] \in Over
            BY <3>5, <4>2, <4>3
          <5>2. Over \in (SUBSET Over) \ {{}}
            BY <5>1
          <5>3. PICK x \in Over : next[x] \notin Over
            BY <4>2, <5>2
          <5>4. next[x] = 0
            BY <4>2, <4>3, <5>3
          <5>5. x \in ends
            BY <5>3, <5>4
          <5> QED
            BY <4>2, <5>3, <5>5
        <4>4. CASE last # 0
          <5>1. last \in ends \cup {0, Wild}
            BY <4>1 DEF Landing
          <5>2. last \in ends
            BY <1>1, <1>3, <4>4, <5>1
          <5> QED
            BY <3>1, <3>3, <5>2
        <4> QED
          BY <3>1, <3>3, <4>3, <4>4
      <3> QED
        BY <3>1, <3>3, <3>4, <3>5
    <2>5. last < next_pid
      BY <2>1, <2>4, Constants DEF IInv, Unborn, Pids, Wild
    <2>6. last = 0 => next_pid = 1
      <3>1. 0 \in Pids
        BY Constants DEF Pids
      <3>2. pc[0] = "link1" /\ loc[0].node = 1 => next_pid = 2
        BY <3>1 DEF IInv, LocalsOK
      <3>3. next_pid = 2 => pc[0] = "run"
        BY <2>1 DEF Shell
      <3> QED
        BY <2>1, <2>4, <3>2, <3>3 DEF IInv, MonitorLinked, TypeOK
    <2>7. AlwaysReady' /\ Ordered' /\ StacksLive'
      <3>1. 0 \in Pids /\ 1 \in Pids /\ next_pid # 0
        BY <2>1, Constants DEF Pids
      <3> QED
        BY <1>1, <1>3, <2>3, <3>1 DEF IInv, AlwaysReady, Ordered, StacksLive
    <2>8. Unborn'
      BY <1>1, <1>3, <2>1, <2>3 DEF IInv, Unborn, Pids
    <2>9. ASSUME NEW x \in Pids PROVE LocalsOK(x)'
      <3>1. CASE x = p
        <4>1. pc'[p] = "link1" /\ loc'[p].node = next_pid /\ loc'[p].prev = last
              /\ next_pid' = next_pid + 1 /\ next_pid \in Nat /\ next_pid >= 1
          BY <1>1, <1>3, <2>1, <2>3 DEF IInv, TypeOK
        <4>2. next_pid = 1 => p = 0
          BY <2>1 DEF Shell
        <4>3. next_pid \in 1..next_pid' - 1
          BY <4>1
        <4> QED
          BY <2>4, <2>5, <2>6, <3>1, <4>1, <4>2, <4>3 DEF LocalsOK
      <3>2. CASE x # p
        <4>1. pc'[x] = pc[x] /\ loc'[x] = loc[x] /\ LocalsOK(x)
          BY <2>3, <3>2 DEF IInv
        <4>2. \A y \in Pids : state[y] = "ZOMBIE" => state'[y] = "ZOMBIE"
          <5>1. state[next_pid] = "UNUSED"
            BY <2>1 DEF IInv, Unborn
          <5> QED
            BY <2>3, <5>1
        <4>3. ~ (pc[x] = "link1" /\ loc[x].node = 1)
          BY <2>1, <3>2, <4>1 DEF LocalsOK, Shell
        <4>4. next_pid' = next_pid + 1 /\ next_pid \in Nat
          BY <1>1, <1>3, <2>1 DEF IInv, TypeOK
        <4> QED
          BY <4>1, <4>2, <4>3, <4>4 DEF LocalsOK
      <3> QED
        BY <3>1, <3>2
    <2>10. MonitorLinked'
      <3>1. 0 \in Pids /\ 1 \in Pids
        BY Constants DEF Pids
      <3>2. pc[0] = "link1" /\ loc[0].node = 1 => next_pid = 2
        BY <3>1 DEF IInv, LocalsOK
      <3>3. next_pid <= 2 => p = 0
        BY <2>1 DEF Shell
      <3>4. pc'[0] # "init"
        BY <2>1, <2>3, <3>1, <3>3 DEF IInv, MonitorLinked
      <3>5. next[0] = 1 \/ (pc'[0] = "link1" /\ loc'[0].node = 1)
        BY <2>1, <2>3, <3>1, <3>2, <3>3 DEF IInv, MonitorLinked
      <3>6. state'[1] = "READY"
        BY <2>1, <2>3, <3>1 DEF IInv, MonitorLinked
      <3> QED
        BY <1>1, <1>3, <3>4, <3>5, <3>6 DEF MonitorLinked
    <2>11. RunsReady' /\ SelfSwitchOnlyInBoot'
      BY <1>1, <1>3, <2>2, <2>3 DEF RunsReady, SelfSwitchOnlyInBoot
    <2> QED
      BY <2>7, <2>8, <2>9, <2>10, <2>11 DEF IInv
  <1> QED
    BY <1>1, <1>2, <1>3

LEMMA LinkLastStep ==
    ASSUME IInv, TypeOK', NEW p \in Pids, create_link_last(p)
    PROVE  IInv'
PROOF
  <1> DEFINE last == loc[p].prev
             new == loc[p].node
  <1>1. Running(p, {"link1"}) /\ pc[p] = "link1"
    BY DEF create_link_last, Running
  <1>2. state[p] = "READY" /\ p \in stacks /\ p = current_process /\ fault = "none"
    BY <1>1, RunningReady
  <1>3. /\ new \in 1..next_pid - 1 /\ last \in Pids /\ last < new
        /\ last = 0 => new = 1
    BY <1>1 DEF IInv, LocalsOK
  <1>4. /\ \A x \in Pids : next'[x] = IF x = last THEN new ELSE next[x]
        /\ \A x \in Pids : pc'[x] = IF x = p THEN "link2" ELSE pc[x]
        /\ UNCHANGED <<next_pid, ready_queue, current_process, state, stacks, loc, fault>>
    BY DEF create_link_last, Goto, IInv, TypeOK
  <1>5. 0 \in Pids /\ 1 \in Pids /\ next_pid \in Nat /\ next_pid >= 2
    BY <1>3, Constants DEF Pids, IInv, TypeOK
  <1>6. AlwaysReady'
    BY <1>3, <1>4, <1>5 DEF IInv, AlwaysReady, MonitorLinked
  <1>7. Ordered' /\ StacksLive'
    BY <1>3, <1>4 DEF IInv, Ordered, StacksLive
  <1>8. Unborn'
    BY <1>3, <1>4, <1>5 DEF IInv, Unborn, Pids
  <1>9. ASSUME NEW x \in Pids PROVE LocalsOK(x)'
    BY <1>1, <1>3, <1>4 DEF IInv, LocalsOK
  <1>10. MonitorLinked'
    <2>1. new = 1 => last = 0
      BY <1>3 DEF Pids
    <2>2. next'[0] = 1 \/ (pc'[0] = "link1" /\ loc'[0].node = 1)
      BY <1>3, <1>4, <1>5, <2>1 DEF IInv, MonitorLinked
    <2> QED
      BY <1>4, <1>5, <2>2 DEF IInv, MonitorLinked
  <1>11. RunsReady' /\ SelfSwitchOnlyInBoot'
    BY <1>2, <1>4 DEF RunsReady, SelfSwitchOnlyInBoot
  <1> QED
    BY <1>6, <1>7, <1>8, <1>9, <1>10, <1>11 DEF IInv

LEMMA LinkNewStep ==
    ASSUME IInv, TypeOK', NEW p \in Pids, create_link_new(p)
    PROVE  IInv'
PROOF
  <1> DEFINE new == loc[p].node
  <1>1. Running(p, {"link2"}) /\ pc[p] = "link2"
    BY DEF create_link_new, Running
  <1>2. state[p] = "READY" /\ p \in stacks /\ p = current_process /\ fault = "none"
    BY <1>1, RunningReady
  <1>3. new \in 1..next_pid - 1
    BY <1>1 DEF IInv, LocalsOK
  <1>4. /\ \A x \in Pids : next'[x] = IF x = new THEN ready_queue ELSE next[x]
        /\ \A x \in Pids : pc'[x] = IF x = p THEN "run" ELSE pc[x]
        /\ \A x \in Pids : x # p => loc'[x] = loc[x]
        /\ UNCHANGED <<next_pid, ready_queue, current_process, state, stacks, fault>>
    BY DEF create_link_new, Goto, IInv, TypeOK
  <1>5. 0 \in Pids /\ next_pid \in Nat /\ new # 0
    BY <1>3, Constants DEF Pids, IInv, TypeOK
  <1>6. AlwaysReady' /\ Ordered' /\ StacksLive'
    BY <1>3, <1>4, <1>5 DEF IInv, AlwaysReady, Ordered, StacksLive
  <1>7. Unborn'
    BY <1>3, <1>4, <1>5 DEF IInv, Unborn, Pids
  <1>8. ASSUME NEW x \in Pids PROVE LocalsOK(x)'
    BY <1>4 DEF IInv, LocalsOK
  <1>9. MonitorLinked'
    BY <1>1, <1>4, <1>5 DEF IInv, MonitorLinked
  <1>10. RunsReady' /\ SelfSwitchOnlyInBoot'
    BY <1>2, <1>4 DEF RunsReady, SelfSwitchOnlyInBoot
  <1> QED
    BY <1>6, <1>7, <1>8, <1>9, <1>10 DEF IInv

(* A process that points to a zombie is neither process 0 nor without a    *)
(* pid, and precedes it.                                                   *)
LEMMA BeforeZombie ==
    ASSUME IInv, NEW prev \in Pids, next[prev] \in Pids, state[next[prev]] = "ZOMBIE"
    PROVE  prev \in 1..next_pid - 1 /\ prev < next[prev] /\ next[prev] # 0
PROOF
  <1>1. 0 \in Pids /\ Wild \notin Pids /\ next_pid \in Nat
    BY Constants DEF Pids, Wild, IInv, TypeOK
  <1>2. next[prev] # 0 /\ next[prev] # Wild
    BY <1>1 DEF IInv, AlwaysReady
  <1>3. prev # 0
    BY <1>1, <1>2 DEF IInv, AlwaysReady
  <1>4. ~ (prev >= next_pid)
    BY <1>2 DEF IInv, Unborn
  <1>5. next[prev] > prev
    BY <1>2 DEF IInv, Ordered
  <1> QED
    BY <1>1, <1>2, <1>3, <1>4, <1>5 DEF Pids

(* Taking a zombie off the list keeps the invariant, with a successor that *)
(* may be out of date but lies behind the zombie.                          *)
LEMMA UnlinkStep ==
    ASSUME IInv, TypeOK', NEW p \in Pids, p >= Shell, state[p] = "READY", p \in stacks,
           p = current_process,
           NEW prev \in 1..next_pid - 1, NEW child \in Pids, NEW succ,
           prev < child, state[child] = "ZOMBIE",
           succ \in {Wild, 0} \/ succ > child,
           Unlinked(prev, child, succ),
           UNCHANGED <<next_pid, current_process, state, stacks, fault>>, fault = "none",
           \A x \in Pids \ {p} : pc'[x] = pc[x] /\ loc'[x] = loc[x],
           pc'[p] = "run"
    PROVE  IInv'
PROOF
  <1>1. 0 \in Pids /\ p # 0 /\ next_pid \in 1..MaxPid + 1 /\ prev \in Pids /\ prev # 0
        /\ Wild \notin Pids
    BY Constants DEF Pids, Shell, Wild, IInv, TypeOK
  <1>2. child # 0 /\ ready_queue # child
    BY <1>1 DEF IInv, AlwaysReady, Ordered
  <1>3. /\ \A x \in Pids : next'[x] = IF x = prev THEN succ ELSE next[x]
        /\ ready_queue' = ready_queue
    BY <1>2 DEF Unlinked, IInv, TypeOK
  <1>4. AlwaysReady' /\ StacksLive'
    BY <1>1, <1>3 DEF IInv, AlwaysReady, StacksLive
  <1>5. Ordered'
    <2>1. succ \in {Wild, 0} \/ succ > prev
      <3>1. TypeOK' => succ \in Node
        BY <1>1, <1>3 DEF TypeOK
      <3> QED
        BY <1>1, <3>1, Constants DEF Node, Pids, Wild
    <2> QED
      BY <1>3, <2>1 DEF IInv, Ordered
  <1>6. Unborn'
    BY <1>1, <1>3 DEF IInv, Unborn, Pids
  <1>7. ASSUME NEW x \in Pids PROVE LocalsOK(x)'
    <2>1. CASE x = p
      BY <2>1 DEF LocalsOK
    <2>2. CASE x # p
      BY <2>2 DEF IInv, LocalsOK
    <2> QED
      BY <2>1, <2>2
  <1>8. MonitorLinked'
    BY <1>1, <1>3 DEF IInv, MonitorLinked
  <1>9. RunsReady' /\ SelfSwitchOnlyInBoot'
    BY DEF RunsReady, SelfSwitchOnlyInBoot
  <1> QED
    BY <1>3, <1>4, <1>5, <1>6, <1>7, <1>8, <1>9 DEF IInv

(* SYS_WAIT with interrupts disabled: the zombie found by it is unlinked   *)
(* at once, otherwise the caller is put to sleep.                          *)
LEMMA WaitStep ==
    ASSUME IInv, TypeOK', NEW p \in Pids, NEW target \in Node, process_wait(p, target)
    PROVE  IInv'
PROOF
  <1>1. Running(p, {"run"}) /\ <<p, target>> \in WaitsFor /\ pc[p] = "run"
    BY DEF process_wait, Running
  <1>2. p >= Shell /\ state[p] = "READY" /\ p \in stacks /\ p = current_process
        /\ fault = "none"
    <2>1. p >= Shell
      BY <1>1, Constants DEF Shell
    <2> QED
      BY <1>1, <2>1, RunningReady
  <1>3. PICK child \in FirstInQueue(Awaited(p, target)) :
           \/ Crash
           \/ /\ child \in Awaited(p, target) /\ state[child] = "ZOMBIE"
              /\ \E prev \in FirstInQueue({x \in Pids : next[x] = child}) \ {Wild} :
                    /\ next[prev] = child
                    /\ Unlinked(prev, child, next[child])
              /\ UNCHANGED <<next_pid, current_process, state, wait_reason,
                             parent_pid, stacks, pc, loc, kbd, fault>>
           \/ /\ child \in Awaited(p, target) /\ state[child] # "ZOMBIE"
              /\ Set(p, "target", target)
              /\ process_block(p, child, "wait")
    BY DEF process_wait
  <1>4. CASE Crash
    BY <1>4, CrashStep
  <1>5. CASE /\ child \in Awaited(p, target) /\ state[child] = "ZOMBIE"
             /\ \E prev \in FirstInQueue({x \in Pids : next[x] = child}) \ {Wild} :
                   /\ next[prev] = child
                   /\ Unlinked(prev, child, next[child])
             /\ UNCHANGED <<next_pid, current_process, state, wait_reason,
                            parent_pid, stacks, pc, loc, kbd, fault>>
    <2>1. PICK prev \in FirstInQueue({x \in Pids : next[x] = child}) \ {Wild} :
             next[prev] = child /\ Unlinked(prev, child, next[child])
      BY <1>5
    <2>2. child \in Pids
      BY <1>5 DEF Awaited
    <2>3. prev \in {x \in Pids : next[x] = child} \cup {ready_queue, Wild}
      BY <2>1, QueueWalk
    <2>4. prev \in Pids
      BY <2>3 DEF IInv, TypeOK, Node
    <2>5. prev \in 1..next_pid - 1 /\ prev < child
      BY <1>5, <2>1, <2>2, <2>4, BeforeZombie
    <2>6. next[child] \in {Wild, 0} \/ next[child] > child
      BY <2>2 DEF IInv, Ordered
    <2> QED
      BY <1>1, <1>2, <1>5, <2>1, <2>2, <2>5, <2>6, UnlinkStep
  <1>6. CASE Set(p, "target", target) /\ process_block(p, child, "wait")
    <2>1. pc'[p] = "wait" /\ \A x \in Pids \ {p} : loc'[x] = loc[x]
      BY <1>6 DEF Set, process_block, Goto, IInv, TypeOK
    <2>2. LocalsOK(p)'
      BY <1>2, <2>1 DEF LocalsOK
    <2> QED
      BY <1>2, <1>6, <2>1, <2>2, BlockStep
  <1> QED
    BY <1>3, <1>4, <1>5, <1>6

LEMMA WaitAgainStep ==
    ASSUME IInv, TypeOK', NEW p \in Pids, wait_again(p)
    PROVE  IInv'
PROOF
  <1>1. Running(p, {"wait"}) /\ pc[p] = "wait"
    BY DEF wait_again, Running
  <1>2. state[p] = "READY" /\ p \in stacks /\ p = current_process /\ fault = "none"
    BY <1>1, RunningReady
  <1>3. p >= Shell
    BY <1>1 DEF IInv, LocalsOK
  <1> DEFINE awaited == Awaited(p, loc[p].target)
  <1>4. PICK child \in FirstInQueue(awaited) :
           \/ Crash
           \/ /\ Goto(p, IF child \notin awaited THEN "run"
                         ELSE IF state[child] = "ZOMBIE" THEN "reap" ELSE "sleep1")
              /\ loc' = [loc EXCEPT ![p] =
                           IF child \in awaited THEN [@ EXCEPT !.node = child] ELSE NoLocals]
              /\ UNCHANGED <<next_pid, ready_queue, current_process, state, wait_reason,
                             parent_pid, next, stacks, kbd, fault>>
    BY DEF wait_again
  <1>5. CASE Crash
    BY <1>5, CrashStep
  <1>6. CASE ~ Crash
    <2>1. /\ \A x \in Pids \ {p} : pc'[x] = pc[x] /\ loc'[x] = loc[x]
          /\ pc'[p] = IF child \notin awaited THEN "run"
                      ELSE IF state[child] = "ZOMBIE" THEN "reap" ELSE "sleep1"
          /\ child \in awaited => loc'[p].node = child
      BY <1>4, <1>6 DEF Goto, IInv, TypeOK
    <2>2. child \in awaited => child \in Pids
      BY DEF Awaited
    <2>3. state' = state
      BY <1>4, <1>6
    <2>4. LocalsOK(p)'
      BY <1>3, <2>1, <2>2, <2>3 DEF LocalsOK
    <2>5. RunsReady' /\ SelfSwitchOnlyInBoot'
      BY <1>2, <1>4, <1>6 DEF IInv, RunsReady, SelfSwitchOnlyInBoot
    <2> QED
      BY <1>3, <1>4, <1>6, <2>1, <2>4, <2>5, ListFrame DEF IInv, AlwaysReady, StacksLive
  <1> QED
    BY <1>5, <1>6

LEMMA FindPrevStep ==
    ASSUME IInv, TypeOK', NEW p \in Pids, wait_find_prev(p)
    PROVE  IInv'
PROOF
  <1> DEFINE child == loc[p].node
  <1>1. Running(p, {"reap"}) /\ pc[p] = "reap"
    BY DEF wait_find_prev, Running
  <1>2. state[p] = "READY" /\ p \in stacks /\ p = current_process /\ fault = "none"
    BY <1>1, RunningReady
  <1>3. p >= Shell /\ child \in Pids /\ state[child] = "ZOMBIE"
    BY <1>1 DEF IInv, LocalsOK
  <1>4. PICK prev \in FirstInQueue({x \in Pids : next[x] = child}) :
           \/ Crash
           \/ /\ prev # Wild /\ next[prev] = child
              /\ loc' = [loc EXCEPT ![p].prev = prev, ![p].succ = next[child]]
              /\ Goto(p, "unlink")
              /\ UNCHANGED <<next_pid, ready_queue, current_process, state, wait_reason,
                             parent_pid, next, stacks, kbd, fault>>
    BY DEF wait_find_prev
  <1>5. CASE Crash
    BY <1>5, CrashStep
  <1>6. CASE ~ Crash
    <2>1. /\ \A x \in Pids \ {p} : pc'[x] = pc[x] /\ loc'[x] = loc[x]
          /\ pc'[p] = "unlink" /\ loc'[p].node = child
          /\ loc'[p].prev = prev /\ loc'[p].succ = next[child]
      BY <1>4, <1>6 DEF Goto, IInv, TypeOK
    <2>2. prev \in Pids
      <3>1. prev \in {x \in Pids : next[x] = child} \cup {ready_queue, Wild}
        BY QueueWalk
      <3> QED
        BY <1>4, <1>6, <3>1 DEF IInv, TypeOK, Node
    <2>3. prev \in 1..next_pid - 1 /\ prev < child
      BY <1>3, <1>4, <1>6, <2>2, BeforeZombie
    <2>4. next[child] \in {Wild, 0} \/ next[child] > child
      BY <1>3 DEF IInv, Ordered
    <2>5. state' = state /\ next_pid' = next_pid
      BY <1>4, <1>6
    <2>6. LocalsOK(p)'
      BY <1>3, <2>1, <2>3, <2>4, <2>5 DEF LocalsOK
    <2>7. RunsReady' /\ SelfSwitchOnlyInBoot'
      BY <1>2, <1>4, <1>6 DEF IInv, RunsReady, SelfSwitchOnlyInBoot
    <2> QED
      BY <1>3, <1>4, <1>6, <2>1, <2>6, <2>7, ListFrame DEF IInv, AlwaysReady, StacksLive
  <1> QED
    BY <1>5, <1>6

LEMMA WaitUnlinkStep ==
    ASSUME IInv, TypeOK', NEW p \in Pids, wait_unlink(p)
    PROVE  IInv'
PROOF
  <1>1. Running(p, {"unlink"}) /\ pc[p] = "unlink"
    BY DEF wait_unlink, Running
  <1>2. state[p] = "READY" /\ p \in stacks /\ p = current_process /\ fault = "none"
    BY <1>1, RunningReady
  <1>3. /\ p >= Shell /\ loc[p].node \in Pids /\ state[loc[p].node] = "ZOMBIE"
        /\ loc[p].prev \in 1..next_pid - 1
        /\ loc[p].prev < loc[p].node
        /\ loc[p].succ \in {Wild, 0} \/ loc[p].succ > loc[p].node
    BY <1>1 DEF IInv, LocalsOK
  <1>4. /\ \A x \in Pids \ {p} : pc'[x] = pc[x] /\ loc'[x] = loc[x]
        /\ pc'[p] = "run"
    BY DEF wait_unlink, Goto, IInv, TypeOK
  <1>5. /\ Unlinked(loc[p].prev, loc[p].node, loc[p].succ)
        /\ UNCHANGED <<next_pid, current_process, state, stacks, fault>>
    BY DEF wait_unlink
  <1> QED
    BY <1>2, <1>3, <1>4, <1>5, UnlinkStep

LEMMA BlockStateStep ==
    ASSUME IInv, TypeOK', NEW p \in Pids, wait_block_state(p)
    PROVE  IInv'
PROOF
  <1>1. Running(p, {"sleep1"}) /\ pc[p] = "sleep1"
    BY DEF wait_block_state, Running
  <1>2. state[p] = "READY" /\ p \in stacks /\ p = current_process /\ fault = "none"
    BY <1>1, RunningReady
  <1>3. p >= Shell
    BY <1>1 DEF IInv, LocalsOK
  <1>4. /\ \A x \in Pids : state'[x] = IF x = p THEN "BLOCKED" ELSE state[x]
        /\ \A x \in Pids : pc'[x] = IF x = p THEN "sleep2" ELSE pc[x]
        /\ UNCHANGED <<next_pid, ready_queue, current_process, next, stacks, loc, fault>>
    BY DEF wait_block_state, Goto, IInv, TypeOK
  <1>5. LocalsOK(p)'
    BY <1>3, <1>4 DEF LocalsOK
  <1>6. 0 \in Pids /\ 1 \in Pids /\ p # 0 /\ p # 1
    BY <1>3, Constants DEF Pids, Shell
  <1>7. RunsReady' /\ SelfSwitchOnlyInBoot'
    BY <1>2, <1>4 DEF IInv, RunsReady, SelfSwitchOnlyInBoot
  <1> QED
    BY <1>2, <1>3, <1>4, <1>5, <1>6, <1>7, ListFrame DEF IInv, AlwaysReady, StacksLive

LEMMA BlockReasonStep ==
    ASSUME IInv, TypeOK', NEW p \in Pids, wait_block_reason(p)
    PROVE  IInv'
PROOF
  <1>1. Running(p, {"sleep2"}) /\ pc[p] = "sleep2"
    BY DEF wait_block_reason, Running
  <1>2. p >= Shell
    BY <1>1 DEF IInv, LocalsOK
  <1>3. /\ state' = state
        /\ fault' = "none" => state[current_process'] = "READY" /\ current_process' \in Pids
        /\ fault' = "stale_esp" => next[0] = 0
    BY SchedulePicks DEF wait_block_reason, IInv, TypeOK, AlwaysReady
  <1>4. /\ \A x \in Pids : pc'[x] = IF x = p THEN "wait" ELSE pc[x]
        /\ UNCHANGED <<next_pid, ready_queue, next, stacks, loc>>
    BY DEF wait_block_reason, Goto, IInv, TypeOK
  <1>5. LocalsOK(p)'
    BY <1>2, <1>4 DEF LocalsOK
  <1>6. RunsReady' /\ SelfSwitchOnlyInBoot'
    BY <1>3, <1>4 DEF RunsReady, SelfSwitchOnlyInBoot, IInv, StacksLive
  <1> QED
    BY <1>2, <1>3, <1>4, <1>5, <1>6, ListFrame DEF IInv, AlwaysReady, StacksLive
-----------------------------------------------------------------------------
LEMMA Inductive == IInv /\ [Next]_vars => IInv'
PROOF
  <1> SUFFICES ASSUME IInv, [Next]_vars PROVE IInv'
    OBVIOUS
  <1>1. TypeOK'
    BY TypeInductive DEF IInv
  <1>2. CASE UNCHANGED vars
    <2>1. RunsReady' /\ SelfSwitchOnlyInBoot'
      BY <1>2 DEF vars, IInv, RunsReady, SelfSwitchOnlyInBoot
    <2> QED
      BY <1>1, <1>2, <2>1, ListFrame DEF vars, IInv, AlwaysReady, StacksLive
  <1> QED
    BY <1>1, <1>2, BootStep, TimerStep, KeyStep, CreateStep, LinkLastStep, LinkNewStep,
       ReadStep, ExitStep, WaitStep, WaitAgainStep, FindPrevStep, WaitUnlinkStep,
       BlockStateStep, BlockReasonStep DEF Next

LEMMA InitIInv == Init => IInv
PROOF
  <1> SUFFICES ASSUME Init PROVE IInv
    OBVIOUS
  <1>1. TypeOK
    <2>1. NoLocals \in [target : Node, node : Pids, prev : Node, succ : Node]
      BY Constants DEF NoLocals, Node, Pids
    <2>2. 0 \in Pids /\ 0 \in Node /\ Wild \in Node /\ 1 \in 1..MaxPid + 1 /\ 0 \in 0..KBD
      BY Constants DEF Node, Pids
    <2> QED
      BY <2>1, <2>2 DEF Init, TypeOK, States, PCs, Faults
  <1>2. 0 \in Pids /\ 1 \in Pids /\ Wild # 1
    BY Constants DEF Pids, Wild
  <1>3. AlwaysReady /\ Ordered /\ StacksLive /\ MonitorLinked
    BY <1>2 DEF Init, AlwaysReady, Ordered, StacksLive, MonitorLinked
  <1>4. Unborn
    BY <1>2 DEF Init, Unborn
  <1>5. \A p \in Pids : LocalsOK(p)
    BY DEF Init, LocalsOK
  <1>6. RunsReady /\ SelfSwitchOnlyInBoot
    BY <1>2 DEF Init, RunsReady, SelfSwitchOnlyInBoot
  <1> QED
    BY <1>1, <1>3, <1>4, <1>5, <1>6 DEF IInv

LEMMA Invariance == Spec => []IInv
PROOF
    BY InitIInv, Inductive, PTL DEF Spec

(* The processor is only ever given to a process that may run and whose    *)
(* kernel stack has not been freed, however many processes there are.      *)
THEOREM RunsReadyAlways == Spec => []RunsReady
PROOF
  <1>1. IInv => RunsReady
    BY DEF IInv
  <1> QED
    BY <1>1, Invariance, PTL

(* The search of schedule() comes to an end in every reachable state, also  *)
(* when several waiters have unlinked one process from stale pointers.      *)
THEOREM ScheduleAlwaysReturns == Spec => []ScheduleReturns
PROOF
  <1>1. IInv => ScheduleReturns
    <2> SUFFICES ASSUME IInv PROVE ScheduleReturns
      OBVIOUS
    <2> DEFINE S == {x \in Pids : state[x] = "READY"} \cup {current_process}
    <2>1. TypeOK /\ Ordered /\ state[0] = "READY"
      BY DEF IInv, AlwaysReady
    <2>2. current_process \in Pids
      BY <2>1 DEF TypeOK
    <2>3. 0 \in S /\ S \in SUBSET Pids
      BY <2>1, <2>2, Constants DEF Pids
    <2>4. Landing(current_process, S) # {}
      BY <2>1, <2>2, <2>3, LandingExists
    <2> QED
      BY <2>4 DEF ScheduleReturns
  <1> QED
    BY <1>1, Invariance, PTL

(* Once the monitor is on the list, schedule() never switches a process to *)
(* itself and so never loads a stack pointer that is out of date.          *)
THEOREM SelfSwitchNeverAfterBoot == Spec => []SelfSwitchOnlyInBoot
PROOF
  <1>1. IInv => SelfSwitchOnlyInBoot
    BY DEF IInv
  <1> QED
    BY <1>1, Invariance, PTL

-----------------------------------------------------------------------------
(* A process that is about to be put to sleep has not exited.              *)
HalfAsleep == \A x \in Pids : pc[x] = "sleep2" => state[x] # "ZOMBIE"

(* No step revives a zombie, and only process_exit makes one, of a process *)
(* that is not about to sleep.                                             *)
LEMMA ZombieStep ==
    ASSUME IInv, HalfAsleep, [Next]_vars
    PROVE  /\ \A x \in Pids : state[x] = "ZOMBIE" => state'[x] = "ZOMBIE"
           /\ HalfAsleep'
PROOF
  <1> DEFINE Keeps == \A x \in Pids : state[x] = "ZOMBIE" => state'[x] = "ZOMBIE"
             Makes == \A x \in Pids : state'[x] = "ZOMBIE" => state[x] = "ZOMBIE"
             Halves == \A x \in Pids : pc'[x] = "sleep2" =>
                           pc[x] = "sleep2" \/ state'[x] = "BLOCKED"
  <1>0. ASSUME Keeps, Makes, Halves
        PROVE  Keeps /\ HalfAsleep'
    BY <1>0 DEF HalfAsleep
  <1>1. ASSUME state' = state, Halves
        PROVE  Keeps /\ HalfAsleep'
    BY <1>1 DEF HalfAsleep
  <1>2. CASE init_multitasking \/ timer_or_yield \/ UNCHANGED vars
    <2>1. state' = state /\ Halves
      BY <1>2 DEF init_multitasking, timer_or_yield, vars, Schedule, Goto, IInv, TypeOK
    <2> QED
      BY <1>1, <2>1
  <1>3. CASE keyboard_handler
    <2>1. pc' = pc /\ (state' = state \/ \E q : state' = Woken(state, KeyReason, q))
      BY <1>3 DEF keyboard_handler, Crash
    <2>2. Keeps /\ Makes
      BY <2>1 DEF Woken, Sleepers, IInv, TypeOK
    <2> QED
      BY <1>0, <2>1, <2>2
  <1>4. ASSUME NEW p \in Pids, create_process(p) PROVE Keeps /\ HalfAsleep'
    <2>1. state' = state \/ state' = [state EXCEPT ![next_pid] = "READY"]
      BY <1>4 DEF create_process, Crash
    <2>2. Halves
      BY <1>4 DEF create_process, Crash, Goto, IInv, TypeOK
    <2>3. next_pid \in Pids => state[next_pid] = "UNUSED"
      BY DEF IInv, Unborn, TypeOK
    <2>4. Keeps /\ Makes
      BY <2>1, <2>3 DEF IInv, TypeOK
    <2> QED
      BY <1>0, <2>2, <2>4
  <1>5. ASSUME NEW p \in Pids, process_exit(p) PROVE Keeps /\ HalfAsleep'
    <2>1. pc' = pc /\ pc[p] = "run"
      BY <1>5 DEF process_exit, Crash, Running
    <2>2. \/ state' = state
          \/ \E q : state' = Woken([state EXCEPT ![p] = "ZOMBIE"], p, q)
      BY <1>5 DEF process_exit, Crash, Schedule
    <2>3. Keeps /\ \A x \in Pids : state'[x] = "ZOMBIE" => x = p \/ state[x] = "ZOMBIE"
      BY <2>2 DEF Woken, Sleepers, IInv, TypeOK
    <2> QED
      BY <2>1, <2>3 DEF HalfAsleep
  <1>6. ASSUME NEW p \in Pids, SYS_READ(p) PROVE Keeps /\ HalfAsleep'
    <2>1. p = current_process /\ state[p] = "READY"
      <3>1. Running(p, {"run", "retry"})
        BY <1>6 DEF SYS_READ
      <3> QED
        BY <3>1, RunningReady
    <2>2. state' = state \/ state' = [state EXCEPT ![p] = "BLOCKED"]
      BY <1>6 DEF SYS_READ, process_block, Schedule
    <2>3. Halves
      BY <1>6 DEF SYS_READ, process_block, Goto, IInv, TypeOK
    <2>4. Keeps /\ Makes
      BY <2>1, <2>2 DEF IInv, TypeOK
    <2> QED
      BY <1>0, <2>3, <2>4
  <1>7. ASSUME NEW p \in Pids, NEW target \in Node, process_wait(p, target)
        PROVE  Keeps /\ HalfAsleep'
    <2>1. state[p] = "READY"
      <3>1. Running(p, {"run"})
        BY <1>7 DEF process_wait
      <3> QED
        BY <3>1, RunningReady
    <2>2. state' = state \/ state' = [state EXCEPT ![p] = "BLOCKED"]
      BY <1>7 DEF process_wait, process_block, Schedule, Crash
    <2>3. Halves
      BY <1>7 DEF process_wait, process_block, Goto, Crash, IInv, TypeOK
    <2>4. Keeps /\ Makes
      BY <2>1, <2>2 DEF IInv, TypeOK
    <2> QED
      BY <1>0, <2>3, <2>4
  <1>8. ASSUME NEW p \in Pids, wait_block_state(p) PROVE Keeps /\ HalfAsleep'
    <2>1. state[p] = "READY"
      <3>1. Running(p, {"sleep1"})
        BY <1>8 DEF wait_block_state
      <3> QED
        BY <3>1, RunningReady
    <2>2. state' = [state EXCEPT ![p] = "BLOCKED"] /\ pc' = [pc EXCEPT ![p] = "sleep2"]
      BY <1>8 DEF wait_block_state, Goto
    <2>3. Keeps /\ Makes /\ Halves
      BY <2>1, <2>2 DEF IInv, TypeOK
    <2> QED
      BY <1>0, <2>3
  <1>9. ASSUME NEW p \in Pids,
               \/ create_link_last(p) \/ create_link_new(p) \/ wait_again(p)
               \/ wait_find_prev(p) \/ wait_unlink(p) \/ wait_block_reason(p)
        PROVE  Keeps /\ HalfAsleep'
    <2>1. state' = state
      BY <1>9 DEF create_link_last, create_link_new, wait_again, wait_find_prev,
                  wait_unlink, wait_block_reason, Schedule, Crash
    <2>2. Halves
      <3>1. PICK label \in PCs \ {"sleep2"} : pc' = pc \/ Goto(p, label)
        <4>1. CASE create_link_last(p) \/ create_link_new(p)
          BY <4>1 DEF create_link_last, create_link_new, PCs
        <4>2. CASE wait_again(p)
          BY <4>2 DEF wait_again, Crash, PCs
        <4>3. CASE wait_find_prev(p)
          BY <4>3 DEF wait_find_prev, Crash, PCs
        <4>4. CASE wait_unlink(p)
          BY <4>4 DEF wait_unlink, PCs
        <4>5. CASE wait_block_reason(p)
          BY <4>5 DEF wait_block_reason, PCs
        <4> QED
          BY <1>9, <4>1, <4>2, <4>3, <4>4, <4>5
      <3> QED
        BY <3>1 DEF Goto, IInv, TypeOK
    <2> QED
      BY <1>1, <2>1, <2>2
  <1> QED
    BY <1>2, <1>3, <1>4, <1>5, <1>6, <1>7, <1>8, <1>9 DEF Next

(* An exited process is never made READY again and the processor is never  *)
(* given to it: schedule() in process_exit() does not come back.           *)
THEOREM ZombiesStayDead == Spec => ZombieFinal
PROOF
  <1>1. Init => HalfAsleep
    BY DEF Init, HalfAsleep
  <1>2. IInv /\ HalfAsleep /\ [Next]_vars => HalfAsleep'
    BY ZombieStep
  <1>3. Spec => []HalfAsleep
    BY <1>1, <1>2, Invariance, PTL DEF Spec
  <1>4. IInv /\ IInv' /\ HalfAsleep /\ [Next]_vars =>
          [\A p \in Pids : state[p] = "ZOMBIE" =>
              state'[p] = "ZOMBIE" /\ (fault' = "none" => current_process' # p)]_vars
    <2> SUFFICES ASSUME IInv, IInv', HalfAsleep, [Next]_vars, NEW p \in Pids,
                        state[p] = "ZOMBIE"
                 PROVE  state'[p] = "ZOMBIE" /\ (fault' = "none" => current_process' # p)
      OBVIOUS
    <2>1. state'[p] = "ZOMBIE" /\ HalfAsleep'
      BY ZombieStep
    <2>2. RunsReady'
      BY DEF IInv
    <2> QED
      BY <2>1, <2>2 DEF RunsReady, HalfAsleep
  <1> QED
    BY <1>3, <1>4, Invariance, PTL DEF Spec, ZombieFinal
-----------------------------------------------------------------------------
(***************************************************************************)
(* WildOnlyWhileLinking, for any number of processes:                      *)
(* after boot no walk over the list of processes meets a pointer nobody    *)
(* has written, but between the two assignments that link a new process.   *)
(*                                                                         *)
(* What is linked has been written, or is about to be (Written): the next  *)
(* pointers, the head of the list, the current process and what a waiter   *)
(* has loaded to unlink a child all lead there.  A walk that starts at     *)
(* such a process while nobody links never leaves them.                    *)
(***************************************************************************)
Linking == \E r \in Pids : pc[r] = "link2"
Half(x) == \E r \in Pids : pc[r] = "link2" /\ loc[r].node = x
Written(x) == next[x] # Wild \/ Half(x)

LinkInv ==
    fault = "none" =>
        /\ \A x \in Pids : next[x] \in Pids => Written(next[x])
        /\ \A x \in Pids : state[x] = "ZOMBIE" => next[x] # Wild
        /\ \A r \in Pids : pc[r] = "unlink" =>
              loc[r].succ # Wild /\ (loc[r].succ \in Pids => Written(loc[r].succ))
        /\ pc[0] # "init" =>
              /\ ready_queue # Wild /\ (ready_queue \in Pids => Written(ready_queue))
              /\ Written(current_process)
-----------------------------------------------------------------------------
(* While nobody links, no walk from a written process meets a pointer      *)
(* nobody has written.                                                     *)
LEMMA NoWildWalk ==
    ASSUME TypeOK, LinkInv, fault = "none", ~ Linking,
           NEW p \in Pids, Written(p), NEW S
    PROVE  Wild \notin Landing(p, S)
PROOF
  <1>1. \A x \in Pids : Written(x) => next[x] # Wild /\ next[x] \in Pids /\ Written(next[x])
    BY DEF LinkInv, TypeOK, Node, Linking, Written, Half
  <1> SUFFICES ASSUME Wild \in Landing(p, S) PROVE FALSE
    OBVIOUS
  <1>2. PICK Over \in SUBSET (Pids \ S) :
            /\ \A x \in Over \cup {p} : next[x] \in Over \cup {Wild}
            /\ \A C \in (SUBSET Over) \ {{}} : \E x \in C : next[x] \notin C
    BY DEF Landing
  <1> DEFINE C == {x \in Over : Written(x)}
  <1>3. next[p] \in C
    BY <1>1, <1>2
  <1>4. \A x \in C : next[x] \in C
    BY <1>1, <1>2
  <1>5. C \in (SUBSET Over) \ {{}}
    BY <1>3
  <1> HIDE DEF C
  <1> QED
    BY <1>2, <1>4, <1>5

LEMMA NoWildQueue ==
    ASSUME TypeOK, LinkInv, fault = "none", ~ Linking, pc[0] # "init", NEW S
    PROVE  Wild \notin FirstInQueue(S)
PROOF
  <1>1. ready_queue # Wild /\ ready_queue \in Pids /\ Written(ready_queue)
    BY DEF LinkInv, TypeOK, Node
  <1>2. Wild \notin Landing(ready_queue, S \cup {ready_queue})
    BY <1>1, NoWildWalk
  <1> QED
    BY <1>1, <1>2 DEF FirstInQueue

(* A walk ends at a process that some next pointer names. *)
LEMMA LandingLinked ==
    ASSUME NEW p \in Pids, NEW S, NEW q \in Landing(p, S)
    PROVE  \E x \in Pids : next[x] = q
PROOF
  <1>1. PICK Over \in SUBSET (Pids \ S) :
            /\ \A x \in Over \cup {p} : next[x] \in Over \cup {q}
            /\ \A C \in (SUBSET Over) \ {{}} : \E x \in C : next[x] \notin C
    BY DEF Landing
  <1>2. CASE Over = {}
    BY <1>1, <1>2
  <1>3. CASE Over # {}
    <2>1. PICK x \in Over : next[x] \notin Over
      BY <1>1, <1>3
    <2> QED
      BY <1>1, <2>1
  <1> QED
    BY <1>2, <1>3

(* schedule() goes on through an unwritten pointer only while somebody     *)
(* links, and else leaves the current process by a written one.            *)
LEMMA SchedulePicksLinked ==
    ASSUME TypeOK, LinkInv, fault = "none", NEW st, Schedule(st)
    PROVE  /\ fault' = "wild_next" => pc[0] = "init" \/ Linking
           /\ fault' = "none" => /\ next[current_process] # Wild
                                 /\ current_process' \in Pids
                                 /\ \E x \in Pids : next[x] = current_process'
           /\ state' = st
PROOF
  <1> DEFINE ready == {x \in Pids : st[x] = "READY"}
             S == ready \cup {current_process}
  <1>1. PICK q \in Landing(current_process, S) :
            /\ state' = st
            /\ current_process' = IF q = Wild THEN current_process ELSE q
            /\ fault' = CASE q = Wild -> "wild_next"
                          [] q = current_process /\ q \in ready -> "stale_esp"
                          [] OTHER -> "none"
    BY DEF Schedule
  <1>2. current_process \in Pids
    BY DEF TypeOK
  <1>3. CASE q = Wild
    <2>1. q \notin ready
      BY <1>3 DEF Wild, Pids
    <2>2. fault' = "wild_next"
      BY <1>1, <1>3, <2>1
    <2>3. pc[0] # "init" => Written(current_process)
      BY DEF LinkInv
    <2>4. pc[0] = "init" \/ Linking
      BY <1>2, <1>3, <2>3, NoWildWalk
    <2> QED
      BY <1>1, <2>2, <2>4
  <1>4. CASE q # Wild
    <2>1. fault' # "wild_next"
      BY <1>1, <1>4
    <2>2. q \in Pids /\ \E x \in Pids : next[x] = q
      <3>1. q \in S \cup {Wild}
        BY DEF Landing
      <3> QED
        BY <1>2, <1>4, <3>1, LandingLinked
    <2>3. next[current_process] # Wild
      <3>1. PICK Over \in SUBSET (Pids \ S) :
                \A x \in Over \cup {current_process} : next[x] \in Over \cup {q}
        BY DEF Landing
      <3>2. next[current_process] \in Over \cup {q}
        BY <3>1
      <3> QED
        BY <1>4, <3>2 DEF Pids, Wild
    <2> QED
      BY <1>1, <1>4, <2>1, <2>2, <2>3
  <1> QED
    BY <1>3, <1>4

(* What was written stays so while the pointers written are never made     *)
(* wild again and who is half way through linking goes on.                 *)
LEMMA WrittenStays ==
    ASSUME \A x \in Pids : next[x] # Wild => next'[x] # Wild,
           \A r \in Pids : pc[r] = "link2" =>
               \/ pc'[r] = "link2" /\ loc'[r].node = loc[r].node
               \/ next'[loc[r].node] # Wild
    PROVE  \A x \in Pids : Written(x) => Written(x)'
PROOF
    BY DEF Written, Half

(* A step that leaves the list alone. *)
LEMMA LinkFrame ==
    ASSUME TypeOK, LinkInv, fault = "none",
           UNCHANGED <<next, ready_queue>>,
           \A r \in Pids : pc[r] = "link2" => pc'[r] = "link2" /\ loc'[r] = loc[r],
           \A r \in Pids : pc'[r] = "unlink" => pc[r] = "unlink" /\ loc'[r] = loc[r],
           pc'[0] # "init" => pc[0] # "init",
           fault' = "none" => \A x \in Pids :
               state'[x] = "ZOMBIE" => state[x] = "ZOMBIE" \/ next[x] # Wild,
           fault' = "none" =>
               \/ current_process' = current_process
               \/ /\ current_process' \in Pids
                  /\ \E x \in Pids : next[x] = current_process'
    PROVE  LinkInv'
PROOF
  <1>1. \A x \in Pids : Written(x) => Written(x)'
    BY WrittenStays
  <1> SUFFICES ASSUME fault' = "none" PROVE LinkInv'
    BY DEF LinkInv
  <1>2. \A x \in Pids : next'[x] \in Pids => Written(next[x])'
    BY <1>1 DEF LinkInv
  <1>3. \A r \in Pids : pc'[r] = "unlink" =>
            loc'[r].succ # Wild /\ (loc'[r].succ \in Pids => Written(loc[r].succ)')
    BY <1>1 DEF LinkInv
  <1>4. pc'[0] # "init" => ready_queue' # Wild /\ (ready_queue' \in Pids => Written(ready_queue)')
    BY <1>1 DEF LinkInv
  <1>5. pc'[0] # "init" => Written(current_process)'
    <2>1. CASE current_process' = current_process
      BY <1>1, <2>1 DEF LinkInv, TypeOK
    <2>2. CASE current_process' \in Pids /\ \E x \in Pids : next[x] = current_process'
      <3>1. PICK x \in Pids : next[x] = current_process'
        BY <2>2
      <3>2. Written(next[x])
        BY <2>2, <3>1 DEF LinkInv
      <3>3. Written(next[x])'
        BY <1>1, <2>2, <3>1, <3>2
      <3> QED
        BY <1>2, <2>2, <3>1, <3>3
    <2> QED
      BY <2>1, <2>2
  <1> QED
    BY <1>2, <1>3, <1>4, <1>5 DEF LinkInv, Written

(* A step of process p that leaves the list alone and does not finish      *)
(* linking or start to unlink.                                             *)
LEMMA QuietStep ==
    ASSUME TypeOK, LinkInv, fault = "none", NEW p \in Pids,
           UNCHANGED <<next, ready_queue>>,
           \A x \in Pids \ {p} : pc'[x] = pc[x] /\ loc'[x] = loc[x],
           pc[p] \notin {"link2", "init"}, pc'[p] # "unlink",
           fault' = "wild_next" => pc[0] = "init" \/ Linking,
           fault' = "none" => \A x \in Pids :
               state'[x] = "ZOMBIE" => state[x] = "ZOMBIE" \/ next[x] # Wild,
           fault' = "none" =>
               \/ current_process' = current_process
               \/ /\ current_process' \in Pids
                  /\ \E x \in Pids : next[x] = current_process'
    PROVE  LinkInv' /\ WildOnlyWhileLinking'
PROOF
  <1>1. 0 \in Pids
    BY Constants DEF Pids
  <1>2. \A r \in Pids : pc[r] = "link2" => pc'[r] = "link2" /\ loc'[r] = loc[r]
    OBVIOUS
  <1>3. \A r \in Pids : pc'[r] = "unlink" => pc[r] = "unlink" /\ loc'[r] = loc[r]
    OBVIOUS
  <1>4. /\ pc'[0] # "init" => pc[0] # "init"
        /\ pc[0] = "init" => pc'[0] = "init"
    BY <1>1
  <1>5. LinkInv'
    BY <1>2, <1>3, <1>4, LinkFrame
  <1>6. WildOnlyWhileLinking'
    BY <1>2, <1>4 DEF WildOnlyWhileLinking, Linking
  <1> QED
    BY <1>5, <1>6

LEMMA CrashLinked ==
    ASSUME Crash, pc[0] = "init" \/ Linking
    PROVE  LinkInv' /\ WildOnlyWhileLinking'
PROOF
  <1>1. fault' = "wild_next" /\ pc' = pc
    BY DEF Crash
  <1> QED
    BY <1>1 DEF LinkInv, WildOnlyWhileLinking, Linking

LEMMA TimerLinked ==
    ASSUME TypeOK, LinkInv, timer_or_yield
    PROVE  LinkInv' /\ WildOnlyWhileLinking'
PROOF
  <1>1. /\ fault = "none" /\ Schedule(state)
        /\ UNCHANGED <<ready_queue, next, pc, loc>>
    BY DEF timer_or_yield
  <1>2. /\ fault' = "wild_next" => pc[0] = "init" \/ Linking
        /\ fault' = "none" => /\ current_process' \in Pids
                              /\ \E x \in Pids : next[x] = current_process'
        /\ state' = state
    BY <1>1, SchedulePicksLinked
  <1>3. LinkInv'
    BY <1>1, <1>2, LinkFrame
  <1>4. WildOnlyWhileLinking'
    BY <1>1, <1>2 DEF WildOnlyWhileLinking, Linking
  <1> QED
    BY <1>3, <1>4

LEMMA KeyLinked ==
    ASSUME TypeOK, LinkInv, keyboard_handler
    PROVE  LinkInv' /\ WildOnlyWhileLinking'
PROOF
  <1>1. fault = "none"
    BY DEF keyboard_handler
  <1>2. PICK q \in FirstInQueue(Sleepers(KeyReason)) :
           \/ q = Wild /\ Crash
           \/ /\ q # Wild
              /\ state' = Woken(state, KeyReason, q)
              /\ UNCHANGED <<ready_queue, current_process, next, pc, loc, fault>>
    BY DEF keyboard_handler
  <1>3. CASE q = Wild
    BY <1>1, <1>2, <1>3, NoWildQueue, CrashLinked
  <1>4. CASE q # Wild
    <2>1. \A x \in Pids : state'[x] = "ZOMBIE" => state[x] = "ZOMBIE"
      BY <1>2, <1>4 DEF Woken, TypeOK
    <2>2. LinkInv'
      BY <1>1, <1>2, <1>4, <2>1, LinkFrame
    <2>3. WildOnlyWhileLinking'
      BY <1>1, <1>2, <1>4 DEF WildOnlyWhileLinking
    <2> QED
      BY <2>2, <2>3
  <1> QED
    BY <1>3, <1>4

LEMMA BlockLinked ==
    ASSUME TypeOK, LinkInv, fault = "none", NEW p \in Pids, NEW reason, NEW label,
           process_block(p, reason, label), label \notin {"unlink", "init"},
           pc[p] \notin {"link2", "init"},
           \A x \in Pids \ {p} : loc'[x] = loc[x]
    PROVE  LinkInv' /\ WildOnlyWhileLinking'
PROOF
  <1>1. /\ Schedule([state EXCEPT ![p] = "BLOCKED"])
        /\ pc' = [pc EXCEPT ![p] = label]
        /\ UNCHANGED <<next, ready_queue>>
    BY DEF process_block, Goto
  <1>2. /\ fault' = "wild_next" => pc[0] = "init" \/ Linking
        /\ fault' = "none" => /\ current_process' \in Pids
                              /\ \E x \in Pids : next[x] = current_process'
        /\ state' = [state EXCEPT ![p] = "BLOCKED"]
    BY <1>1, SchedulePicksLinked
  <1>3. \A x \in Pids : state'[x] = "ZOMBIE" => state[x] = "ZOMBIE"
    BY <1>2 DEF TypeOK
  <1>4. pc'[p] = label /\ \A x \in Pids \ {p} : pc'[x] = pc[x]
    BY <1>1 DEF TypeOK
  <1> QED
    BY <1>1, <1>2, <1>3, <1>4, QuietStep

LEMMA ReadLinked ==
    ASSUME TypeOK, LinkInv, NEW p \in Pids, SYS_READ(p)
    PROVE  LinkInv' /\ WildOnlyWhileLinking'
PROOF
  <1>1. fault = "none" /\ pc[p] \in {"run", "retry"}
    BY DEF SYS_READ, Running
  <1>2. CASE process_block(p, KeyReason, "retry") /\ UNCHANGED loc
    BY <1>1, <1>2, BlockLinked
  <1>3. CASE ~ (process_block(p, KeyReason, "retry") /\ UNCHANGED loc)
    <2>1. /\ pc' = [pc EXCEPT ![p] = "run"]
          /\ UNCHANGED <<next, ready_queue, current_process, state, loc, fault>>
      BY <1>3 DEF SYS_READ, Goto
    <2>2. pc'[p] = "run" /\ \A x \in Pids \ {p} : pc'[x] = pc[x]
      BY <2>1 DEF TypeOK
    <2> QED
      BY <1>1, <2>1, <2>2, QuietStep
  <1> QED
    BY <1>2, <1>3

LEMMA ExitLinked ==
    ASSUME TypeOK, LinkInv, NEW p \in Pids, process_exit(p)
    PROVE  LinkInv' /\ WildOnlyWhileLinking'
PROOF
  <1>1. fault = "none" /\ pc[p] = "run" /\ current_process = p
    BY DEF process_exit, Running
  <1>2. PICK q \in FirstInQueue(Sleepers(p)) :
           \/ q = Wild /\ Crash
           \/ /\ q # Wild
              /\ Schedule(Woken([state EXCEPT ![p] = "ZOMBIE"], p, q))
              /\ UNCHANGED <<ready_queue, next, pc, loc>>
    BY DEF process_exit
  <1>3. CASE q = Wild
    BY <1>1, <1>2, <1>3, NoWildQueue, CrashLinked
  <1>4. CASE q # Wild
    <2>1. /\ fault' = "wild_next" => pc[0] = "init" \/ Linking
          /\ fault' = "none" => /\ next[p] # Wild
                                /\ current_process' \in Pids
                                /\ \E x \in Pids : next[x] = current_process'
          /\ state' = Woken([state EXCEPT ![p] = "ZOMBIE"], p, q)
      BY <1>1, <1>2, <1>4, SchedulePicksLinked
    <2>2. \A x \in Pids : state'[x] = "ZOMBIE" => state[x] = "ZOMBIE" \/ x = p
      BY <2>1 DEF Woken, TypeOK
    <2> QED
      BY <1>1, <1>2, <1>4, <2>1, <2>2, QuietStep
  <1> QED
    BY <1>3, <1>4

LEMMA CreateLinked ==
    ASSUME TypeOK, LinkInv, NEW p \in Pids, create_process(p)
    PROVE  LinkInv' /\ WildOnlyWhileLinking'
PROOF
  <1>1. fault = "none" /\ pc[p] = "run"
    BY DEF create_process, Running
  <1>2. PICK last \in FirstInQueue({x \in Pids : next[x] = ready_queue}) :
           \/ last = Wild /\ Crash
           \/ /\ last # Wild
              /\ state' = [state EXCEPT ![next_pid] = "READY"]
              /\ loc' = [loc EXCEPT ![p].node = next_pid, ![p].prev = last]
              /\ pc' = [pc EXCEPT ![p] = "link1"]
              /\ UNCHANGED <<ready_queue, current_process, next, fault>>
    BY DEF create_process, Goto
  <1>3. CASE last = Wild
    BY <1>1, <1>2, <1>3, NoWildQueue, CrashLinked
  <1>4. CASE last # Wild
    <2>1. \A x \in Pids : state'[x] = "ZOMBIE" => state[x] = "ZOMBIE"
      BY <1>2, <1>4 DEF TypeOK
    <2>2. pc'[p] = "link1" /\ \A x \in Pids \ {p} : pc'[x] = pc[x] /\ loc'[x] = loc[x]
      BY <1>2, <1>4 DEF TypeOK
    <2> QED
      BY <1>1, <1>2, <1>4, <2>1, <2>2, QuietStep
  <1> QED
    BY <1>3, <1>4

LEMMA WaitAgainLinked ==
    ASSUME TypeOK, LinkInv, NEW p \in Pids, wait_again(p)
    PROVE  LinkInv' /\ WildOnlyWhileLinking'
PROOF
  <1> DEFINE awaited == Awaited(p, loc[p].target)
  <1>1. fault = "none" /\ pc[p] = "wait"
    BY DEF wait_again, Running
  <1>2. PICK child \in FirstInQueue(awaited) :
           \/ child = Wild /\ Crash
           \/ /\ child # Wild
              /\ Goto(p, IF child \notin awaited THEN "run"
                         ELSE IF state[child] = "ZOMBIE" THEN "reap" ELSE "sleep1")
              /\ loc' = [loc EXCEPT ![p] =
                           IF child \in awaited THEN [@ EXCEPT !.node = child] ELSE NoLocals]
              /\ UNCHANGED <<ready_queue, current_process, state, next, fault>>
    BY DEF wait_again
  <1> HIDE DEF awaited
  <1>3. CASE child = Wild
    BY <1>1, <1>2, <1>3, NoWildQueue, CrashLinked
  <1>4. CASE child # Wild
    <2>1. /\ pc'[p] \in {"run", "reap", "sleep1"}
          /\ \A x \in Pids \ {p} : pc'[x] = pc[x] /\ loc'[x] = loc[x]
      BY <1>2, <1>4 DEF Goto, TypeOK
    <2> QED
      BY <1>1, <1>2, <1>4, <2>1, QuietStep
  <1> QED
    BY <1>3, <1>4

LEMMA SleepLinked ==
    ASSUME TypeOK, LinkInv, NEW p \in Pids, wait_block_state(p) \/ wait_block_reason(p)
    PROVE  LinkInv' /\ WildOnlyWhileLinking'
PROOF
  <1>1. CASE wait_block_state(p)
    <2>1. fault = "none" /\ pc[p] = "sleep1"
      BY <1>1 DEF wait_block_state, Running
    <2>2. /\ \A x \in Pids : state'[x] = "ZOMBIE" => state[x] = "ZOMBIE"
          /\ pc'[p] = "sleep2" /\ \A x \in Pids \ {p} : pc'[x] = pc[x] /\ loc'[x] = loc[x]
          /\ UNCHANGED <<ready_queue, current_process, next, fault>>
      BY <1>1 DEF wait_block_state, Goto, TypeOK
    <2> QED
      BY <2>1, <2>2, QuietStep
  <1>2. CASE wait_block_reason(p)
    <2>1. fault = "none" /\ pc[p] = "sleep2" /\ Schedule(state)
      BY <1>2 DEF wait_block_reason, Running
    <2>2. /\ pc'[p] = "wait" /\ \A x \in Pids \ {p} : pc'[x] = pc[x] /\ loc'[x] = loc[x]
          /\ UNCHANGED <<ready_queue, next>>
      BY <1>2 DEF wait_block_reason, Goto, TypeOK
    <2>3. /\ fault' = "wild_next" => pc[0] = "init" \/ Linking
          /\ fault' = "none" => /\ current_process' \in Pids
                                /\ \E x \in Pids : next[x] = current_process'
          /\ state' = state
      BY <2>1, SchedulePicksLinked
    <2> QED
      BY <2>1, <2>2, <2>3, QuietStep
  <1> QED
    BY <1>1, <1>2

(* A step of process p that writes pointers that lead to written processes, *)
(* or takes a new one to follow.                                           *)
LEMMA ListStep ==
    ASSUME TypeOK, LinkInv, fault = "none", NEW p \in Pids, pc[p] # "init",
           UNCHANGED <<current_process, state, fault>>,
           \A x \in Pids \ {p} : pc'[x] = pc[x] /\ loc'[x] = loc[x],
           \A x \in Pids : Written(x) => Written(x)',
           \A x \in Pids :
               \/ next'[x] = next[x]
               \/ next'[x] # Wild /\ (next'[x] \in Pids => Written(next[x])'),
           \/ ready_queue' = ready_queue
           \/ ready_queue' # Wild /\ (ready_queue' \in Pids => Written(ready_queue)'),
           pc'[p] = "unlink" =>
               loc'[p].succ # Wild /\ (loc'[p].succ \in Pids => Written(loc[p].succ)')
    PROVE  LinkInv' /\ WildOnlyWhileLinking'
PROOF
  <1>1. 0 \in Pids /\ current_process \in Pids
    BY Constants DEF Pids, TypeOK
  <1>2. pc'[0] # "init" => pc[0] # "init"
    BY <1>1
  <1>3. \A x \in Pids : next'[x] \in Pids => Written(next[x])'
    BY DEF LinkInv
  <1>4. \A x \in Pids : state'[x] = "ZOMBIE" => next'[x] # Wild
    BY DEF LinkInv
  <1>5. \A r \in Pids : pc'[r] = "unlink" =>
            loc'[r].succ # Wild /\ (loc'[r].succ \in Pids => Written(loc[r].succ)')
    BY DEF LinkInv
  <1>6. pc'[0] # "init" =>
            /\ ready_queue' # Wild /\ (ready_queue' \in Pids => Written(ready_queue)')
            /\ Written(current_process)'
    BY <1>1, <1>2 DEF LinkInv
  <1> QED
    BY <1>3, <1>4, <1>5, <1>6 DEF LinkInv, WildOnlyWhileLinking, Written, Half

LEMMA BootLinked ==
    ASSUME TypeOK, LinkInv, init_multitasking
    PROVE  LinkInv' /\ WildOnlyWhileLinking'
PROOF
  <1>1. /\ fault = "none" /\ current_process = 0
        /\ ready_queue' = 0 /\ next' = [next EXCEPT ![0] = 0]
        /\ pc' = [pc EXCEPT ![0] = "run"] /\ pc[0] = "init"
        /\ UNCHANGED <<current_process, state, loc, fault>>
    BY DEF init_multitasking, Running, Goto
  <1>2. 0 \in Pids /\ Wild # 0
    BY Constants DEF Pids, Wild
  <1>3. /\ next'[0] = 0 /\ \A x \in Pids \ {0} : next'[x] = next[x]
        /\ pc'[0] = "run" /\ \A x \in Pids \ {0} : pc'[x] = pc[x]
    BY <1>1, <1>2 DEF TypeOK
  <1>4. \A x \in Pids : Written(x) => Written(x)'
    BY <1>1, <1>2, <1>3, WrittenStays
  <1>5. Written(0)'
    BY <1>2, <1>3 DEF Written
  <1>6. /\ \A x \in Pids : next'[x] \in Pids => Written(next[x])'
        /\ \A x \in Pids : state'[x] = "ZOMBIE" => next'[x] # Wild
        /\ \A r \in Pids : pc'[r] = "unlink" =>
              loc'[r].succ # Wild /\ (loc'[r].succ \in Pids => Written(loc[r].succ)')
    BY <1>1, <1>2, <1>3, <1>4, <1>5 DEF LinkInv, Written, Half
  <1> QED
    BY <1>1, <1>2, <1>5, <1>6 DEF LinkInv, WildOnlyWhileLinking, Written, Half

(* What ListStep asks of the pointers, when one of them is changed.         *)
LEMMA OnePointer ==
    ASSUME TypeOK, NEW at \in Pids, NEW to, to # Wild, to \in Pids => Written(to)',
           next' = [next EXCEPT ![at] = to]
    PROVE  \A x \in Pids :
               \/ next'[x] = next[x]
               \/ next'[x] # Wild /\ (next'[x] \in Pids => Written(next[x])')
PROOF
  <1>1. next'[at] = to /\ \A x \in Pids \ {at} : next'[x] = next[x]
    BY DEF TypeOK
  <1>2. to \in Pids => Written(next[at])'
    BY <1>1 DEF Written, Half
  <1> QED
    BY <1>1, <1>2

LEMMA LinkLastLinked ==
    ASSUME IInv, LinkInv, NEW p \in Pids, create_link_last(p)
    PROVE  LinkInv' /\ WildOnlyWhileLinking'
PROOF
  <1>0. PICK new, last : new = loc[p].node /\ last = loc[p].prev
    OBVIOUS
  <1>1. /\ fault = "none" /\ pc[p] = "link1" /\ TypeOK
        /\ next' = [next EXCEPT ![last] = new]
        /\ pc' = [pc EXCEPT ![p] = "link2"]
        /\ UNCHANGED <<ready_queue, current_process, state, loc, fault>>
    BY <1>0 DEF create_link_last, Running, Goto, IInv
  <1>2. new \in 1..next_pid - 1 /\ last \in Pids
    BY <1>0, <1>1 DEF IInv, LocalsOK
  <1>3. new # Wild
    BY <1>1, <1>2 DEF TypeOK, Wild
  <1>4. /\ next'[last] = new /\ \A x \in Pids \ {last} : next'[x] = next[x]
        /\ pc'[p] = "link2" /\ \A x \in Pids \ {p} : pc'[x] = pc[x]
    BY <1>1, <1>2 DEF TypeOK
  <1>5. \A x \in Pids : Written(x) => Written(x)'
    BY <1>1, <1>3, <1>4, WrittenStays
  <1>6. Written(new)'
    BY <1>0, <1>1, <1>4 DEF Written, Half
  <1>7. \A x \in Pids :
            \/ next'[x] = next[x]
            \/ next'[x] # Wild /\ (next'[x] \in Pids => Written(next[x])')
    BY <1>1, <1>2, <1>3, <1>6, OnePointer
  <1> QED
    BY <1>1, <1>4, <1>5, <1>7, ListStep

LEMMA LinkNewLinked ==
    ASSUME IInv, LinkInv, NEW p \in Pids, create_link_new(p)
    PROVE  LinkInv' /\ WildOnlyWhileLinking'
PROOF
  <1>0. PICK new, head : new = loc[p].node /\ head = ready_queue
    OBVIOUS
  <1>1. /\ fault = "none" /\ pc[p] = "link2" /\ TypeOK
        /\ next' = [next EXCEPT ![new] = head]
        /\ pc' = [pc EXCEPT ![p] = "run"]
        /\ loc' = [loc EXCEPT ![p] = NoLocals]
        /\ UNCHANGED <<ready_queue, current_process, state, fault>>
    BY <1>0 DEF create_link_new, Running, Goto, IInv
  <1>2. new \in 1..next_pid - 1 /\ next_pid \in 1..MaxPid + 1
    BY <1>0, <1>1 DEF IInv, LocalsOK, TypeOK
  <1>3. new \in Pids /\ pc[0] # "init"
    BY <1>2, Constants DEF IInv, MonitorLinked, Pids
  <1>4. head # Wild /\ (head \in Pids => Written(head))
    BY <1>0, <1>1, <1>3 DEF LinkInv
  <1>5. /\ next'[new] = head /\ \A x \in Pids \ {new} : next'[x] = next[x]
        /\ pc'[p] = "run"
        /\ \A x \in Pids \ {p} : pc'[x] = pc[x] /\ loc'[x] = loc[x]
    BY <1>1, <1>3 DEF TypeOK
  <1>6. \A x \in Pids : Written(x) => Written(x)'
    BY <1>0, <1>1, <1>4, <1>5, WrittenStays
  <1>7. \A x \in Pids :
            \/ next'[x] = next[x]
            \/ next'[x] # Wild /\ (next'[x] \in Pids => Written(next[x])')
    BY <1>1, <1>3, <1>4, <1>6, OnePointer
  <1> QED
    BY <1>1, <1>5, <1>6, <1>7, ListStep

(* Unlinking: the pointer and, if it follows, the head lead to a written   *)
(* process, as succ did.                                                   *)
LEMMA UnlinkLinked ==
    ASSUME TypeOK, LinkInv, fault = "none", NEW p \in Pids,
           pc[p] \notin {"link2", "init"}, pc'[p] # "unlink",
           NEW prev \in Pids, NEW child, NEW succ,
           succ # Wild, succ \in Pids => Written(succ),
           Unlinked(prev, child, succ),
           UNCHANGED <<current_process, state, fault>>,
           \A x \in Pids \ {p} : pc'[x] = pc[x] /\ loc'[x] = loc[x]
    PROVE  LinkInv' /\ WildOnlyWhileLinking'
PROOF
  <1>1. /\ next' = [next EXCEPT ![prev] = succ]
        /\ ready_queue' = IF ready_queue = child THEN succ ELSE ready_queue
    BY DEF Unlinked
  <1>2. next'[prev] = succ /\ \A x \in Pids \ {prev} : next'[x] = next[x]
    BY <1>1 DEF TypeOK
  <1>3. \A x \in Pids : Written(x) => Written(x)'
    BY <1>2, WrittenStays
  <1>4. \A x \in Pids :
            \/ next'[x] = next[x]
            \/ next'[x] # Wild /\ (next'[x] \in Pids => Written(next[x])')
    BY <1>1, <1>3, OnePointer
  <1>5. \/ ready_queue' = ready_queue
        \/ ready_queue' # Wild /\ (ready_queue' \in Pids => Written(ready_queue)')
    <2>1. succ \in Pids => Written(succ)'
      BY <1>3
    <2>2. ready_queue' = succ => (succ \in Pids => Written(ready_queue)')
      BY <2>1 DEF Written, Half
    <2> QED
      BY <1>1, <2>2
  <1> QED
    BY <1>3, <1>4, <1>5, ListStep

LEMMA FindPrevLinked ==
    ASSUME IInv, LinkInv, NEW p \in Pids, wait_find_prev(p)
    PROVE  LinkInv' /\ WildOnlyWhileLinking'
PROOF
  <1>0. PICK child : child = loc[p].node
    OBVIOUS
  <1>1. fault = "none" /\ pc[p] = "reap" /\ TypeOK
    BY DEF wait_find_prev, Running, IInv
  <1>2. child \in Pids /\ state[child] = "ZOMBIE"
    BY <1>0, <1>1 DEF IInv, LocalsOK
  <1>3. PICK prev \in FirstInQueue({x \in Pids : next[x] = child}) :
           \/ prev = Wild /\ Crash
           \/ /\ prev # Wild
              /\ loc' = [loc EXCEPT ![p].prev = prev, ![p].succ = next[child]]
              /\ pc' = [pc EXCEPT ![p] = "unlink"]
              /\ UNCHANGED <<ready_queue, current_process, state, next, fault>>
    BY <1>0 DEF wait_find_prev, Goto
  <1>4. CASE prev = Wild
    BY <1>1, <1>3, <1>4, NoWildQueue, CrashLinked
  <1>5. CASE prev # Wild
    <2>0. PICK succ : succ = next[child]
      OBVIOUS
    <2>1. succ # Wild /\ (succ \in Pids => Written(succ))
      BY <1>1, <1>2, <2>0 DEF LinkInv
    <2>2. /\ pc'[p] = "unlink" /\ loc'[p].succ = succ
          /\ \A x \in Pids \ {p} : pc'[x] = pc[x] /\ loc'[x] = loc[x]
      BY <1>3, <1>5, <2>0, <1>1 DEF TypeOK
    <2>3. \A x \in Pids : Written(x) => Written(x)'
      BY <1>1, <1>3, <1>5, <2>2, WrittenStays
    <2>4. succ \in Pids => Written(loc[p].succ)'
      BY <2>1, <2>2, <2>3 DEF Written, Half
    <2> QED
      BY <1>1, <1>3, <1>5, <2>1, <2>2, <2>3, <2>4, ListStep
  <1> QED
    BY <1>4, <1>5

LEMMA WaitUnlinkLinked ==
    ASSUME IInv, LinkInv, NEW p \in Pids, wait_unlink(p)
    PROVE  LinkInv' /\ WildOnlyWhileLinking'
PROOF
  <1>0. PICK prev, child, succ :
           prev = loc[p].prev /\ child = loc[p].node /\ succ = loc[p].succ
    OBVIOUS
  <1>1. /\ fault = "none" /\ pc[p] = "unlink" /\ TypeOK
        /\ Unlinked(prev, child, succ)
        /\ pc' = [pc EXCEPT ![p] = "run"] /\ loc' = [loc EXCEPT ![p] = NoLocals]
        /\ UNCHANGED <<current_process, state, fault>>
    BY <1>0 DEF wait_unlink, Running, Goto, IInv
  <1>2. prev \in Pids
    <2>1. prev \in 1..next_pid - 1
      BY <1>0, <1>1 DEF IInv, LocalsOK
    <2>2. next_pid \in 1..MaxPid + 1
      BY <1>1 DEF TypeOK
    <2> QED
      BY <2>1, <2>2, Constants DEF Pids
  <1>3. succ # Wild /\ (succ \in Pids => Written(succ))
    BY <1>0, <1>1 DEF LinkInv
  <1>4. /\ pc'[p] = "run"
        /\ \A x \in Pids \ {p} : pc'[x] = pc[x] /\ loc'[x] = loc[x]
    BY <1>1 DEF TypeOK
  <1> QED
    BY <1>1, <1>2, <1>3, <1>4, UnlinkLinked

LEMMA WaitLinked ==
    ASSUME IInv, LinkInv, NEW p \in Pids, NEW target \in Node, process_wait(p, target)
    PROVE  LinkInv' /\ WildOnlyWhileLinking'
PROOF
  <1>1. fault = "none" /\ pc[p] = "run" /\ TypeOK
    BY DEF process_wait, Running, IInv
  <1>2. PICK child \in FirstInQueue(Awaited(p, target)) :
           \/ child = Wild /\ Crash
           \/ /\ child \in Awaited(p, target) /\ state[child] = "ZOMBIE"
              /\ \E prev \in FirstInQueue({x \in Pids : next[x] = child}) \ {Wild} :
                    next[prev] = child /\ Unlinked(prev, child, next[child])
              /\ UNCHANGED <<current_process, state, pc, loc, fault>>
           \/ /\ Set(p, "target", target)
              /\ process_block(p, child, "wait")
    BY DEF process_wait
  <1>3. CASE child = Wild /\ Crash
    BY <1>1, <1>3, NoWildQueue, CrashLinked
  <1>4. CASE /\ child \in Awaited(p, target) /\ state[child] = "ZOMBIE"
             /\ \E prev \in FirstInQueue({x \in Pids : next[x] = child}) \ {Wild} :
                   next[prev] = child /\ Unlinked(prev, child, next[child])
             /\ UNCHANGED <<current_process, state, pc, loc, fault>>
    <2>1. child \in Pids
      BY <1>4 DEF Awaited
    <2>2. PICK prev \in FirstInQueue({x \in Pids : next[x] = child}) \ {Wild} :
             next[prev] = child /\ Unlinked(prev, child, next[child])
      BY <1>4
    <2>3. prev \in Pids
      <3>1. prev \in {x \in Pids : next[x] = child} \cup {ready_queue, Wild}
        BY QueueWalk
      <3> QED
        BY <1>1, <2>2, <3>1 DEF TypeOK, Node
    <2>4. PICK succ : succ = next[child]
      OBVIOUS
    <2>5. succ # Wild /\ (succ \in Pids => Written(succ))
      BY <1>1, <1>4, <2>1, <2>4 DEF LinkInv
    <2> QED
      BY <1>1, <1>4, <2>2, <2>3, <2>4, <2>5, UnlinkLinked
  <1>5. CASE Set(p, "target", target) /\ process_block(p, child, "wait")
    <2>1. \A x \in Pids \ {p} : loc'[x] = loc[x]
      BY <1>1, <1>5 DEF Set, TypeOK
    <2> QED
      BY <1>1, <1>5, <2>1, BlockLinked
  <1> QED
    BY <1>2, <1>3, <1>4, <1>5
-----------------------------------------------------------------------------
LEMMA LinkStep ==
    ASSUME IInv, LinkInv, WildOnlyWhileLinking, [Next]_vars
    PROVE  LinkInv' /\ WildOnlyWhileLinking'
PROOF
  <1>1. TypeOK
    BY DEF IInv
  <1>2. CASE UNCHANGED vars
    BY <1>2 DEF vars, LinkInv, WildOnlyWhileLinking, Written, Half
  <1> QED
    BY <1>1, <1>2, BootLinked, TimerLinked, KeyLinked, CreateLinked, LinkLastLinked,
       LinkNewLinked, ReadLinked, ExitLinked, WaitLinked, WaitAgainLinked, FindPrevLinked,
       WaitUnlinkLinked, SleepLinked DEF Next

LEMMA LinkInductive ==
    IInv /\ (LinkInv /\ WildOnlyWhileLinking) /\ [Next]_vars
        => (LinkInv /\ WildOnlyWhileLinking)'
PROOF
    BY LinkStep

LEMMA InitLinked == Init => LinkInv /\ WildOnlyWhileLinking
PROOF
  <1> SUFFICES ASSUME Init PROVE LinkInv /\ WildOnlyWhileLinking
    OBVIOUS
  <1>1. /\ \A x \in Pids : next[x] = Wild /\ state[x] # "ZOMBIE" /\ pc[x] # "unlink"
        /\ pc[0] = "init" /\ fault = "none"
    BY Constants DEF Init, Pids
  <1>2. Wild \notin Pids
    BY DEF Wild, Pids
  <1> QED
    BY <1>1, <1>2 DEF LinkInv, WildOnlyWhileLinking

(* Once process 0 is on the list, schedule() and the walks of create, wait, *)
(* exit and the keyboard interrupt meet an unwritten pointer only between   *)
(* the two assignments that link a new process (process.c:130-131),        *)
(* whatever interrupts come and however many waiters unlink at once.       *)
THEOREM WildNeverOtherwise == Spec => []WildOnlyWhileLinking
PROOF
    BY InitLinked, LinkInductive, Invariance, PTL DEF Spec
-----------------------------------------------------------------------------
(***************************************************************************)
(* For any number of processes, when only the shell                        *)
(* takes processes off the list (other processes wait for the monitor      *)
(* alone, which never exits):                                              *)
(*   - NothingIsLost: what was linked and has not exited is on the list;   *)
(*   - NoWakeupIsLost: nobody sleeps on a process that has exited;         *)
(*   - ReadersAreWoken: no reader sleeps on a character that is there.     *)
(*                                                                         *)
(* Who creates a process remembers, over interrupts, the last process of   *)
(* the list (Linker).  It still is the last when it is linked to, because  *)
(* nobody else creates or unlinks meanwhile: process 0 creates the first   *)
(* two, before there is anybody to exit, and the shell the others, and the *)
(* shell does one thing at a time.                                         *)
(***************************************************************************)
(* The waits this is about. *)
OnlyShellReaps == \A w \in WaitsFor : w[1] = Shell \/ w[2] = Monitor

(* Path p is half way through linking the process it has created last.     *)
Linker(p) ==
    /\ p = IF next_pid <= Shell + 1 THEN 0 ELSE Shell
    /\ loc[p].node = next_pid - 1
    /\ next[loc[p].node] = Wild
    /\ next[loc[p].prev] = IF pc[p] = "link1" THEN ready_queue ELSE loc[p].node
    /\ loc[p].prev \in Reachable

(* What path p remembers is still so.                                      *)
Remembers(p) ==
    /\ pc[p] \in {"wait", "sleep1", "sleep2"} => <<p, loc[p].target>> \in WaitsFor
    /\ pc[p] \in {"reap", "unlink"} => p = Shell
    /\ pc[p] \in {"link1", "link2"} => Linker(p)
    /\ pc[p] = "unlink" => /\ next[loc[p].prev] = loc[p].node
                           /\ loc[p].succ = next[loc[p].node]

InUse(x) == state[x] \in {"READY", "BLOCKED"}

RingInv ==
    /\ pc[0] # "init" => ready_queue = 0
    /\ \A x \in Pids : state[x] = "ZOMBIE" => x \in Threads
    /\ \A x \in Pids : Remembers(x)
    /\ \A x \in Pids : InUse(x) /\ next[x] # Wild => x \in Reachable
-----------------------------------------------------------------------------
(* What the walks from the head of the list find.                          *)

LEMMA HeadReachable == ready_queue \in Pids => ready_queue \in Reachable
PROOF
    BY DEF Reachable

LEMMA LandingReached ==
    ASSUME NEW S, NEW q \in Landing(ready_queue, S), q \in Pids
    PROVE  q \in Reachable
PROOF
  <1> SUFFICES ASSUME NEW C \in SUBSET Pids, ready_queue \in C,
                      \A x \in C : next[x] \in C \cup {Wild}, q \notin C
               PROVE  FALSE
    BY DEF Reachable
  <1>1. PICK Over \in SUBSET (Pids \ S) :
            /\ \A x \in Over \cup {ready_queue} : next[x] \in Over \cup {q}
            /\ \A D \in (SUBSET Over) \ {{}} : \E x \in D : next[x] \notin D
    BY DEF Landing
  <1>2. Wild \notin Pids
    BY DEF Wild, Pids
  <1> DEFINE D == Over \cap C
  <1>3. next[ready_queue] \in D
    BY <1>1, <1>2
  <1>4. \A x \in D : next[x] \in D
    BY <1>1, <1>2
  <1>5. D \in (SUBSET Over) \ {{}}
    BY <1>3
  <1> HIDE DEF D
  <1> QED
    BY <1>1, <1>4, <1>5

LEMMA QueueReached ==
    ASSUME TypeOK, NEW S \in SUBSET Pids, NEW q \in FirstInQueue(S), q # Wild
    PROVE  q \in Pids /\ q \in Reachable
PROOF
  <1>1. q \in S \cup {ready_queue, Wild}
    BY QueueWalk
  <1>2. q \in Pids
    BY <1>1 DEF TypeOK, Node
  <1>3. q = ready_queue \/ q \in Landing(ready_queue, S \cup {ready_queue})
    BY <1>1 DEF FirstInQueue
  <1> QED
    BY <1>2, <1>3, HeadReachable, LandingReached

(* The walk of create_process ends at a process that leads to the head.    *)
LEMMA LastFound ==
    ASSUME TypeOK, NEW last \in FirstInQueue({x \in Pids : next[x] = ready_queue}),
           last # Wild
    PROVE  last \in Reachable /\ last \in Pids /\ next[last] = ready_queue
PROOF
  <1> DEFINE S == {x \in Pids : next[x] = ready_queue}
  <1>1. last \in Pids /\ last \in Reachable
    BY QueueReached
  <1>2. ASSUME last \notin S PROVE FALSE
    <2>1. last = ready_queue /\ last \in Landing(last, S \cup {last})
      <3>1. last = ready_queue
        BY <1>2, QueueWalk
      <3>2. FirstInQueue(S) = Landing(ready_queue, S \cup {ready_queue})
        BY <1>2, <3>1 DEF FirstInQueue
      <3> QED
        BY <3>1, <3>2
    <2>2. PICK Over \in SUBSET (Pids \ (S \cup {last})) :
              /\ \A x \in Over \cup {last} : next[x] \in Over \cup {last}
              /\ \A D \in (SUBSET Over) \ {{}} : \E x \in D : next[x] \notin D
      BY <2>1 DEF Landing
    <2>3. CASE Over = {}
      BY <1>1, <1>2, <2>1, <2>2, <2>3
    <2>4. CASE Over # {}
      <3>1. PICK x \in Over : next[x] \notin Over
        BY <2>2, <2>4
      <3> QED
        BY <2>1, <2>2, <3>1
    <2> QED
      BY <2>3, <2>4
  <1> QED
    BY <1>1, <1>2

(* One pointer less or more does not cut off what is reachable, if every   *)
(* set the new list does not lead out of is, but for the processes in      *)
(* Gone, one the old list did not lead out of.                             *)
LEMMA StillReachable ==
    ASSUME ready_queue' = ready_queue, NEW Gone,
           \A C \in SUBSET Pids :
               ready_queue \in C /\ (\A x \in C : next'[x] \in C \cup {Wild})
                   => \E D \in SUBSET Pids :
                         /\ C \subseteq D /\ D \subseteq C \cup Gone
                         /\ \A x \in D : next[x] \in D \cup {Wild}
    PROVE  \A x \in Reachable : x \in Gone \/ x \in Reachable'
PROOF
  <1> SUFFICES ASSUME NEW x \in Reachable, x \notin Gone,
                      NEW C \in SUBSET Pids, ready_queue \in C,
                      \A y \in C : next'[y] \in C \cup {Wild}
               PROVE  x \in C
    BY DEF Reachable
  <1>1. PICK D \in SUBSET Pids :
            /\ C \subseteq D /\ D \subseteq C \cup Gone
            /\ \A y \in D : next[y] \in D \cup {Wild}
    OBVIOUS
  <1>2. x \in D
    BY <1>1 DEF Reachable
  <1> QED
    BY <1>1, <1>2
-----------------------------------------------------------------------------
(* A step that leaves the list alone.  Of each path p it either leaves the *)
(* place and the locals, or it puts it where it remembers nothing, or where *)
(* what it remembers is so.                                                *)
LEMMA RingFrame ==
    ASSUME RingInv,
           UNCHANGED <<next, ready_queue, next_pid>>,
           pc'[0] # "init" => pc[0] # "init",
           \A x \in Pids : state'[x] = "ZOMBIE" => state[x] = "ZOMBIE" \/ x \in Threads,
           \A x \in Pids : state'[x] \in {"READY", "BLOCKED"} => InUse(x),
           \A x \in Pids : \/ pc'[x] = pc[x] /\ loc'[x] = loc[x]
                           \/ pc'[x] \in {"run", "retry"}
                           \/ pc'[x] \notin {"link1", "link2"} /\ Remembers(x)'
    PROVE  RingInv'
PROOF
  <1>1. Reachable' = Reachable
    BY DEF Reachable
  <1>2. ASSUME NEW x \in Pids PROVE Remembers(x)'
    <2>1. CASE pc'[x] = pc[x] /\ loc'[x] = loc[x]
      BY <1>1, <2>1 DEF RingInv, Remembers, Linker
    <2>2. CASE pc'[x] \in {"run", "retry"}
      BY <2>2 DEF Remembers
    <2> QED
      BY <2>1, <2>2
  <1>3. pc'[0] # "init" => ready_queue' = 0
    BY DEF RingInv
  <1>4. \A x \in Pids : state'[x] = "ZOMBIE" => x \in Threads
    BY DEF RingInv
  <1>5. \A x \in Pids : InUse(x)' /\ next'[x] # Wild => x \in Reachable'
    BY <1>1 DEF RingInv, InUse
  <1> QED
    BY <1>2, <1>3, <1>4, <1>5 DEF RingInv

(* An exited process and a path that links: the path is the shell's.       *)
LEMMA ShellAlone ==
    ASSUME IInv, RingInv, NEW child \in Pids, state[child] = "ZOMBIE",
           NEW p \in Pids, pc[p] \in {"link1", "link2"}
    PROVE  p = Shell
PROOF
  <1>1. child \in Threads /\ ~ (child >= next_pid)
    BY DEF RingInv, IInv, Unborn
  <1>2. ~ (next_pid <= Shell + 1)
    BY <1>1, Constants DEF Threads, Shell, IInv, TypeOK
  <1>3. Linker(p)
    BY DEF RingInv, Remembers
  <1> QED
    BY <1>2, <1>3 DEF Linker

LEMMA OneLinker ==
    ASSUME RingInv, NEW p \in Pids, NEW r \in Pids,
           pc[p] \in {"link1", "link2"}, pc[r] \in {"link1", "link2"}
    PROVE  p = r
PROOF
  <1>1. Linker(p) /\ Linker(r)
    BY DEF RingInv, Remembers
  <1> QED
    BY <1>1 DEF Linker

(* prev->next = child->next, for an exited child that prev leads to.        *)
LEMMA UnlinkRing ==
    ASSUME IInv, RingInv, fault = "none", pc[Shell] \in {"run", "unlink"},
           NEW child \in Pids, state[child] = "ZOMBIE",
           NEW prev \in Pids, next[prev] = child, prev < child,
           Unlinked(prev, child, next[child]),
           UNCHANGED <<next_pid, state>>, pc'[0] # "init" => pc[0] # "init",
           pc'[Shell] = "run",
           \A x \in Pids \ {Shell} : pc'[x] = pc[x] /\ loc'[x] = loc[x]
    PROVE  RingInv'
PROOF
  <1>0. PICK succ : succ = next[child]
    OBVIOUS
  <1>1. child \in Threads
    BY DEF RingInv
  <1>2. child # 0 /\ Shell \in Pids /\ 0 \in Pids /\ child # prev
    BY <1>1, Constants DEF Threads, Shell, Pids
  <1>3. ready_queue # child /\ ready_queue' = ready_queue
    <2>1. ready_queue \in {Wild, 0}
      BY DEF IInv, Ordered
    <2>2. ready_queue # child
      BY <1>2, <2>1 DEF Wild, Pids
    <2> QED
      BY <2>2 DEF Unlinked
  <1>4. next'[prev] = succ /\ \A x \in Pids \ {prev} : next'[x] = next[x]
    BY <1>0 DEF Unlinked, IInv, TypeOK
  <1>5. \A x \in Reachable : x \in {child} \/ x \in Reachable'
    <2> DEFINE Gone == {child}
    <2>1. ASSUME NEW C \in SUBSET Pids, \A x \in C : next'[x] \in C \cup {Wild}
          PROVE  \E D \in SUBSET Pids :
                    /\ C \subseteq D /\ D \subseteq C \cup Gone
                    /\ \A x \in D : next[x] \in D \cup {Wild}
      <3>1. CASE prev \in C
        <4> DEFINE D == C \cup {child}
        <4>1. \A x \in D : next[x] \in D \cup {Wild}
          BY <1>0, <1>4, <2>1, <3>1
        <4>2. D \in SUBSET Pids /\ C \subseteq D /\ D \subseteq C \cup Gone
          OBVIOUS
        <4> HIDE DEF D
        <4> QED
          BY <4>1, <4>2
      <3>2. CASE prev \notin C
        BY <1>4, <2>1, <3>2
      <3> QED
        BY <3>1, <3>2
    <2>2. \A x \in Reachable : x \in Gone \/ x \in Reachable'
      <3> HIDE DEF Gone
      <3>1. \A C \in SUBSET Pids :
               ready_queue \in C /\ (\A x \in C : next'[x] \in C \cup {Wild})
                   => \E D \in SUBSET Pids :
                         /\ C \subseteq D /\ D \subseteq C \cup Gone
                         /\ \A x \in D : next[x] \in D \cup {Wild}
        BY <2>1
      <3>2. ready_queue' = ready_queue
        BY <1>3
      <3> QED
        BY <3>1, <3>2, StillReachable
    <2> QED
      BY <2>2
  <1>6. \A x \in Pids : pc[x] \notin {"link1", "link2"}
    BY ShellAlone
  <1>7. \A x \in Pids : Remembers(x)'
    BY <1>2, <1>6 DEF RingInv, Remembers
  <1>8. \A x \in Pids : InUse(x)' /\ next'[x] # Wild => x \in Reachable'
    <2> SUFFICES ASSUME NEW x \in Pids, InUse(x)', next'[x] # Wild
                 PROVE  x \in Reachable'
      OBVIOUS
    <2>1. InUse(x) /\ x # child
      BY DEF InUse
    <2>2. next[x] # Wild
      BY <1>4 DEF Wild, Pids
    <2>3. x \in Reachable
      BY <2>1, <2>2 DEF RingInv
    <2> QED
      BY <1>5, <2>1, <2>3
  <1>9. /\ pc'[0] # "init" => ready_queue' = 0
        /\ \A x \in Pids : state'[x] = "ZOMBIE" => x \in Threads
    BY <1>3 DEF RingInv
  <1> QED
    BY <1>7, <1>8, <1>9 DEF RingInv

LEMMA LinkLastRing ==
    ASSUME IInv, RingInv, NEW p \in Pids, create_link_last(p)
    PROVE  RingInv'
PROOF
  <1>0. PICK new, last : new = loc[p].node /\ last = loc[p].prev
    OBVIOUS
  <1>1. /\ fault = "none" /\ pc[p] = "link1" /\ TypeOK
        /\ next' = [next EXCEPT ![last] = new]
        /\ pc' = [pc EXCEPT ![p] = "link2"]
        /\ UNCHANGED <<ready_queue, next_pid, state, loc>>
    BY <1>0 DEF create_link_last, Running, Goto, IInv
  <1>2. new \in 1..next_pid - 1 /\ last \in Pids /\ last < new
    BY <1>0, <1>1 DEF IInv, LocalsOK
  <1>3. new # Wild /\ new # last /\ new \in Pids /\ ready_queue \in Pids
    <2>1. new # Wild /\ new \in Pids
      BY <1>1, <1>2, Constants DEF TypeOK, Wild, Pids
    <2>2. next_pid # 1 /\ 0 \in Pids
      BY <1>1, <1>2, Constants DEF TypeOK, Pids
    <2>3. ready_queue = 0
      BY <2>2 DEF IInv, MonitorLinked, RingInv
    <2> QED
      BY <1>2, <2>1, <2>2, <2>3 DEF Pids
  <1>4. /\ next'[last] = new /\ \A x \in Pids \ {last} : next'[x] = next[x]
        /\ pc'[p] = "link2" /\ \A x \in Pids \ {p} : pc'[x] = pc[x]
    BY <1>1, <1>2 DEF TypeOK
  <1>5. Linker(p) /\ next[last] = ready_queue /\ next[new] = Wild /\ last \in Reachable
    BY <1>0, <1>1 DEF RingInv, Remembers, Linker
  <1>6. Reachable \subseteq Reachable'
    <2> SUFFICES ASSUME NEW C \in SUBSET Pids, ready_queue \in C,
                        \A x \in C : next'[x] \in C \cup {Wild}
                 PROVE  \A x \in C : next[x] \in C \cup {Wild}
      BY <1>1, StillReachable
    <2> QED
      BY <1>4, <1>5
  <1>7. Linker(p)'
    <2>1. next'[new] = Wild /\ next'[last] = new /\ last \in Reachable'
      BY <1>3, <1>4, <1>5, <1>6
    <2> QED
      BY <1>0, <1>1, <1>4, <1>5, <2>1 DEF Linker
  <1>8. ASSUME NEW x \in Pids PROVE Remembers(x)'
    <2>1. CASE x = p
      BY <1>4, <1>7, <2>1 DEF Remembers
    <2>2. CASE x # p
      <3>1. pc'[x] = pc[x] /\ loc'[x] = loc[x]
        BY <1>1, <1>4, <2>2
      <3>2. pc[x] \notin {"link1", "link2"}
        BY <1>1, <2>2, OneLinker
      <3>3. pc[x] # "unlink"
        <4>1. SUFFICES ASSUME pc[x] = "unlink" PROVE FALSE
          OBVIOUS
        <4>2. x = Shell /\ loc[x].node \in Pids /\ state[loc[x].node] = "ZOMBIE"
          BY <4>1 DEF RingInv, Remembers, IInv, LocalsOK
        <4>3. p = Shell
          BY <1>1, <4>2, ShellAlone
        <4> QED
          BY <2>2, <4>2, <4>3
      <3> QED
        BY <3>1, <3>2, <3>3 DEF RingInv, Remembers
    <2> QED
      BY <2>1, <2>2
  <1>9. \A x \in Pids : InUse(x)' /\ next'[x] # Wild => x \in Reachable'
    BY <1>1, <1>4, <1>5, <1>6 DEF RingInv, InUse
  <1>10. /\ pc'[0] # "init" => ready_queue' = 0
         /\ \A x \in Pids : state'[x] = "ZOMBIE" => x \in Threads
    BY <1>1, <1>4 DEF RingInv
  <1> QED
    BY <1>8, <1>9, <1>10 DEF RingInv

LEMMA LinkNewRing ==
    ASSUME IInv, RingInv, NEW p \in Pids, create_link_new(p)
    PROVE  RingInv'
PROOF
  <1>0. PICK new, last : new = loc[p].node /\ last = loc[p].prev
    OBVIOUS
  <1>1. /\ fault = "none" /\ pc[p] = "link2" /\ TypeOK
        /\ next' = [next EXCEPT ![new] = ready_queue]
        /\ pc' = [pc EXCEPT ![p] = "run"]
        /\ loc' = [loc EXCEPT ![p] = NoLocals]
        /\ UNCHANGED <<ready_queue, next_pid, state>>
    BY <1>0 DEF create_link_new, Running, Goto, IInv
  <1>2. new \in 1..next_pid - 1 /\ last \in Pids /\ last < new
    BY <1>0, <1>1 DEF IInv, LocalsOK
  <1>3. new # last /\ new \in Pids
    BY <1>1, <1>2, Constants DEF TypeOK, Pids
  <1>4. /\ next'[new] = ready_queue /\ \A x \in Pids \ {new} : next'[x] = next[x]
        /\ pc'[p] = "run" /\ \A x \in Pids \ {p} : pc'[x] = pc[x] /\ loc'[x] = loc[x]
    BY <1>1, <1>3 DEF TypeOK
  <1>5. Linker(p) /\ next[last] = new /\ next[new] = Wild /\ last \in Reachable
    BY <1>0, <1>1 DEF RingInv, Remembers, Linker
  <1>6. Reachable \subseteq Reachable'
    <2> SUFFICES ASSUME NEW C \in SUBSET Pids, ready_queue \in C,
                        \A x \in C : next'[x] \in C \cup {Wild}
                 PROVE  \A x \in C : next[x] \in C \cup {Wild}
      BY <1>1, StillReachable
    <2> QED
      BY <1>4, <1>5
  <1>7. new \in Reachable'
    <2>1. last \in Reachable' /\ next'[last] = new
      BY <1>2, <1>3, <1>4, <1>5, <1>6
    <2>2. new # Wild
      BY <1>3 DEF Wild, Pids
    <2> QED
      BY <1>3, <2>1, <2>2 DEF Reachable
  <1>8. ASSUME NEW x \in Pids PROVE Remembers(x)'
    <2>1. CASE x = p
      BY <1>4, <2>1 DEF Remembers
    <2>2. CASE x # p
      <3>1. pc'[x] = pc[x] /\ loc'[x] = loc[x]
        BY <1>1, <1>4, <2>2
      <3>2. pc[x] \notin {"link1", "link2"}
        BY <1>1, <2>2, OneLinker
      <3>3. pc[x] # "unlink"
        <4>1. SUFFICES ASSUME pc[x] = "unlink" PROVE FALSE
          OBVIOUS
        <4>2. x = Shell /\ loc[x].node \in Pids /\ state[loc[x].node] = "ZOMBIE"
          BY <4>1 DEF RingInv, Remembers, IInv, LocalsOK
        <4>3. p = Shell
          BY <1>1, <4>2, ShellAlone
        <4> QED
          BY <2>2, <4>2, <4>3
      <3> QED
        BY <3>1, <3>2, <3>3 DEF RingInv, Remembers
    <2> QED
      BY <2>1, <2>2
  <1>9. \A x \in Pids : InUse(x)' /\ next'[x] # Wild => x \in Reachable'
    BY <1>1, <1>4, <1>6, <1>7 DEF RingInv, InUse
  <1>10. /\ pc'[0] # "init" => ready_queue' = 0
         /\ \A x \in Pids : state'[x] = "ZOMBIE" => x \in Threads
    BY <1>1, <1>4 DEF RingInv
  <1> QED
    BY <1>8, <1>9, <1>10 DEF RingInv

(* Whoever creates a process is the only one: while process 0 still links   *)
(* the shell, the shell may already run, but its walk to the last process   *)
(* goes through the pointer the shell itself does not have yet.            *)
LEMMA CreatorAlone ==
    ASSUME IInv, LinkInv, RingInv, fault = "none",
           NEW p \in Pids, pc[p] = "run", p = current_process,
           p = IF next_pid <= Shell THEN 0 ELSE Shell,
           NEW last \in FirstInQueue({x \in Pids : next[x] = ready_queue}), last # Wild,
           NEW r \in Pids
    PROVE  pc[r] \notin {"link1", "link2"}
PROOF
  <1> SUFFICES ASSUME pc[r] \in {"link1", "link2"} PROVE FALSE
    OBVIOUS
  <1>1. PICK new, prev : new = loc[r].node /\ prev = loc[r].prev
    OBVIOUS
  <1>2. /\ r = IF next_pid <= Shell + 1 THEN 0 ELSE Shell
        /\ new = next_pid - 1 /\ next[new] = Wild
        /\ pc[r] = "link2" => next[prev] = new
    BY <1>1 DEF RingInv, Remembers, Linker
  <1>3. r # p /\ next_pid \in Nat /\ TypeOK
    BY DEF IInv, TypeOK
  <1>4. next_pid = 3 /\ p = Shell /\ r = 0 /\ new = Shell
    BY <1>2, <1>3 DEF Shell
  <1>5. pc[0] # "init" /\ ready_queue = 0
    BY <1>4 DEF RingInv
  <1>6. pc[0] = "link2"
    <2>1. Written(Shell)
      BY <1>4, <1>5 DEF LinkInv
    <2>2. PICK h \in Pids : pc[h] = "link2"
      BY <1>2, <1>4, <2>1 DEF Written, Half
    <2> QED
      BY <1>4, <2>2, OneLinker
  <1>7. next[0] = 1
    BY <1>3, <1>4, <1>6 DEF IInv, MonitorLinked
  <1>8. prev \in Pids /\ prev < new /\ (prev = 0 => new = 1)
    BY <1>1, <1>6, <1>4 DEF IInv, LocalsOK
  <1>9. prev = 1
    BY <1>4, <1>8 DEF Shell, Pids
  <1>10. next[1] = Shell /\ next[Shell] = Wild
    BY <1>2, <1>4, <1>6, <1>9
  <1>11. last \in Reachable /\ last \in Pids /\ next[last] = 0
    BY <1>3, <1>5, LastFound
  <1>12. last \in {0, 1, Shell}
    <2>1. {0, 1, Shell} \in SUBSET Pids
      BY Constants DEF Pids, Shell
    <2>2. \A x \in {0, 1, Shell} : next[x] \in {0, 1, Shell} \cup {Wild}
      BY <1>7, <1>10
    <2> QED
      BY <1>5, <1>11, <2>1, <2>2 DEF Reachable
  <1> QED
    BY <1>7, <1>10, <1>11, <1>12 DEF Shell, Wild

LEMMA CreateRing ==
    ASSUME IInv, LinkInv, RingInv, NEW p \in Pids, create_process(p)
    PROVE  RingInv'
PROOF
  <1>1. /\ fault = "none" /\ pc[p] = "run" /\ p = current_process
        /\ p = IF next_pid <= Shell THEN 0 ELSE Shell
        /\ next_pid <= MaxPid /\ TypeOK
    BY DEF create_process, Running, IInv
  <1>2. PICK last \in FirstInQueue({x \in Pids : next[x] = ready_queue}) :
           \/ last = Wild /\ Crash
           \/ /\ last # Wild
              /\ next_pid' = next_pid + 1
              /\ state' = [state EXCEPT ![next_pid] = "READY"]
              /\ loc' = [loc EXCEPT ![p].node = next_pid, ![p].prev = last]
              /\ pc' = [pc EXCEPT ![p] = "link1"]
              /\ UNCHANGED <<ready_queue, next>>
    BY DEF create_process, Goto
  <1>3. CASE last = Wild
    BY <1>2, <1>3, RingFrame DEF Crash, InUse
  <1>4. CASE last # Wild
    <2>1. Reachable' = Reachable
      BY <1>2, <1>4 DEF Reachable
    <2>2. next_pid \in Pids /\ next[next_pid] = Wild
      BY <1>1, Constants DEF TypeOK, Pids, IInv, Unborn
    <2>3. /\ pc'[p] = "link1" /\ loc'[p].node = next_pid /\ loc'[p].prev = last
          /\ \A x \in Pids \ {p} : pc'[x] = pc[x] /\ loc'[x] = loc[x]
          /\ state'[next_pid] = "READY"
          /\ \A x \in Pids \ {next_pid} : state'[x] = state[x]
      BY <1>1, <1>2, <1>4, <2>2 DEF TypeOK
    <2>4. last \in Reachable /\ next[last] = ready_queue
      BY <1>1, <1>4, LastFound
    <2>5. Linker(p)'
      <3>1. p = IF next_pid' <= Shell + 1 THEN 0 ELSE Shell
        BY <1>1, <1>2, <1>4 DEF TypeOK, Shell
      <3>2. next_pid' - 1 = next_pid
        BY <1>1, <1>2, <1>4 DEF TypeOK
      <3> QED
        BY <1>2, <1>4, <2>1, <2>2, <2>3, <2>4, <3>1, <3>2 DEF Linker
    <2>6. ASSUME NEW x \in Pids PROVE Remembers(x)'
      <3>1. CASE x = p
        BY <2>3, <2>5, <3>1 DEF Remembers
      <3>2. CASE x # p
        <4>1. pc[x] \notin {"link1", "link2"}
          BY <1>1, <1>4, CreatorAlone
        <4> QED
          BY <1>2, <1>4, <2>3, <3>2, <4>1 DEF RingInv, Remembers
      <3> QED
        BY <3>1, <3>2
    <2>7. \A x \in Pids : InUse(x)' /\ next'[x] # Wild => x \in Reachable'
      BY <1>2, <1>4, <2>1, <2>2, <2>3 DEF RingInv, InUse
    <2>8. \A x \in Pids : state'[x] = "ZOMBIE" => x \in Threads
      BY <2>3 DEF RingInv
    <2>9. pc'[0] # "init" => ready_queue' = 0
      BY <1>1, <1>2, <1>4, <2>3, Constants DEF RingInv, Pids
    <2> QED
      BY <2>6, <2>7, <2>8, <2>9 DEF RingInv
  <1> QED
    BY <1>3, <1>4

LEMMA BootRing ==
    ASSUME IInv, RingInv, init_multitasking
    PROVE  RingInv'
PROOF
  <1>1. /\ pc[0] = "init" /\ ready_queue' = 0
        /\ next' = [next EXCEPT ![0] = 0]
        /\ pc' = [pc EXCEPT ![0] = "run"]
        /\ UNCHANGED <<next_pid, state, loc>> /\ TypeOK
    BY DEF init_multitasking, Running, Goto, IInv
  <1>2. next_pid = 1 /\ 0 \in Pids
    BY <1>1, Constants DEF IInv, MonitorLinked, Pids
  <1>3. pc'[0] = "run" /\ \A x \in Pids \ {0} : pc'[x] = pc[x]
    BY <1>1, <1>2 DEF TypeOK
  <1>4. \A x \in Pids : pc[x] \notin {"link1", "link2", "unlink"}
    BY <1>2 DEF IInv, LocalsOK
  <1>5. \A x \in Pids : Remembers(x)'
    BY <1>1, <1>3, <1>4 DEF RingInv, Remembers
  <1>6. \A x \in Pids : InUse(x)' /\ next'[x] # Wild => x \in Reachable'
    <2>1. \A x \in Pids : InUse(x)' => x = 0
      BY <1>1, <1>2 DEF IInv, Unborn, InUse, Pids
    <2>2. 0 \in Reachable'
      BY <1>1, <1>2 DEF Reachable
    <2> QED
      BY <2>1, <2>2
  <1> QED
    BY <1>1, <1>5, <1>6 DEF RingInv

LEMMA TimerRing ==
    ASSUME IInv, RingInv, timer_or_yield
    PROVE  RingInv'
PROOF
  <1>1. TypeOK /\ Schedule(state) /\ UNCHANGED <<next_pid, ready_queue, next, pc, loc>>
    BY DEF timer_or_yield, IInv
  <1>2. state' = state
    BY <1>1, ScheduleType DEF TypeOK
  <1> QED
    BY <1>1, <1>2, RingFrame DEF InUse

LEMMA CrashRing ==
    ASSUME RingInv, Crash
    PROVE  RingInv'
PROOF
    BY RingFrame DEF Crash, InUse

LEMMA KeyRing ==
    ASSUME IInv, RingInv, keyboard_handler
    PROVE  RingInv'
PROOF
  <1>1. PICK q \in FirstInQueue(Sleepers(KeyReason)) :
           \/ Crash
           \/ /\ state' = Woken(state, KeyReason, q)
              /\ UNCHANGED <<next_pid, ready_queue, next, pc, loc>>
    BY DEF keyboard_handler
  <1>2. CASE Crash
    BY <1>2, CrashRing
  <1>3. CASE ~ Crash
    <2>1. \A x \in Pids : \/ state'[x] = state[x]
                          \/ state'[x] = "READY" /\ state[x] = "BLOCKED"
      BY <1>1, <1>3 DEF Woken, Sleepers, IInv, TypeOK
    <2>2. /\ \A x \in Pids : state'[x] = "ZOMBIE" => state[x] = "ZOMBIE"
          /\ \A x \in Pids : state'[x] \in {"READY", "BLOCKED"} => InUse(x)
      BY <2>1 DEF InUse
    <2> QED
      BY <1>1, <1>3, <2>2, RingFrame
  <1> QED
    BY <1>2, <1>3

(* A step of process p, which is READY, that blocks it or lets it go on.   *)
LEMMA OwnStepRing ==
    ASSUME IInv, RingInv, NEW p \in Pids, state[p] = "READY", pc[p] # "init",
           UNCHANGED <<next, ready_queue, next_pid>>,
           state' \in {state, [state EXCEPT ![p] = "BLOCKED"]},
           \A x \in Pids \ {p} : pc'[x] = pc[x] /\ loc'[x] = loc[x],
           pc'[p] \notin {"link1", "link2"}, Remembers(p)'
    PROVE  RingInv'
PROOF
  <1>1. \A x \in Pids : state'[x] = state[x] \/ (x = p /\ state'[x] = "BLOCKED")
    BY DEF IInv, TypeOK
  <1>2. /\ \A x \in Pids : state'[x] = "ZOMBIE" => state[x] = "ZOMBIE"
        /\ \A x \in Pids : state'[x] \in {"READY", "BLOCKED"} => InUse(x)
    BY <1>1 DEF InUse
  <1>3. pc'[0] # "init" => pc[0] # "init"
    BY Constants DEF Pids
  <1> QED
    BY <1>2, <1>3, RingFrame

LEMMA ReadRing ==
    ASSUME IInv, RingInv, NEW p \in Pids, SYS_READ(p)
    PROVE  RingInv'
PROOF
  <1>1. Running(p, {"run", "retry"}) /\ pc[p] # "init" /\ TypeOK
    BY DEF SYS_READ, Running, IInv
  <1>2. state[p] = "READY"
    BY <1>1, RunningReady
  <1>3. CASE process_block(p, KeyReason, "retry") /\ UNCHANGED loc
    <2>1. /\ Schedule([state EXCEPT ![p] = "BLOCKED"])
          /\ pc' = [pc EXCEPT ![p] = "retry"]
          /\ UNCHANGED <<next, ready_queue, next_pid, loc>>
      BY <1>3 DEF process_block, Goto
    <2>2. state' = [state EXCEPT ![p] = "BLOCKED"]
      BY <1>1, <2>1, ScheduleType DEF TypeOK, States
    <2>3. pc'[p] = "retry" /\ \A x \in Pids \ {p} : pc'[x] = pc[x]
      BY <1>1, <2>1 DEF TypeOK
    <2>4. Remembers(p)'
      BY <2>3 DEF Remembers
    <2> QED
      BY <1>1, <1>2, <2>1, <2>2, <2>3, <2>4, OwnStepRing
  <1>4. CASE ~ (process_block(p, KeyReason, "retry") /\ UNCHANGED loc)
    <2>1. /\ pc' = [pc EXCEPT ![p] = "run"]
          /\ UNCHANGED <<next, ready_queue, next_pid, state, loc>>
      BY <1>4 DEF SYS_READ, Goto
    <2>2. pc'[p] = "run" /\ \A x \in Pids \ {p} : pc'[x] = pc[x]
      BY <1>1, <2>1 DEF TypeOK
    <2>3. Remembers(p)'
      BY <2>2 DEF Remembers
    <2> QED
      BY <1>1, <1>2, <2>1, <2>2, <2>3, OwnStepRing
  <1> QED
    BY <1>3, <1>4

LEMMA ExitRing ==
    ASSUME IInv, RingInv, NEW p \in Pids, process_exit(p)
    PROVE  RingInv'
PROOF
  <1>1. Running(p, {"run"}) /\ p \in Threads /\ TypeOK
    BY DEF process_exit, IInv
  <1>2. state[p] = "READY"
    BY <1>1, RunningReady
  <1>3. PICK q \in FirstInQueue(Sleepers(p)) :
           \/ Crash
           \/ /\ Schedule(Woken([state EXCEPT ![p] = "ZOMBIE"], p, q))
              /\ UNCHANGED <<next_pid, ready_queue, next, pc, loc>>
    BY DEF process_exit
  <1>4. CASE Crash
    BY <1>4, CrashRing
  <1>5. CASE ~ Crash
    <2>1. PICK st : st = Woken([state EXCEPT ![p] = "ZOMBIE"], p, q)
      OBVIOUS
    <2>2. /\ st \in [Pids -> States]
          /\ \A x \in Pids :
                \/ st[x] = state[x]
                \/ x = p /\ st[x] \in {"ZOMBIE", "READY"}
                \/ state[x] = "BLOCKED" /\ st[x] = "READY"
      <3>1. PICK out : out = [state EXCEPT ![p] = "ZOMBIE"]
        OBVIOUS
      <3>2. /\ out \in [Pids -> States] /\ out[p] = "ZOMBIE"
            /\ \A x \in Pids \ {p} : out[x] = state[x]
        BY <1>1, <3>1 DEF TypeOK, States
      <3>3. CASE q \in Sleepers(p)
        <4>1. st = [out EXCEPT ![q] = "READY"] /\ q \in Pids /\ state[q] = "BLOCKED"
          BY <2>1, <3>1, <3>3 DEF Woken, Sleepers
        <4>2. st \in [Pids -> States] /\ st[q] = "READY"
              /\ \A x \in Pids \ {q} : st[x] = out[x]
          BY <3>2, <4>1 DEF States
        <4> QED
          BY <3>2, <4>1, <4>2
      <3>4. CASE q \notin Sleepers(p)
        BY <2>1, <3>1, <3>2, <3>4 DEF Woken
      <3> QED
        BY <3>3, <3>4
    <2>3. state' = st
      BY <1>1, <1>3, <1>5, <2>1, <2>2, ScheduleType
    <2>4. /\ \A x \in Pids : state'[x] = "ZOMBIE" => state[x] = "ZOMBIE" \/ x \in Threads
          /\ \A x \in Pids : state'[x] \in {"READY", "BLOCKED"} => InUse(x)
      BY <1>1, <1>2, <2>2, <2>3 DEF InUse
    <2> QED
      BY <1>3, <1>5, <2>4, RingFrame
  <1> QED
    BY <1>4, <1>5

LEMMA SleepRing ==
    ASSUME IInv, RingInv, NEW p \in Pids, wait_block_state(p) \/ wait_block_reason(p)
    PROVE  RingInv'
PROOF
  <1>1. CASE wait_block_state(p)
    <2>1. Running(p, {"sleep1"}) /\ pc[p] = "sleep1" /\ TypeOK
      BY <1>1 DEF wait_block_state, Running, IInv
    <2>2. /\ state' = [state EXCEPT ![p] = "BLOCKED"]
          /\ pc'[p] = "sleep2" /\ \A x \in Pids \ {p} : pc'[x] = pc[x]
          /\ UNCHANGED <<next, ready_queue, next_pid, loc>>
      BY <1>1, <2>1 DEF wait_block_state, Goto, TypeOK
    <2>3. Remembers(p)'
      BY <2>1, <2>2 DEF RingInv, Remembers
    <2>4. state[p] = "READY"
      BY <2>1, RunningReady
    <2> QED
      BY <2>1, <2>2, <2>3, <2>4, OwnStepRing
  <1>2. CASE wait_block_reason(p)
    <2>1. pc[p] = "sleep2" /\ Schedule(state) /\ TypeOK
      BY <1>2 DEF wait_block_reason, Running, IInv
    <2>2. /\ pc'[p] = "wait" /\ \A x \in Pids \ {p} : pc'[x] = pc[x]
          /\ UNCHANGED <<next, ready_queue, next_pid, loc>>
      BY <1>2, <2>1 DEF wait_block_reason, Goto, TypeOK
    <2>3. Remembers(p)'
      BY <2>1, <2>2 DEF RingInv, Remembers
    <2>4. state' = state
      BY <2>1, ScheduleType DEF TypeOK
    <2>5. pc'[0] # "init" => pc[0] # "init"
      BY <2>1, <2>2, Constants DEF Pids
    <2> QED
      BY <2>2, <2>3, <2>4, <2>5, RingFrame DEF InUse
  <1> QED
    BY <1>1, <1>2

(* Who waits for somebody that has exited is the shell. *)
LEMMA OnlyShellFinds ==
    ASSUME OnlyShellReaps, RingInv, NEW p \in Pids, NEW target,
           <<p, target>> \in WaitsFor,
           NEW child \in Awaited(p, target), state[child] = "ZOMBIE"
    PROVE  p = Shell /\ target # Monitor
PROOF
  <1>1. child \in Threads
    BY DEF Awaited, RingInv
  <1>2. target # Monitor
    <2>1. SUFFICES ASSUME target = Monitor PROVE FALSE
      OBVIOUS
    <2>2. child = Monitor
      BY <2>1 DEF Awaited, Monitor, AnyChild
    <2> QED
      BY <1>1, <2>2 DEF Threads, Monitor
  <1> QED
    BY <1>2 DEF OnlyShellReaps

LEMMA WaitRing ==
    ASSUME OnlyShellReaps, IInv, RingInv, NEW p \in Pids, NEW target \in Node,
           process_wait(p, target)
    PROVE  RingInv'
PROOF
  <1>1. Running(p, {"run"}) /\ pc[p] = "run" /\ <<p, target>> \in WaitsFor /\ TypeOK
        /\ fault = "none"
    BY DEF process_wait, Running, IInv
  <1>2. PICK child \in FirstInQueue(Awaited(p, target)) :
           \/ Crash
           \/ /\ child \in Awaited(p, target) /\ state[child] = "ZOMBIE"
              /\ \E prev \in FirstInQueue({x \in Pids : next[x] = child}) \ {Wild} :
                    next[prev] = child /\ Unlinked(prev, child, next[child])
              /\ UNCHANGED <<next_pid, state, pc, loc>>
           \/ /\ Set(p, "target", target)
              /\ process_block(p, child, "wait")
    BY DEF process_wait
  <1>3. CASE Crash
    BY <1>3, CrashRing
  <1>4. CASE /\ child \in Awaited(p, target) /\ state[child] = "ZOMBIE"
             /\ \E prev \in FirstInQueue({x \in Pids : next[x] = child}) \ {Wild} :
                   next[prev] = child /\ Unlinked(prev, child, next[child])
             /\ UNCHANGED <<next_pid, state, pc, loc>>
    <2>1. child \in Pids /\ p = Shell
      BY <1>1, <1>4, OnlyShellFinds DEF Awaited
    <2>2. PICK prev \in FirstInQueue({x \in Pids : next[x] = child}) \ {Wild} :
             next[prev] = child /\ Unlinked(prev, child, next[child])
      BY <1>4
    <2>3. prev \in Pids
      BY <1>1, <2>2, QueueReached
    <2>4. prev < child
      BY <1>4, <2>1, <2>2, <2>3, BeforeZombie
    <2> QED
      BY <1>1, <1>4, <2>1, <2>2, <2>3, <2>4, UnlinkRing
  <1>5. CASE Set(p, "target", target) /\ process_block(p, child, "wait")
    <2>1. /\ Schedule([state EXCEPT ![p] = "BLOCKED"])
          /\ pc' = [pc EXCEPT ![p] = "wait"]
          /\ UNCHANGED <<next, ready_queue, next_pid>>
      BY <1>5 DEF process_block, Goto
    <2>2. state' = [state EXCEPT ![p] = "BLOCKED"]
      BY <1>1, <2>1, ScheduleType DEF TypeOK, States
    <2>3. pc'[p] = "wait" /\ \A x \in Pids \ {p} : pc'[x] = pc[x] /\ loc'[x] = loc[x]
      BY <1>1, <1>5, <2>1 DEF TypeOK, Set
    <2>4. loc'[p].target = target
      BY <1>1, <1>5 DEF TypeOK, Set
    <2>5. Remembers(p)'
      BY <1>1, <2>3, <2>4 DEF Remembers
    <2>6. state[p] = "READY"
      BY <1>1, RunningReady
    <2> QED
      BY <1>1, <2>1, <2>2, <2>3, <2>5, <2>6, OwnStepRing
  <1> QED
    BY <1>2, <1>3, <1>4, <1>5

LEMMA WaitAgainRing ==
    ASSUME OnlyShellReaps, IInv, RingInv, NEW p \in Pids, wait_again(p)
    PROVE  RingInv'
PROOF
  <1>0. PICK target : target = loc[p].target
    OBVIOUS
  <1>1. Running(p, {"wait"}) /\ pc[p] = "wait" /\ TypeOK
    BY DEF wait_again, Running, IInv
  <1>2. <<p, target>> \in WaitsFor
    BY <1>0, <1>1 DEF RingInv, Remembers
  <1>3. PICK child \in FirstInQueue(Awaited(p, target)) :
           \/ Crash
           \/ /\ pc' = [pc EXCEPT ![p] =
                          IF child \notin Awaited(p, target) THEN "run"
                          ELSE IF state[child] = "ZOMBIE" THEN "reap" ELSE "sleep1"]
              /\ loc' = [loc EXCEPT ![p] = IF child \in Awaited(p, target)
                                           THEN [@ EXCEPT !.node = child] ELSE NoLocals]
              /\ UNCHANGED <<next_pid, ready_queue, state, next>>
    BY <1>0 DEF wait_again, Goto
  <1>4. CASE Crash
    BY <1>4, CrashRing
  <1>5. CASE ~ Crash
    <2>1. /\ pc'[p] = IF child \notin Awaited(p, target) THEN "run"
                      ELSE IF state[child] = "ZOMBIE" THEN "reap" ELSE "sleep1"
          /\ \A x \in Pids \ {p} : pc'[x] = pc[x] /\ loc'[x] = loc[x]
          /\ child \in Awaited(p, target) => loc'[p].target = target
      BY <1>0, <1>1, <1>3, <1>5 DEF TypeOK
    <2>2. pc'[p] = "reap" => p = Shell
      BY <1>2, <2>1, OnlyShellFinds
    <2>3. pc'[p] = "sleep1" => <<p, loc'[p].target>> \in WaitsFor
      BY <1>2, <2>1
    <2>4. pc'[p] \in {"run", "reap", "sleep1"}
      BY <2>1
    <2>5. Remembers(p)'
      BY <2>2, <2>3, <2>4 DEF Remembers
    <2>6. state[p] = "READY"
      BY <1>1, RunningReady
    <2> QED
      BY <1>1, <1>3, <1>5, <2>1, <2>4, <2>5, <2>6, OwnStepRing
  <1> QED
    BY <1>4, <1>5

LEMMA FindPrevRing ==
    ASSUME IInv, RingInv, NEW p \in Pids, wait_find_prev(p)
    PROVE  RingInv'
PROOF
  <1>0. PICK child : child = loc[p].node
    OBVIOUS
  <1>1. Running(p, {"reap"}) /\ pc[p] = "reap" /\ TypeOK
    BY DEF wait_find_prev, Running, IInv
  <1>2. PICK prev \in FirstInQueue({x \in Pids : next[x] = child}) :
           \/ Crash
           \/ /\ next[prev] = child
              /\ loc' = [loc EXCEPT ![p].prev = prev, ![p].succ = next[child]]
              /\ pc' = [pc EXCEPT ![p] = "unlink"]
              /\ UNCHANGED <<next_pid, ready_queue, state, next>>
    BY <1>0 DEF wait_find_prev, Goto
  <1>3. CASE Crash
    BY <1>3, CrashRing
  <1>4. CASE ~ Crash
    <2>1. /\ pc'[p] = "unlink"
          /\ loc'[p].node = child /\ loc'[p].prev = prev /\ loc'[p].succ = next[child]
          /\ \A x \in Pids \ {p} : pc'[x] = pc[x] /\ loc'[x] = loc[x]
      BY <1>0, <1>1, <1>2, <1>4 DEF TypeOK
    <2>2. p = Shell
      BY <1>1 DEF RingInv, Remembers
    <2>3. Remembers(p)'
      BY <1>2, <1>4, <2>1, <2>2 DEF Remembers
    <2>4. state[p] = "READY"
      BY <1>1, RunningReady
    <2> QED
      BY <1>1, <1>2, <1>4, <2>1, <2>3, <2>4, OwnStepRing
  <1> QED
    BY <1>3, <1>4

LEMMA WaitUnlinkRing ==
    ASSUME IInv, RingInv, NEW p \in Pids, wait_unlink(p)
    PROVE  RingInv'
PROOF
  <1>0. PICK prev, child, succ :
           prev = loc[p].prev /\ child = loc[p].node /\ succ = loc[p].succ
    OBVIOUS
  <1>1. /\ fault = "none" /\ pc[p] = "unlink" /\ TypeOK
        /\ Unlinked(prev, child, succ)
        /\ pc' = [pc EXCEPT ![p] = "run"] /\ loc' = [loc EXCEPT ![p] = NoLocals]
        /\ UNCHANGED <<next_pid, state>>
    BY <1>0 DEF wait_unlink, Running, Goto, IInv
  <1>2. p = Shell /\ next[prev] = child /\ succ = next[child]
    BY <1>0, <1>1 DEF RingInv, Remembers
  <1>3. /\ child \in Pids /\ state[child] = "ZOMBIE"
        /\ prev \in 1..next_pid - 1 /\ prev < child
    BY <1>0, <1>1 DEF IInv, LocalsOK
  <1>4. prev \in Pids
    BY <1>1, <1>3, Constants DEF TypeOK, Pids
  <1>5. pc'[p] = "run" /\ \A x \in Pids \ {p} : pc'[x] = pc[x] /\ loc'[x] = loc[x]
    BY <1>1 DEF TypeOK
  <1>6. pc'[0] # "init" => pc[0] # "init"
    BY <1>1, <1>5, Constants DEF Pids
  <1> QED
    BY <1>1, <1>2, <1>3, <1>4, <1>5, <1>6, UnlinkRing
-----------------------------------------------------------------------------
LEMMA RingStep ==
    ASSUME OnlyShellReaps, IInv, LinkInv, RingInv, [Next]_vars
    PROVE  RingInv'
PROOF
  <1>1. CASE UNCHANGED vars
    BY <1>1, RingFrame DEF vars, InUse
  <1> QED
    BY <1>1, BootRing, TimerRing, KeyRing, CreateRing, LinkLastRing, LinkNewRing, ReadRing,
       ExitRing, WaitRing, WaitAgainRing, FindPrevRing, WaitUnlinkRing, SleepRing DEF Next

LEMMA InitRing == Init => RingInv
PROOF
  <1> SUFFICES ASSUME Init PROVE RingInv
    OBVIOUS
  <1>1. /\ pc[0] = "init"
        /\ \A x \in Pids : next[x] = Wild /\ state[x] # "ZOMBIE" /\ pc[x] \in {"init", "run"}
    BY Constants DEF Init, Pids
  <1> QED
    BY <1>1 DEF RingInv, Remembers

LEMMA RingInvariance ==
    ASSUME OnlyShellReaps
    PROVE  Spec => [](IInv /\ LinkInv /\ RingInv)
PROOF
  <1>1. IInv /\ LinkInv /\ RingInv /\ [Next]_vars => RingInv'
    BY RingStep
  <1> QED
    BY <1>1, InitRing, InitLinked, LinkInductive, Invariance, PTL DEF Spec

(* Every process that has been linked and has not exited stays on the list, *)
(* also when a process is created in the middle of others that exit and    *)
(* are reaped (process.c:128-131, 240-249).                                *)
THEOREM NothingIsLost ==
    ASSUME OnlyShellReaps
    PROVE  Spec => []NothingLost
PROOF
  <1>1. RingInv => NothingLost
    BY DEF RingInv, NothingLost, InUse
  <1> QED
    BY <1>1, RingInvariance, PTL
-----------------------------------------------------------------------------
(* Who sleeps, and on what.  The shell sleeps on the child that its next   *)
(* search will find first, since nobody else changes the list; when that   *)
(* child exits, the shell is the only one who sleeps on it and is woken,   *)
(* and its search finds the child.                                         *)
Sleeps(x) ==
    /\ state[x] # "BLOCKED" => wait_reason[x] = 0
    /\ state[x] = "BLOCKED" => pc[x] \in {"retry", "wait", "sleep2"}
    /\ pc[x] = "retry" /\ state[x] = "BLOCKED" => wait_reason[x] = KeyReason
    /\ pc[x] = "sleep2" => state[x] = "BLOCKED" /\ wait_reason[x] = 0
    /\ pc[x] \in {"sleep1", "sleep2"} => loc[x].target = Monitor /\ loc[x].node = Monitor
    /\ loc[x].target = Monitor => pc[x] \in {"wait", "sleep1", "sleep2"}

OnList(x) ==
    fault = "none" /\ pc[x] \in {"retry", "wait", "sleep1", "sleep2"} => next[x] # Wild

Awaits(x) ==
    fault = "none" /\ pc[x] = "wait" =>
        IF loc[x].target = Monitor THEN state[x] = "BLOCKED" => wait_reason[x] = Monitor
        ELSE \E c \in Awaited(x, loc[x].target) :
                /\ c \in FirstInQueue(Awaited(x, loc[x].target))
                /\ IF state[x] = "BLOCKED" THEN wait_reason[x] = c /\ state[c] # "ZOMBIE"
                   ELSE state[c] = "ZOMBIE"

RestInv ==
    /\ parent_pid[Monitor] = 0
    /\ \A x \in Pids : Sleeps(x) /\ OnList(x) /\ Awaits(x)
-----------------------------------------------------------------------------
(* A walk ends in one place. *)
LEMMA LandingUnique ==
    ASSUME NEW p, NEW S, NEW q \in Landing(p, S), NEW r \in Landing(p, S)
    PROVE  q = r
PROOF
  <1> SUFFICES ASSUME q # r PROVE FALSE
    OBVIOUS
  <1>1. PICK Over \in SUBSET (Pids \ S) :
            /\ \A x \in Over \cup {p} : next[x] \in Over \cup {q}
            /\ \A C \in (SUBSET Over) \ {{}} : \E x \in C : next[x] \notin C
    BY DEF Landing
  <1>2. PICK Over2 \in SUBSET (Pids \ S) :
            \A x \in Over2 \cup {p} : next[x] \in Over2 \cup {r}
    BY DEF Landing
  <1>3. q \in S \cup {Wild} /\ r \in S \cup {Wild} /\ Wild \notin Pids
    BY DEF Landing, Wild, Pids
  <1> DEFINE D == Over \cap Over2
  <1>4. next[p] \in D
    BY <1>1, <1>2, <1>3
  <1>5. \A x \in D : next[x] \in D
    BY <1>1, <1>2, <1>3
  <1>6. D \in (SUBSET Over) \ {{}}
    BY <1>4
  <1> HIDE DEF D
  <1> QED
    BY <1>1, <1>5, <1>6

LEMMA QueueUnique ==
    ASSUME NEW S, NEW q \in FirstInQueue(S), NEW r \in FirstInQueue(S)
    PROVE  q = r
PROOF
  <1>1. CASE ready_queue \in S \cup {Wild}
    BY <1>1 DEF FirstInQueue
  <1>2. CASE ready_queue \notin S \cup {Wild}
    <2>1. FirstInQueue(S) = Landing(ready_queue, S \cup {ready_queue})
      BY <1>2 DEF FirstInQueue
    <2> QED
      BY <2>1, LandingUnique
  <1> QED
    BY <1>1, <1>2

(* A walk that meets no unwritten pointer finds what is reachable. *)
LEMMA WalkFinds ==
    ASSUME TypeOK, NEW S \in SUBSET Pids, NEW q \in FirstInQueue(S), q # Wild,
           NEW s \in S, s \in Reachable
    PROVE  q \in S
PROOF
  <1> SUFFICES ASSUME q \notin S PROVE FALSE
    OBVIOUS
  <1>1. q = ready_queue
    BY QueueWalk
  <1>2. FirstInQueue(S) = Landing(ready_queue, S \cup {ready_queue})
    BY <1>1 DEF FirstInQueue
  <1>3. PICK Over \in SUBSET (Pids \ (S \cup {q})) :
            \A x \in Over \cup {q} : next[x] \in Over \cup {q}
    BY <1>1, <1>2 DEF Landing
  <1> DEFINE C == Over \cup {q}
  <1>4. C \in SUBSET Pids /\ ready_queue \in C
    BY <1>1 DEF TypeOK, Node
  <1>5. \A x \in C : next[x] \in C \cup {Wild}
    BY <1>3
  <1>6. s \in C
    <2> HIDE DEF C
    <2> QED
      BY <1>4, <1>5 DEF Reachable
  <1> QED
    BY <1>6

(* What the shell waits for, if it is not the monitor. *)
LEMMA ShellAwaits ==
    ASSUME OnlyShellReaps, RingInv, RestInv, NEW x \in Pids, pc[x] = "wait",
           loc[x].target # Monitor
    PROVE  x = Shell /\ Monitor \notin Awaited(x, loc[x].target)
PROOF
  <1>1. x = Shell
    BY DEF RingInv, Remembers, OnlyShellReaps
  <1> QED
    BY <1>1 DEF RestInv, Awaited, Shell

LEMMA Awaits1 ==
    ASSUME RestInv, fault = "none", NEW x \in Pids, pc[x] = "wait", loc[x].target = Monitor,
           state[x] = "BLOCKED"
    PROVE  wait_reason[x] = Monitor
PROOF
    BY DEF RestInv, Awaits

LEMMA AwaitsChild ==
    ASSUME RestInv, fault = "none", NEW x \in Pids, pc[x] = "wait", loc[x].target # Monitor
    PROVE  \E c \in Awaited(x, loc[x].target) :
                /\ c \in FirstInQueue(Awaited(x, loc[x].target))
                /\ IF state[x] = "BLOCKED" THEN wait_reason[x] = c /\ state[c] # "ZOMBIE"
                   ELSE state[c] = "ZOMBIE"
PROOF
    BY DEF RestInv, Awaits

(* Those who sleep on a thread: the shell alone. *)
LEMMA ShellSleeps ==
    ASSUME OnlyShellReaps, TypeOK, RingInv, RestInv, fault = "none",
           NEW d \in Threads, NEW x \in Sleepers(d)
    PROVE  x = Shell /\ pc[x] = "wait" /\ loc[x].target # Monitor
PROOF
  <1>1. x \in Pids /\ state[x] = "BLOCKED" /\ wait_reason[x] = d
    BY DEF Sleepers
  <1>2. d # 0 /\ d # KeyReason /\ d # Monitor
    BY DEF Threads, KeyReason, Monitor
  <1>3. Sleeps(x)
    BY <1>1 DEF RestInv
  <1>4. pc[x] = "wait"
    BY <1>1, <1>2, <1>3 DEF Sleeps
  <1>5. loc[x].target # Monitor
    BY <1>1, <1>2, <1>4, Awaits1
  <1> QED
    BY <1>1, <1>4, <1>5, ShellAwaits

(* Those who sleep on a key are readers, and who waits for the monitor.    *)
LEMMA KeySleeps ==
    ASSUME OnlyShellReaps, RingInv, RestInv, fault = "none", NEW x \in Sleepers(KeyReason)
    PROVE  pc[x] = "retry" \/ (pc[x] = "wait" /\ loc[x].target = Monitor)
PROOF
  <1>1. x \in Pids /\ state[x] = "BLOCKED" /\ wait_reason[x] = Monitor
    BY DEF Sleepers, KeyReason, Monitor
  <1>2. pc[x] \in {"retry", "wait"}
    BY <1>1 DEF RestInv, Sleeps, Monitor
  <1>3. ASSUME pc[x] = "wait", loc[x].target # Monitor PROVE FALSE
    <2>1. PICK c \in Awaited(x, loc[x].target) : wait_reason[x] = c
      BY <1>1, <1>3, AwaitsChild
    <2> QED
      BY <1>1, <1>3, <2>1, ShellAwaits
  <1> QED
    BY <1>2, <1>3

(* Whoever sleeps is on the list.                                          *)
LEMMA SleeperReachable ==
    ASSUME RingInv, RestInv, fault = "none", NEW x \in Pids, state[x] = "BLOCKED"
    PROVE  x \in Reachable
PROOF
  <1>1. next[x] # Wild
    BY DEF RestInv, Sleeps, OnList
  <1> QED
    BY <1>1 DEF RingInv, InUse
-----------------------------------------------------------------------------
LEMMA SleepsFrame ==
    ASSUME NEW x, Sleeps(x), pc'[x] = pc[x], loc'[x] = loc[x], state'[x] = state[x],
           wait_reason'[x] = wait_reason[x]
    PROVE  Sleeps(x)'
PROOF
    BY DEF Sleeps

LEMMA OnListFrame ==
    ASSUME NEW x, OnList(x), fault = "none",
           pc'[x] \in {"retry", "wait", "sleep1", "sleep2"} =>
               pc[x] \in {"retry", "wait", "sleep1", "sleep2"},
           next[x] # Wild => next'[x] # Wild
    PROVE  OnList(x)'
PROOF
    BY DEF OnList

LEMMA AwaitsFrame ==
    ASSUME NEW x, Awaits(x), fault = "none", pc'[x] = pc[x], loc'[x] = loc[x],
           state'[x] = state[x], wait_reason'[x] = wait_reason[x],
           UNCHANGED <<next, ready_queue, parent_pid>>,
           \A c \in Pids : state'[c] = "ZOMBIE" <=> state[c] = "ZOMBIE"
    PROVE  Awaits(x)'
PROOF
  <1> DEFINE A == Awaited(x, loc[x].target)
  <1>1. /\ Awaited(x, loc[x].target)' = A
        /\ FirstInQueue(Awaited(x, loc[x].target))' = FirstInQueue(A)
    BY DEF Awaited, FirstInQueue, Landing
  <1>2. A \subseteq Pids
    BY DEF Awaited
  <1> QED
    BY <1>1, <1>2 DEF Awaits

(* A step of p that changes the list, while the shell does not wait. *)
LEMMA ListRest ==
    ASSUME OnlyShellReaps, RingInv, RestInv, fault = "none",
           NEW p \in Pids, state[p] # "BLOCKED",
           pc'[p] \notin {"retry", "wait", "sleep1", "sleep2"}, loc'[p].target # Monitor,
           \A x \in Pids \ {p} : pc'[x] = pc[x] /\ loc'[x] = loc[x],
           \A x \in Pids : \/ state'[x] = state[x]
                           \/ state[x] = "UNUSED" /\ state'[x] = "READY",
           wait_reason' = wait_reason, parent_pid'[Monitor] = 0,
           \A x \in Pids : next[x] # Wild => next'[x] # Wild,
           pc'[Shell] # "wait"
    PROVE  RestInv'
PROOF
  <1> SUFFICES ASSUME NEW x \in Pids
               PROVE  Sleeps(x)' /\ OnList(x)' /\ Awaits(x)'
    BY DEF RestInv
  <1>1. Sleeps(x) /\ OnList(x) /\ Awaits(x)
    BY DEF RestInv
  <1>2. CASE x = p
    <2>1. state'[x] # "BLOCKED" /\ wait_reason'[x] = 0
      BY <1>1, <1>2 DEF Sleeps
    <2> QED
      BY <1>2, <2>1 DEF Sleeps, OnList, Awaits
  <1>3. CASE x # p
    <2>1. pc'[x] = pc[x] /\ loc'[x] = loc[x]
      BY <1>3
    <2>2. Sleeps(x)'
      BY <1>1, <2>1 DEF Sleeps
    <2>3. OnList(x)'
      BY <1>1, <2>1, OnListFrame
    <2>4. Awaits(x)'
      <3>1. SUFFICES ASSUME pc[x] = "wait" PROVE Awaits(x)'
        BY <2>1 DEF Awaits
      <3>2. x # Shell
        BY <2>1, <3>1
      <3>3. loc[x].target = Monitor
        BY <3>1, <3>2, ShellAwaits
      <3>4. state[x] = "BLOCKED" => wait_reason[x] = Monitor
        BY <3>1, <3>3, Awaits1
      <3>5. state'[x] = "BLOCKED" => wait_reason'[x] = Monitor
        BY <3>4
      <3> QED
        BY <2>1, <3>3, <3>5 DEF Awaits
    <2> QED
      BY <2>2, <2>3, <2>4
  <1> QED
    BY <1>2, <1>3

(* A step of p that leaves the list alone.  *)
LEMMA OwnRest ==
    ASSUME RestInv, fault = "none", NEW p \in Pids,
           UNCHANGED <<next, ready_queue, parent_pid>>,
           \A x \in Pids \ {p} : /\ pc'[x] = pc[x] /\ loc'[x] = loc[x]
                                 /\ state'[x] = state[x] /\ wait_reason'[x] = wait_reason[x],
           state[p] # "ZOMBIE", state'[p] # "ZOMBIE",
           Sleeps(p)', OnList(p)', Awaits(p)'
    PROVE  RestInv'
PROOF
  <1>1. \A c \in Pids : state'[c] = "ZOMBIE" <=> state[c] = "ZOMBIE"
    OBVIOUS
  <1>2. ASSUME NEW x \in Pids \ {p} PROVE Sleeps(x)' /\ OnList(x)' /\ Awaits(x)'
    <2>1. Sleeps(x) /\ OnList(x) /\ Awaits(x)
      BY DEF RestInv
    <2>2. Sleeps(x)'
      BY <2>1, SleepsFrame
    <2>3. OnList(x)'
      BY <2>1, OnListFrame
    <2>4. Awaits(x)'
      BY <1>1, <2>1, AwaitsFrame
    <2> QED
      BY <2>2, <2>3, <2>4
  <1> QED
    BY <1>2 DEF RestInv

LEMMA ShellNotYet ==
    ASSUME IInv, RingInv, RestInv, fault = "none",
           next_pid <= Shell \/ pc[0] \in {"link1", "link2"}
    PROVE  pc[Shell] # "wait"
PROOF
  <1> SUFFICES ASSUME pc[Shell] = "wait" PROVE FALSE
    OBVIOUS
  <1>1. Shell \in Pids /\ 0 \in Pids /\ next_pid \in Nat
    BY Constants DEF Shell, Pids, IInv, TypeOK
  <1>2. next[Shell] # Wild
    BY <1>1 DEF RestInv, OnList
  <1>3. ~ (Shell >= next_pid)
    BY <1>1, <1>2 DEF IInv, Unborn
  <1>4. pc[0] \in {"link1", "link2"}
    BY <1>1, <1>3 DEF Shell
  <1>5. Linker(0)
    BY <1>1, <1>4 DEF RingInv, Remembers
  <1> QED
    BY <1>1, <1>2, <1>3, <1>5 DEF Linker, Shell

LEMMA CrashRest ==
    ASSUME RestInv, Crash
    PROVE  RestInv'
PROOF
  <1>1. /\ fault' = "wild_next"
        /\ UNCHANGED <<pc, loc, state, wait_reason, parent_pid>>
    BY DEF Crash
  <1> QED
    BY <1>1 DEF RestInv, Sleeps, OnList, Awaits

LEMMA TimerRest ==
    ASSUME IInv, RestInv, timer_or_yield
    PROVE  RestInv'
PROOF
  <1>1. /\ TypeOK /\ fault = "none" /\ Schedule(state)
        /\ UNCHANGED <<ready_queue, next, pc, loc, wait_reason, parent_pid>>
    BY DEF timer_or_yield, IInv
  <1>2. state' = state
    BY <1>1, ScheduleType DEF TypeOK
  <1>3. ASSUME NEW x \in Pids PROVE Sleeps(x)' /\ OnList(x)' /\ Awaits(x)'
    <2>1. Sleeps(x) /\ OnList(x) /\ Awaits(x)
      BY DEF RestInv
    <2> QED
      BY <1>1, <1>2, <2>1, SleepsFrame, OnListFrame, AwaitsFrame
  <1> QED
    BY <1>1, <1>3 DEF RestInv

LEMMA BootRest ==
    ASSUME OnlyShellReaps, IInv, RingInv, RestInv, init_multitasking
    PROVE  RestInv'
PROOF
  <1>1. /\ fault = "none" /\ pc[0] = "init"
        /\ next' = [next EXCEPT ![0] = 0]
        /\ pc' = [pc EXCEPT ![0] = "run"]
        /\ UNCHANGED <<state, loc, wait_reason, parent_pid>> /\ TypeOK
    BY DEF init_multitasking, Running, Goto, IInv
  <1>2. 0 \in Pids /\ Shell # 0 /\ Shell \in Pids /\ state[0] = "READY" /\ next_pid <= Shell
    BY <1>1, Constants DEF IInv, AlwaysReady, MonitorLinked, Pids, Shell
  <1>3. pc'[0] = "run" /\ \A x \in Pids \ {0} : pc'[x] = pc[x]
    BY <1>1, <1>2 DEF TypeOK
  <1>4. \A x \in Pids : next[x] # Wild => next'[x] # Wild
    BY <1>1 DEF TypeOK, Wild
  <1>5. loc[0].target # Monitor
    BY <1>1, <1>2 DEF RestInv, Sleeps
  <1>6. pc'[Shell] # "wait"
    BY <1>1, <1>2, <1>3, ShellNotYet
  <1> QED
    BY <1>1, <1>2, <1>3, <1>4, <1>5, <1>6, ListRest DEF RestInv

LEMMA CreateRest ==
    ASSUME OnlyShellReaps, IInv, RingInv, RestInv, NEW p \in Pids, create_process(p)
    PROVE  RestInv'
PROOF
  <1>1. /\ fault = "none" /\ pc[p] = "run" /\ Running(p, {"run"})
        /\ p = IF next_pid <= Shell THEN 0 ELSE Shell
        /\ next_pid <= MaxPid /\ TypeOK
    BY DEF create_process, Running, IInv
  <1>2. PICK last \in FirstInQueue({x \in Pids : next[x] = ready_queue}) :
           \/ Crash
           \/ /\ state' = [state EXCEPT ![next_pid] = "READY"]
              /\ parent_pid' = [parent_pid EXCEPT ![next_pid] = p]
              /\ loc' = [loc EXCEPT ![p].node = next_pid, ![p].prev = last]
              /\ pc' = [pc EXCEPT ![p] = "link1"]
              /\ UNCHANGED <<next, wait_reason>>
    BY DEF create_process, Goto
  <1>3. CASE Crash
    BY <1>3, CrashRest
  <1>4. CASE ~ Crash
    <2>1. next_pid \in Pids /\ state[next_pid] = "UNUSED" /\ Shell \in Pids
      BY <1>1, Constants DEF TypeOK, Pids, IInv, Unborn, Shell
    <2>2. /\ pc'[p] = "link1" /\ loc'[p].target = loc[p].target
          /\ \A x \in Pids \ {p} : pc'[x] = pc[x] /\ loc'[x] = loc[x]
          /\ state'[next_pid] = "READY"
          /\ \A x \in Pids \ {next_pid} : state'[x] = state[x]
      BY <1>1, <1>2, <1>4, <2>1 DEF TypeOK
    <2>3. parent_pid'[Monitor] = 0
      <3>1. parent_pid[Monitor] = 0 /\ (next_pid = Monitor => p = 0) /\ Monitor \in Pids
        BY <1>1, Constants DEF RestInv, Monitor, Shell, Pids
      <3> QED
        BY <1>1, <1>2, <1>4, <3>1 DEF TypeOK
    <2>4. loc'[p].target # Monitor /\ state[p] # "BLOCKED"
      BY <1>1, <2>2, RunningReady DEF RestInv, Sleeps
    <2>5. pc'[Shell] # "wait"
      <3>1. CASE next_pid <= Shell
        BY <1>1, <2>1, <2>2, <3>1, ShellNotYet
      <3>2. CASE ~ (next_pid <= Shell)
        BY <1>1, <2>2, <3>2
      <3> QED
        BY <3>1, <3>2
    <2>6. \A x \in Pids : \/ state'[x] = state[x]
                          \/ state[x] = "UNUSED" /\ state'[x] = "READY"
      BY <2>1, <2>2
    <2> QED
      BY <1>1, <1>2, <1>4, <2>2, <2>3, <2>4, <2>5, <2>6, ListRest
  <1> QED
    BY <1>3, <1>4

(* A path that links a process is process 0's, before the shell runs, or   *)
(* the shell's.                                                            *)
LEMMA LinkerShell ==
    ASSUME IInv, RingInv, RestInv, fault = "none",
           NEW p \in Pids, pc[p] \in {"link1", "link2"}
    PROVE  pc[Shell] # "wait"
PROOF
  <1>1. p = 0 \/ p = Shell
    BY DEF RingInv, Remembers, Linker
  <1> QED
    BY <1>1, ShellNotYet

LEMMA LinkRest ==
    ASSUME OnlyShellReaps, IInv, RingInv, RestInv, NEW p \in Pids,
           create_link_last(p) \/ create_link_new(p)
    PROVE  RestInv'
PROOF
  <1>1. /\ fault = "none" /\ pc[p] \in {"link1", "link2"} /\ TypeOK
        /\ Running(p, {"link1", "link2"})
        /\ UNCHANGED <<state, wait_reason, parent_pid>>
    BY DEF create_link_last, create_link_new, Running, IInv
  <1>2. pc[Shell] # "wait" /\ Shell \in Pids
    BY <1>1, LinkerShell, Constants DEF Shell, Pids
  <1>3. loc[p].target # Monitor /\ state[p] # "BLOCKED"
    BY <1>1, RunningReady DEF RestInv, Sleeps
  <1>4. loc[p].node \in 1..next_pid - 1 /\ loc[p].prev \in Pids
    BY <1>1 DEF IInv, LocalsOK
  <1>5. CASE create_link_last(p)
    <2>1. /\ next' = [next EXCEPT ![loc[p].prev] = loc[p].node]
          /\ pc' = [pc EXCEPT ![p] = "link2"] /\ loc' = loc
      BY <1>5 DEF create_link_last, Goto
    <2>2. pc'[p] = "link2" /\ \A x \in Pids \ {p} : pc'[x] = pc[x]
      BY <1>1, <2>1 DEF TypeOK
    <2>3. loc[p].node # Wild
      BY <1>1, <1>4 DEF TypeOK, Wild
    <2>4. \A x \in Pids : next[x] # Wild => next'[x] # Wild
      <3>1. PICK new, last : new = loc[p].node /\ last = loc[p].prev
        OBVIOUS
      <3> QED
        BY <1>1, <2>1, <2>3, <3>1 DEF TypeOK
    <2>5. pc'[Shell] # "wait"
      BY <1>2, <2>2
    <2> QED
      BY <1>1, <1>3, <2>1, <2>2, <2>4, <2>5, ListRest DEF RestInv
  <1>6. CASE create_link_new(p)
    <2>1. /\ next' = [next EXCEPT ![loc[p].node] = ready_queue]
          /\ pc' = [pc EXCEPT ![p] = "run"] /\ loc' = [loc EXCEPT ![p] = NoLocals]
      BY <1>6 DEF create_link_new, Goto
    <2>2. /\ pc'[p] = "run" /\ loc'[p].target = 0
          /\ \A x \in Pids \ {p} : pc'[x] = pc[x] /\ loc'[x] = loc[x]
      BY <1>1, <2>1 DEF TypeOK, NoLocals
    <2>3. ready_queue = 0
      BY <1>1, <1>4 DEF RingInv, IInv, MonitorLinked, TypeOK
    <2>4. \A x \in Pids : next[x] # Wild => next'[x] # Wild
      <3>1. PICK new : new = loc[p].node
        OBVIOUS
      <3> QED
        BY <1>1, <2>1, <2>3, <3>1 DEF TypeOK, Wild
    <2>5. pc'[Shell] # "wait" /\ loc'[p].target # Monitor
      BY <1>2, <2>2 DEF Monitor
    <2> QED
      BY <1>1, <1>3, <2>2, <2>4, <2>5, ListRest DEF RestInv
  <1> QED
    BY <1>5, <1>6

LEMMA WaitUnlinkRest ==
    ASSUME OnlyShellReaps, IInv, LinkInv, RingInv, RestInv, NEW p \in Pids, wait_unlink(p)
    PROVE  RestInv'
PROOF
  <1>0. PICK prev, succ : prev = loc[p].prev /\ succ = loc[p].succ
    OBVIOUS
  <1>1. /\ fault = "none" /\ pc[p] = "unlink" /\ TypeOK /\ Running(p, {"unlink"})
        /\ next' = [next EXCEPT ![prev] = succ]
        /\ pc' = [pc EXCEPT ![p] = "run"] /\ loc' = [loc EXCEPT ![p] = NoLocals]
        /\ UNCHANGED <<state, wait_reason, parent_pid>>
    BY <1>0 DEF wait_unlink, Running, Goto, IInv, Unlinked
  <1>2. p = Shell /\ succ # Wild
    BY <1>0, <1>1 DEF RingInv, Remembers, LinkInv
  <1>3. /\ pc'[p] = "run" /\ loc'[p].target = 0
        /\ \A x \in Pids \ {p} : pc'[x] = pc[x] /\ loc'[x] = loc[x]
    BY <1>1 DEF TypeOK, NoLocals
  <1>4. \A x \in Pids : next[x] # Wild => next'[x] # Wild
    BY <1>1, <1>2 DEF TypeOK
  <1>5. state[p] # "BLOCKED" /\ loc'[p].target # Monitor /\ pc'[Shell] # "wait"
    BY <1>1, <1>2, <1>3, RunningReady DEF Monitor
  <1> QED
    BY <1>1, <1>3, <1>4, <1>5, ListRest DEF RestInv

LEMMA FindPrevRest ==
    ASSUME OnlyShellReaps, IInv, RingInv, RestInv, NEW p \in Pids, wait_find_prev(p)
    PROVE  RestInv'
PROOF
  <1>1. Running(p, {"reap"}) /\ pc[p] = "reap" /\ TypeOK /\ fault = "none"
    BY DEF wait_find_prev, Running, IInv
  <1>2. PICK prev \in FirstInQueue({x \in Pids : next[x] = loc[p].node}) :
           \/ Crash
           \/ /\ loc' = [loc EXCEPT ![p].prev = prev, ![p].succ = next[loc[p].node]]
              /\ pc' = [pc EXCEPT ![p] = "unlink"]
              /\ UNCHANGED <<state, next, wait_reason, parent_pid>>
    BY DEF wait_find_prev, Goto
  <1>3. CASE Crash
    BY <1>3, CrashRest
  <1>4. CASE ~ Crash
    <2>1. /\ pc'[p] = "unlink" /\ loc'[p].target = loc[p].target
          /\ \A x \in Pids \ {p} : pc'[x] = pc[x] /\ loc'[x] = loc[x]
      BY <1>1, <1>2, <1>4 DEF TypeOK
    <2>2. p = Shell
      BY <1>1 DEF RingInv, Remembers
    <2>3. state[p] # "BLOCKED" /\ loc'[p].target # Monitor
      BY <1>1, <2>1, RunningReady DEF RestInv, Sleeps
    <2> QED
      BY <1>1, <1>2, <1>4, <2>1, <2>2, <2>3, ListRest DEF RestInv
  <1> QED
    BY <1>3, <1>4

(* p goes to sleep, in process_block or behind it. *)
LEMMA BlockRest ==
    ASSUME IInv, LinkInv, RestInv, NEW p \in Pids, current_process = p, fault = "none",
           state[p] # "ZOMBIE", NEW st \in [Pids -> States], Schedule(st),
           st[p] = "BLOCKED", \A x \in Pids \ {p} : st[x] = state[x],
           NEW reason, wait_reason' = [wait_reason EXCEPT ![p] = reason],
           UNCHANGED <<next, ready_queue, parent_pid>>,
           \A x \in Pids \ {p} : pc'[x] = pc[x] /\ loc'[x] = loc[x],
           \/ /\ pc'[p] = "retry" /\ reason = KeyReason /\ loc'[p].target # Monitor
           \/ /\ pc'[p] = "wait" /\ loc'[p].target = Monitor /\ reason = Monitor
           \/ /\ pc'[p] = "wait" /\ loc'[p].target # Monitor
              /\ reason \in Awaited(p, loc'[p].target)
              /\ reason \in FirstInQueue(Awaited(p, loc'[p].target))
              /\ state[reason] # "ZOMBIE"
    PROVE  RestInv'
PROOF
  <1>1. state' = st
    BY ScheduleType DEF IInv
  <1>2. wait_reason'[p] = reason /\ \A x \in Pids \ {p} : wait_reason'[x] = wait_reason[x]
    BY DEF IInv, TypeOK
  <1>3. fault' = "none" => next[p] # Wild
    BY SchedulePicksLinked DEF IInv
  <1>4. OnList(p)'
    BY <1>3 DEF OnList
  <1>5. Sleeps(p)'
    BY <1>1, <1>2 DEF Sleeps
  <1>6. Awaits(p)'
    <2>1. CASE loc'[p].target = Monitor
      BY <1>2, <2>1 DEF Awaits
    <2>2. CASE pc'[p] = "wait" /\ loc'[p].target # Monitor
      <3> DEFINE A == Awaited(p, loc'[p].target)
      <3>1. /\ Awaited(p, loc[p].target)' = A
            /\ FirstInQueue(Awaited(p, loc[p].target))' = FirstInQueue(A)
        BY DEF Awaited, FirstInQueue, Landing
      <3>2. reason \in A /\ reason \in FirstInQueue(A) /\ state'[reason] # "ZOMBIE"
        BY <1>1, <2>2 DEF Awaited
      <3> QED
        BY <1>1, <1>2, <2>2, <3>1, <3>2 DEF Awaits
    <2>3. CASE pc'[p] # "wait"
      BY <2>3 DEF Awaits
    <2> QED
      BY <2>1, <2>2, <2>3
  <1> QED
    BY <1>1, <1>2, <1>4, <1>5, <1>6, OwnRest

LEMMA WaitRest ==
    ASSUME OnlyShellReaps, IInv, LinkInv, RingInv, RestInv, NEW p \in Pids,
           NEW target \in Node, process_wait(p, target)
    PROVE  RestInv'
PROOF
  <1>1. Running(p, {"run"}) /\ pc[p] = "run" /\ <<p, target>> \in WaitsFor /\ TypeOK
        /\ fault = "none" /\ current_process = p
    BY DEF process_wait, Running, IInv
  <1>2. state[p] = "READY" /\ loc[p].target # Monitor
    BY <1>1, RunningReady DEF RestInv, Sleeps
  <1>3. PICK child \in FirstInQueue(Awaited(p, target)) :
           \/ Crash
           \/ /\ child \in Awaited(p, target) /\ state[child] = "ZOMBIE"
              /\ \E prev \in FirstInQueue({x \in Pids : next[x] = child}) \ {Wild} :
                    next[prev] = child /\ Unlinked(prev, child, next[child])
              /\ UNCHANGED <<state, wait_reason, parent_pid, pc, loc>>
           \/ /\ child \in Awaited(p, target) /\ state[child] # "ZOMBIE"
              /\ Set(p, "target", target)
              /\ process_block(p, child, "wait")
    BY DEF process_wait
  <1>4. CASE Crash
    BY <1>4, CrashRest
  <1>5. CASE /\ child \in Awaited(p, target) /\ state[child] = "ZOMBIE"
             /\ \E prev \in FirstInQueue({x \in Pids : next[x] = child}) \ {Wild} :
                   next[prev] = child /\ Unlinked(prev, child, next[child])
             /\ UNCHANGED <<state, wait_reason, parent_pid, pc, loc>>
    <2>1. child \in Pids /\ p = Shell
      BY <1>1, <1>5, OnlyShellFinds DEF Awaited
    <2>2. PICK succ : succ = next[child]
      OBVIOUS
    <2>3. succ # Wild
      BY <1>1, <1>5, <2>1, <2>2 DEF LinkInv
    <2>4. PICK prev : next' = [next EXCEPT ![prev] = succ]
      BY <1>5, <2>2 DEF Unlinked
    <2>5. \A x \in Pids : next[x] # Wild => next'[x] # Wild
      BY <1>1, <2>3, <2>4 DEF TypeOK
    <2> QED
      BY <1>1, <1>2, <1>5, <2>1, <2>5, ListRest DEF RestInv
  <1>6. CASE /\ child \in Awaited(p, target) /\ state[child] # "ZOMBIE"
             /\ Set(p, "target", target) /\ process_block(p, child, "wait")
    <2>1. PICK st : st = [state EXCEPT ![p] = "BLOCKED"]
      OBVIOUS
    <2>2. /\ st \in [Pids -> States] /\ st[p] = "BLOCKED"
          /\ \A x \in Pids \ {p} : st[x] = state[x]
      BY <1>1, <2>1 DEF TypeOK, States
    <2>3. /\ Schedule(st) /\ wait_reason' = [wait_reason EXCEPT ![p] = child]
          /\ UNCHANGED <<next, ready_queue, parent_pid>>
      BY <1>6, <2>1 DEF process_block
    <2>4. /\ pc'[p] = "wait" /\ loc'[p].target = target
          /\ \A x \in Pids \ {p} : pc'[x] = pc[x] /\ loc'[x] = loc[x]
      BY <1>1, <1>6 DEF TypeOK, Set, process_block, Goto
    <2>5. target = Monitor => child = Monitor
      BY <1>6 DEF Awaited, Monitor, AnyChild
    <2> QED
      BY <1>1, <1>2, <1>6, <2>2, <2>3, <2>4, <2>5, BlockRest
  <1> QED
    BY <1>3, <1>4, <1>5, <1>6

LEMMA ReadRest ==
    ASSUME IInv, LinkInv, RingInv, RestInv, NEW p \in Pids, SYS_READ(p)
    PROVE  RestInv'
PROOF
  <1>1. Running(p, {"run", "retry"}) /\ pc[p] \in {"run", "retry"} /\ TypeOK
        /\ fault = "none" /\ current_process = p
    BY DEF SYS_READ, Running, IInv
  <1>2. state[p] = "READY" /\ loc[p].target # Monitor /\ wait_reason[p] = 0
    BY <1>1, RunningReady DEF RestInv, Sleeps
  <1>3. CASE process_block(p, KeyReason, "retry") /\ UNCHANGED loc
    <2>1. PICK st : st = [state EXCEPT ![p] = "BLOCKED"]
      OBVIOUS
    <2>2. /\ st \in [Pids -> States] /\ st[p] = "BLOCKED"
          /\ \A x \in Pids \ {p} : st[x] = state[x]
      BY <1>1, <2>1 DEF TypeOK, States
    <2>3. /\ Schedule(st) /\ wait_reason' = [wait_reason EXCEPT ![p] = KeyReason]
          /\ UNCHANGED <<next, ready_queue, parent_pid>>
      BY <1>3, <2>1 DEF process_block
    <2>4. /\ pc'[p] = "retry" /\ loc' = loc
          /\ \A x \in Pids \ {p} : pc'[x] = pc[x]
      BY <1>1, <1>3 DEF TypeOK, process_block, Goto
    <2> QED
      BY <1>1, <1>2, <2>2, <2>3, <2>4, BlockRest
  <1>4. CASE ~ (process_block(p, KeyReason, "retry") /\ UNCHANGED loc)
    <2>1. /\ pc' = [pc EXCEPT ![p] = "run"]
          /\ UNCHANGED <<next, ready_queue, parent_pid, state, wait_reason, loc>>
      BY <1>4 DEF SYS_READ, Goto
    <2>2. pc'[p] = "run" /\ \A x \in Pids \ {p} : pc'[x] = pc[x]
      BY <1>1, <2>1 DEF TypeOK
    <2>3. Sleeps(p)' /\ OnList(p)' /\ Awaits(p)'
      BY <1>2, <2>1, <2>2 DEF Sleeps, OnList, Awaits
    <2> QED
      BY <1>1, <1>2, <2>1, <2>2, <2>3, OwnRest
  <1> QED
    BY <1>3, <1>4

LEMMA SleepRest ==
    ASSUME IInv, LinkInv, RingInv, RestInv, NEW p \in Pids,
           wait_block_state(p) \/ wait_block_reason(p)
    PROVE  RestInv'
PROOF
  <1>0. Sleeps(p) /\ OnList(p)
    BY DEF RestInv
  <1>1. CASE wait_block_state(p)
    <2>1. Running(p, {"sleep1"}) /\ pc[p] = "sleep1" /\ TypeOK /\ fault = "none"
      BY <1>1 DEF wait_block_state, Running, IInv
    <2>2. /\ state' = [state EXCEPT ![p] = "BLOCKED"]
          /\ pc'[p] = "sleep2" /\ \A x \in Pids \ {p} : pc'[x] = pc[x]
          /\ UNCHANGED <<next, ready_queue, parent_pid, loc, wait_reason>>
      BY <1>1, <2>1 DEF wait_block_state, Goto, TypeOK
    <2>3. state[p] = "READY"
      BY <2>1, RunningReady
    <2>4. state'[p] = "BLOCKED" /\ \A x \in Pids \ {p} : state'[x] = state[x]
      BY <2>1, <2>2 DEF TypeOK
    <2>5. Sleeps(p)' /\ Awaits(p)'
      BY <1>0, <2>1, <2>2, <2>3, <2>4 DEF Sleeps, Awaits
    <2>6. OnList(p)'
      BY <1>0, <2>1, <2>2, OnListFrame
    <2> QED
      BY <2>1, <2>2, <2>3, <2>4, <2>5, <2>6, OwnRest
  <1>2. CASE wait_block_reason(p)
    <2>1. /\ pc[p] = "sleep2" /\ Schedule(state) /\ TypeOK /\ fault = "none"
          /\ current_process = p /\ state \in [Pids -> States]
      BY <1>2 DEF wait_block_reason, Running, IInv, TypeOK
    <2>2. PICK reason : reason = loc[p].node
      OBVIOUS
    <2>3. /\ pc'[p] = "wait" /\ \A x \in Pids \ {p} : pc'[x] = pc[x]
          /\ wait_reason' = [wait_reason EXCEPT ![p] = reason]
          /\ UNCHANGED <<next, ready_queue, parent_pid, loc>>
      BY <1>2, <2>1, <2>2 DEF wait_block_reason, Goto, TypeOK
    <2>4. state[p] = "BLOCKED" /\ loc[p].target = Monitor /\ reason = Monitor
      BY <1>0, <2>1, <2>2 DEF Sleeps
    <2> QED
      BY <2>1, <2>3, <2>4, BlockRest
  <1> QED
    BY <1>1, <1>2

(* A woken waiter's search finds the child it slept on, which has exited.  *)
LEMMA WaitAgainRest ==
    ASSUME OnlyShellReaps, IInv, RingInv, RestInv, NEW p \in Pids, wait_again(p)
    PROVE  RestInv'
PROOF
  <1>0. PICK target : target = loc[p].target
    OBVIOUS
  <1>1. Running(p, {"wait"}) /\ pc[p] = "wait" /\ TypeOK /\ fault = "none"
    BY DEF wait_again, Running, IInv
  <1>2. <<p, target>> \in WaitsFor
    BY <1>0, <1>1 DEF RingInv, Remembers
  <1>3. PICK child \in FirstInQueue(Awaited(p, target)) :
           \/ Crash
           \/ /\ pc' = [pc EXCEPT ![p] =
                          IF child \notin Awaited(p, target) THEN "run"
                          ELSE IF state[child] = "ZOMBIE" THEN "reap" ELSE "sleep1"]
              /\ loc' = [loc EXCEPT ![p] = IF child \in Awaited(p, target)
                                           THEN [@ EXCEPT !.node = child] ELSE NoLocals]
              /\ UNCHANGED <<ready_queue, state, next, wait_reason, parent_pid>>
    BY <1>0 DEF wait_again, Goto
  <1>4. CASE Crash
    BY <1>4, CrashRest
  <1>5. CASE ~ Crash
    <2>0. state[p] = "READY" /\ wait_reason[p] = 0 /\ OnList(p)
      BY <1>1, RunningReady DEF RestInv, Sleeps
    <2>1. /\ pc'[p] = IF child \notin Awaited(p, target) THEN "run"
                      ELSE IF state[child] = "ZOMBIE" THEN "reap" ELSE "sleep1"
          /\ \A x \in Pids \ {p} : pc'[x] = pc[x] /\ loc'[x] = loc[x]
          /\ child \in Awaited(p, target) =>
                loc'[p].target = target /\ loc'[p].node = child
          /\ child \notin Awaited(p, target) => loc'[p].target = 0
      BY <1>0, <1>1, <1>3, <1>5 DEF TypeOK, NoLocals
    <2>2. pc'[p] = "reap" => loc'[p].target # Monitor
      BY <1>2, <2>1, OnlyShellFinds
    <2>3. ASSUME child \in Awaited(p, target), state[child] # "ZOMBIE"
          PROVE  target = Monitor /\ child = Monitor
      <3>1. ASSUME target # Monitor PROVE FALSE
        <4>1. PICK c \in FirstInQueue(Awaited(p, target)) : state[c] = "ZOMBIE"
          BY <1>0, <1>1, <2>0, <3>1, AwaitsChild
        <4>2. c = child
          BY <1>3, <4>1, QueueUnique
        <4> QED
          BY <2>3, <4>1, <4>2
      <3> QED
        BY <2>3, <3>1 DEF Awaited, Monitor, AnyChild
    <2>4. \/ pc'[p] = "run" /\ loc'[p].target = 0
          \/ pc'[p] = "reap" /\ loc'[p].target # Monitor
          \/ pc'[p] = "sleep1" /\ loc'[p].target = Monitor /\ loc'[p].node = Monitor
      BY <2>1, <2>2, <2>3
    <2>5. Sleeps(p)' /\ Awaits(p)'
      BY <1>3, <1>5, <2>0, <2>4 DEF Sleeps, Awaits, Monitor
    <2>6. OnList(p)'
      BY <1>1, <1>3, <1>5, <2>0, OnListFrame
    <2> QED
      BY <1>1, <1>3, <1>5, <2>0, <2>1, <2>5, <2>6, OwnRest
  <1> QED
    BY <1>4, <1>5

LEMMA KeyRest ==
    ASSUME OnlyShellReaps, IInv, RingInv, RestInv, keyboard_handler
    PROVE  RestInv'
PROOF
  <1>1. PICK q \in FirstInQueue(Sleepers(KeyReason)) :
           \/ Crash
           \/ /\ state' = Woken(state, KeyReason, q)
              /\ wait_reason' = Cleared(KeyReason, q)
              /\ UNCHANGED <<ready_queue, parent_pid, next, pc, loc>>
    BY DEF keyboard_handler
  <1>2. CASE Crash
    BY <1>2, CrashRest
  <1>3. CASE ~ Crash
    <2>1. fault = "none" /\ TypeOK
      BY DEF keyboard_handler, IInv
    <2>2. ASSUME NEW x \in Pids
          PROVE  \/ x # q /\ state'[x] = state[x] /\ wait_reason'[x] = wait_reason[x]
                 \/ q \notin Sleepers(KeyReason) /\ state'[x] = state[x]
                    /\ wait_reason'[x] = wait_reason[x]
                 \/ x = q /\ q \in Sleepers(KeyReason) /\ state'[x] = "READY"
                    /\ wait_reason'[x] = 0
      BY <1>1, <1>3, <2>1 DEF Woken, Cleared, TypeOK
    <2>3. \A x \in Pids : state'[x] = "ZOMBIE" <=> state[x] = "ZOMBIE"
      BY <2>2 DEF Sleepers
    <2>4. ASSUME NEW x \in Pids PROVE Sleeps(x)' /\ OnList(x)' /\ Awaits(x)'
      <3>0. Sleeps(x) /\ OnList(x) /\ Awaits(x)
        BY DEF RestInv
      <3>1. OnList(x)'
        BY <1>1, <1>3, <2>1, <3>0, OnListFrame
      <3>2. CASE state'[x] = state[x] /\ wait_reason'[x] = wait_reason[x]
        BY <1>1, <1>3, <2>1, <2>3, <3>0, <3>1, <3>2, SleepsFrame, AwaitsFrame
      <3>3. CASE /\ x \in Sleepers(KeyReason)
                 /\ state'[x] = "READY" /\ wait_reason'[x] = 0
        <4>1. pc'[x] = "retry" \/ (pc'[x] = "wait" /\ loc'[x].target = Monitor)
          BY <1>1, <1>3, <2>1, <3>3, KeySleeps
        <4>2. loc'[x].target = Monitor => pc'[x] \in {"wait", "sleep1", "sleep2"}
          BY <1>1, <1>3, <3>0 DEF Sleeps
        <4> QED
          BY <3>1, <3>3, <4>1, <4>2 DEF Sleeps, Awaits
      <3> QED
        BY <2>2, <3>2, <3>3
    <2> QED
      BY <1>1, <1>3, <2>4 DEF RestInv
  <1> QED
    BY <1>2, <1>3

(* What exit does to the states. *)
LEMMA ExitStates ==
    ASSUME IInv, RestInv, NEW d \in Pids, process_exit(d)
    PROVE  /\ fault = "none" /\ d \in Threads /\ pc[d] = "run"
           /\ state[d] = "READY" /\ wait_reason[d] = 0 /\ loc[d].target # Monitor
           /\ \/ Crash
              \/ \E q \in FirstInQueue(Sleepers(d)) \ {Wild} :
                    /\ UNCHANGED <<ready_queue, parent_pid, next, pc, loc, kbd>>
                    /\ q \in Sleepers(d) => q \in Pids \ {d} /\ state[q] = "BLOCKED"
                    /\ state'[d] = "ZOMBIE" /\ wait_reason'[d] = 0
                    /\ q \in Sleepers(d) => state'[q] = "READY" /\ wait_reason'[q] = 0
                    /\ \A x \in Pids \ {d} : q \notin Sleepers(d) \/ x # q =>
                          state'[x] = state[x] /\ wait_reason'[x] = wait_reason[x]
PROOF
  <1>1. Running(d, {"run"}) /\ d \in Threads /\ TypeOK /\ fault = "none" /\ pc[d] = "run"
    BY DEF process_exit, Running, IInv
  <1>2. state[d] = "READY" /\ wait_reason[d] = 0 /\ loc[d].target # Monitor
    BY <1>1, RunningReady DEF RestInv, Sleeps
  <1>3. PICK q \in FirstInQueue(Sleepers(d)) :
           \/ Crash
           \/ /\ q # Wild
              /\ wait_reason' = Cleared(d, q)
              /\ Schedule(Woken([state EXCEPT ![d] = "ZOMBIE"], d, q))
              /\ UNCHANGED <<ready_queue, parent_pid, next, pc, loc, kbd>>
    BY DEF process_exit
  <1>4. CASE ~ Crash
    <2>1. PICK out : out = [state EXCEPT ![d] = "ZOMBIE"]
      OBVIOUS
    <2>2. out \in [Pids -> States] /\ out[d] = "ZOMBIE"
          /\ \A x \in Pids \ {d} : out[x] = state[x]
      BY <1>1, <2>1 DEF TypeOK, States
    <2>3. state' = Woken(out, d, q)
      BY <1>1, <1>3, <1>4, <2>1, <2>2, ScheduleType, WokenType
    <2>4. q \in Sleepers(d) => q \in Pids \ {d} /\ state[q] = "BLOCKED"
      BY <1>2 DEF Sleepers
    <2>5. state'[d] = "ZOMBIE" /\ wait_reason'[d] = 0
      BY <1>1, <1>2, <1>3, <1>4, <2>2, <2>3, <2>4 DEF Woken, Cleared, TypeOK
    <2>6. q \in Sleepers(d) => state'[q] = "READY" /\ wait_reason'[q] = 0
      BY <1>1, <1>3, <1>4, <2>2, <2>3, <2>4 DEF Woken, Cleared, TypeOK
    <2>7. \A x \in Pids \ {d} : q \notin Sleepers(d) \/ x # q =>
              state'[x] = state[x] /\ wait_reason'[x] = wait_reason[x]
      BY <1>1, <1>3, <1>4, <2>2, <2>3 DEF Woken, Cleared, TypeOK
    <2> QED
      BY <1>1, <1>2, <1>3, <1>4, <2>4, <2>5, <2>6, <2>7
  <1> QED
    BY <1>1, <1>2, <1>4

(* Exit wakes whoever sleeps on the process that exits. *)
LEMMA ExitRest ==
    ASSUME OnlyShellReaps, IInv, RingInv, RestInv, NEW d \in Pids, process_exit(d)
    PROVE  RestInv'
PROOF
  <1>1. d \in Threads /\ TypeOK /\ fault = "none" /\ pc[d] = "run"
    BY ExitStates DEF IInv
  <1>2. state[d] = "READY" /\ wait_reason[d] = 0 /\ loc[d].target # Monitor
    BY ExitStates
  <1>3. CASE Crash
    BY <1>3, CrashRest
  <1>4. CASE ~ Crash
    <2>1. PICK q \in FirstInQueue(Sleepers(d)) \ {Wild} :
              /\ UNCHANGED <<ready_queue, parent_pid, next, pc, loc>>
              /\ q \in Sleepers(d) => q \in Pids \ {d} /\ state[q] = "BLOCKED"
              /\ state'[d] = "ZOMBIE" /\ wait_reason'[d] = 0
              /\ q \in Sleepers(d) => state'[q] = "READY" /\ wait_reason'[q] = 0
              /\ \A x \in Pids \ {d} : q \notin Sleepers(d) \/ x # q =>
                    state'[x] = state[x] /\ wait_reason'[x] = wait_reason[x]
      BY <1>4, ExitStates
    <2>2. \A x \in Sleepers(d) : x = q
      <3>1. SUFFICES ASSUME NEW x \in Sleepers(d) PROVE x = q
        OBVIOUS
      <3>2. x \in Reachable
        BY <1>1, SleeperReachable DEF Sleepers
      <3>3. q \in Sleepers(d)
        BY <1>1, <2>1, <3>2, WalkFinds DEF Sleepers
      <3> QED
        BY <1>1, <3>3, ShellSleeps
    <2>3. ASSUME NEW x \in Pids PROVE Sleeps(x)' /\ OnList(x)' /\ Awaits(x)'
      <3>0. Sleeps(x) /\ OnList(x) /\ Awaits(x)
        BY DEF RestInv
      <3>1. OnList(x)'
        BY <1>1, <2>1, <3>0, OnListFrame
      <3>2. /\ pc'[x] = pc[x] /\ loc'[x] = loc[x]
            /\ Awaited(x, loc[x].target)' = Awaited(x, loc[x].target)
            /\ FirstInQueue(Awaited(x, loc[x].target))'
                  = FirstInQueue(Awaited(x, loc[x].target))
            /\ Awaited(x, loc[x].target) \subseteq Pids
        <4>1. UNCHANGED <<ready_queue, parent_pid, next, pc, loc>>
          BY <2>1
        <4>2. Awaited(x, loc[x].target)' = Awaited(x, loc[x].target)
          BY <4>1 DEF Awaited
        <4>3. \A S : FirstInQueue(S)' = FirstInQueue(S)
          BY <4>1 DEF FirstInQueue, Landing
        <4> QED
          BY <4>1, <4>2, <4>3 DEF Awaited
      <3>3. CASE x = d
        BY <1>1, <1>2, <2>1, <3>0, <3>1, <3>2, <3>3 DEF Sleeps, Awaits
      <3>4. CASE x # d /\ x \in Sleepers(d)
        <4>1. pc[x] = "wait" /\ loc[x].target # Monitor /\ state[x] = "BLOCKED"
              /\ wait_reason[x] = d
          BY <1>1, <3>4, ShellSleeps DEF Sleepers
        <4>2. d \in Awaited(x, loc[x].target) /\ d \in FirstInQueue(Awaited(x, loc[x].target))
          BY <1>1, <4>1, AwaitsChild
        <4>3. state'[x] = "READY" /\ wait_reason'[x] = 0
          BY <2>1, <2>2, <3>4
        <4>4. Sleeps(x)'
          BY <3>2, <4>1, <4>3 DEF Sleeps
        <4>5. Awaits(x)'
          BY <2>1, <3>2, <4>1, <4>2, <4>3 DEF Awaits
        <4> QED
          BY <3>1, <4>4, <4>5
      <3>5. CASE x # d /\ x \notin Sleepers(d)
        <4>1. state'[x] = state[x] /\ wait_reason'[x] = wait_reason[x]
          BY <2>1, <3>5
        <4>2. Sleeps(x)'
          BY <3>0, <3>2, <4>1, SleepsFrame
        <4>3. state[x] = "BLOCKED" => wait_reason[x] # d
          BY <3>5 DEF Sleepers
        <4>4. \A c \in Pids : /\ state[c] = "ZOMBIE" => state'[c] = "ZOMBIE"
                              /\ c # d /\ state[c] # "ZOMBIE" => state'[c] # "ZOMBIE"
          BY <1>2, <2>1
        <4>5. Awaits(x)'
          <5>1. CASE pc[x] = "wait" /\ loc[x].target # Monitor
            <6>1. PICK c \in Awaited(x, loc[x].target) :
                      /\ c \in FirstInQueue(Awaited(x, loc[x].target))
                      /\ IF state[x] = "BLOCKED" THEN wait_reason[x] = c /\ state[c] # "ZOMBIE"
                         ELSE state[c] = "ZOMBIE"
              BY <1>1, <5>1, AwaitsChild
            <6> QED
              BY <3>2, <4>1, <4>3, <4>4, <5>1, <6>1 DEF Awaits
          <5>2. CASE ~ (pc[x] = "wait" /\ loc[x].target # Monitor)
            BY <1>1, <3>0, <3>2, <4>1, <5>2 DEF Awaits
          <5> QED
            BY <5>1, <5>2
        <4> QED
          BY <3>1, <4>2, <4>5
      <3> QED
        BY <3>3, <3>4, <3>5
    <2>4. parent_pid'[Monitor] = 0
      BY <2>1 DEF RestInv
    <2> QED
      BY <2>3, <2>4 DEF RestInv
  <1> QED
    BY <1>3, <1>4
-----------------------------------------------------------------------------
LEMMA RestStep ==
    ASSUME OnlyShellReaps, IInv, LinkInv, RingInv, RestInv, [Next]_vars
    PROVE  RestInv'
PROOF
  <1>1. CASE UNCHANGED vars
    <2>1. UNCHANGED <<pc, loc, state, wait_reason, next, ready_queue, parent_pid, fault>>
      BY <1>1 DEF vars
    <2>2. ASSUME NEW x \in Pids PROVE Sleeps(x)' /\ OnList(x)' /\ Awaits(x)'
      <3>1. Sleeps(x) /\ OnList(x) /\ Awaits(x)
        BY DEF RestInv
      <3>2. CASE fault = "none"
        BY <2>1, <3>1, <3>2, SleepsFrame, OnListFrame, AwaitsFrame
      <3>3. CASE fault # "none"
        BY <2>1, <3>1, <3>3 DEF Sleeps, OnList, Awaits
      <3> QED
        BY <3>2, <3>3
    <2> QED
      BY <2>1, <2>2 DEF RestInv
  <1> QED
    BY <1>1, BootRest, TimerRest, KeyRest, CreateRest, LinkRest, ReadRest, ExitRest,
       WaitRest, WaitAgainRest, FindPrevRest, WaitUnlinkRest, SleepRest DEF Next

LEMMA InitRest == Init => RestInv
PROOF
  <1> SUFFICES ASSUME Init PROVE RestInv
    OBVIOUS
  <1>1. /\ Monitor \in Pids /\ Monitor # 0 /\ 0 \in Pids
        /\ \A x \in Pids : /\ state[x] \in {"READY", "UNUSED"} /\ wait_reason[x] = 0
                           /\ pc[x] \in {"init", "run"} /\ loc[x].target = 0
    BY Constants DEF Init, Pids, Monitor, NoLocals
  <1>2. parent_pid[Monitor] = 0
    BY <1>1 DEF Init
  <1> QED
    BY <1>1, <1>2 DEF RestInv, Sleeps, OnList, Awaits

LEMMA RestInvariance ==
    ASSUME OnlyShellReaps
    PROVE  Spec => [](IInv /\ RingInv /\ RestInv)
PROOF
  <1>1. IInv /\ LinkInv /\ RingInv /\ RestInv /\ [Next]_vars => RestInv'
    BY RestStep
  <1> QED
    BY <1>1, InitRest, RingInvariance, PTL DEF Spec

(* Nobody sleeps waiting for a process that has exited, whatever exits,    *)
(* is reaped or is created between the search of process_wait and the end  *)
(* of its process_block (process.c:204-252).                               *)
THEOREM NoWakeupIsLost ==
    ASSUME OnlyShellReaps
    PROVE  Spec => []NoLostWakeup
PROOF
  <1>1. RingInv /\ RestInv => NoLostWakeup
    <2> SUFFICES ASSUME RingInv, RestInv, fault = "none",
                        NEW x \in Pids, state[x] = "BLOCKED", pc[x] = "wait",
                        wait_reason[x] \in Pids
                 PROVE  state[wait_reason[x]] # "ZOMBIE"
      BY DEF NoLostWakeup
    <2>1. CASE loc[x].target = Monitor
      <3>1. wait_reason[x] = Monitor /\ Monitor \notin Threads
        BY <2>1, Awaits1 DEF Monitor, Threads
      <3> QED
        BY <3>1 DEF RingInv
    <2>2. CASE loc[x].target # Monitor
      BY <2>2, AwaitsChild
    <2> QED
      BY <2>1, <2>2
  <1> QED
    BY <1>1, RestInvariance, PTL
-----------------------------------------------------------------------------
(* Readers and characters.                                                 *)
WokenReaders == {x \in Pids : state[x] = "READY" /\ pc[x] = "retry"}
Quiet == \A x \in Pids : loc[x].target # Monitor

LEMMA WokenFinite ==
    /\ IsFiniteSet(WokenReaders) /\ Cardinality(WokenReaders) \in Nat
    /\ IsFiniteSet(WokenReaders)' /\ Cardinality(WokenReaders)' \in Nat
PROOF
  <1>1. IsFiniteSet(Pids)
    BY Constants, FS_Interval DEF Pids
  <1>2. IsFiniteSet(WokenReaders) /\ IsFiniteSet(WokenReaders)'
    BY <1>1, FS_Subset DEF WokenReaders
  <1> QED
    BY <1>2, FS_CardinalityType

LEMMA ReadersFrame ==
    ASSUME IInv, ReadersWoken, kbd' = kbd,
           \A x \in Pids : state[x] = "READY" /\ pc[x] = "retry"
                              => state'[x] = "READY" /\ pc'[x] = "retry",
           Quiet' => /\ Quiet
                     /\ \A x \in Pids : state'[x] = "BLOCKED" /\ wait_reason'[x] = KeyReason
                           => state[x] = "BLOCKED" /\ wait_reason[x] = KeyReason
    PROVE  ReadersWoken'
PROOF
  <1> SUFFICES ASSUME Sleepers(KeyReason)' # {}, Quiet'
               PROVE  kbd' <= Cardinality(WokenReaders)'
    BY DEF ReadersWoken, WokenReaders, Quiet
  <1>1. Sleepers(KeyReason) # {} /\ Quiet
    BY DEF Sleepers
  <1>2. kbd <= Cardinality(WokenReaders) /\ kbd \in Nat
    BY <1>1 DEF ReadersWoken, WokenReaders, Quiet, IInv, TypeOK
  <1>3. WokenReaders \subseteq WokenReaders'
    BY DEF WokenReaders
  <1>4. Cardinality(WokenReaders) <= Cardinality(WokenReaders)'
    BY <1>3, WokenFinite, FS_Subset
  <1> QED
    BY <1>2, <1>4, WokenFinite

(* A key press wakes a reader for the character it brings, if any sleeps.  *)
LEMMA KeyReaders ==
    ASSUME OnlyShellReaps, IInv, RingInv, RestInv, ReadersWoken, keyboard_handler
    PROVE  ReadersWoken'
PROOF
  <1>0. fault = "none" /\ TypeOK
    BY DEF keyboard_handler, IInv
  <1>1. PICK q \in FirstInQueue(Sleepers(KeyReason)) :
           \/ Crash
           \/ /\ q # Wild
              /\ kbd' = IF kbd < KBD THEN kbd + 1 ELSE kbd
              /\ state' = Woken(state, KeyReason, q)
              /\ wait_reason' = Cleared(KeyReason, q)
              /\ UNCHANGED <<pc, loc>>
    BY DEF keyboard_handler
  <1>2. CASE Crash
    <2>1. UNCHANGED <<kbd, state, wait_reason, pc, loc>>
      BY <1>2 DEF Crash
    <2> QED
      BY <2>1, ReadersFrame DEF Quiet
  <1>3. CASE ~ Crash
    <2> SUFFICES ASSUME Sleepers(KeyReason)' # {}, Quiet'
                 PROVE  kbd' <= Cardinality(WokenReaders)'
      BY DEF ReadersWoken, WokenReaders, Quiet
    <2>1. Quiet
      BY <1>1, <1>3 DEF Quiet
    <2>2. PICK s : s \in Sleepers(KeyReason)
      BY <1>0, <1>1, <1>3 DEF Sleepers, Woken, Cleared, TypeOK
    <2>3. s \in Reachable
      BY <1>0, <2>2, SleeperReachable DEF Sleepers
    <2>4. q \in Sleepers(KeyReason)
      BY <1>0, <1>1, <1>3, <2>2, <2>3, WalkFinds DEF Sleepers
    <2>5. q \in Pids /\ state[q] = "BLOCKED" /\ pc[q] = "retry"
      BY <1>0, <2>1, <2>4, KeySleeps DEF Sleepers, Quiet
    <2>6. state'[q] = "READY" /\ \A x \in Pids \ {q} : state'[x] = state[x]
      BY <1>0, <1>1, <1>3, <2>4, <2>5 DEF Woken, TypeOK
    <2>7. WokenReaders' = WokenReaders \cup {q} /\ q \notin WokenReaders
      BY <1>1, <1>3, <2>5, <2>6 DEF WokenReaders
    <2>8. Cardinality(WokenReaders)' = Cardinality(WokenReaders) + 1
      BY <2>7, WokenFinite, FS_AddElement
    <2>9. kbd <= Cardinality(WokenReaders) /\ kbd \in Nat /\ kbd' \in {kbd, kbd + 1}
      BY <1>0, <1>1, <1>3, <2>1, <2>2 DEF ReadersWoken, WokenReaders, Quiet, TypeOK
    <2> QED
      BY <2>8, <2>9, WokenFinite
  <1> QED
    BY <1>2, <1>3

(* A woken reader takes the character; who finds none sleeps.  *)
LEMMA ReadReaders ==
    ASSUME IInv, ReadersWoken, NEW p \in Pids, SYS_READ(p)
    PROVE  ReadersWoken'
PROOF
  <1>1. Running(p, {"run", "retry"}) /\ pc[p] \in {"run", "retry"} /\ TypeOK
    BY DEF SYS_READ, Running, IInv
  <1>2. state[p] = "READY"
    BY <1>1, RunningReady
  <1>3. CASE kbd = 0 /\ process_block(p, KeyReason, "retry")
    <2>1. kbd' = 0
      BY <1>3 DEF process_block
    <2> QED
      BY <2>1, WokenFinite DEF ReadersWoken, WokenReaders
  <1>4. CASE ~ (kbd = 0 /\ process_block(p, KeyReason, "retry"))
    <2>1. /\ kbd > 0 /\ kbd' = kbd - 1 /\ pc' = [pc EXCEPT ![p] = "run"]
          /\ UNCHANGED <<state, wait_reason, loc>>
      BY <1>4 DEF SYS_READ, Goto
    <2>2. pc'[p] = "run" /\ \A x \in Pids \ {p} : pc'[x] = pc[x]
      BY <1>1, <2>1 DEF TypeOK
    <2> SUFFICES ASSUME Sleepers(KeyReason)' # {}, Quiet'
                 PROVE  kbd' <= Cardinality(WokenReaders)'
      BY DEF ReadersWoken, WokenReaders, Quiet
    <2>3. Sleepers(KeyReason) # {} /\ Quiet
      BY <2>1 DEF Sleepers, Quiet
    <2>4. kbd <= Cardinality(WokenReaders) /\ kbd \in Nat
      BY <1>1, <2>3 DEF ReadersWoken, WokenReaders, Quiet, TypeOK
    <2>5. WokenReaders' = WokenReaders \ {p}
      BY <2>1, <2>2 DEF WokenReaders
    <2>6. Cardinality(WokenReaders)' >= Cardinality(WokenReaders) - 1
      <3>1. CASE p \in WokenReaders
        BY <2>5, <3>1, WokenFinite, FS_RemoveElement
      <3>2. CASE p \notin WokenReaders
        <4>1. WokenReaders' = WokenReaders
          BY <2>5, <3>2
        <4>2. Cardinality(WokenReaders)' = Cardinality(WokenReaders)
          BY <4>1
        <4> QED
          BY <4>2, WokenFinite
      <3> QED
        BY <3>1, <3>2
    <2> QED
      BY <2>1, <2>4, <2>6, WokenFinite
  <1> QED
    BY <1>3, <1>4

(* A step that blocks nobody and takes no reader out of READY. *)
LEMMA QuietReaders ==
    ASSUME IInv, ReadersWoken, kbd' = kbd, wait_reason' = wait_reason,
           \A x \in Pids : \/ state'[x] = state[x]
                           \/ state[x] = "UNUSED" /\ state'[x] = "READY",
           \A x \in Pids : pc[x] = "retry" => pc'[x] = "retry",
           Quiet' => Quiet
    PROVE  ReadersWoken'
PROOF
    BY ReadersFrame

LEMMA TimerReaders ==
    ASSUME IInv, ReadersWoken, timer_or_yield
    PROVE  ReadersWoken'
PROOF
  <1>1. Schedule(state) /\ UNCHANGED <<kbd, wait_reason, pc, loc>>
    BY DEF timer_or_yield
  <1>2. state' = state
    BY <1>1, ScheduleType DEF IInv, TypeOK
  <1> QED
    BY <1>1, <1>2, QuietReaders DEF Quiet

LEMMA BootReaders ==
    ASSUME IInv, ReadersWoken, init_multitasking
    PROVE  ReadersWoken'
PROOF
  <1>1. /\ pc[0] = "init" /\ pc' = [pc EXCEPT ![0] = "run"]
        /\ UNCHANGED <<kbd, state, wait_reason, loc>>
    BY DEF init_multitasking, Running, Goto
  <1>2. \A x \in Pids : pc[x] = "retry" => pc'[x] = "retry"
    BY <1>1 DEF IInv, TypeOK
  <1> QED
    BY <1>1, <1>2, QuietReaders DEF Quiet

LEMMA CreateReaders ==
    ASSUME IInv, ReadersWoken, NEW p \in Pids, create_process(p)
    PROVE  ReadersWoken'
PROOF
  <1>1. pc[p] = "run" /\ TypeOK /\ next_pid <= MaxPid
    BY DEF create_process, Running, IInv
  <1>2. PICK last \in FirstInQueue({x \in Pids : next[x] = ready_queue}) :
           \/ Crash
           \/ /\ state' = [state EXCEPT ![next_pid] = "READY"]
              /\ loc' = [loc EXCEPT ![p].node = next_pid, ![p].prev = last]
              /\ pc' = [pc EXCEPT ![p] = "link1"]
              /\ UNCHANGED <<wait_reason, kbd>>
    BY DEF create_process, Goto
  <1>3. CASE Crash
    <2>1. UNCHANGED <<kbd, state, wait_reason, pc, loc>>
      BY <1>3 DEF Crash
    <2> QED
      BY <2>1, QuietReaders DEF Quiet
  <1>4. CASE ~ Crash
    <2>1. next_pid \in Pids /\ state[next_pid] = "UNUSED"
      BY <1>1, Constants DEF TypeOK, Pids, IInv, Unborn
    <2>2. \A x \in Pids : pc[x] = "retry" => pc'[x] = "retry"
      BY <1>1, <1>2, <1>4 DEF TypeOK
    <2>3. \A x \in Pids : loc'[x].target = loc[x].target
      BY <1>1, <1>2, <1>4 DEF TypeOK
    <2>4. \A x \in Pids : \/ state'[x] = state[x]
                          \/ state[x] = "UNUSED" /\ state'[x] = "READY"
      BY <1>1, <1>2, <1>4, <2>1 DEF TypeOK
    <2> QED
      BY <1>2, <1>4, <2>2, <2>3, <2>4, QuietReaders DEF Quiet
  <1> QED
    BY <1>3, <1>4

(* Steps on the list leave those who read alone. *)
LEMMA ListReaders ==
    ASSUME IInv, RestInv, ReadersWoken, NEW p \in Pids,
           \/ create_link_last(p) \/ create_link_new(p)
           \/ wait_find_prev(p) \/ wait_unlink(p)
    PROVE  ReadersWoken'
PROOF
  <1>1. /\ pc[p] \in {"link1", "link2", "reap", "unlink"} /\ TypeOK
        /\ UNCHANGED <<kbd, state, wait_reason>>
    BY DEF create_link_last, create_link_new, wait_find_prev, wait_unlink, Running, IInv,
           Crash
  <1>2. loc[p].target # Monitor
    BY <1>1 DEF RestInv, Sleeps
  <1>3. /\ \A x \in Pids \ {p} : pc'[x] = pc[x]
        /\ \A x \in Pids \ {p} : loc'[x] = loc[x]
    BY <1>1 DEF create_link_last, create_link_new, wait_find_prev, wait_unlink, Goto,
                Crash, TypeOK
  <1>4. Quiet' => Quiet
    BY <1>2, <1>3 DEF Quiet
  <1>5. \A x \in Pids : pc[x] = "retry" => pc'[x] = "retry"
    BY <1>1, <1>3
  <1> QED
    BY <1>1, <1>4, <1>5, QuietReaders

LEMMA ExitReaders ==
    ASSUME IInv, RestInv, ReadersWoken, NEW d \in Pids, process_exit(d)
    PROVE  ReadersWoken'
PROOF
  <1>1. pc[d] = "run"
    BY ExitStates
  <1>2. CASE Crash
    <2>1. UNCHANGED <<kbd, state, wait_reason, pc, loc>>
      BY <1>2 DEF Crash
    <2> QED
      BY <2>1, QuietReaders DEF Quiet
  <1>3. CASE ~ Crash
    <2>1. PICK q \in FirstInQueue(Sleepers(d)) \ {Wild} :
              /\ UNCHANGED <<pc, loc, kbd>>
              /\ q \in Sleepers(d) => q \in Pids \ {d} /\ state[q] = "BLOCKED"
              /\ state'[d] = "ZOMBIE"
              /\ q \in Sleepers(d) => state'[q] = "READY"
              /\ \A x \in Pids \ {d} : q \notin Sleepers(d) \/ x # q =>
                    state'[x] = state[x] /\ wait_reason'[x] = wait_reason[x]
      BY <1>3, ExitStates
    <2>2. ASSUME NEW x \in Pids
          PROVE  /\ state[x] = "READY" /\ pc[x] = "retry" => state'[x] = "READY"
                 /\ state'[x] = "BLOCKED" => /\ state[x] = "BLOCKED"
                                             /\ wait_reason'[x] = wait_reason[x]
      BY <1>1, <2>1
    <2> QED
      BY <2>1, <2>2, ReadersFrame DEF Quiet
  <1> QED
    BY <1>2, <1>3

(* While somebody waits, the monitor is on the list. *)
LEMMA MonitorReachable ==
    ASSUME IInv, LinkInv, RingInv, RestInv, fault = "none", NEW p \in Pids, pc[p] = "wait"
    PROVE  Monitor \in Pids /\ Monitor \in Reachable
PROOF
  <1>1. Monitor \in Pids /\ 0 \in Pids /\ Monitor = 1 /\ TypeOK /\ next_pid \in Nat
    BY Constants DEF Monitor, Pids, IInv, TypeOK
  <1>2. p >= Shell /\ next[p] # Wild
    BY DEF IInv, LocalsOK, RestInv, OnList
  <1>3. next_pid > 2
    BY <1>1, <1>2 DEF IInv, Unborn, Shell, Pids
  <1>4. ASSUME NEW r \in Pids, pc[r] \in {"link1", "link2"} PROVE loc[r].node # 1
    <2>1. loc[r].node = next_pid - 1
      BY <1>4 DEF RingInv, Remembers, Linker
    <2> QED
      BY <1>1, <1>3, <2>1
  <1>5. state[1] = "READY" /\ next[0] = 1
    BY <1>1, <1>3, <1>4 DEF IInv, MonitorLinked
  <1>6. next[1] # Wild
    BY <1>1, <1>4, <1>5 DEF LinkInv, Written, Half
  <1> QED
    BY <1>1, <1>5, <1>6 DEF RingInv, InUse

(* Who waits for the monitor finds it and goes on waiting. *)
LEMMA WaitAgainReaders ==
    ASSUME IInv, LinkInv, RingInv, RestInv, ReadersWoken, NEW p \in Pids, wait_again(p)
    PROVE  ReadersWoken'
PROOF
  <1>0. PICK target : target = loc[p].target
    OBVIOUS
  <1>1. /\ pc[p] = "wait" /\ TypeOK /\ fault = "none"
        /\ UNCHANGED <<kbd, state, wait_reason>>
    BY DEF wait_again, Running, IInv, Crash
  <1>2. PICK child \in FirstInQueue(Awaited(p, target)) :
           \/ Crash
           \/ /\ child # Wild
              /\ loc' = [loc EXCEPT ![p] = IF child \in Awaited(p, target)
                                           THEN [@ EXCEPT !.node = child] ELSE NoLocals]
    BY <1>0 DEF wait_again
  <1>3. \A x \in Pids : pc[x] = "retry" => pc'[x] = "retry"
    BY <1>1 DEF wait_again, Goto, Crash, TypeOK
  <1>4. CASE Crash
    BY <1>1, <1>3, <1>4, QuietReaders DEF Crash, Quiet
  <1>5. CASE ~ Crash
    <2>1. /\ \A x \in Pids \ {p} : loc'[x] = loc[x]
          /\ child \in Awaited(p, target) => loc'[p].target = target
      BY <1>0, <1>1, <1>2, <1>5 DEF TypeOK
    <2>2. target = Monitor => child \in Awaited(p, target)
      <3>1. SUFFICES ASSUME target = Monitor PROVE child \in Awaited(p, target)
        OBVIOUS
      <3>2. /\ Monitor \in Awaited(p, target) /\ Monitor \in Reachable
            /\ Awaited(p, target) \in SUBSET Pids
        BY <1>1, <3>1, MonitorReachable DEF Awaited
      <3> QED
        BY <1>1, <1>2, <1>5, <3>2, WalkFinds
    <2>3. Quiet' => Quiet
      BY <1>0, <2>1, <2>2 DEF Quiet
    <2> QED
      BY <1>1, <1>3, <2>3, QuietReaders
  <1> QED
    BY <1>4, <1>5

LEMMA WaitReaders ==
    ASSUME IInv, RestInv, ReadersWoken, NEW p \in Pids, NEW target \in Node,
           process_wait(p, target)
    PROVE  ReadersWoken'
PROOF
  <1>1. /\ Running(p, {"run"}) /\ pc[p] = "run" /\ <<p, target>> \in WaitsFor /\ TypeOK
        /\ fault = "none"
    BY DEF process_wait, Running, IInv
  <1>2. PICK child \in FirstInQueue(Awaited(p, target)) :
           \/ UNCHANGED <<kbd, state, wait_reason, pc, loc>>
           \/ /\ child \in Awaited(p, target)
              /\ Set(p, "target", target)
              /\ process_block(p, child, "wait")
    BY DEF process_wait, Crash
  <1>3. CASE UNCHANGED <<kbd, state, wait_reason, pc, loc>>
    BY <1>3, QuietReaders DEF Quiet
  <1>4. CASE /\ child \in Awaited(p, target)
             /\ Set(p, "target", target) /\ process_block(p, child, "wait")
    <2>1. /\ \A x \in Pids \ {p} : pc'[x] = pc[x] /\ loc'[x] = loc[x]
          /\ loc'[p].target = target
      BY <1>1, <1>4 DEF TypeOK, Set, process_block, Goto
    <2>2. /\ Schedule([state EXCEPT ![p] = "BLOCKED"])
          /\ wait_reason' = [wait_reason EXCEPT ![p] = child] /\ kbd' = kbd
      BY <1>4 DEF process_block
    <2>3. state' = [state EXCEPT ![p] = "BLOCKED"]
      BY <1>1, <2>2, ScheduleType DEF TypeOK, States
    <2>4. \A x \in Pids \ {p} : state'[x] = state[x] /\ wait_reason'[x] = wait_reason[x]
      BY <1>1, <2>2, <2>3 DEF TypeOK
    <2>5. wait_reason'[p] = child
      BY <1>1, <2>2 DEF TypeOK
    <2>6. loc[p].target # Monitor
      BY <1>1 DEF RestInv, Sleeps
    <2>7. Quiet' => Quiet
      BY <2>1, <2>6 DEF Quiet
    <2>8. Quiet' => child # KeyReason
      <3>1. ASSUME child = KeyReason, target # Monitor PROVE FALSE
        <4>1. p = parent_pid[Monitor] /\ p # 0
          BY <1>1, <1>4, <3>1, Constants DEF Awaited, KeyReason, Monitor, Shell, Pids
        <4> QED
          BY <4>1 DEF RestInv
      <3> QED
        BY <2>1, <3>1 DEF Quiet
    <2> QED
      BY <1>1, <2>1, <2>2, <2>4, <2>5, <2>7, <2>8, ReadersFrame
  <1> QED
    BY <1>2, <1>3, <1>4

LEMMA SleepReaders ==
    ASSUME IInv, RestInv, NEW p \in Pids, wait_block_state(p) \/ wait_block_reason(p)
    PROVE  ReadersWoken'
PROOF
  <1>1. pc[p] \in {"sleep1", "sleep2"} /\ loc' = loc
    BY DEF wait_block_state, wait_block_reason, Running
  <1>2. loc'[p].target = Monitor
    BY <1>1 DEF RestInv, Sleeps
  <1> QED
    BY <1>2 DEF ReadersWoken

LEMMA ReadersStep ==
    ASSUME OnlyShellReaps, IInv, LinkInv, RingInv, RestInv, ReadersWoken, [Next]_vars
    PROVE  ReadersWoken'
PROOF
  <1>1. CASE UNCHANGED vars
    BY <1>1, QuietReaders DEF vars, Quiet
  <1> QED
    BY <1>1, BootReaders, TimerReaders, KeyReaders, CreateReaders, ListReaders, ReadReaders,
       ExitReaders, WaitReaders, WaitAgainReaders, SleepReaders DEF Next

(* A key press wakes a reader while one sleeps: as long as nobody waits    *)
(* for the monitor, no reader sleeps on more characters than the readers   *)
(* already woken will take (syscall.c:75-87, keyboard.c:93).                 *)
THEOREM ReadersAreWoken ==
    ASSUME OnlyShellReaps
    PROVE  Spec => []ReadersWoken
PROOF
  <1>1. Init => ReadersWoken
    <2> SUFFICES ASSUME Init PROVE ReadersWoken
      OBVIOUS
    <2>1. Sleepers(KeyReason) = {}
      BY DEF Init, Sleepers
    <2> QED
      BY <2>1 DEF ReadersWoken
  <1>2. IInv /\ LinkInv /\ RingInv /\ RestInv /\ ReadersWoken /\ [Next]_vars => ReadersWoken'
    BY ReadersStep
  <1> QED
    BY <1>1, <1>2, RingInvariance, RestInvariance, PTL DEF Spec
=============================================================================
