---------------------------- MODULE DriverProofs ----------------------------
(***************************************************************************)
(* Theorems about what interrupts reach: the interrupt controller and the  *)
(* kernel's way back from it (module Irq), the keyboard driver (Keyboard)  *)
(* and the mouse driver (Mouse).  The three do not depend on each other.   *)
(*                                                                         *)
(* Irq, for a ring of any number of processes and any choice of those that *)
(* never enter the kernel by themselves:                                   *)
(*   - IrqTypeCorrect: every variable keeps its type;                      *)
(*   - AlwaysOwedOnce: one process owes the end of interrupt while the     *)
(*     timer is in service, none otherwise;                                *)
(*   - StuckMeansStuck: with that process off the processor, a process     *)
(*     that never enters the kernel is never left.                         *)
(* Keyboard, for a ring of any number of slots and any set of keys:        *)
(*   - KeyboardTypeCorrect: every variable keeps its type, so that both    *)
(*     pointers stay in the ring;                                          *)
(*   - ShiftNeverStuck: shift is not left on with no shift key down,       *)
(*     unless the keyboard has made up the last code of a shift;           *)
(*   - RingIsQueue: the ring and its pointers implement CharQueue.         *)
(* The modulus is a parameter: what the proofs need of it is in the lemmas *)
(* about positions, and the rest counts from the pointer of the reader.    *)
(* Mouse, for any screen and any movements:                                *)
(*   - MouseTypeCorrect: every variable keeps its type;                    *)
(*   - AlwaysFollowsDevice: FollowsDevice.                                 *)
(* The second rests on what is on the line while no answer was taken for a *)
(* byte of a packet (Shape): the answers not yet read, then the rest of at *)
(* most one packet, of which mouse_byte holds the beginning.               *)
(***************************************************************************)
EXTENDS Irq, Keyboard, Mouse, SequenceTheorems, TLAPS
-----------------------------------------------------------------------------
(* The interrupt controller.                                               *)

(* The current process is in no other place than these two. *)
CurrentAt == where[current_process] \in {"user", "isr"}

OwedInv == IrqTypeOK /\ CurrentAt /\ EoiOwed

(* A switch leaves the current process at place and takes another one to   *)
(* where it was; it owes the end of interrupt if it owed it before.        *)
LEMMA Switch ==
    ASSUME IrqTypeOK, NEW place \in Places, NEW st \in [Procs -> {"READY", "BLOCKED"}],
           schedule(place, st)
    PROVE  /\ current_process' \in Procs
           /\ state' \in [Procs -> {"READY", "BLOCKED"}]
           /\ where' \in [Procs -> Places]
           /\ CurrentAt'
           /\ Owing' = (Owing \ {current_process})
                          \cup (IF place = "isr" THEN {current_process} ELSE {})
PROOF
  <1>1. PICK q \in Procs \ {current_process} :
           /\ current_process' = q
           /\ state' = st
           /\ where' = [where EXCEPT ![current_process] = place,
                                     ![q] = IF @ = "isr" THEN "isr" ELSE "user"]
    BY DEF schedule
  <1>2. \A p \in Procs :
           where'[p] = IF p = current_process THEN place
                       ELSE IF p = q THEN (IF where[p] = "isr" THEN "isr" ELSE "user")
                       ELSE where[p]
    BY <1>1 DEF IrqTypeOK
  <1>3. where' \in [Procs -> Places]
    BY <1>1 DEF IrqTypeOK, Places
  <1>4. CurrentAt'
    BY <1>1, <1>2 DEF CurrentAt
  <1>5. Owing' = (Owing \ {current_process})
                    \cup (IF place = "isr" THEN {current_process} ELSE {})
    BY <1>2 DEF Owing, IrqTypeOK
  <1> QED
    BY <1>1, <1>3, <1>4, <1>5

LEMMA OwedInitially == IrqInit => OwedInv
PROOF
  <1> SUFFICES ASSUME IrqInit PROVE OwedInv
    OBVIOUS
  <1>1. 0 \in Procs /\ 0 \in 0..KBD
    BY IrqAssumption DEF IrqAssumption, Procs
  <1>2. IrqTypeOK /\ CurrentAt
    BY <1>1 DEF IrqInit, IrqTypeOK, Places, CurrentAt
  <1>3. Owing = {}
    BY DEF IrqInit, Owing
  <1> QED
    BY <1>2, <1>3 DEF OwedInv, EoiOwed, IrqInit

LEMMA OwedInductive == OwedInv /\ [IrqNext]_irqVars => OwedInv'
PROOF
  <1> SUFFICES ASSUME OwedInv, [IrqNext]_irqVars PROVE OwedInv'
    OBVIOUS
  <1> USE DEF OwedInv
  <1>1. CASE tick
    BY <1>1 DEF tick, IrqTypeOK, CurrentAt, EoiOwed, Owing
  <1>2. CASE key
    BY <1>2 DEF key, IrqTypeOK, CurrentAt, EoiOwed, Owing
  <1>3. CASE timer_isr
    <2>1. schedule("isr", state) /\ in_service' = TRUE /\ irr_timer' = FALSE
          /\ UNCHANGED <<irr_kbd, kbd>>
      BY <1>3 DEF timer_isr
    <2>2. Owing = {}
      BY <1>3 DEF timer_isr, Interruptible, EoiOwed
    <2>3. /\ current_process' \in Procs
          /\ state' \in [Procs -> {"READY", "BLOCKED"}]
          /\ where' \in [Procs -> Places]
          /\ CurrentAt'
          /\ Owing' = {current_process}
      BY <2>1, <2>2, Switch DEF IrqTypeOK, Places
    <2>4. EoiOwed'
      BY <2>1, <2>3 DEF EoiOwed, IrqTypeOK
    <2> QED
      BY <2>1, <2>3, <2>4 DEF IrqTypeOK
  <1>4. CASE keyboard_isr
    <2>1. state' \in [Procs -> {"READY", "BLOCKED"}]
      BY <1>4 DEF keyboard_isr, IrqTypeOK
    <2>2. kbd' \in 0..KBD
      BY <1>4, IrqAssumption DEF keyboard_isr, IrqTypeOK, IrqAssumption
    <2> QED
      BY <1>4, <2>1, <2>2 DEF keyboard_isr, IrqTypeOK, CurrentAt, EoiOwed, Owing
  <1>5. CASE end_of_interrupt
    <2>1. /\ where[current_process] = "isr" /\ current_process \in Procs
          /\ where' = [where EXCEPT ![current_process] = "user"]
          /\ in_service' = FALSE
          /\ UNCHANGED <<current_process, state, irr_timer, irr_kbd, kbd>>
      BY <1>5 DEF end_of_interrupt, IrqTypeOK
    <2>2. Owing = {current_process}
      BY <2>1 DEF EoiOwed, Owing
    <2>3. \A p \in Procs : where'[p] = IF p = current_process THEN "user" ELSE where[p]
      BY <2>1 DEF IrqTypeOK
    <2>4. Owing' = {}
      BY <2>2, <2>3 DEF Owing
    <2>5. IrqTypeOK'
      BY <2>1 DEF IrqTypeOK, Places
    <2> QED
      BY <2>1, <2>3, <2>4, <2>5 DEF CurrentAt, EoiOwed
  <1>6. ASSUME NEW st \in [Procs -> {"READY", "BLOCKED"}], schedule("call", st),
               where[current_process] = "user",
               UNCHANGED <<in_service, irr_timer, irr_kbd, kbd>>
        PROVE  OwedInv'
    <2>1. Owing \ {current_process} = Owing
      BY <1>6 DEF Owing
    <2>2. /\ current_process' \in Procs
          /\ state' \in [Procs -> {"READY", "BLOCKED"}]
          /\ where' \in [Procs -> Places]
          /\ CurrentAt'
          /\ Owing' = Owing
      BY <1>6, <2>1, Switch DEF Places
    <2> QED
      BY <1>6, <2>2 DEF IrqTypeOK, EoiOwed
  <1>7. ASSUME NEW p \in Procs, SYS_YIELD(p) PROVE OwedInv'
    BY <1>6, <1>7 DEF SYS_YIELD, AtUser, IrqTypeOK
  <1>8. ASSUME NEW p \in Procs, SYS_READ(p) PROVE OwedInv'
    <2>1. CASE kbd > 0 /\ kbd' = kbd - 1 /\ UNCHANGED <<current_process, state, where>>
      BY <1>8, <2>1, IrqAssumption
         DEF SYS_READ, IrqTypeOK, CurrentAt, EoiOwed, Owing, IrqAssumption
    <2>2. CASE schedule("call", [state EXCEPT ![p] = "BLOCKED"]) /\ UNCHANGED kbd
      <3>1. [state EXCEPT ![p] = "BLOCKED"] \in [Procs -> {"READY", "BLOCKED"}]
        BY DEF IrqTypeOK
      <3> QED
        BY <1>6, <1>8, <2>2, <3>1 DEF SYS_READ, AtUser
    <2> QED
      BY <1>8, <2>1, <2>2 DEF SYS_READ
  <1>9. CASE UNCHANGED irqVars
    BY <1>9 DEF irqVars, IrqTypeOK, CurrentAt, EoiOwed, Owing
  <1> QED
    BY <1>1, <1>2, <1>3, <1>4, <1>5, <1>7, <1>8, <1>9 DEF IrqNext

(* Every variable keeps its type: schedule() only ever takes a process of  *)
(* the ring and the keyboard's ring never holds more than it can.          *)
THEOREM IrqTypeCorrect == IrqSpec => []IrqTypeOK
PROOF
  <1>1. OwedInv => IrqTypeOK
    BY DEF OwedInv
  <1> QED
    BY <1>1, OwedInitially, OwedInductive, PTL DEF IrqSpec

(* The end of interrupt is owed by exactly one process while the timer is  *)
(* in service, and by none otherwise: isr_handler never sends one that     *)
(* acknowledges an interrupt still being handled, and never forgets one.   *)
THEOREM AlwaysOwedOnce == IrqSpec => []EoiOwed
PROOF
  <1>1. OwedInv => EoiOwed
    BY DEF OwedInv
  <1> QED
    BY <1>1, OwedInitially, OwedInductive, PTL DEF IrqSpec

(* No interrupt gets the processor back from a process that never enters   *)
(* the kernel while another one owes the end of interrupt: a second such   *)
(* process on the ring (the monitor, beside kmain's loop) ends preemption. *)
THEOREM StuckMeansStuck == IrqSpec => StuckForGood
PROOF
  <1>1. [IrqNext]_irqVars => [Stuck => Stuck']_irqVars
    <2> SUFFICES ASSUME [IrqNext]_irqVars, Stuck PROVE Stuck'
      OBVIOUS
    <2>1. in_service /\ current_process \in Spinners /\ where[current_process] = "user"
      BY DEF Stuck, AtUser
    <2>2. ~ timer_isr /\ ~ keyboard_isr /\ ~ end_of_interrupt
      BY <2>1 DEF timer_isr, keyboard_isr, Interruptible, end_of_interrupt
    <2>3. \A p \in Procs : ~ SYS_YIELD(p) /\ ~ SYS_READ(p)
      BY <2>1, IrqAssumption DEF SYS_YIELD, SYS_READ, AtUser, IrqAssumption
    <2>4. tick \/ key \/ UNCHANGED irqVars
      BY <2>2, <2>3 DEF IrqNext
    <2> QED
      BY <2>1, <2>4 DEF tick, key, irqVars, Stuck, AtUser
  <1> QED
    BY <1>1, PTL DEF IrqSpec, StuckForGood
-----------------------------------------------------------------------------
(* The keyboard: positions in the ring.                                    *)

LEMMA RingSize == KBD_BUFFER_SIZE \in Nat /\ KBD_BUFFER_SIZE > 1
PROOF
  BY KeyboardAssumption DEF KeyboardAssumption

(* The place i steps behind r, without the modulus.                        *)
Behind(r, i) == IF r + i < KBD_BUFFER_SIZE THEN r + i ELSE r + i - KBD_BUFFER_SIZE

LEMMA Wrap ==
    ASSUME NEW r \in Slots, NEW i \in 0..KBD_BUFFER_SIZE
    PROVE  (r + i) % KBD_BUFFER_SIZE = Behind(r, i) /\ Behind(r, i) \in Slots
PROOF
  <1> DEFINE K == KBD_BUFFER_SIZE
  <1>1. \A a \in 0..K - 1 : a % K = a /\ (a + K) % K = a
    BY RingSize
  <1>2. CASE r + i < K
    BY <1>1, <1>2, RingSize DEF Slots, Behind
  <1>3. CASE ~ (r + i < K)
    <2>1. r + i - K \in 0..K - 1 /\ (r + i - K) + K = r + i
      BY <1>3, RingSize DEF Slots
    <2>2. ((r + i - K) + K) % K = r + i - K
      BY <1>1, <2>1
    <2> QED
      BY <1>3, <2>1, <2>2 DEF Behind, Slots
  <1> QED
    BY <1>2, <1>3

(* How far w is behind r, without the modulus.                             *)
Gap(r, w) == IF r <= w THEN w - r ELSE w - r + KBD_BUFFER_SIZE

LEMMA GapWraps ==
    ASSUME NEW r \in Slots, NEW w \in Slots
    PROVE  /\ (w - r) % KBD_BUFFER_SIZE = Gap(r, w)
           /\ Gap(r, w) \in Slots
           /\ Behind(r, Gap(r, w)) = w
PROOF
  <1> DEFINE K == KBD_BUFFER_SIZE
  <1>1. \A a \in 0..K - 1 : a % K = a /\ (a - K) % K = a
    BY RingSize
  <1>2. CASE r <= w
    BY <1>1, <1>2, RingSize DEF Slots, Gap, Behind
  <1>3. CASE ~ (r <= w)
    <2>1. w - r + K \in 0..K - 1 /\ (w - r + K) - K = w - r
      BY <1>3, RingSize DEF Slots
    <2>2. ((w - r + K) - K) % K = w - r + K
      BY <1>1, <2>1
    <2> QED
      BY <1>3, <2>1, <2>2, RingSize DEF Slots, Gap, Behind
  <1> QED
    BY <1>2, <1>3

-----------------------------------------------------------------------------
(* Types.                                                                  *)

LEMMA TranslatedIsChar ==
    ASSUME NEW k \in DOMAIN kbd_US_low, Translated(k) # Nothing
    PROVE  Translated(k) \in Chars
PROOF
  BY DEF Translated, kbd_US_low, kbd_US_high, Chars, Nothing

LEMMA WriteKeepsType ==
    ASSUME TypeOK, NEW c \in Chars, kbd_buffer_write(c)
    PROVE  /\ kbd_buffer' \in [Slots -> Chars \cup {Nothing}]
           /\ write_ptr' \in Slots
PROOF
  <1>1. (write_ptr + 1) % KBD_BUFFER_SIZE \in Slots
    BY RingSize, Wrap DEF TypeOK
  <1> QED
    BY <1>1 DEF TypeOK, kbd_buffer_write

KeyInv == TypeOK /\ ShiftNotStuck

LEMMA KeyInductive == KeyInv /\ [Next]_vars => KeyInv'
PROOF
  <1> SUFFICES ASSUME KeyInv, [Next]_vars PROVE KeyInv'
    OBVIOUS
  <1> USE DEF KeyInv
  <1>1. ASSUME NEW k \in Keys, key_pressed(k) PROVE KeyInv'
    <2>1. kbd_buffer' \in [Slots -> Chars \cup {Nothing}] /\ write_ptr' \in Slots
      BY <1>1, WriteKeepsType, TranslatedIsChar DEF key_pressed, TypeOK
    <2>2. /\ shift_pressed' \in BOOLEAN /\ caps_lock' \in BOOLEAN
          /\ down' \subseteq Keys /\ read_ptr' \in Slots /\ got' \in Chars \cup {Nothing}
          /\ made_up' \in BOOLEAN
      BY <1>1 DEF key_pressed, TypeOK
    <2>3. ShiftNotStuck'
      BY <1>1 DEF key_pressed, ShiftNotStuck
    <2> QED
      BY <2>1, <2>2, <2>3 DEF TypeOK
  <1>2. ASSUME NEW k \in Keys, key_released(k) PROVE KeyInv'
    BY <1>2 DEF key_released, TypeOK, ShiftNotStuck
  <1>3. CASE kbd_buffer_read
    <2>1. (read_ptr + 1) % KBD_BUFFER_SIZE \in Slots
      BY RingSize, Wrap DEF TypeOK
    <2> QED
      BY <1>3, <2>1 DEF kbd_buffer_read, TypeOK, ShiftNotStuck
  <1>4. CASE UNCHANGED vars
    BY <1>4 DEF vars, TypeOK, ShiftNotStuck
  <1>5. ASSUME NEW pressed \in BOOLEAN, fake_shift(pressed) PROVE KeyInv'
    BY <1>5 DEF fake_shift, TypeOK, ShiftNotStuck
  <1> QED
    BY <1>1, <1>2, <1>3, <1>4, <1>5 DEF Next

LEMMA KeyInitially == Init => KeyInv
PROOF
  <1> SUFFICES ASSUME Init PROVE KeyInv
    OBVIOUS
  <1>1. read_ptr \in Slots /\ write_ptr \in Slots
    BY RingSize DEF Init, Slots
  <1>2. kbd_buffer \in [Slots -> Chars \cup {Nothing}]
    BY DEF Init
  <1> QED
    BY <1>1, <1>2 DEF Init, KeyInv, TypeOK, ShiftNotStuck

LEMMA KeyAlways == Spec => []KeyInv
PROOF
  BY KeyInitially, KeyInductive, PTL DEF Spec

-----------------------------------------------------------------------------
(* The characters that wait, as a sequence.                                *)

Items == Chars \cup {Nothing}

WaitingFacts ==
    /\ Waiting \in Seq(Items)
    /\ Len(Waiting) = Gap(read_ptr, write_ptr)
    /\ \A i \in 1..Gap(read_ptr, write_ptr) :
          Waiting[i] = kbd_buffer[Behind(read_ptr, i - 1)]

LEMMA WaitingIs == TypeOK => WaitingFacts
PROOF
  <1> SUFFICES ASSUME TypeOK PROVE WaitingFacts
    OBVIOUS
  <1> DEFINE n == (write_ptr - read_ptr) % KBD_BUFFER_SIZE
  <1>1. n = Gap(read_ptr, write_ptr) /\ n \in Slots
    BY GapWraps DEF TypeOK
  <1>2. n \in Nat /\ n < KBD_BUFFER_SIZE
    BY <1>1, RingSize DEF Slots
  <1>3. \A i \in 1..n : /\ (read_ptr + i - 1) % KBD_BUFFER_SIZE = Behind(read_ptr, i - 1)
                        /\ Behind(read_ptr, i - 1) \in Slots
    <2> SUFFICES ASSUME NEW i \in 1..n
                 PROVE  /\ (read_ptr + i - 1) % KBD_BUFFER_SIZE = Behind(read_ptr, i - 1)
                        /\ Behind(read_ptr, i - 1) \in Slots
      OBVIOUS
    <2>1. i - 1 \in 0..KBD_BUFFER_SIZE
      BY <1>2, RingSize
    <2>2. read_ptr \in Slots /\ read_ptr + i - 1 = read_ptr + (i - 1)
      BY <1>2, RingSize DEF TypeOK, Slots
    <2> QED
      BY <2>1, <2>2, Wrap
  <1>4. Waiting \in [1..n -> Items]
    BY <1>3 DEF Waiting, TypeOK, Items
  <1>5. Waiting \in Seq(Items)
    BY <1>2, <1>4, SeqDef
  <1>6. Len(Waiting) = n
    BY <1>2, <1>4, <1>5, LenProperties
  <1> QED
    BY <1>1, <1>3, <1>5, <1>6 DEF Waiting, WaitingFacts

(* A character is written behind the ones that wait, unless the ring is    *)
(* full but for one slot; then it is dropped.                              *)
LEMMA WriteAppends ==
    ASSUME TypeOK, TypeOK', NEW c \in Chars, kbd_buffer_write(c), UNCHANGED read_ptr
    PROVE  Waiting' = IF Len(Waiting) < KBD_BUFFER_SIZE - 1 THEN Append(Waiting, c) ELSE Waiting
PROOF
  <1> DEFINE n == Gap(read_ptr, write_ptr)
  <1>1. /\ read_ptr \in Slots /\ write_ptr \in Slots /\ read_ptr' = read_ptr
        /\ n \in Slots /\ Behind(read_ptr, n) = write_ptr
    BY GapWraps DEF TypeOK
  <1>2. (write_ptr + 1) % KBD_BUFFER_SIZE = Behind(write_ptr, 1)
    BY <1>1, RingSize, Wrap
  <1>3. /\ Waiting \in Seq(Items) /\ Len(Waiting) = n
        /\ \A i \in 1..n : Waiting[i] = kbd_buffer[Behind(read_ptr, i - 1)]
    BY WaitingIs DEF WaitingFacts
  <1>4. n < KBD_BUFFER_SIZE - 1 <=> Behind(write_ptr, 1) # read_ptr
    BY <1>1, RingSize DEF Slots, Gap, Behind
  <1>5. CASE Behind(write_ptr, 1) = read_ptr
    <2>1. UNCHANGED <<kbd_buffer, write_ptr>>
      BY <1>2, <1>5 DEF kbd_buffer_write
    <2> QED
      BY <1>1, <1>3, <1>4, <1>5, <2>1 DEF Waiting
  <1>6. CASE Behind(write_ptr, 1) # read_ptr
    <2>1. /\ kbd_buffer' = [kbd_buffer EXCEPT ![write_ptr] = c]
          /\ write_ptr' = Behind(write_ptr, 1)
      BY <1>2, <1>6 DEF kbd_buffer_write
    <2>2. Gap(read_ptr, write_ptr)' = n + 1
      BY <1>1, <1>6, <2>1, RingSize DEF Slots, Gap, Behind
    <2>3. /\ Waiting' \in Seq(Items) /\ Len(Waiting') = n + 1
          /\ \A i \in 1..n + 1 : Waiting'[i] = kbd_buffer'[Behind(read_ptr, i - 1)]
      <3>1. WaitingFacts'
        BY WaitingIs, PTL
      <3> QED
        BY <1>1, <2>2, <3>1 DEF WaitingFacts, Behind, Items
    <2>4. /\ Append(Waiting, c) \in Seq(Items) /\ Len(Append(Waiting, c)) = n + 1
          /\ \A i \in 1..n : Append(Waiting, c)[i] = Waiting[i]
          /\ Append(Waiting, c)[n + 1] = c
      BY <1>3, AppendProperties DEF Items
    <2>5. \A i \in 1..n : /\ Behind(read_ptr, i - 1) \in Slots
                          /\ Behind(read_ptr, i - 1) # write_ptr
      BY <1>1, RingSize DEF Slots, Gap, Behind
    <2>6. \A i \in 1..n + 1 : Waiting'[i] = Append(Waiting, c)[i]
      <3>1. \A i \in 1..n : Waiting'[i] = Append(Waiting, c)[i]
        BY <1>1, <1>3, <2>1, <2>3, <2>4, <2>5 DEF TypeOK, Slots
      <3>2. Waiting'[n + 1] = Append(Waiting, c)[n + 1]
        <4>1. n + 1 \in 1..n + 1 /\ (n + 1) - 1 = n
          BY <1>1, RingSize DEF Slots
        <4> QED
          BY <1>1, <2>1, <2>3, <2>4, <4>1 DEF TypeOK
      <3>3. \A i \in 1..n + 1 : i \in 1..n \/ i = n + 1
        BY <1>1, RingSize DEF Slots
      <3> QED
        BY <3>1, <3>2, <3>3
    <2>7. Waiting' = Append(Waiting, c)
      BY <2>3, <2>4, <2>6, SeqEqual
    <2> QED
      BY <1>3, <1>4, <1>6, <2>7
  <1> QED
    BY <1>5, <1>6

(* A read takes the oldest character, or finds none.                       *)
LEMMA ReadTakesHead ==
    ASSUME TypeOK, TypeOK', kbd_buffer_read
    PROVE  /\ got' = IF Waiting = <<>> THEN Nothing ELSE Head(Waiting)
           /\ Waiting' = IF Waiting = <<>> THEN Waiting ELSE Tail(Waiting)
PROOF
  <1> DEFINE n == Gap(read_ptr, write_ptr)
  <1>1. /\ read_ptr \in Slots /\ write_ptr \in Slots
        /\ UNCHANGED <<kbd_buffer, write_ptr>>
        /\ n \in Slots /\ Behind(read_ptr, n) = write_ptr
    BY GapWraps DEF TypeOK, kbd_buffer_read
  <1>2. /\ Waiting \in Seq(Items) /\ Len(Waiting) = n
        /\ \A i \in 1..n : Waiting[i] = kbd_buffer[Behind(read_ptr, i - 1)]
    BY WaitingIs DEF WaitingFacts
  <1>3. Waiting = <<>> <=> read_ptr = write_ptr
    <2>1. n = 0 <=> read_ptr = write_ptr
      BY <1>1, RingSize DEF Slots, Gap
    <2>2. Waiting = <<>> <=> Len(Waiting) = 0
      BY <1>2, EmptySeq
    <2> QED
      BY <1>2, <2>1, <2>2
  <1>4. CASE read_ptr = write_ptr
    <2>1. got' = Nothing /\ UNCHANGED read_ptr
      BY <1>4 DEF kbd_buffer_read
    <2>2. Waiting' = Waiting
      BY <1>1, <2>1 DEF Waiting
    <2> QED
      BY <1>3, <1>4, <2>1, <2>2
  <1>5. CASE read_ptr # write_ptr
    <2>1. got' = kbd_buffer[read_ptr] /\ read_ptr' = Behind(read_ptr, 1)
      BY <1>1, <1>5, RingSize, Wrap DEF kbd_buffer_read
    <2>2. n \in Nat \ {0} /\ Behind(read_ptr, 0) = read_ptr
      BY <1>1, <1>5, RingSize DEF Slots, Gap, Behind
    <2>3. Head(Waiting) = kbd_buffer[read_ptr]
      <3>1. Head(Waiting) = Waiting[1]
        BY <1>2
      <3> QED
        BY <1>2, <2>2, <3>1
    <2>4. Gap(read_ptr, write_ptr)' = n - 1
      BY <1>1, <1>5, <2>1, RingSize DEF Slots, Gap, Behind
    <2>5. /\ Waiting' \in Seq(Items) /\ Len(Waiting') = n - 1
          /\ \A i \in 1..n - 1 : Waiting'[i] = kbd_buffer[Behind(Behind(read_ptr, 1), i - 1)]
      <3>1. WaitingFacts'
        BY WaitingIs, PTL
      <3> QED
        BY <1>1, <2>1, <2>4, <3>1 DEF WaitingFacts, Behind, Items
    <2>6. /\ Tail(Waiting) \in Seq(Items) /\ Len(Tail(Waiting)) = n - 1
          /\ \A i \in 1..n - 1 : Tail(Waiting)[i] = Waiting[i + 1]
      BY <1>2, <1>3, <1>5, HeadTailProperties
    <2>7. \A i \in 1..n - 1 : /\ i + 1 \in 1..n
                              /\ Behind(Behind(read_ptr, 1), i - 1) = Behind(read_ptr, (i + 1) - 1)
      BY <1>1, RingSize DEF Slots, Behind
    <2>8. \A i \in 1..n - 1 : Waiting'[i] = Tail(Waiting)[i]
      BY <1>2, <2>5, <2>6, <2>7
    <2>9. Waiting' = Tail(Waiting)
      BY <2>5, <2>6, <2>8, SeqEqual
    <2> QED
      BY <1>3, <1>5, <2>1, <2>3, <2>9
  <1> QED
    BY <1>4, <1>5

-----------------------------------------------------------------------------
(* The theorems.                                                           *)

(* Both pointers stay in the ring, for any size of it, and nothing but     *)
(* characters is ever handed to a reader.                                  *)
THEOREM KeyboardTypeCorrect == Spec => []TypeOK
PROOF
  <1>1. KeyInv => TypeOK
    BY DEF KeyInv
  <1> QED
    BY <1>1, KeyAlways, PTL

(* keyboard_handler never leaves shift on when all shift keys are up,      *)
(* unless the last shift it was told of was made up by the keyboard.       *)
THEOREM ShiftNeverStuck == Spec => []ShiftNotStuck
PROOF
  <1>1. KeyInv => ShiftNotStuck
    BY DEF KeyInv
  <1> QED
    BY <1>1, KeyAlways, PTL

(* The ring is a queue of KBD_BUFFER_SIZE - 1 characters: for any size and *)
(* any interleaving of interrupts and reads, what kbd_buffer_write accepts *)
(* is read once and in order, and it drops a character only when full.     *)
THEOREM RingIsQueue == Spec => Implements
PROOF
  <1>1. Init => Queue!Init
    <2> SUFFICES ASSUME Init PROVE Queue!Init
      OBVIOUS
    <2>1. TypeOK /\ read_ptr = 0 /\ write_ptr = 0 /\ got = Nothing
      BY KeyInitially DEF Init, KeyInv
    <2>2. Len(Waiting) = 0 /\ Waiting \in Seq(Items)
      BY <2>1, WaitingIs DEF WaitingFacts, Gap
    <2>3. Waiting = <<>>
      BY <2>2, EmptySeq
    <2> QED
      BY <2>1, <2>3 DEF Queue!Init, Nothing, Queue!Nothing
  <1>2. ASSUME KeyInv, KeyInv', [Next]_vars
        PROVE  [Queue!Next]_<<Waiting, got>>
    <2>1. TypeOK /\ TypeOK'
      BY <1>2 DEF KeyInv
    <2>2. ASSUME NEW k \in Keys, key_pressed(k) PROVE [Queue!Next]_<<Waiting, got>>
      <3>1. UNCHANGED <<read_ptr, got>>
        BY <2>2 DEF key_pressed
      <3>2. CASE k \in DOMAIN kbd_US_low /\ Translated(k) # Nothing
        <4>1. Translated(k) \in Chars /\ kbd_buffer_write(Translated(k))
          BY <2>2, <3>2, TranslatedIsChar DEF key_pressed
        <4>2. Queue!Put(Translated(k))
          BY <2>1, <3>1, <4>1, WriteAppends DEF Queue!Put
        <4> QED
          BY <4>1, <4>2 DEF Queue!Next
      <3>3. CASE ~ (k \in DOMAIN kbd_US_low /\ Translated(k) # Nothing)
        <4>1. UNCHANGED <<kbd_buffer, write_ptr>>
          BY <2>2, <3>3 DEF key_pressed
        <4> QED
          BY <3>1, <4>1 DEF Waiting
      <3> QED
        BY <3>2, <3>3
    <2>3. ASSUME NEW k \in Keys, key_released(k) PROVE UNCHANGED <<Waiting, got>>
      BY <2>3 DEF key_released, Waiting
    <2>4. CASE kbd_buffer_read
      <3>1. Queue!Get
        BY <2>1, <2>4, ReadTakesHead DEF Queue!Get, Nothing, Queue!Nothing
      <3> QED
        BY <3>1 DEF Queue!Next
    <2>5. CASE UNCHANGED vars
      BY <2>5 DEF vars, Waiting
    <2>6. ASSUME NEW pressed \in BOOLEAN, fake_shift(pressed) PROVE UNCHANGED <<Waiting, got>>
      BY <2>6 DEF fake_shift, Waiting
    <2> QED
      BY <1>2, <2>2, <2>3, <2>4, <2>5, <2>6 DEF Next
  <1> QED
    BY <1>1, <1>2, KeyAlways, PTL DEF Spec, Implements, Queue!Spec
-----------------------------------------------------------------------------
(* The mouse.                                                              *)

Signed == (-127..127) \ {-6}

(* The packet under way, behind n answers, has moved the mouse by dx and   *)
(* dy and has b as its button.                                             *)
UnderWay(n, dx, dy, b) ==
    /\ Len(line) = n + 3 - mouse_cycle
    /\ mouse_cycle = 0 => line[n + 1] = 8 + b
    /\ mouse_cycle > 0 => mouse_byte[0] = 8 + b
    /\ mouse_cycle < 2 => line[n + 2 - mouse_cycle] = uint8(dx)
    /\ mouse_cycle = 2 => mouse_byte[1] = uint8(dx)
    /\ line[n + 3 - mouse_cycle] = uint8(dy)
    /\ pointer = <<Clamped(mouse_x + dx, screen_w), Clamped(mouse_y - dy, screen_h)>>
    /\ button = b

(* The answers that wait, by how far init_mouse is. *)
Answers(n) ==
    /\ n \in 0..2
    /\ pc = "reset" => n = 0
    /\ pc = "reset_ack" => n = 1
    /\ pc = "enable" => n \in {0, 1}
    /\ pc = "enable_ack" => n \in {1, 2}

Pending(n) ==
    /\ Answers(n) /\ n <= Len(line)
    /\ \A i \in 1..n : line[i] = ACK
    /\ n > 0 => mouse_cycle = 0
    /\ \/ Len(line) = n /\ mouse_cycle = 0 /\ AtPointer
       \/ streaming /\ \E dx, dy \in Signed, b \in {0, 1} : UnderWay(n, dx, dy, b)

Shape ==
    /\ streaming => pc \in {"enable_ack", "done"}
    /\ stolen = 0 => \E n \in 0..2 : Pending(n)
-----------------------------------------------------------------------------
LEMMA Screen == screen_w \in Nat \ {0, 1} /\ screen_h \in Nat \ {0, 1} /\ Moves \subseteq Signed
PROOF
    BY MouseAssumption DEF MouseAssumption, Signed

LEMMA ClampedOnScreen ==
    ASSUME NEW p \in Int, NEW size \in Nat \ {0, 1}
    PROVE  Clamped(p, size) \in 0..size - 1
PROOF
    BY DEF Clamped

(* A movement survives the byte it is sent in, and is never taken for an   *)
(* answer.                                                                 *)
LEMMA SignedBytes ==
    ASSUME NEW d \in Signed
    PROVE  uint8(d) \in Bytes /\ uint8(d) # ACK /\ int8(uint8(d)) = d
PROOF
  <1>1. d \in Int /\ -127 <= d /\ d <= 127 /\ d # -6
    BY DEF Signed
  <1>2. uint8(d) = IF d < 0 THEN d + 256 ELSE d
    BY <1>1 DEF uint8
  <1> QED
    BY <1>1, <1>2 DEF Bytes, ACK, int8

LEMMA FlagBytes ==
    ASSUME NEW b \in {0, 1}
    PROVE  8 + b \in Bytes /\ 8 + b # ACK /\ Left(8 + b) = b
PROOF
    BY DEF Bytes, ACK, Left

LEMMA ByteRange == ACK \in Bytes /\ \A b \in Bytes : b \in Nat /\ b < 256
PROOF
    BY DEF ACK, Bytes

(* What the steps below need of the types, in pieces the provers can take.  *)
LEMMA Types ==
    ASSUME MouseTypeOK
    PROVE  /\ mouse_x \in 0..screen_w - 1 /\ mouse_y \in 0..screen_h - 1
           /\ mouse_cycle \in 0..2 /\ mouse_byte \in [0..2 -> Bytes]
           /\ line \in Seq(Bytes)
           /\ pointer \in (0..screen_w - 1) \X (0..screen_h - 1)
           /\ stolen \in Nat
PROOF
    BY Zenon DEF MouseTypeOK

LEMMA TypeInductive ==
    ASSUME MouseTypeOK, [MouseNext]_mouseVars
    PROVE  MouseTypeOK'
PROOF
  <1>a. line \in Seq(Bytes) /\ stolen \in Nat
    BY Types
  <1>b. mouse_cycle \in 0..2 /\ mouse_byte \in [0..2 -> Bytes]
    BY Types
  <1>c. mouse_x \in Int /\ mouse_y \in Int
    BY Types, Screen
  <1>d. pointer[1] \in Int /\ pointer[2] \in Int
    BY Types, Screen
  <1>1. CASE UNCHANGED mouseVars
    BY <1>1 DEF MouseTypeOK, mouseVars, driver, device
  <1>2. CASE mouse_write
    <2>1. /\ line' = Append(line, ACK) /\ pc' \in {"reset_ack", "enable_ack"}
          /\ streaming' \in {streaming, TRUE}
          /\ UNCHANGED <<driver, pointer, button, stolen>>
      BY <1>2 DEF mouse_write, device
    <2>2. line' \in Seq(Bytes)
      <3>1. Append(line, ACK) \in Seq(Bytes)
        BY <1>a, ByteRange, AppendProperties
      <3> QED
        BY <2>1, <3>1
    <2> QED
      BY <2>1, <2>2 DEF MouseTypeOK, driver
  <1>3. CASE mouse_read
    <2>1. /\ pc' \in {"enable", "done"} /\ UNCHANGED <<driver, device, stolen>>
          /\ line' = line \/ (line # <<>> /\ line' = Tail(line))
      BY <1>3 DEF mouse_read
    <2>2. line' \in Seq(Bytes)
      <3>1. line # <<>> => Tail(line) \in Seq(Bytes)
        BY <1>a, HeadTailProperties
      <3> QED
        BY <1>a, <2>1, <3>1
    <2> QED
      BY <2>1, <2>2 DEF MouseTypeOK, driver, device
  <1>4. CASE mouse_handler
    <2>1. /\ line # <<>> /\ line' = Tail(line)
          /\ mouse_byte' = [mouse_byte EXCEPT ![mouse_cycle] = Head(line)]
          /\ stolen' = IF Head(line) = ACK THEN stolen + 1 ELSE stolen
          /\ UNCHANGED <<pc, device>>
      BY <1>4 DEF mouse_handler
    <2>2. Head(line) \in Bytes /\ line' \in Seq(Bytes)
      BY <1>a, <2>1
    <2>3. mouse_byte' \in [0..2 -> Bytes] /\ stolen' \in Nat
      BY <1>a, <1>b, <2>1, <2>2
    <2>4. CASE mouse_cycle = 2
      <3>1. Packet(Head(line))
        BY <1>4, <2>4 DEF mouse_handler
      <3>2. int8(mouse_byte[1]) \in Int /\ int8(Head(line)) \in Int
        <4>1. mouse_byte[1] \in Bytes
          BY <1>b
        <4> QED
          BY <2>2, <4>1, ByteRange DEF int8
      <3>3. mouse_x' \in 0..screen_w - 1 /\ mouse_y' \in 0..screen_h - 1
        <4>2. /\ mouse_x + int8(mouse_byte[1]) \in Int
              /\ mouse_y - int8(Head(line)) \in Int
          BY <1>c, <3>2
        <4> QED
          BY <3>1, <4>2, Screen, ClampedOnScreen DEF Packet
      <3>4. mouse_left_button' \in {0, 1}
        <4>1. mouse_byte[0] \in Nat
          <5>1. mouse_byte[0] \in Bytes
            BY <1>b
          <5> QED
            BY <5>1, ByteRange
        <4> QED
          BY <3>1, <4>1 DEF Packet, Left
      <3>5. mouse_cycle' \in 0..2
        BY <3>1 DEF Packet
      <3> QED
        BY <2>1, <2>2, <2>3, <3>3, <3>4, <3>5 DEF MouseTypeOK, device
    <2>5. CASE mouse_cycle # 2
      <3>1. mouse_cycle' = mouse_cycle + 1 /\ UNCHANGED <<mouse_x, mouse_y, mouse_left_button>>
        BY <1>4, <2>5 DEF mouse_handler
      <3>2. mouse_cycle' \in 0..2
        BY <1>b, <2>5, <3>1
      <3> QED
        BY <2>1, <2>2, <2>3, <3>1, <3>2 DEF MouseTypeOK, device
    <2> QED
      BY <2>4, <2>5
  <1>5. CASE MouseMoves
    <2>1. PICK dx \in Moves, dy \in Moves, b \in {0, 1} :
             /\ line' = line \o <<8 + b, uint8(dx), uint8(dy)>>
             /\ pointer' = <<Clamped(pointer[1] + dx, screen_w),
                             Clamped(pointer[2] - dy, screen_h)>>
             /\ button' = b
      BY <1>5 DEF MouseMoves
    <2>2. dx \in Signed /\ dy \in Signed
      BY Screen
    <2>3. line' \in Seq(Bytes)
      <3>1. 8 + b \in Bytes /\ uint8(dx) \in Bytes /\ uint8(dy) \in Bytes
        BY <2>2, SignedBytes, FlagBytes
      <3>2. <<8 + b, uint8(dx), uint8(dy)>> \in Seq(Bytes)
        BY <3>1
      <3> QED
        BY <1>a, <2>1, <3>2
    <2>4. pointer' \in (0..screen_w - 1) \X (0..screen_h - 1)
      <3>1. pointer[1] + dx \in Int /\ pointer[2] - dy \in Int
        BY <1>d, <2>2 DEF Signed
      <3>2. /\ Clamped(pointer[1] + dx, screen_w) \in 0..screen_w - 1
            /\ Clamped(pointer[2] - dy, screen_h) \in 0..screen_h - 1
        BY <3>1, Screen, ClampedOnScreen
      <3> QED
        BY <2>1, <3>2
    <2>5. UNCHANGED <<pc, driver, streaming, stolen>>
      BY <1>5 DEF MouseMoves
    <2> QED
      BY <2>1, <2>3, <2>4, <2>5 DEF MouseTypeOK, driver
  <1> QED
    BY <1>1, <1>2, <1>3, <1>4, <1>5 DEF MouseNext

LEMMA InitType == MouseInit => MouseTypeOK
PROOF
  <1> SUFFICES ASSUME MouseInit PROVE MouseTypeOK
    OBVIOUS
  <1>1. screen_w \div 2 \in 0..screen_w - 1 /\ screen_h \div 2 \in 0..screen_h - 1
    BY Screen
  <1>2. NoBytes \in [0..2 -> Bytes]
    BY DEF NoBytes, Bytes
  <1>3. line \in Seq(Bytes)
    BY DEF MouseInit
  <1>4. pointer \in (0..screen_w - 1) \X (0..screen_h - 1)
    BY <1>1 DEF MouseInit
  <1> QED
    BY <1>1, <1>2, <1>3, <1>4 DEF MouseInit, MouseTypeOK

(* Every variable of the driver keeps its type: the pointer stays on the   *)
(* screen and the byte count in the packet, whatever bytes come.           *)
THEOREM MouseTypeCorrect == MouseSpec => []MouseTypeOK
PROOF
    BY InitType, TypeInductive, PTL DEF MouseSpec
-----------------------------------------------------------------------------
LEMMA InitShape == MouseInit => Shape
PROOF
  <1> SUFFICES ASSUME MouseInit PROVE Shape
    OBVIOUS
  <1>1. pc = "reset" /\ line = <<>> /\ mouse_cycle = 0 /\ ~ streaming
    BY DEF MouseInit
  <1>2. AtPointer
    BY DEF MouseInit, AtPointer
  <1>3. Pending(0)
    BY <1>1, <1>2 DEF Pending, Answers
  <1> QED
    BY <1>1, <1>3 DEF Shape

(* What the steps need of Shape: the answers are either all that is on the *)
(* line, or a packet is behind them.                                       *)
LEMMA Cases ==
    ASSUME Shape, stolen = 0
    PROVE  \E n \in 0..2 :
              /\ Answers(n) /\ n <= Len(line)
              /\ \A i \in 1..n : line[i] = ACK
              /\ n > 0 => mouse_cycle = 0
              /\ \/ Len(line) = n /\ mouse_cycle = 0 /\ AtPointer
                 \/ /\ pc \in {"enable_ack", "done"}
                    /\ \E dx, dy \in Signed, b \in {0, 1} : UnderWay(n, dx, dy, b)
PROOF
    BY Zenon DEF Shape, Pending

LEMMA WriteShape ==
    ASSUME MouseTypeOK, Shape, mouse_write
    PROVE  Shape'
PROOF
  <1>1. /\ line' = Append(line, ACK) /\ pc \in {"reset", "enable"}
        /\ pc' = IF pc = "reset" THEN "reset_ack" ELSE "enable_ack"
        /\ UNCHANGED <<mouse_cycle, mouse_x, mouse_y, mouse_left_button, pointer, button, stolen>>
    BY DEF mouse_write, driver, device
  <1>2. streaming' => pc' \in {"enable_ack", "done"}
    BY DEF mouse_write, Shape, device
  <1>3. ASSUME stolen' = 0
        PROVE  \E n \in 0..2 : Pending(n)'
    <2>1. PICK n \in 0..2 : /\ Answers(n) /\ Len(line) = n
                            /\ \A i \in 1..n : line[i] = ACK
                            /\ mouse_cycle = 0 /\ AtPointer
      BY <1>1, <1>3, Cases
    <2>2. n + 1 \in 0..2 /\ Answers(n + 1)'
      <3>1. Answers(n)
        BY <2>1
      <3>2. \/ pc = "reset" /\ pc' = "reset_ack"
            \/ pc = "enable" /\ pc' = "enable_ack"
        BY <1>1
      <3> QED
        BY <3>1, <3>2 DEF Answers
    <2>3. Len(line') = n + 1 /\ \A i \in 1..n + 1 : line'[i] = ACK
      <3>1. line \in Seq(Bytes)
        BY Types
      <3>2. /\ Len(line') = Len(line) + 1 /\ line'[Len(line) + 1] = ACK
            /\ \A i \in 1..Len(line) : line'[i] = line[i]
        <4>1. line' = Append(line, ACK) /\ ACK \in Bytes
          BY <1>1, ByteRange
        <4> QED
          BY <3>1, <4>1, AppendProperties
      <3>3. \A i \in 1..n + 1 : i \in 1..n \/ i = n + 1
        OBVIOUS
      <3> QED
        BY <2>1, <3>2, <3>3
    <2>4. AtPointer' /\ mouse_cycle' = 0
      BY <1>1, <2>1 DEF AtPointer
    <2>5. Pending(n + 1)'
      BY <2>1, <2>2, <2>3, <2>4 DEF Pending
    <2> QED
      BY <2>2, <2>5
  <1> QED
    BY <1>2, <1>3 DEF Shape

LEMMA ReadShape ==
    ASSUME MouseTypeOK, Shape, mouse_read
    PROVE  Shape'
PROOF
  <1>1. /\ pc \in {"reset_ack", "enable_ack"}
        /\ pc' = IF pc = "reset_ack" THEN "enable" ELSE "done"
        /\ line' = line \/ (line # <<>> /\ line' = Tail(line))
        /\ UNCHANGED <<mouse_cycle, mouse_byte, mouse_x, mouse_y, mouse_left_button>>
        /\ UNCHANGED <<pointer, button, streaming, stolen>>
    BY DEF mouse_read, driver, device
  <1>2. streaming' => pc' \in {"enable_ack", "done"}
    BY <1>1 DEF Shape
  <1>3. ASSUME stolen' = 0
        PROVE  \E n \in 0..2 : Pending(n)'
    <2>1. PICK n \in 0..2 : Pending(n)
      BY <1>1, <1>3 DEF Shape
    <2>2. Answers(n) /\ n <= Len(line) /\ (n > 0 => mouse_cycle = 0)
      BY <2>1 DEF Pending
    <2>3. n >= 1 /\ Answers(n)' /\ Answers(n - 1)' /\ mouse_cycle = 0
      <3>1. Answers(n) /\ n \in Nat /\ (n > 0 => mouse_cycle = 0)
        BY <2>2
      <3>2. \/ pc = "reset_ack" /\ pc' = "enable"
            \/ pc = "enable_ack" /\ pc' = "done"
        BY <1>1
      <3> QED
        BY <3>1, <3>2 DEF Answers
    <2>4. CASE line' = line
      <3>1. AtPointer' <=> AtPointer
        BY <1>1 DEF AtPointer
      <3>2. \A dx, dy \in Signed, b \in {0, 1} : UnderWay(n, dx, dy, b) => UnderWay(n, dx, dy, b)'
        BY <1>1, <2>4 DEF UnderWay
      <3>3. Pending(n)'
        BY <1>1, <2>1, <2>3, <2>4, <3>1, <3>2 DEF Pending
      <3> QED
        BY <3>3
    <2>5. CASE line # <<>> /\ line' = Tail(line)
      <3>1. Len(line') = Len(line) - 1 /\ \A i \in 1..Len(line) - 1 : line'[i] = line[i + 1]
        <4>1. line \in Seq(Bytes)
          BY Types
        <4> QED
          BY <2>5, <4>1, HeadTailProperties
      <3>2. Len(line) \in Nat
        BY Types, LenProperties
      <3>3. n - 1 \in 0..2 /\ n - 1 <= Len(line') /\ \A i \in 1..n - 1 : line'[i] = ACK
        <4>1. \A i \in 1..n : line[i] = ACK
          BY <2>1 DEF Pending
        <4> QED
          BY <2>2, <2>3, <3>1, <3>2, <4>1
      <3>4. AtPointer' <=> AtPointer
        BY <1>1 DEF AtPointer
      <3>5. \A dx, dy \in Signed, b \in {0, 1} :
                UnderWay(n, dx, dy, b) => UnderWay(n - 1, dx, dy, b)'
        <4> SUFFICES ASSUME NEW dx \in Signed, NEW dy \in Signed, NEW b \in {0, 1},
                            UnderWay(n, dx, dy, b)
                     PROVE  UnderWay(n - 1, dx, dy, b)'
          OBVIOUS
        <4>1. Len(line) = n + 3
          BY <2>3 DEF UnderWay
        <4>2. line'[n] = line[n + 1] /\ line'[n + 1] = line[n + 2] /\ line'[n + 2] = line[n + 3]
          <5>1. n \in 1..2
            BY <2>3
          <5>2. /\ n \in 1..Len(line) - 1 /\ n + 1 \in 1..Len(line) - 1
                /\ n + 2 \in 1..Len(line) - 1
                /\ (n + 1) + 1 = n + 2 /\ (n + 2) + 1 = n + 3
            BY <4>1, <5>1
          <5>3. \A i \in 1..Len(line) - 1 : line'[i] = line[i + 1]
            BY <3>1
          <5> QED
            BY <5>2, <5>3
        <4>3. Len(line') = (n - 1) + 3
          BY <3>1, <4>1
        <4>4. /\ (n - 1) + 1 = n /\ (n - 1) + 2 = n + 1 /\ (n - 1) + 3 = n + 2
              /\ n + 2 - 0 = n + 2 /\ n + 3 - 0 = n + 3
          OBVIOUS
        <4>5. /\ mouse_cycle = 0 /\ mouse_cycle' = 0
              /\ UNCHANGED <<mouse_x, mouse_y, pointer, button>>
          BY <1>1, <2>3
        <4>6. line[n + 1] = 8 + b /\ line[n + 2] = uint8(dx) /\ line[n + 3] = uint8(dy)
          BY <2>3, <4>4 DEF UnderWay
        <4>7. /\ pointer = <<Clamped(mouse_x + dx, screen_w), Clamped(mouse_y - dy, screen_h)>>
              /\ button = b
          BY DEF UnderWay
        <4> QED
          BY <4>2, <4>3, <4>4, <4>5, <4>6, <4>7 DEF UnderWay
      <3>6. Len(line) = n => Len(line') = n - 1
        BY <3>1
      <3>7. Pending(n - 1)'
        BY <1>1, <2>1, <2>3, <3>3, <3>4, <3>5, <3>6 DEF Pending
      <3> QED
        BY <3>3, <3>7
    <2> QED
      BY <1>1, <2>4, <2>5
  <1> QED
    BY <1>2, <1>3 DEF Shape

LEMMA HandlerShape ==
    ASSUME MouseTypeOK, Shape, mouse_handler
    PROVE  Shape'
PROOF
  <1>1. /\ line # <<>> /\ line' = Tail(line)
        /\ mouse_byte' = [mouse_byte EXCEPT ![mouse_cycle] = Head(line)]
        /\ stolen' = IF Head(line) = ACK THEN stolen + 1 ELSE stolen
        /\ UNCHANGED <<pc, streaming, pointer, button>>
    BY DEF mouse_handler, device
  <1>2. streaming' => pc' \in {"enable_ack", "done"}
    BY <1>1 DEF Shape
  <1>3. ASSUME stolen' = 0
        PROVE  \E n \in 0..2 : Pending(n)'
    <2>1. stolen = 0 /\ Head(line) # ACK
      <3>1. stolen \in Nat
        BY Types
      <3> QED
        BY <1>1, <1>3, <3>1
    <2>2. PICK n \in 0..2 : Pending(n)
      BY <2>1 DEF Shape
    <2>3. /\ line \in Seq(Bytes) /\ Len(line) \in Nat /\ Len(line) >= 1
          /\ Len(line') = Len(line) - 1 /\ Head(line) = line[1]
          /\ \A i \in 1..Len(line) - 1 : line'[i] = line[i + 1]
      <3>1. line \in Seq(Bytes)
        BY Types
      <3>2. Len(line) \in Nat /\ Len(line) # 0
        BY <1>1, <3>1, LenProperties, EmptySeq
      <3>3. line # <<>> /\ line' = Tail(line)
        BY <1>1
      <3> QED
        BY <3>1, <3>2, <3>3, HeadTailProperties
    <2>4. n = 0
      <3>1. \A i \in 1..n : line[i] = ACK
        BY <2>2 DEF Pending
      <3> QED
        BY <2>1, <2>3, <3>1
    <2>5. streaming /\ \E dx, dy \in Signed, b \in {0, 1} : UnderWay(0, dx, dy, b)
      BY <2>2, <2>3, <2>4 DEF Pending
    <2>6. PICK dx \in Signed, dy \in Signed, b \in {0, 1} : UnderWay(0, dx, dy, b)
      BY <2>5
    <2>8. mouse_cycle \in {0, 1, 2} /\ mouse_byte \in [0..2 -> Bytes]
      <3>1. mouse_cycle \in 0..2 /\ mouse_byte \in [0..2 -> Bytes]
        BY Types
      <3> QED
        BY <3>1
    <2>7. /\ Len(line) = 3 - mouse_cycle
          /\ mouse_cycle = 0 => line[1] = 8 + b
          /\ mouse_cycle > 0 => mouse_byte[0] = 8 + b
          /\ mouse_cycle < 2 => line[2 - mouse_cycle] = uint8(dx)
          /\ mouse_cycle = 2 => mouse_byte[1] = uint8(dx)
          /\ line[3 - mouse_cycle] = uint8(dy)
          /\ pointer = <<Clamped(mouse_x + dx, screen_w), Clamped(mouse_y - dy, screen_h)>>
          /\ button = b
      <3>1. /\ 0 + 1 = 1 /\ 0 + 2 - mouse_cycle = 2 - mouse_cycle
            /\ 0 + 3 - mouse_cycle = 3 - mouse_cycle
        BY <2>8
      <3> QED
        BY <2>6, <3>1, Zenon DEF UnderWay
    <2>9. Answers(0)'
      <3>1. Answers(0)
        BY <2>2, <2>4 DEF Pending
      <3> QED
        BY <1>1, <3>1 DEF Answers
    <2>10. CASE mouse_cycle = 2
      <3>1. Packet(Head(line))
        BY <2>10 DEF mouse_handler
      <3>2. Head(line) = uint8(dy) /\ mouse_byte[1] = uint8(dx) /\ mouse_byte[0] = 8 + b
        BY <2>3, <2>7, <2>10
      <3>3. /\ mouse_x' = Clamped(mouse_x + dx, screen_w)
            /\ mouse_y' = Clamped(mouse_y - dy, screen_h)
            /\ mouse_left_button' = b /\ mouse_cycle' = 0
        BY <3>1, <3>2, SignedBytes, FlagBytes DEF Packet
      <3>4. AtPointer'
        BY <1>1, <2>7, <3>3 DEF AtPointer
      <3>5. Len(line') = 0
        BY <2>3, <2>7, <2>10
      <3>6. Pending(0)'
        BY <2>9, <3>3, <3>4, <3>5 DEF Pending
      <3> QED
        BY <3>6
    <2>11. CASE mouse_cycle \in {0, 1}
      <3>1. mouse_cycle' = mouse_cycle + 1 /\ UNCHANGED <<mouse_x, mouse_y, mouse_left_button>>
        BY <2>11 DEF mouse_handler
      <3>2. /\ mouse_byte'[mouse_cycle] = line[1]
            /\ mouse_cycle = 1 => mouse_byte'[0] = mouse_byte[0]
        BY <1>1, <2>3, <2>8
      <3>3. UnderWay(0, dx, dy, b)'
        <4>1. CASE mouse_cycle = 0
          <5>1. /\ mouse_cycle' = 1 /\ mouse_byte'[0] = 8 + b /\ Len(line) = 3
                /\ line[2] = uint8(dx) /\ line[3] = uint8(dy)
            BY <2>7, <3>1, <3>2, <4>1
          <5>2. Len(line') = 2 /\ line'[1] = uint8(dx) /\ line'[2] = uint8(dy)
            BY <2>3, <5>1
          <5>3. /\ 0 + 3 - 1 = 2 /\ 0 + 2 - 1 = 1 /\ 0 + 1 = 1
                /\ 1 # 0 /\ 1 > 0 /\ 1 < 2 /\ 1 # 2
            OBVIOUS
          <5>4. /\ pointer' = <<Clamped(mouse_x' + dx, screen_w),
                                Clamped(mouse_y' - dy, screen_h)>>
                /\ button' = b
            BY <1>1, <2>7, <3>1
          <5> QED
            BY <5>1, <5>2, <5>3, <5>4, Zenon DEF UnderWay
        <4>2. CASE mouse_cycle = 1
          <5>1. /\ mouse_cycle' = 2 /\ mouse_byte'[0] = 8 + b /\ Len(line) = 2
                /\ mouse_byte'[1] = uint8(dx) /\ line[2] = uint8(dy)
            BY <2>7, <3>1, <3>2, <4>2
          <5>2. Len(line') = 1 /\ line'[1] = uint8(dy)
            BY <2>3, <5>1
          <5>3. /\ 0 + 3 - 2 = 1 /\ 2 # 0 /\ 2 > 0 /\ ~ (2 < 2)
            OBVIOUS
          <5>4. /\ pointer' = <<Clamped(mouse_x' + dx, screen_w),
                                Clamped(mouse_y' - dy, screen_h)>>
                /\ button' = b
            BY <1>1, <2>7, <3>1
          <5> QED
            BY <5>1, <5>2, <5>3, <5>4, Zenon DEF UnderWay
        <4> QED
          BY <2>11, <4>1, <4>2
      <3>4. streaming' /\ \E ex, ey \in Signed, c \in {0, 1} : UnderWay(0, ex, ey, c)'
        BY <1>1, <2>5, <3>3
      <3>5. 0 <= Len(line')
        BY <2>3
      <3>6. Pending(0)'
        BY <2>9, <3>4, <3>5 DEF Pending
      <3> QED
        BY <3>6
    <2> QED
      BY <2>8, <2>10, <2>11
  <1> QED
    BY <1>2, <1>3 DEF Shape

(* No movement is sent before the bytes of the last one are read: the last *)
(* byte of a packet is no answer.                                          *)
LEMMA MovesShape ==
    ASSUME MouseTypeOK, Shape, MouseMoves
    PROVE  Shape'
PROOF
  <1>1. /\ streaming /\ \A i \in DOMAIN line : line[i] = ACK
        /\ UNCHANGED <<pc, streaming, stolen>>
        /\ UNCHANGED <<mouse_cycle, mouse_byte, mouse_x, mouse_y, mouse_left_button>>
    BY DEF MouseMoves, driver
  <1>2. PICK dx \in Moves, dy \in Moves, b \in {0, 1} :
           /\ line' = line \o <<8 + b, uint8(dx), uint8(dy)>>
           /\ pointer' = <<Clamped(pointer[1] + dx, screen_w),
                           Clamped(pointer[2] - dy, screen_h)>>
           /\ button' = b
    BY DEF MouseMoves
  <1>3. dx \in Signed /\ dy \in Signed
    BY Screen
  <1>4. streaming' => pc' \in {"enable_ack", "done"}
    BY <1>1 DEF Shape
  <1>5. ASSUME stolen' = 0
        PROVE  \E n \in 0..2 : Pending(n)'
    <2>1. PICK n \in 0..2 : Pending(n)
      BY <1>1, <1>5 DEF Shape
    <2>2. line \in Seq(Bytes) /\ Len(line) \in Nat /\ DOMAIN line = 1..Len(line)
      <3>1. line \in Seq(Bytes)
        BY Types
      <3> QED
        BY <3>1, LenProperties
    <2>3. \A ex, ey \in Signed, c \in {0, 1} : ~ UnderWay(n, ex, ey, c)
      <3> SUFFICES ASSUME NEW ex \in Signed, NEW ey \in Signed, NEW c \in {0, 1},
                          UnderWay(n, ex, ey, c)
                   PROVE  FALSE
        OBVIOUS
      <3>1. Len(line) = n + 3 - mouse_cycle /\ line[n + 3 - mouse_cycle] = uint8(ey)
        BY DEF UnderWay
      <3>2. mouse_cycle \in 0..2
        BY Types
      <3>3. Len(line) \in DOMAIN line
        BY <2>2, <3>1, <3>2
      <3>4. line[Len(line)] = ACK
        BY <1>1, <3>3
      <3> QED
        BY <3>1, <3>4, SignedBytes
    <2>4. Len(line) = n /\ mouse_cycle = 0 /\ AtPointer
      BY <2>1, <2>3 DEF Pending
    <2>5. /\ Len(line') = n + 3
          /\ \A i \in 1..n : line'[i] = line[i]
          /\ line'[n + 1] = 8 + b /\ line'[n + 2] = uint8(dx) /\ line'[n + 3] = uint8(dy)
      <3> DEFINE packet == <<8 + b, uint8(dx), uint8(dy)>>
      <3>1. packet \in Seq(Bytes)
        <4>1. 8 + b \in Bytes /\ uint8(dx) \in Bytes /\ uint8(dy) \in Bytes
          BY <1>3, SignedBytes, FlagBytes
        <4> QED
          BY <4>1
      <3>2. /\ Len(packet) = 3
            /\ packet[1] = 8 + b /\ packet[2] = uint8(dx) /\ packet[3] = uint8(dy)
        OBVIOUS
      <3>3. line' = line \o packet
        BY <1>2
      <3> HIDE DEF packet
      <3>4. /\ Len(line \o packet) = Len(line) + Len(packet)
            /\ \A i \in 1..Len(line) + Len(packet) :
                  (line \o packet)[i] = IF i <= Len(line) THEN line[i]
                                        ELSE packet[i - Len(line)]
        BY <2>2, <3>1, ConcatProperties
      <3>5. /\ Len(line') = n + 3
            /\ \A i \in 1..n + 3 : line'[i] = IF i <= n THEN line[i] ELSE packet[i - n]
        BY <2>4, <3>2, <3>3, <3>4
      <3>6. n \in Nat /\ (n + 1) - n = 1 /\ (n + 2) - n = 2 /\ (n + 3) - n = 3
        OBVIOUS
      <3>7. line'[n + 1] = packet[1] /\ line'[n + 2] = packet[2] /\ line'[n + 3] = packet[3]
        BY <3>5, <3>6
      <3>8. \A i \in 1..n : line'[i] = line[i]
        BY <3>5
      <3> QED
        BY <3>2, <3>5, <3>7, <3>8
    <2>6. UnderWay(n, dx, dy, b)'
      <3>1. n + 3 - 0 = n + 3 /\ n + 2 - 0 = n + 2 /\ 0 < 2 /\ ~ (0 > 0) /\ 0 # 2
        OBVIOUS
      <3>2. pointer[1] = mouse_x /\ pointer[2] = mouse_y
        BY <2>4 DEF AtPointer
      <3>3. /\ pointer' = <<Clamped(mouse_x' + dx, screen_w),
                            Clamped(mouse_y' - dy, screen_h)>>
            /\ button' = b /\ mouse_cycle' = 0
        BY <1>1, <1>2, <2>4, <3>2
      <3> QED
        BY <2>5, <3>1, <3>3, Zenon DEF UnderWay
    <2>7. Answers(n)' /\ n <= Len(line') /\ mouse_cycle' = 0
      <3>1. Answers(n)
        BY <2>1 DEF Pending
      <3>2. Answers(n)'
        BY <1>1, <3>1 DEF Answers
      <3> QED
        BY <1>1, <2>4, <2>5, <3>2
    <2>8. \A i \in 1..n : line'[i] = ACK
      <3>1. \A i \in 1..n : line[i] = ACK
        BY <2>1 DEF Pending
      <3> QED
        BY <2>5, <3>1
    <2>9. streaming' /\ \E ex, ey \in Signed, c \in {0, 1} : UnderWay(n, ex, ey, c)'
      BY <1>1, <1>3, <2>6
    <2>10. Pending(n)'
      BY <2>7, <2>8, <2>9 DEF Pending
    <2> QED
      BY <2>10
  <1> QED
    BY <1>4, <1>5 DEF Shape

LEMMA StutterShape ==
    ASSUME Shape, UNCHANGED mouseVars
    PROVE  Shape'
PROOF
    BY DEF Shape, Pending, Answers, UnderWay, AtPointer, mouseVars, driver, device

LEMMA ShapeInductive ==
    ASSUME MouseTypeOK, Shape, [MouseNext]_mouseVars
    PROVE  Shape'
PROOF
    BY WriteShape, ReadShape, HandlerShape, MovesShape, StutterShape DEF MouseNext

LEMMA ShapeFollows ==
    ASSUME MouseTypeOK, Shape
    PROVE  FollowsDevice
PROOF
  <1> SUFFICES ASSUME Quiet, stolen = 0 PROVE AtPointer
    BY DEF FollowsDevice
  <1>1. PICK n \in 0..2 : Pending(n)
    BY DEF Shape
  <1>2. Len(line) = 0
    BY DEF Quiet
  <1>3. \A dx, dy \in Signed, b \in {0, 1} : ~ UnderWay(n, dx, dy, b)
    <2>1. mouse_cycle \in 0..2
      BY Types
    <2>2. n + 3 - mouse_cycle # 0
      BY <2>1
    <2> QED
      BY <1>2, <2>2 DEF UnderWay
  <1> QED
    BY <1>1, <1>3 DEF Pending

(* If init_mouse has read both answers itself, then whenever the bytes of  *)
(* the mouse are all read the driver has its pointer and its button, on    *)
(* any screen and after any movements (mouse.c:45-72).                     *)
THEOREM AlwaysFollowsDevice == MouseSpec => []FollowsDevice
PROOF
  <1>1. MouseInit => MouseTypeOK /\ Shape
    BY InitType, InitShape
  <1>2. MouseTypeOK /\ Shape /\ [MouseNext]_mouseVars => (MouseTypeOK /\ Shape)'
    BY TypeInductive, ShapeInductive
  <1>3. MouseTypeOK /\ Shape => FollowsDevice
    BY ShapeFollows
  <1> QED
    BY <1>1, <1>2, <1>3, PTL DEF MouseSpec
=============================================================================
