------------------------------ MODULE Keyboard ------------------------------
(***************************************************************************)
(* The keyboard driver, src/src/drivers/keyboard.c: the scancodes of keys  *)
(* that go down, repeat and come up, the shift and caps lock state, the    *)
(* two translation tables, and the ring of characters that SYS_READ takes  *)
(* from.  The wake-up of a reader is in module Process.                    *)
(*                                                                         *)
(* The keyboard itself is external: it sends a scancode when a key goes    *)
(* down, again and again while the key stays down, and when it comes up.   *)
(* For a key of the extended block it sends 0xE0 first, which the handler  *)
(* drops: the next byte is then taken for that of a plain key.  Around     *)
(* such keys it also sends the codes of a shift nobody has pressed or let  *)
(* go (0xE0 0x2A, 0xE0 0xAA); which keys and when differs, so here at any  *)
(* time.                                                                   *)
(***************************************************************************)
EXTENDS Integers, Sequences

CONSTANTS
    KBD_BUFFER_SIZE,
    Keys            \* the keys pressed, a subset of AllKeys

Shifts == {"left shift", "right shift"}     \* scancodes 42 and 54
\* "arrow" and "asterisk" (print screen) have a plain twin on the keypad.
AllKeys == Shifts \cup {"caps lock", "letter", "digit", "arrow", "asterisk"}

(* kbd_US_low and kbd_US_high, for one key of each kind; Nothing where the *)
(* table holds 0.                                                          *)
Nothing == "nothing"
kbd_US_low == [letter |-> "a", digit |-> "1", arrow |-> "up", asterisk |-> "*"]
kbd_US_high == [letter |-> "A", digit |-> "!", arrow |-> Nothing, asterisk |-> "*"]
Chars == {"a", "A", "1", "!", "up", "*"}

ASSUME KeyboardAssumption ==
    /\ KBD_BUFFER_SIZE \in Nat \ {0, 1}
    /\ Keys \subseteq AllKeys

VARIABLES
    shift_pressed, caps_lock,
    kbd_buffer, read_ptr, write_ptr,
    got,            \* what the last SYS_READ found, "nothing" for 0
    down,           \* external: the keys that are down
    made_up         \* whether no key was behind the last code of a shift

vars == <<shift_pressed, caps_lock, kbd_buffer, read_ptr, write_ptr, got, down, made_up>>

Slots == 0..KBD_BUFFER_SIZE - 1

TypeOK ==
    /\ shift_pressed \in BOOLEAN /\ caps_lock \in BOOLEAN
    /\ kbd_buffer \in [Slots -> Chars \cup {Nothing}]
    /\ read_ptr \in Slots /\ write_ptr \in Slots
    /\ got \in Chars \cup {Nothing}
    /\ down \subseteq Keys /\ made_up \in BOOLEAN
-----------------------------------------------------------------------------
Init ==
    /\ shift_pressed = FALSE /\ caps_lock = FALSE
    /\ kbd_buffer = [i \in Slots |-> Nothing]
    /\ read_ptr = 0 /\ write_ptr = 0
    /\ got = Nothing
    /\ down = {} /\ made_up = FALSE

(* Seeded fault: the ring is filled to its last slot. *)
WriteUntilEqual(c) ==
    /\ kbd_buffer' = [kbd_buffer EXCEPT ![write_ptr] = c]
    /\ write_ptr' = (write_ptr + 1) % KBD_BUFFER_SIZE

kbd_buffer_write(c) ==
    LET next_write == (write_ptr + 1) % KBD_BUFFER_SIZE
    IN  IF next_write # read_ptr
        THEN /\ kbd_buffer' = [kbd_buffer EXCEPT ![write_ptr] = c]
             /\ write_ptr' = next_write
        ELSE UNCHANGED <<kbd_buffer, write_ptr>>

(* Caps lock changes only letters, and only the table without shift. *)
Translated(k) ==
    IF shift_pressed THEN kbd_US_high[k]
    ELSE IF caps_lock /\ kbd_US_low[k] = "a" THEN "A" ELSE kbd_US_low[k]

(* The interrupt for a key that goes down or repeats. *)
key_pressed(k) ==
    /\ down' = down \cup {k}
    /\ shift_pressed' = (shift_pressed \/ k \in Shifts)
    /\ made_up' = (made_up /\ k \notin Shifts)
    /\ caps_lock' = IF k = "caps lock" THEN ~caps_lock ELSE caps_lock
    /\ IF k \in DOMAIN kbd_US_low /\ Translated(k) # Nothing
       THEN kbd_buffer_write(Translated(k))
       ELSE UNCHANGED <<kbd_buffer, write_ptr>>
    /\ UNCHANGED <<read_ptr, got>>

(* Seeded fault: the release of shift is not seen. *)
ReleaseIgnored(k) ==
    /\ k \in down
    /\ down' = down \ {k}
    /\ made_up' = (made_up /\ k \notin Shifts)
    /\ UNCHANGED <<shift_pressed, caps_lock, kbd_buffer, read_ptr, write_ptr, got>>

(* The interrupt for a key that comes up. *)
key_released(k) ==
    /\ k \in down
    /\ down' = down \ {k}
    /\ shift_pressed' = IF k \in Shifts THEN FALSE ELSE shift_pressed
    /\ made_up' = (made_up /\ k \notin Shifts)
    /\ UNCHANGED <<caps_lock, kbd_buffer, read_ptr, write_ptr, got>>

(* The interrupts for a shift that is made up, down or up. *)
fake_shift(pressed) ==
    /\ shift_pressed' = pressed /\ made_up' = TRUE
    /\ UNCHANGED <<caps_lock, kbd_buffer, read_ptr, write_ptr, got, down>>

(* SYS_READ, which runs with interrupts disabled. *)
kbd_buffer_read ==
    /\ IF read_ptr = write_ptr
       THEN got' = Nothing /\ UNCHANGED read_ptr
       ELSE got' = kbd_buffer[read_ptr] /\ read_ptr' = (read_ptr + 1) % KBD_BUFFER_SIZE
    /\ UNCHANGED <<shift_pressed, caps_lock, kbd_buffer, write_ptr, down, made_up>>

Next ==
    \/ \E k \in Keys : key_pressed(k) \/ key_released(k)
    \/ \E pressed \in BOOLEAN : fake_shift(pressed)
    \/ kbd_buffer_read

Spec == Init /\ [][Next]_vars
-----------------------------------------------------------------------------
(* Properties.                                                             *)

(* The characters between the two pointers, oldest first. *)
Waiting ==
    [i \in 1..(write_ptr - read_ptr) % KBD_BUFFER_SIZE |->
        kbd_buffer[(read_ptr + i - 1) % KBD_BUFFER_SIZE]]

(* The ring and its two pointers implement a queue that holds one          *)
(* character less than the ring has slots: no interleaving of interrupts   *)
(* and reads loses, repeats or reorders a character that was accepted.     *)
Queue == INSTANCE CharQueue WITH queue <- Waiting, Capacity <- KBD_BUFFER_SIZE - 1
Implements == Queue!Spec

(* Shift is on only while a shift key is really down, unless the keyboard  *)
(* has made up the last shift the handler was told of: keys of two shifts, *)
(* of the other kinds and of the extended block in any order do not make   *)
(* it stick (keyboard.c:54-70).                                            *)
ShiftNotStuck == shift_pressed /\ ~made_up => down \cap Shifts # {}
=============================================================================
