-------------------------------- MODULE Mouse --------------------------------
(***************************************************************************)
(* The mouse driver, src/src/drivers/mouse.c: the two commands init_mouse  *)
(* sends, the answers it polls for while IRQ 12 is already enabled, and    *)
(* the handler that assembles three bytes to a packet and moves the        *)
(* pointer.                                                                *)
(*                                                                         *)
(* The mouse itself is external: it answers a command with one byte, and   *)
(* once it streams it sends three bytes for every movement or click.       *)
(***************************************************************************)
EXTENDS Integers, Sequences

CONSTANTS
    screen_w, screen_h,
    Moves               \* the movements of one packet, from -127 to 127

ASSUME MouseAssumption ==
    /\ screen_w \in Nat \ {0, 1} /\ screen_h \in Nat \ {0, 1}
    /\ Moves \subseteq (-127..127) \ {-6}      \* -6 is sent as the byte of an answer

VARIABLES
    pc,                             \* how far init_mouse is
    mouse_x, mouse_y, mouse_left_button,
    mouse_cycle, mouse_byte,
    line,                           \* external: bytes sent and not yet read
    streaming,                      \* external: the mouse sends packets
    pointer, button,                \* external: where the packets sent lead to
    stolen                          \* answers the handler took for packet bytes

driver == <<mouse_x, mouse_y, mouse_left_button, mouse_cycle, mouse_byte>>
device == <<streaming, pointer, button>>
mouseVars == <<pc, driver, line, device, stolen>>

Bytes == 0..255
ACK == 250
NoBytes == [i \in 0..2 |-> 0]       \* mouse_byte[3] at boot
Left(flags) == flags % 2
(* Seeded fault: a byte is taken as unsigned. *)
int8_unsigned(b) == b
int8(b) == IF b > 127 THEN b - 256 ELSE b
uint8(i) == i % 256

(* The two clamping lines, for a screen that is size pixels wide or high. *)
Clamped(p, size) == IF p < 0 THEN 0 ELSE IF p >= size - 1 THEN size - 1 ELSE p

MouseTypeOK ==
    /\ pc \in {"reset", "reset_ack", "enable", "enable_ack", "done"}
    /\ mouse_x \in 0..screen_w - 1 /\ mouse_y \in 0..screen_h - 1
    /\ mouse_left_button \in {0, 1}
    /\ mouse_cycle \in 0..2 /\ mouse_byte \in [0..2 -> Bytes]
    /\ line \in Seq(Bytes)
    /\ streaming \in BOOLEAN
    /\ pointer \in (0..screen_w - 1) \X (0..screen_h - 1)
    /\ button \in {0, 1}
    /\ stolen \in Nat
-----------------------------------------------------------------------------
(* init_mouse with the pointer in the middle and IRQ 12 enabled. *)
MouseInit ==
    /\ pc = "reset"
    /\ mouse_x = screen_w \div 2 /\ mouse_y = screen_h \div 2
    /\ mouse_left_button = 0
    /\ mouse_cycle = 0 /\ mouse_byte = NoBytes
    /\ line = <<>>
    /\ streaming = FALSE
    /\ pointer = <<screen_w \div 2, screen_h \div 2>> /\ button = 0
    /\ stolen = 0

(* mouse_write(0xF6) and mouse_write(0xF4): the mouse answers, and after   *)
(* the second command it streams.                                          *)
mouse_write ==
    \/ /\ pc = "reset" /\ pc' = "reset_ack"
       /\ line' = Append(line, ACK)
       /\ UNCHANGED <<driver, device, stolen>>
    \/ /\ pc = "enable" /\ pc' = "enable_ack"
       /\ line' = Append(line, ACK)
       /\ streaming' = TRUE
       /\ UNCHANGED <<driver, pointer, button, stolen>>

(* mouse_read: the byte that waits is thrown away.  If none comes before   *)
(* the count of mouse_wait runs out, a stale one is read instead.          *)
mouse_read ==
    /\ \/ pc = "reset_ack" /\ pc' = "enable"
       \/ pc = "enable_ack" /\ pc' = "done"
    /\ \/ UNCHANGED line
       \/ line # <<>> /\ line' = Tail(line)
    /\ UNCHANGED <<driver, device, stolen>>

(* The packet in mouse_byte with val as its last byte, applied. *)
Packet(val) ==
    /\ mouse_cycle' = 0
    /\ mouse_left_button' = Left(mouse_byte[0])
    /\ mouse_x' = Clamped(mouse_x + int8(mouse_byte[1]), screen_w)
    /\ mouse_y' = Clamped(mouse_y - int8(val), screen_h)

(* The interrupt, with a byte from the mouse on the line. *)
mouse_handler ==
    /\ line # <<>>
    /\ line' = Tail(line)
    /\ mouse_byte' = [mouse_byte EXCEPT ![mouse_cycle] = Head(line)]
    /\ IF mouse_cycle = 2
       THEN Packet(Head(line))
       ELSE /\ mouse_cycle' = mouse_cycle + 1
            /\ UNCHANGED <<mouse_x, mouse_y, mouse_left_button>>
    /\ stolen' = IF Head(line) = ACK THEN stolen + 1 ELSE stolen
    /\ UNCHANGED <<pc, device>>

(* External: the mouse is moved or its button pressed or released, once    *)
(* the bytes of the last packet are read.                                  *)
MouseMoves ==
    /\ streaming /\ \A i \in DOMAIN line : line[i] = ACK
    /\ \E dx, dy \in Moves, b \in {0, 1} :
          /\ line' = line \o <<8 + b, uint8(dx), uint8(dy)>>
          /\ pointer' = <<Clamped(pointer[1] + dx, screen_w),
                          Clamped(pointer[2] - dy, screen_h)>>
          /\ button' = b
    /\ UNCHANGED <<pc, driver, streaming, stolen>>

MouseNext == mouse_write \/ mouse_read \/ mouse_handler \/ MouseMoves

MouseSpec == MouseInit /\ [][MouseNext]_mouseVars
-----------------------------------------------------------------------------
(* Properties.                                                             *)

(* Nothing is under way between the mouse and the driver. *)
Quiet == pc = "done" /\ line = <<>>

AtPointer == <<mouse_x, mouse_y>> = pointer /\ mouse_left_button = button

(* If init_mouse has read both answers itself, the bytes of a movement are *)
(* never mixed with those of another: the driver's pointer and button are  *)
(* those of the mouse whenever all its bytes are read (mouse.c:45-72).     *)
FollowsDevice == Quiet /\ stolen = 0 => AtPointer
=============================================================================
