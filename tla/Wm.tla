--------------------------------- MODULE Wm ---------------------------------
(***************************************************************************)
(* Dragging windows, src/src/gui/wm.c: kmain loads the position and the    *)
(* button of the mouse one after the other, with the mouse interrupt free  *)
(* to change them in between, and hands them to wm_mouse_event, which      *)
(* keeps the list of windows, what is dragged and the last button seen.    *)
(* Drawing is left out.                                                    *)
(***************************************************************************)
EXTENDS Integers, Sequences, FiniteSets

CONSTANTS
    screen_w, screen_h,
    TitleHeight,            \* the 20 pixels of a title bar
    Windows                 \* the list: [x, y, width] for every create_window

ASSUME WmAssumption ==
    /\ {screen_w, screen_h, TitleHeight} \subseteq Nat \ {0}
    /\ Windows \in Seq([x : Int, y : Int, width : Nat])

VARIABLES
    windows,                \* the list from head on
    prev_left_click,
    mouse,                  \* mouse_x, mouse_y, mouse_left_button
    args,                   \* the arguments kmain has loaded so far
    last                    \* the arguments of the last call

vars == <<windows, prev_left_click, mouse, args, last>>

Places == DOMAIN Windows
Params == {"x", "y", "left"}
Mice == [x : 0..screen_w - 1, y : 0..screen_h - 1, left : BOOLEAN]
Dragged == {i \in Places : windows[i].is_dragging}

TypeOK ==
    /\ windows \in [Places -> [x : Int, y : Int, width : Nat, is_dragging : BOOLEAN,
                               drag_offset_x : Int, drag_offset_y : Int]]
    /\ prev_left_click \in BOOLEAN
    /\ mouse \in Mice /\ last \in Mice
    /\ DOMAIN args \subseteq Params

(* No window is dragged after create_window; the offsets are not set. *)
create_window(w) ==
    [x |-> w.x, y |-> w.y, width |-> w.width, is_dragging |-> FALSE,
     drag_offset_x |-> 0, drag_offset_y |-> 0]

Init ==
    /\ windows = [i \in Places |-> create_window(Windows[i])]
    /\ prev_left_click = FALSE
    /\ mouse = [x |-> screen_w \div 2, y |-> screen_h \div 2, left |-> FALSE]
    /\ args = <<>>
    /\ last = mouse
-----------------------------------------------------------------------------
(* The mouse handler has applied another packet: a movement, the button or *)
(* both.                                                                   *)
mouse_handler ==
    /\ mouse' \in Mice
    /\ {mouse'.x - mouse.x, mouse'.y - mouse.y} \subseteq {-1, 0, 1}
    /\ UNCHANGED <<windows, prev_left_click, args, last>>

(* kmain loads an argument; C leaves the order open. *)
load(p) ==
    /\ p \notin DOMAIN args
    /\ args' = [q \in DOMAIN args \cup {p} |-> IF q = p THEN mouse[p] ELSE args[q]]
    /\ UNCHANGED <<windows, prev_left_click, mouse, last>>

(* The point is in the title bar, which lies above the window. *)
Hit(w, x, y) == x \in w.x..w.x + w.width - 1 /\ y \in w.y - TitleHeight..w.y - 1

(* Seeded fault: the horizontal offset is forgotten. *)
MovedPast(w, x, y) == [w EXCEPT !.x = x, !.y = y - w.drag_offset_y]

Moved(w, x, y) == [w EXCEPT !.x = x - w.drag_offset_x, !.y = y - w.drag_offset_y]

(* Seeded fault: the offset is taken from the top of the title bar. *)
GrabbedFromTop(w, x, y) ==
    [w EXCEPT !.is_dragging = TRUE,
              !.drag_offset_x = x - w.x, !.drag_offset_y = y - (w.y - TitleHeight)]

Grabbed(w, x, y) ==
    [w EXCEPT !.is_dragging = TRUE,
              !.drag_offset_x = x - w.x, !.drag_offset_y = y - w.y]

FirstOf(S) == CHOOSE i \in S : \A j \in S : i <= j

(* While a window is dragged the call ends there: the button is not noted. *)
drag(x, y, left_click) ==
    LET i == FirstOf(Dragged)
    IN  /\ windows' = [windows EXCEPT ![i] =
                         IF left_click THEN Moved(@, x, y) ELSE [@ EXCEPT !.is_dragging = FALSE]]
        /\ UNCHANGED prev_left_click

(* Seeded fault: the hit test goes on behind the first window hit. *)
ClickWithoutBreak(x, y, left_click) ==
    LET hit == {i \in Places : Hit(windows[i], x, y)}
    IN  /\ windows' = IF left_click /\ ~prev_left_click
                      THEN [i \in Places |-> IF i \in hit THEN Grabbed(windows[i], x, y)
                                                          ELSE windows[i]]
                      ELSE windows
        /\ prev_left_click' = left_click

(* A new click grabs the first window on the list whose title bar it hits. *)
click(x, y, left_click) ==
    LET hit == {i \in Places : Hit(windows[i], x, y)}
    IN  /\ windows' = IF left_click /\ ~prev_left_click /\ hit # {}
                      THEN [windows EXCEPT ![FirstOf(hit)] = Grabbed(@, x, y)]
                      ELSE windows
        /\ prev_left_click' = left_click

wm_mouse_event ==
    /\ DOMAIN args = Params
    /\ IF Dragged # {} THEN drag(args.x, args.y, args.left)
                       ELSE click(args.x, args.y, args.left)
    /\ last' = [p \in Params |-> args[p]]
    /\ args' = <<>>
    /\ UNCHANGED mouse

Next ==
    \/ mouse_handler
    \/ \E p \in Params : load(p)
    \/ wm_mouse_event

Spec == Init /\ [][Next]_vars
-----------------------------------------------------------------------------
(* Properties.                                                             *)

(* One window at a time is dragged, also where title bars overlap          *)
(* (wm.c:138, "Don't click other windows while dragging").                 *)
OneDragged == \A i, j \in Dragged : i = j

(* The window dragged stays under the pointer: the point kmain last passed *)
(* on is in its title bar, though loaded between interrupts.               *)
UnderPointer == \A i \in Dragged : Hit(windows[i], last.x, last.y)

(* A window moves only while it is dragged with the button seen down, and  *)
(* then by what the pointer moved between two calls.                       *)
MovesWithPointer ==
    [][\A i \in Places :
         LET dx == windows'[i].x - windows[i].x
             dy == windows'[i].y - windows[i].y
         IN  <<dx, dy>> # <<0, 0>> =>
                /\ last.left /\ last'.left
                /\ dx = last'.x - last.x /\ dy = last'.y - last.y]_vars
=============================================================================
