------------------------------ MODULE WmProofs ------------------------------
(***************************************************************************)
(* Theorems about module Wm, for a screen of any size and any list of      *)
(* windows:                                                                *)
(*   - WmTypeCorrect: every variable keeps its type, so that the pointer   *)
(*     handed to wm_mouse_event is on the screen;                          *)
(*   - AlwaysOneDragged: never two windows at a time are dragged;          *)
(*   - AlwaysUnderPointer: the window dragged is held by its title bar;    *)
(*   - AlwaysMovesWithPointer: a window moves by what the pointer moved.   *)
(* They rest on one fact: the offsets of a window that is dragged are      *)
(* where the last call saw the pointer in its title bar, with the button   *)
(* down (Held).                                                            *)
(***************************************************************************)
EXTENDS Wm, TLAPS, WellFoundedInduction

(* The arguments loaded so far are coordinates of the screen. *)
ArgsOnScreen ==
    /\ "x" \in DOMAIN args => args.x \in 0..screen_w - 1
    /\ "y" \in DOMAIN args => args.y \in 0..screen_h - 1
    /\ "left" \in DOMAIN args => args.left \in BOOLEAN

(* The last call saw the pointer on w where its offsets say, in the title  *)
(* bar, and the button down.                                               *)
Held(w) ==
    /\ last.left
    /\ last.x = w.x + w.drag_offset_x /\ last.y = w.y + w.drag_offset_y
    /\ w.drag_offset_x \in 0..w.width - 1
    /\ w.drag_offset_y \in -TitleHeight..-1

WmInv ==
    /\ TypeOK /\ ArgsOnScreen
    /\ OneDragged
    /\ \A i \in Dragged : Held(windows[i])

-----------------------------------------------------------------------------
(* The search through the list finds a window if it stops at any.          *)
LEMMA FirstIsOneOfThem ==
    ASSUME NEW S \in SUBSET Places, S # {}
    PROVE  FirstOf(S) \in S
PROOF
  <1> DEFINE R == OpToRel(<, Nat)
  <1>1. S \subseteq Nat
    BY WmAssumption DEF WmAssumption, Places
  <1>2. PICK i \in S : \A j \in S : ~ (<<j, i>> \in R)
    <2>1. IsWellFoundedOn(R, Nat)
      BY NatLessThanWellFounded
    <2> QED
      BY <1>1, <2>1, WFMin
  <1>3. \A j \in S : ~ (j < i)
    BY <1>1, <1>2 DEF OpToRel
  <1>4. \A j \in S : i <= j
    BY <1>1, <1>3
  <1> QED
    BY <1>4 DEF FirstOf

(* What create_window, Moved and Grabbed make is a window.                 *)
Window == [x : Int, y : Int, width : Nat, is_dragging : BOOLEAN,
           drag_offset_x : Int, drag_offset_y : Int]

LEMMA NewIsWindow ==
    ASSUME NEW w \in [x : Int, y : Int, width : Nat]
    PROVE  create_window(w) \in Window /\ ~ create_window(w).is_dragging
PROOF
  BY DEF create_window, Window

LEMMA MovedIsWindow ==
    ASSUME NEW w \in Window, NEW x \in Int, NEW y \in Int
    PROVE  /\ Moved(w, x, y) \in Window
           /\ Moved(w, x, y).x = x - w.drag_offset_x
           /\ Moved(w, x, y).y = y - w.drag_offset_y
           /\ Moved(w, x, y).width = w.width
           /\ Moved(w, x, y).is_dragging = w.is_dragging
           /\ Moved(w, x, y).drag_offset_x = w.drag_offset_x
           /\ Moved(w, x, y).drag_offset_y = w.drag_offset_y
PROOF
  <1>1. \A a, b \in Int : [w EXCEPT !.x = a, !.y = b] \in Window
    BY DEF Window
  <1>2. x - w.drag_offset_x \in Int /\ y - w.drag_offset_y \in Int
    BY DEF Window
  <1>3. Moved(w, x, y) \in Window
    BY <1>1, <1>2 DEF Moved
  <1> QED
    BY <1>3 DEF Moved, Window

LEMMA GrabbedIsWindow ==
    ASSUME NEW w \in Window, NEW x \in Int, NEW y \in Int
    PROVE  /\ Grabbed(w, x, y) \in Window
           /\ Grabbed(w, x, y).x = w.x /\ Grabbed(w, x, y).y = w.y
           /\ Grabbed(w, x, y).width = w.width
           /\ Grabbed(w, x, y).is_dragging
           /\ Grabbed(w, x, y).drag_offset_x = x - w.x
           /\ Grabbed(w, x, y).drag_offset_y = y - w.y
PROOF
  <1>1. \A a, b \in Int :
           [w EXCEPT !.is_dragging = TRUE, !.drag_offset_x = a, !.drag_offset_y = b] \in Window
    BY DEF Window
  <1>2. x - w.x \in Int /\ y - w.y \in Int
    BY DEF Window
  <1>3. Grabbed(w, x, y) \in Window
    BY <1>1, <1>2 DEF Grabbed
  <1> QED
    BY <1>3 DEF Grabbed, Window

LEMMA WmInitially == Init => WmInv
PROOF
  <1> SUFFICES ASSUME Init PROVE WmInv
    OBVIOUS
  <1>1. screen_w \in Nat \ {0} /\ screen_h \in Nat \ {0}
    BY WmAssumption DEF WmAssumption
  <1>2. mouse \in Mice /\ last \in Mice
    BY <1>1 DEF Init, Mice
  <1>3. \A i \in Places : Windows[i] \in [x : Int, y : Int, width : Nat]
    <2>1. \A S : Windows \in Seq(S) => \A i \in Places : Windows[i] \in S
      BY DEF Places
    <2> QED
      BY <2>1, WmAssumption DEF WmAssumption
  <1>4. windows \in [Places -> Window] /\ \A i \in Places : ~ windows[i].is_dragging
    BY <1>3, NewIsWindow DEF Init
  <1>5. DOMAIN args = {}
    BY DEF Init
  <1>6. TypeOK
    BY <1>2, <1>4, <1>5 DEF Init, TypeOK, Window
  <1>7. Dragged = {}
    BY <1>4 DEF Dragged
  <1> QED
    BY <1>5, <1>6, <1>7 DEF WmInv, ArgsOnScreen, OneDragged

-----------------------------------------------------------------------------
(* The steps.                                                              *)

LEMMA MouseAndLoadKeepInv ==
    ASSUME WmInv, mouse_handler \/ \E p \in Params : load(p)
    PROVE  WmInv'
PROOF
  <1> USE DEF WmInv
  <1>1. CASE mouse_handler
    <2>1. TypeOK'
      BY <1>1 DEF TypeOK, mouse_handler
    <2> QED
      BY <1>1, <2>1 DEF mouse_handler, ArgsOnScreen, OneDragged, Dragged, Held
  <1>2. ASSUME NEW p \in Params, load(p) PROVE WmInv'
    <2>1. /\ DOMAIN args' = DOMAIN args \cup {p}
          /\ \A q \in DOMAIN args' : args'[q] = IF q = p THEN mouse[p] ELSE args[q]
      BY <1>2 DEF load
    <2>2. TypeOK'
      BY <1>2, <2>1 DEF TypeOK, load
    <2>3. ArgsOnScreen'
      BY <1>2, <2>1 DEF ArgsOnScreen, TypeOK, Mice, Params, load
    <2> QED
      BY <1>2, <2>2, <2>3 DEF load, OneDragged, Dragged, Held
  <1> QED
    BY <1>1, <1>2

(* What a call of wm_mouse_event does: it is told a point of the screen;   *)
(* windows that change are moved, let go or grabbed by it.                 *)
LEMMA CallIsOnScreen ==
    ASSUME WmInv, wm_mouse_event
    PROVE  /\ args.x \in 0..screen_w - 1 /\ args.y \in 0..screen_h - 1 /\ args.left \in BOOLEAN
           /\ last' \in Mice
           /\ last'.x = args.x /\ last'.y = args.y /\ last'.left = args.left
PROOF
  <1>1. /\ args.x \in 0..screen_w - 1 /\ args.y \in 0..screen_h - 1
        /\ args.left \in BOOLEAN
    BY DEF WmInv, ArgsOnScreen, wm_mouse_event, Params
  <1>2. last' = [p \in {"x", "y", "left"} |-> args[p]]
    BY DEF wm_mouse_event, Params
  <1>3. last' = [x |-> args.x, y |-> args.y, left |-> args.left]
    BY <1>2
  <1> QED
    BY <1>1, <1>3 DEF Mice

(* What a call makes of the windows: the dragged one is moved and still    *)
(* held, or let go; with none dragged, one is grabbed or none changes.     *)
CallMoves(i) ==
    /\ i \in Dragged /\ last'.left
    /\ windows' = [windows EXCEPT ![i] = Moved(windows[i], last'.x, last'.y)]

CallReleases(i) ==
    /\ i \in Dragged
    /\ windows' = [windows EXCEPT ![i] = [windows[i] EXCEPT !.is_dragging = FALSE]]

CallGrabs(i) ==
    /\ Dragged = {} /\ last'.left
    /\ i \in Places /\ Hit(windows[i], last'.x, last'.y)
    /\ windows' = [windows EXCEPT ![i] = Grabbed(windows[i], last'.x, last'.y)]

LEMMA CallCases ==
    ASSUME WmInv, wm_mouse_event
    PROVE  \/ \E i \in Places : CallMoves(i) \/ CallReleases(i) \/ CallGrabs(i)
           \/ Dragged = {} /\ UNCHANGED windows
PROOF
  <1>1. last'.x = args.x /\ last'.y = args.y /\ last'.left = args.left
    BY CallIsOnScreen
  <1>2. CASE Dragged # {}
    <2>1. FirstOf(Dragged) \in Dragged /\ Dragged \subseteq Places
      BY <1>2, FirstIsOneOfThem DEF Dragged
    <2>2. drag(args.x, args.y, args.left)
      BY <1>2 DEF wm_mouse_event
    <2> QED
      BY <1>1, <2>1, <2>2 DEF drag, CallMoves, CallReleases
  <1>3. CASE Dragged = {}
    <2> DEFINE hit == {i \in Places : Hit(windows[i], args.x, args.y)}
    <2>1. /\ windows' = IF args.left /\ ~prev_left_click /\ hit # {}
                        THEN [windows EXCEPT ![FirstOf(hit)] =
                                 Grabbed(windows[FirstOf(hit)], args.x, args.y)]
                        ELSE windows
      BY <1>3 DEF wm_mouse_event, click
    <2>2. hit # {} => FirstOf(hit) \in hit
      BY FirstIsOneOfThem
    <2> QED
      BY <1>1, <1>3, <2>1, <2>2 DEF CallGrabs
  <1> QED
    BY <1>2, <1>3

LEMMA CallKeepsInv ==
    ASSUME WmInv, wm_mouse_event
    PROVE  WmInv'
PROOF
  <1>1. windows \in [Places -> Window]
    BY DEF WmInv, TypeOK, Window
  <1>2. last' \in Mice /\ last'.x \in Int /\ last'.y \in Int
    BY CallIsOnScreen DEF Mice
  <1>3. DOMAIN args' = {} /\ mouse' \in Mice
    BY DEF WmInv, TypeOK, wm_mouse_event
  <1>4. ArgsOnScreen'
    BY <1>3 DEF ArgsOnScreen
  <1>5. prev_left_click' \in BOOLEAN
    BY CallIsOnScreen DEF WmInv, TypeOK, wm_mouse_event, drag, click
  <1>6. SUFFICES /\ windows' \in [Places -> Window]
                 /\ OneDragged'
                 /\ \A i \in Places : windows'[i].is_dragging => Held(windows[i])'
    BY <1>2, <1>3, <1>4, <1>5 DEF WmInv, TypeOK, Window, Dragged
  <1>7. TitleHeight \in Nat
    BY WmAssumption DEF WmAssumption
  <1>8. ASSUME NEW i \in Places, CallMoves(i)
        PROVE  /\ windows' \in [Places -> Window]
               /\ OneDragged'
               /\ \A j \in Places : windows'[j].is_dragging => Held(windows[j])'
    <2>1. /\ windows' \in [Places -> Window]
          /\ windows'[i] = Moved(windows[i], last'.x, last'.y)
          /\ \A j \in Places \ {i} : windows'[j] = windows[j]
      BY <1>1, <1>2, <1>8, MovedIsWindow DEF CallMoves
    <2>2. \A j \in Places \ {i} : ~ windows'[j].is_dragging
      BY <1>8, <2>1 DEF CallMoves, WmInv, OneDragged, Dragged
    <2>3. Held(windows[i])
      BY <1>8 DEF CallMoves, WmInv
    <2>4. Held(windows[i])'
      <3>1. /\ windows'[i].x = last'.x - windows[i].drag_offset_x
            /\ windows'[i].y = last'.y - windows[i].drag_offset_y
            /\ windows'[i].width = windows[i].width
            /\ windows'[i].drag_offset_x = windows[i].drag_offset_x
            /\ windows'[i].drag_offset_y = windows[i].drag_offset_y
        BY <1>1, <1>2, <2>1, MovedIsWindow
      <3>2. windows[i].drag_offset_x \in Int /\ windows[i].drag_offset_y \in Int
        BY <1>1 DEF Window
      <3> QED
        BY <1>2, <1>8, <2>3, <3>1, <3>2 DEF Held, CallMoves
    <2> QED
      BY <2>1, <2>2, <2>4 DEF OneDragged, Dragged
  <1>9. ASSUME NEW i \in Places, CallReleases(i)
        PROVE  /\ windows' \in [Places -> Window]
               /\ OneDragged'
               /\ \A j \in Places : windows'[j].is_dragging => Held(windows[j])'
    <2>1. \A w \in Window :
             /\ [w EXCEPT !.is_dragging = FALSE] \in Window
             /\ ~ [w EXCEPT !.is_dragging = FALSE].is_dragging
      BY DEF Window
    <2>2. /\ windows' \in [Places -> Window]
          /\ ~ windows'[i].is_dragging
          /\ \A j \in Places \ {i} : windows'[j] = windows[j]
      BY <1>1, <1>9, <2>1 DEF CallReleases
    <2>3. \A j \in Places : ~ windows'[j].is_dragging
      BY <1>9, <2>2 DEF CallReleases, WmInv, OneDragged, Dragged
    <2> QED
      BY <2>2, <2>3 DEF OneDragged, Dragged
  <1>10. ASSUME NEW i \in Places, CallGrabs(i)
         PROVE  /\ windows' \in [Places -> Window]
                /\ OneDragged'
                /\ \A j \in Places : windows'[j].is_dragging => Held(windows[j])'
    <2>1. /\ windows' \in [Places -> Window]
          /\ windows'[i] = Grabbed(windows[i], last'.x, last'.y)
          /\ \A j \in Places \ {i} : windows'[j] = windows[j]
      BY <1>1, <1>2, <1>10, GrabbedIsWindow DEF CallGrabs
    <2>2. \A j \in Places \ {i} : ~ windows'[j].is_dragging
      BY <1>10, <2>1 DEF CallGrabs, Dragged
    <2>3. Held(windows[i])'
      <3>1. /\ windows'[i].x = windows[i].x /\ windows'[i].y = windows[i].y
            /\ windows'[i].width = windows[i].width
            /\ windows'[i].drag_offset_x = last'.x - windows[i].x
            /\ windows'[i].drag_offset_y = last'.y - windows[i].y
        BY <1>1, <1>2, <2>1, GrabbedIsWindow
      <3>2. windows[i].x \in Int /\ windows[i].y \in Int /\ windows[i].width \in Nat
        BY <1>1 DEF Window
      <3> QED
        BY <1>2, <1>7, <1>10, <3>1, <3>2 DEF Held, CallGrabs, Hit
    <2> QED
      BY <2>1, <2>2, <2>3 DEF OneDragged, Dragged
  <1>11. CASE Dragged = {} /\ UNCHANGED windows
    BY <1>1, <1>11 DEF OneDragged, Dragged
  <1> QED
    BY <1>8, <1>9, <1>10, <1>11, CallCases

LEMMA WmInductive == WmInv /\ [Next]_vars => WmInv'
PROOF
  <1> SUFFICES ASSUME WmInv, [Next]_vars PROVE WmInv'
    OBVIOUS
  <1>1. CASE UNCHANGED vars
    BY <1>1 DEF vars, WmInv, TypeOK, ArgsOnScreen, OneDragged, Dragged, Held
  <1> QED
    BY <1>1, MouseAndLoadKeepInv, CallKeepsInv DEF Next

LEMMA WmAlways == Spec => []WmInv
PROOF
  BY WmInitially, WmInductive, PTL DEF Spec

-----------------------------------------------------------------------------
(* The theorems.                                                           *)

(* Every variable keeps its type: what wm_mouse_event is told lies on the  *)
(* screen, though x and y may come from two packets of the mouse.          *)
THEOREM WmTypeCorrect == Spec => []TypeOK
PROOF
  <1>1. WmInv => TypeOK
    BY DEF WmInv
  <1> QED
    BY <1>1, WmAlways, PTL

(* wm_mouse_event never drags two windows, however title bars overlap:     *)
(* its early return and the break hold for any list of windows.            *)
THEOREM AlwaysOneDragged == Spec => []OneDragged
PROOF
  <1>1. WmInv => OneDragged
    BY DEF WmInv
  <1> QED
    BY <1>1, WmAlways, PTL

(* The window dragged has the pointer that was last passed on in its title *)
(* bar, with interrupts between the loads of x, y and the button.          *)
THEOREM AlwaysUnderPointer == Spec => []UnderPointer
PROOF
  <1>1. WmInv => UnderPointer
    <2> SUFFICES ASSUME WmInv, NEW i \in Dragged PROVE Hit(windows[i], last.x, last.y)
      BY DEF UnderPointer
    <2>1. windows[i] \in Window /\ Held(windows[i])
      BY DEF WmInv, TypeOK, Dragged, Window
    <2>2. windows[i].x \in Int /\ windows[i].y \in Int /\ windows[i].width \in Nat
      BY <2>1 DEF Window
    <2>3. TitleHeight \in Nat
      BY WmAssumption DEF WmAssumption
    <2> QED
      BY <2>1, <2>2, <2>3 DEF Held, Hit
  <1> QED
    BY <1>1, WmAlways, PTL

(* wm_mouse_event moves a window only with the button down in two calls,   *)
(* by what the pointer moved between them.                                 *)
THEOREM AlwaysMovesWithPointer == Spec => MovesWithPointer
PROOF
  <1> DEFINE Follows ==
        \A i \in Places :
            LET dx == windows'[i].x - windows[i].x
                dy == windows'[i].y - windows[i].y
            IN  <<dx, dy>> # <<0, 0>> =>
                   /\ last.left /\ last'.left
                   /\ dx = last'.x - last.x /\ dy = last'.y - last.y
  <1>1. ASSUME WmInv, [Next]_vars PROVE [Follows]_vars
    <2>1. windows \in [Places -> Window]
      BY <1>1 DEF WmInv, TypeOK, Window
    <2>2. \A i \in Places : windows[i].x \in Int /\ windows[i].y \in Int
      BY <2>1 DEF Window
    <2>3. ASSUME \A i \in Places : windows'[i].x = windows[i].x /\ windows'[i].y = windows[i].y
          PROVE  Follows
      BY <2>2, <2>3
    <2>4. CASE UNCHANGED windows
      BY <2>3, <2>4
    <2>5. CASE wm_mouse_event
      <3>1. last' \in Mice /\ last'.x \in Int /\ last'.y \in Int
        BY <1>1, <2>5, CallIsOnScreen DEF Mice
      <3>2. ASSUME NEW i \in Places, CallMoves(i) PROVE Follows
        <4>1. /\ windows'[i] = Moved(windows[i], last'.x, last'.y)
              /\ \A j \in Places \ {i} : windows'[j] = windows[j]
          BY <2>1, <3>2 DEF CallMoves
        <4>2. /\ windows'[i].x = last'.x - windows[i].drag_offset_x
              /\ windows'[i].y = last'.y - windows[i].drag_offset_y
          BY <2>1, <3>1, <4>1, MovedIsWindow
        <4>3. Held(windows[i]) /\ last'.left
          BY <1>1, <3>2 DEF CallMoves, WmInv
        <4>4. windows[i].drag_offset_x \in Int /\ windows[i].drag_offset_y \in Int
          BY <2>1 DEF Window
        <4>5. /\ last.left
              /\ windows'[i].x - windows[i].x = last'.x - last.x
              /\ windows'[i].y - windows[i].y = last'.y - last.y
          BY <2>2, <3>1, <4>2, <4>3, <4>4 DEF Held
        <4> QED
          BY <2>2, <4>1, <4>3, <4>5
      <3>3. ASSUME NEW i \in Places, CallReleases(i) PROVE Follows
        BY <2>1, <2>3, <3>3 DEF CallReleases, Window
      <3>4. ASSUME NEW i \in Places, CallGrabs(i) PROVE Follows
        <4>1. /\ windows'[i] = Grabbed(windows[i], last'.x, last'.y)
              /\ \A j \in Places \ {i} : windows'[j] = windows[j]
          BY <2>1, <3>4 DEF CallGrabs
        <4>2. windows'[i].x = windows[i].x /\ windows'[i].y = windows[i].y
          BY <2>1, <3>1, <4>1, GrabbedIsWindow
        <4> QED
          BY <2>3, <4>1, <4>2
      <3> QED
        BY <1>1, <2>4, <2>5, <3>2, <3>3, <3>4, CallCases
    <2> QED
      BY <1>1, <2>4, <2>5 DEF Next, mouse_handler, load, vars
  <1> QED
    BY <1>1, WmAlways, PTL DEF Spec, MovesWithPointer
=============================================================================
