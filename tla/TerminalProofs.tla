--------------------------- MODULE TerminalProofs ---------------------------
(***************************************************************************)
(* Theorems about the line editor of the shell, alone (ShellLine) and in   *)
(* the terminal where its output is overtaken by that of programs, and     *)
(* about the window, for any length of a line, any size of the history and *)
(* of the window:                                                          *)
(*   - EditorInTerminal: to the editor, what the terminal does is a step   *)
(*     of its own or nothing;                                              *)
(*   - EditorTypeCorrect, AlwaysRemembersLast, LineAlwaysFollowsView: the  *)
(*     properties of ShellLine, in the terminal;                           *)
(*   - AlwaysInWindow, AlwaysInsideUnlessCleared: where the cursor and the *)
(*     registers of wm_putc are at each of its labels, whoever overtakes   *)
(*     it (ShellInv, CursorInv);                                           *)
(*   - AlwaysShowsLines: the window shows the lines printed.  While nobody *)
(*     overtakes the shell, the window it would leave if it went on to the *)
(*     end of its character (Completed) shows the lines already.           *)
(* The history is compared with the lines entered entry by entry (Kept):   *)
(* so stated, it is kept when the oldest entry is pushed out.              *)
(***************************************************************************)
EXTENDS Terminal, TLAPS, SequenceTheorems, WellFoundedInduction

-----------------------------------------------------------------------------
(* Bounded sequences.                                                      *)

LEMMA BoundedSeqIsSeq ==
    ASSUME NEW S, NEW n \in Nat, NEW s
    PROVE  s \in BoundedSeq(S, n) <=> s \in Seq(S) /\ Len(s) <= n
PROOF
  <1>1. ASSUME s \in BoundedSeq(S, n) PROVE s \in Seq(S) /\ Len(s) <= n
    <2>1. PICK m \in 0..n : s \in [1..m -> S]
      BY <1>1 DEF BoundedSeq, SeqOf
    <2>2. s \in Seq(S)
      BY <2>1, SeqDef
    <2> QED
      BY <2>1, <2>2, LenProperties
  <1>2. ASSUME s \in Seq(S), Len(s) <= n PROVE s \in BoundedSeq(S, n)
    BY <1>2, LenProperties DEF BoundedSeq, SeqOf
  <1> QED
    BY <1>1, <1>2

(* The history as a sequence of lines, in terms of the lines entered.      *)
Entries == Line \ {<<>>}

Kept ==
    /\ history \in Seq(Entries) /\ entered \in Seq(Line)
    /\ Len(history) = IF Len(entered) < HISTORY_MAX THEN Len(entered) ELSE HISTORY_MAX
    /\ \A i \in 1..Len(history) : history[i] = entered[Len(entered) - Len(history) + i]

EditorInv ==
    /\ Kept
    /\ line \in Line
    /\ history_view_idx \in 0..Len(history)

LEMMA Limits == HISTORY_MAX \in Nat \ {0} /\ CMD_LEN \in Nat /\ CMD_LEN - 1 \in Nat
PROOF
  BY ShellLineAssumption DEF ShellLineAssumption

LEMMA LineIsSeq ==
    ASSUME NEW s
    PROVE  s \in Line <=> s \in Seq(Chars) /\ Len(s) <= CMD_LEN - 1
PROOF
  BY Limits, BoundedSeqIsSeq DEF Line

LEMMA EmptyLine == <<>> \in Line
PROOF
  <1>1. <<>> \in Seq(Chars) /\ Len(<<>>) = 0
    BY EmptySeq
  <1>2. \A s : s \in Seq(Chars) /\ Len(s) = 0 => s \in Line
    <2> SUFFICES ASSUME NEW s, s \in Seq(Chars), Len(s) = 0 PROVE s \in Line
      OBVIOUS
    <2>1. Len(s) <= CMD_LEN - 1
      BY Limits
    <2> QED
      BY <2>1, LineIsSeq
  <1> QED
    BY <1>1, <1>2

-----------------------------------------------------------------------------
(* The lines typed.                                                        *)

(* A character more, or one less, is a line.                               *)
LEMMA TypedIsLine ==
    ASSUME NEW s \in Line, NEW c \in Chars, Len(s) < CMD_LEN - 1
    PROVE  Append(s, c) \in Line
PROOF
  <1>1. s \in Seq(Chars)
    BY LineIsSeq
  <1>2. Append(s, c) \in Seq(Chars) /\ Len(Append(s, c)) = Len(s) + 1
    BY <1>1
  <1>3. Len(Append(s, c)) <= CMD_LEN - 1
    BY <1>1, <1>2, Limits, LenProperties
  <1> QED
    BY <1>2, <1>3, LineIsSeq

LEMMA ErasedIsLine ==
    ASSUME NEW s \in Line, s # <<>>
    PROVE  Front(s) \in Line
PROOF
  <1>1. s \in Seq(Chars) /\ Len(s) <= CMD_LEN - 1
    BY LineIsSeq
  <1>2. Len(s) \in Nat \ {0} /\ \A i \in 1..Len(s) - 1 : s[i] \in Chars
    BY <1>1, EmptySeq, ElementOfSeq
  <1>3. Front(s) \in Seq(Chars) /\ Len(Front(s)) <= Len(s)
    BY <1>2, SubSeqProperties DEF Front
  <1>4. Len(Front(s)) \in Nat
    BY <1>3, LenProperties
  <1> QED
    BY <1>1, <1>2, <1>3, <1>4, Limits, LineIsSeq

-----------------------------------------------------------------------------
(* The history.                                                            *)

(* When a line is entered, the oldest one makes room if it has to.         *)
LEMMA PushedKeeps ==
    ASSUME Kept, NEW s \in Entries,
           history' = Pushed(s), entered' = Append(entered, s)
    PROVE  Kept'
PROOF
  <1> DEFINE rest == IF Len(history) < HISTORY_MAX THEN history ELSE Tail(history)
             drop == IF Len(history) < HISTORY_MAX THEN 0 ELSE 1
  <1>1. /\ history \in Seq(Entries) /\ entered \in Seq(Line)
        /\ Len(history) \in Nat /\ Len(entered) \in Nat
    BY LenProperties DEF Kept
  <1>2. rest \in Seq(Entries) /\ Len(rest) = Len(history) - drop
        /\ \A i \in 1..Len(rest) : rest[i] = history[i + drop]
    <2>1. CASE Len(history) < HISTORY_MAX
      BY <1>1, <2>1
    <2>2. CASE ~ (Len(history) < HISTORY_MAX)
      <3>1. history # <<>>
        BY <1>1, <2>2, Limits, EmptySeq
      <3> QED
        BY <1>1, <2>2, <3>1, HeadTailProperties
    <2> QED
      BY <2>1, <2>2
  <1>3. history' = Append(rest, s)
    BY DEF Pushed, history_count
  <1> HIDE DEF rest
  <1>4. /\ history' \in Seq(Entries) /\ Len(history') = Len(rest) + 1
        /\ \A i \in 1..Len(rest) : history'[i] = rest[i]
        /\ history'[Len(rest) + 1] = s
    BY <1>2, <1>3, AppendProperties
  <1>5. /\ entered' \in Seq(Line) /\ Len(entered') = Len(entered) + 1
        /\ \A i \in 1..Len(entered) : entered'[i] = entered[i]
        /\ entered'[Len(entered) + 1] = s
    <2>1. s \in Line
      BY DEF Entries
    <2> QED
      BY <1>1, <2>1, AppendProperties
  <1>6. /\ drop \in {0, 1} /\ (drop = 0 <=> Len(history) < HISTORY_MAX)
        /\ Len(history) <= HISTORY_MAX /\ Len(history) <= Len(entered)
        /\ Len(history) < HISTORY_MAX => Len(history) = Len(entered)
    BY <1>1, Limits DEF Kept
  <1> HIDE DEF drop
  <1>8. Len(history') = IF Len(entered') < HISTORY_MAX THEN Len(entered') ELSE HISTORY_MAX
    <2>1. /\ Len(history') = Len(history) - drop + 1
          /\ Len(entered') = Len(entered) + 1
      BY <1>2, <1>4, <1>5
    <2> QED
      BY <1>1, <1>6, <2>1, Limits
  <1>9. /\ Len(rest) \in Nat /\ Len(rest) + drop = Len(history)
        /\ Len(history') = Len(rest) + 1
        /\ Len(entered') = Len(entered) + 1
    BY <1>1, <1>2, <1>4, <1>5, <1>6, LenProperties
  <1>7. ASSUME NEW i \in 1..Len(history')
        PROVE  history'[i] = entered'[Len(entered') - Len(history') + i]
    <2>1. CASE i = Len(rest) + 1
      <3>1. Len(entered') - Len(history') + i = Len(entered) + 1
        BY <1>1, <1>9, <2>1
      <3> QED
        BY <1>4, <1>5, <2>1, <3>1
    <2>2. CASE i \in 1..Len(rest)
      <3>1. i + drop \in 1..Len(history)
        BY <1>1, <1>6, <1>9, <2>2
      <3>2. history'[i] = history[i + drop]
        BY <1>2, <1>4, <2>2
      <3>3. history[i + drop] = entered[Len(entered) - Len(history) + (i + drop)]
        BY <3>1 DEF Kept
      <3>4. /\ Len(entered) - Len(history) + (i + drop) = Len(entered') - Len(history') + i
            /\ Len(entered) - Len(history) + (i + drop) \in 1..Len(entered)
        <4>1. \A e, h, r, d, j \in Int :
                 r + d = h => e - h + (j + d) = (e + 1) - (r + 1) + j
          OBVIOUS
        <4>2. Len(entered) - Len(history) + (i + drop) = (Len(entered) + 1) - (Len(rest) + 1) + i
          <5>1. Len(entered) \in Int /\ Len(history) \in Int
            BY <1>1, LenProperties
          <5>2. Len(rest) \in Int /\ drop \in Int /\ i \in Int
            BY <1>6, <1>9
          <5>3. Len(rest) + drop = Len(history)
            BY <1>9
          <5> QED
            BY <4>1, <5>1, <5>2, <5>3
        <4>3. i + drop \in 1..Len(history) /\ Len(history) <= Len(entered)
          BY <1>6, <3>1
        <4> QED
          BY <1>1, <1>9, <4>2, <4>3
      <3> QED
        BY <1>5, <3>2, <3>3, <3>4
    <2>3. i = Len(rest) + 1 \/ i \in 1..Len(rest)
      BY <1>9
    <2> QED
      BY <2>1, <2>2, <2>3
  <1> QED
    BY <1>4, <1>5, <1>7, <1>8 DEF Kept

(* Kept is the property of the run: both say which lines are kept.         *)
LEMMA KeptRemembers ==
    ASSUME Kept
    PROVE  RemembersLast
PROOF
  <1> DEFINE kept == IF Len(entered) < HISTORY_MAX THEN Len(entered) ELSE HISTORY_MAX
             from == Len(entered) - kept + 1
             last == SubSeq(entered, from, Len(entered))
  <1>1. /\ history \in Seq(Line) /\ Len(history) = kept
        /\ entered \in Seq(Line) /\ Len(entered) \in Nat
    <2>1. Entries \subseteq Line
      BY DEF Entries
    <2> QED
      BY <2>1, SeqMonotonic, LenProperties DEF Kept
  <1>2. kept \in Nat /\ kept <= Len(entered)
    BY <1>1, Limits
  <1> HIDE DEF kept
  <1>3. \A i \in from..Len(entered) : entered[i] \in Line
    BY <1>1, <1>2, ElementOfSeq
  <1>4. /\ last \in Seq(Line)
        /\ Len(last) = IF from <= Len(entered) THEN Len(entered) - from + 1 ELSE 0
        /\ \A i \in 1..Len(entered) - from + 1 : last[i] = entered[from + i - 1]
    BY <1>1, <1>2, <1>3, SubSeqProperties
  <1>5. Len(last) = kept /\ Len(entered) - from + 1 = kept
    BY <1>1, <1>2, <1>4
  <1>6. \A i \in 1..kept : history[i] = last[i]
    <2> SUFFICES ASSUME NEW i \in 1..kept PROVE history[i] = last[i]
      OBVIOUS
    <2>1. last[i] = entered[from + i - 1]
      BY <1>4, <1>5
    <2>2. history[i] = entered[Len(entered) - kept + i]
      BY <1>1 DEF Kept
    <2>3. from + i - 1 = Len(entered) - kept + i
      BY <1>1, <1>2
    <2> QED
      BY <2>1, <2>2, <2>3
  <1>7. history = last
    BY <1>1, <1>4, <1>5, <1>6, SeqEqual
  <1> QED
    BY <1>7 DEF RemembersLast, kept

LEMMA InvTyped ==
    ASSUME EditorInv
    PROVE  TypeOK
PROOF
  <1>1. /\ history \in Seq(Entries) /\ Len(history) <= HISTORY_MAX
        /\ entered \in Seq(Line)
    BY Limits, LenProperties DEF EditorInv, Kept
  <1>2. history \in BoundedSeq(Entries, HISTORY_MAX)
    BY <1>1, Limits, BoundedSeqIsSeq
  <1> QED
    BY <1>1, <1>2 DEF TypeOK, EditorInv, Entries, history_count

-----------------------------------------------------------------------------
(* The editor alone.                                                       *)

LEMMA EditorInitially == Init => EditorInv
PROOF
  <1> SUFFICES ASSUME Init PROVE EditorInv
    OBVIOUS
  <1>1. Len(history) = 0 /\ Len(entered) = 0
    BY EmptySeq DEF Init
  <1>2. history \in Seq(Entries) /\ entered \in Seq(Line)
    BY EmptySeq DEF Init
  <1> QED
    BY <1>1, <1>2, EmptyLine, Limits DEF Init, EditorInv, Kept

LEMMA EditorInductive == EditorInv /\ [Next]_vars => EditorInv'
PROOF
  <1> SUFFICES ASSUME EditorInv, [Next]_vars PROVE EditorInv'
    OBVIOUS
  <1>1. /\ Kept /\ line \in Line /\ history_view_idx \in 0..Len(history)
        /\ Len(history) \in Nat
        /\ \A i \in 1..Len(history) : history[i] \in Line
    BY LenProperties, ElementOfSeq DEF EditorInv, Kept, Entries
  <1>2. ASSUME UNCHANGED <<history, entered>> PROVE Kept'
    BY <1>1, <1>2 DEF Kept
  <1>3. CASE up_arrow
    <2>1. history_view_idx \in 1..Len(history) /\ line' = history[history_view_idx]
      BY <1>1, <1>3 DEF up_arrow
    <2> QED
      BY <1>1, <1>2, <1>3, <2>1 DEF up_arrow, EditorInv
  <1>4. CASE down_arrow
    <2>1. history_view_idx' \in 0..Len(history)
      BY <1>1, <1>4 DEF down_arrow, history_count
    <2>2. line' \in Line
      <3>1. CASE history_view_idx' = Len(history)
        BY <1>4, <3>1, EmptyLine DEF down_arrow, history_count
      <3>2. CASE history_view_idx' # Len(history)
        <4>1. history_view_idx + 2 \in 1..Len(history)
          BY <1>1, <1>4, <3>2 DEF down_arrow, history_count
        <4> QED
          BY <1>1, <1>4, <3>2, <4>1 DEF down_arrow, history_count
      <3> QED
        BY <3>1, <3>2
    <2> QED
      BY <1>2, <1>4, <2>1, <2>2 DEF down_arrow, EditorInv
  <1>5. CASE enter
    <2>1. line' = <<>> /\ line' \in Line
      BY <1>5, EmptyLine DEF enter
    <2>2. CASE /\ line # <<>> /\ history' = Pushed(line)
               /\ history_view_idx' = Len(history') /\ entered' = Append(entered, line)
      <3>1. Kept'
        BY <1>1, <2>2, PushedKeeps DEF Entries
      <3>2. Len(history') \in Nat
        BY <3>1, LenProperties DEF Kept
      <3> QED
        BY <2>1, <2>2, <3>1, <3>2 DEF EditorInv
    <2>3. CASE UNCHANGED <<history, history_view_idx, entered>>
      BY <1>1, <1>2, <2>1, <2>3 DEF EditorInv
    <2> QED
      BY <1>5, <2>2, <2>3 DEF enter
  <1>6. CASE backspace
    BY <1>1, <1>2, <1>6, ErasedIsLine DEF backspace, EditorInv
  <1>7. ASSUME NEW c \in Chars, typed(c) PROVE EditorInv'
    BY <1>1, <1>2, <1>7, TypedIsLine DEF typed, EditorInv
  <1>8. CASE UNCHANGED vars
    BY <1>1, <1>2, <1>8 DEF vars, EditorInv
  <1> QED
    BY <1>3, <1>4, <1>5, <1>6, <1>7, <1>8 DEF Next

LEMMA EditorAlways == Spec => []EditorInv
PROOF
  BY EditorInitially, EditorInductive, PTL DEF Spec

-----------------------------------------------------------------------------
(* The editor in the terminal.                                             *)

(* What programs and commands print never changes the line, the history or *)
(* the place in it: the terminal takes the steps of the editor and others  *)
(* that leave it alone.                                                    *)
THEOREM EditorInTerminal == TermSpec => Spec
PROOF
  <1>1. TermInit => Init
    BY DEF TermInit
  <1>2. ASSUME [TermNext]_allVars PROVE [Next]_vars
    <2>1. CASE edit
      BY <2>1 DEF edit, Next
    <2>2. CASE command
      BY <2>2 DEF command, Next
    <2>3. CASE putc \/ carriage \/ feed \/ back \/ erase \/ wrap \/ wrapped \/ draw
               \/ advance \/ check \/ scroll \/ decrement \/ clamp \/ clamped \/ clear
      BY <2>3 DEF putc, carriage, feed, back, erase, wrap, wrapped, draw, advance, check,
                  scroll, decrement, clamp, clamped, clear, Store, Done, InShell
    <2>4. ASSUME NEW c \in {Program, "\n", Backspace}, SYS_PRINT(c) PROVE UNCHANGED vars
      BY <2>4 DEF SYS_PRINT
    <2>5. CASE SYS_CLEAR
      BY <2>5 DEF SYS_CLEAR
    <2>6. CASE UNCHANGED allVars
      BY <2>6 DEF allVars
    <2> QED
      BY <1>2, <2>1, <2>2, <2>3, <2>4, <2>5, <2>6 DEF TermNext
  <1> QED
    BY <1>1, <1>2, PTL DEF TermSpec, Spec

(* The line fits cmd_buffer and the place in the history lies in it or     *)
(* behind it, whatever keys are pressed and whatever is printed.           *)
THEOREM EditorTypeCorrect == TermSpec => []TypeOK
PROOF
  <1>1. EditorInv => TypeOK
    BY InvTyped
  <1> QED
    BY <1>1, EditorAlways, EditorInTerminal, PTL

(* The history holds the last lines entered, for any HISTORY_MAX: pushing  *)
(* the oldest line out never loses, doubles or reorders another.           *)
THEOREM AlwaysRemembersLast == TermSpec => []RemembersLast
PROOF
  <1>1. EditorInv => RemembersLast
    BY KeptRemembers DEF EditorInv
  <1> QED
    BY <1>1, EditorAlways, EditorInTerminal, PTL

(* An arrow key always brings back the line at the new place, and the      *)
(* entering of a line leaves the place behind the newest.                  *)
THEOREM LineAlwaysFollowsView == TermSpec => LineFollowsView
PROOF
  <1> DEFINE Follows ==
        history_view_idx' # history_view_idx =>
          line' = (IF history_view_idx' < Len(history') THEN history'[history_view_idx' + 1]
                   ELSE <<>>)
  <1>1. ASSUME EditorInv, EditorInv', [Next]_vars PROVE [Follows]_vars
    <2>1. /\ history_view_idx \in 0..Len(history) /\ Len(history) \in Nat
          /\ history_view_idx' \in 0..Len(history') /\ Len(history') \in Nat
      BY <1>1, LenProperties DEF EditorInv, Kept
    <2>2. CASE up_arrow
      BY <2>1, <2>2 DEF up_arrow
    <2>3. CASE down_arrow
      BY <2>1, <2>3 DEF down_arrow, history_count
    <2>4. CASE enter
      BY <2>1, <2>4 DEF enter
    <2> QED
      BY <1>1, <2>2, <2>3, <2>4 DEF Next, backspace, typed, vars
  <1>2. Spec => LineFollowsView
    BY <1>1, EditorAlways, PTL DEF Spec, LineFollowsView
  <1> QED
    BY <1>2, EditorInTerminal, PTL
-----------------------------------------------------------------------------
(* The window.  A character is put into it (Put), and then it is scrolled  *)
(* if it is full (Finish).                                                 *)

Glyphs == {Space, Shell, Program}
Buffers == [0..Rows - 1 -> [0..Cols - 1 -> Glyphs]]
Window == [buffer : Buffers, cursor_x : Int, cursor_y : Int, outside : BOOLEAN]

Characters == {Shell, Program, "\n", Backspace}

Stamped(w, c) == [Drawn(w, w.cursor_x, w.cursor_y, c) EXCEPT !.cursor_x = @ + 1]

Put(w, c) ==
    IF c = "\n" THEN NewLine(w)
    ELSE IF c # Backspace THEN Stamped(IF Wraps(w.cursor_x) THEN NewLine(w) ELSE w, c)
    ELSE IF w.cursor_x >= 1 THEN Erased([w EXCEPT !.cursor_x = @ - 1])
    ELSE w

Finish(w) == IF Full(w.cursor_y) THEN wm_scroll_window(w) ELSE w

(* m is w with g in one cell of the buffer.                                *)
Written(m, w, x, y, g) ==
    /\ m.outside = w.outside
    /\ m.buffer[y][x] = g
    /\ \A r \in 0..Rows - 1 : \A c \in 0..Cols - 1 :
          ~ (r = y /\ c = x) => m.buffer[r][c] = w.buffer[r][c]

LEMMA Sizes == Cols \in Nat /\ Cols >= 2 /\ Rows \in Nat /\ Rows >= 3
PROOF
  BY TerminalAssumption DEF TerminalAssumption

LEMMA PutcIsPut ==
    ASSUME NEW w, NEW c
    PROVE  wm_putc(w, c) = Finish(Put(w, c))
PROOF
  <1>1. CASE c = "\n"
    <2>1. wm_putc(w, c) = IF Full(NewLine(w).cursor_y) THEN wm_scroll_window(NewLine(w))
                          ELSE NewLine(w)
      BY <1>1 DEF wm_putc, Backspace
    <2> QED
      BY <1>1, <2>1 DEF Finish, Put
  <1>2. CASE c = Backspace
    BY <1>2 DEF wm_putc, Finish, Put, Backspace
  <1>3. CASE c # "\n" /\ c # Backspace
    <2> DEFINE wrapped_ == IF Wraps(w.cursor_x) THEN NewLine(w) ELSE w
               put_ == [Drawn(wrapped_, wrapped_.cursor_x, wrapped_.cursor_y, c)
                           EXCEPT !.cursor_x = @ + 1]
    <2>1. wm_putc(w, c) = IF Full(put_.cursor_y) THEN wm_scroll_window(put_) ELSE put_
      BY <1>3 DEF wm_putc
    <2>2. Put(w, c) = Stamped(wrapped_, c)
      BY <1>3 DEF Put
    <2>3. Stamped(wrapped_, c) = put_
      BY DEF Stamped
    <2> QED
      BY <2>1, <2>2, <2>3 DEF Finish
  <1> QED
    BY <1>1, <1>2, <1>3

LEMMA WindowFields ==
    ASSUME NEW w \in Window
    PROVE  /\ w.buffer \in Buffers /\ w.outside \in BOOLEAN
           /\ w.cursor_x \in Int /\ w.cursor_y \in Int
PROOF
  BY DEF Window

LEMMA CursorXMoved ==
    ASSUME NEW w \in Window, NEW x \in Int,
           NEW m, m = [w EXCEPT !.cursor_x = x]
    PROVE  /\ m \in Window
           /\ m.cursor_x = x /\ m.cursor_y = w.cursor_y
           /\ m.buffer = w.buffer /\ m.outside = w.outside
PROOF
  BY DEF Window

LEMMA CursorYMoved ==
    ASSUME NEW w \in Window, NEW y \in Int,
           NEW m, m = [w EXCEPT !.cursor_y = y]
    PROVE  /\ m \in Window
           /\ m.cursor_x = w.cursor_x /\ m.cursor_y = y
           /\ m.buffer = w.buffer /\ m.outside = w.outside
PROOF
  BY DEF Window

LEMMA NewLineFacts ==
    ASSUME NEW w \in Window
    PROVE  /\ NewLine(w) \in Window
           /\ NewLine(w).cursor_x = 0 /\ NewLine(w).cursor_y = w.cursor_y + 1
           /\ NewLine(w).buffer = w.buffer /\ NewLine(w).outside = w.outside
PROOF
  <1> DEFINE y == w.cursor_y + 1
             m == NewLine(w)
  <1>1. y \in Int /\ 0 \in Int
    BY WindowFields
  <1>2. m = [w EXCEPT !.cursor_x = 0, !.cursor_y = y]
    BY DEF NewLine
  <1>3. y = w.cursor_y + 1
    OBVIOUS
  <1> HIDE DEF y, m
  <1>4. /\ m \in Window /\ m.cursor_x = 0 /\ m.cursor_y = y
        /\ m.buffer = w.buffer /\ m.outside = w.outside
    BY <1>1, <1>2 DEF Window
  <1> QED
    BY <1>3, <1>4 DEF m

(* One cell of the buffer is written, if it is one.                        *)
LEMMA CellFacts ==
    ASSUME NEW w \in Window, NEW x \in Int, NEW y \in Int, NEW g \in Glyphs,
           NEW m, m = Cell(w, x, y, g)
    PROVE  /\ m \in Window
           /\ m.cursor_x = w.cursor_x /\ m.cursor_y = w.cursor_y
           /\ y \in 0..Rows - 1 /\ x \in 0..Cols - 1 => Written(m, w, x, y, g)
PROOF
  <1>1. CASE y \in 0..Rows - 1 /\ x \in 0..Cols - 1
    <2>1. m = [w EXCEPT !.buffer = [w.buffer EXCEPT ![y] = [w.buffer[y] EXCEPT ![x] = g]]]
      BY <1>1 DEF Cell
    <2>2. w.buffer \in Buffers /\ w.buffer[y] \in [0..Cols - 1 -> Glyphs]
      BY <1>1, WindowFields DEF Buffers
    <2> DEFINE row == [w.buffer[y] EXCEPT ![x] = g]
               buf == [w.buffer EXCEPT ![y] = row]
    <2>3. /\ row \in [0..Cols - 1 -> Glyphs] /\ row[x] = g
          /\ \A c \in 0..Cols - 1 : c # x => row[c] = w.buffer[y][c]
      BY <1>1, <2>2
    <2> HIDE DEF row
    <2>4. /\ buf \in Buffers /\ buf[y] = row
          /\ \A r \in 0..Rows - 1 : r # y => buf[r] = w.buffer[r]
      BY <1>1, <2>2, <2>3 DEF Buffers
    <2> HIDE DEF buf
    <2>5. /\ m \in Window /\ m.buffer = buf /\ m.outside = w.outside
          /\ m.cursor_x = w.cursor_x /\ m.cursor_y = w.cursor_y
      <3>1. m = [w EXCEPT !.buffer = buf]
        BY <2>1 DEF buf, row
      <3> QED
        BY <2>4, <3>1 DEF Window
    <2>6. ASSUME NEW r \in 0..Rows - 1, NEW c \in 0..Cols - 1, ~ (r = y /\ c = x)
          PROVE  m.buffer[r][c] = w.buffer[r][c]
      BY <2>3, <2>4, <2>5, <2>6
    <2> QED
      BY <2>3, <2>4, <2>5, <2>6 DEF Written
  <1>2. CASE ~ (y \in 0..Rows - 1 /\ x \in 0..Cols - 1)
    <2>1. m = [w EXCEPT !.outside = TRUE]
      BY <1>2 DEF Cell
    <2>2. m \in Window /\ m.cursor_x = w.cursor_x /\ m.cursor_y = w.cursor_y
      BY <2>1 DEF Window
    <2> QED
      BY <1>2, <2>2
  <1> QED
    BY <1>1, <1>2

(* A row of blanks comes up from below.                                    *)
LEMMA ScrollFacts ==
    ASSUME NEW w \in Window, NEW m, m = wm_scroll_window(w)
    PROVE  /\ m \in Window
           /\ m.cursor_x = w.cursor_x /\ m.outside = w.outside
           /\ w.cursor_y >= 1 => m.cursor_y = w.cursor_y - 1
           /\ w.cursor_y < 1 => m.cursor_y = 0
           /\ \A r \in 0..Rows - 2 : m.buffer[r] = w.buffer[r + 1]
           /\ m.buffer[Rows - 1] = BlankRow
PROOF
  <1> DEFINE buf == [r \in 0..Rows - 1 |-> IF r = Rows - 1 THEN BlankRow ELSE w.buffer[r + 1]]
             y == IF w.cursor_y - 1 < 0 THEN 0 ELSE w.cursor_y - 1
  <1>1. m = [[w EXCEPT !.buffer = buf] EXCEPT !.cursor_y = y]
    BY DEF wm_scroll_window
  <1>2. w.cursor_y \in Int /\ w.buffer \in [0..Rows - 1 -> [0..Cols - 1 -> Glyphs]]
    BY WindowFields DEF Buffers
  <1>3. /\ y \in Int
        /\ w.cursor_y >= 1 => y = w.cursor_y - 1
        /\ w.cursor_y < 1 => y = 0
    BY <1>2
  <1>4. BlankRow \in [0..Cols - 1 -> Glyphs]
    BY DEF BlankRow, Glyphs
  <1>5. ASSUME NEW r \in 0..Rows - 1, r # Rows - 1 PROVE r + 1 \in 0..Rows - 1
    BY <1>5, Sizes
  <1>6. buf \in Buffers
    BY <1>2, <1>4, <1>5 DEF Buffers
  <1>7. /\ \A r \in 0..Rows - 2 : buf[r] = w.buffer[r + 1]
        /\ buf[Rows - 1] = BlankRow
    <2>1. \A r \in 0..Rows - 2 : r \in 0..Rows - 1 /\ r # Rows - 1
      BY Sizes
    <2>2. Rows - 1 \in 0..Rows - 1
      BY Sizes
    <2> QED
      BY <2>1, <2>2
  <1> HIDE DEF buf, y
  <1>8. /\ m \in Window /\ m.buffer = buf /\ m.cursor_y = y
        /\ m.cursor_x = w.cursor_x /\ m.outside = w.outside
    <2> DEFINE v == [w EXCEPT !.buffer = buf]
    <2>1. /\ v \in Window /\ v.buffer = buf
          /\ v.cursor_x = w.cursor_x /\ v.outside = w.outside
      BY <1>6 DEF Window
    <2>2. m = [v EXCEPT !.cursor_y = y]
      BY <1>1
    <2> HIDE DEF v
    <2> QED
      BY <1>3, <2>1, <2>2, CursorYMoved
  <1> QED
    BY <1>3, <1>7, <1>8

(* A glyph is drawn, or left out below the window, and the cursor follows. *)
LEMMA StampedFacts ==
    ASSUME NEW w \in Window, NEW g \in Glyphs, NEW m, m = Stamped(w, g)
    PROVE  /\ m \in Window
           /\ m.cursor_x = w.cursor_x + 1 /\ m.cursor_y = w.cursor_y
           /\ w.cursor_y >= Rows => m.outside = w.outside
           /\ w.cursor_y \in 0..Rows - 1 /\ w.cursor_x \in 0..Cols - 1 =>
                 Written(m, w, w.cursor_x, w.cursor_y, g)
PROOF
  <1> DEFINE x == w.cursor_x
             y == w.cursor_y
             d == Drawn(w, x, y, g)
  <1>1. x \in Int /\ y \in Int
    BY WindowFields
  <1>2. CASE y >= Rows
    <2>1. d = w
      BY <1>2 DEF Drawn
    <2>2. m = [w EXCEPT !.cursor_x = x + 1] /\ x + 1 \in Int
      BY <1>1, <2>1 DEF Stamped
    <2>3. m \in Window /\ m.cursor_x = x + 1 /\ m.cursor_y = y /\ m.outside = w.outside
      BY <2>2 DEF Window
    <2>4. ~ (y \in 0..Rows - 1)
      BY <1>1, <1>2, Sizes
    <2> QED
      BY <2>3, <2>4
  <1>3. CASE ~ (y >= Rows)
    <2>1. d = Cell(w, x, y, g)
      BY <1>3 DEF Drawn
    <2> HIDE DEF x, y, d
    <2>2. /\ d \in Window
          /\ d.cursor_x = w.cursor_x /\ d.cursor_y = w.cursor_y
          /\ y \in 0..Rows - 1 /\ x \in 0..Cols - 1 => Written(d, w, x, y, g)
      BY <1>1, <2>1, CellFacts
    <2>3. m = [d EXCEPT !.cursor_x = x + 1] /\ x + 1 \in Int
      BY <1>1, <2>2 DEF Stamped, d, x, y
    <2>4. /\ m \in Window /\ m.cursor_x = x + 1 /\ m.cursor_y = d.cursor_y
          /\ m.outside = d.outside /\ m.buffer = d.buffer
      BY <2>2, <2>3 DEF Window
    <2> QED
      BY <1>3, <2>2, <2>4 DEF x, y, Written
  <1> QED
    BY <1>2, <1>3

(* A character is erased at the place before the cursor.                   *)
LEMMA ErasedFacts ==
    ASSUME NEW w \in Window, NEW m, m = Erased([w EXCEPT !.cursor_x = @ - 1])
    PROVE  /\ m \in Window
           /\ m.cursor_x = w.cursor_x - 1 /\ m.cursor_y = w.cursor_y
           /\ w.cursor_y \in 0..Rows - 1 /\ w.cursor_x \in 1..Cols =>
                 Written(m, w, w.cursor_x - 1, w.cursor_y, Space)
PROOF
  <1> DEFINE x == w.cursor_x - 1
             y == w.cursor_y
             v == [w EXCEPT !.cursor_x = x]
  <1>1. x \in Int /\ y \in Int /\ (w.cursor_x \in 1..Cols => x \in 0..Cols - 1)
    BY WindowFields, Sizes
  <1>2. /\ v \in Window /\ v.cursor_x = x /\ v.cursor_y = y
        /\ v.buffer = w.buffer /\ v.outside = w.outside
    BY <1>1, CursorXMoved
  <1>3. m = Cell(v, x, y, Space) /\ Space \in Glyphs
    BY <1>2 DEF Erased, Glyphs
  <1> HIDE DEF x, y, v
  <1>4. /\ m \in Window
        /\ m.cursor_x = v.cursor_x /\ m.cursor_y = v.cursor_y
        /\ y \in 0..Rows - 1 /\ x \in 0..Cols - 1 => Written(m, v, x, y, Space)
    BY <1>1, <1>2, <1>3, CellFacts
  <1> QED
    BY <1>1, <1>2, <1>4 DEF x, y, Written

(* Where a character leaves the cursor, and that nothing is written        *)
(* outside the window while the cursor is not above it.                    *)
LEMMA PutStays ==
    ASSUME NEW w \in Window, w.cursor_x \in 0..Cols, w.cursor_y \in -1..Rows - 1,
           NEW c \in Characters, NEW m, m = Put(w, c)
    PROVE  /\ m \in Window
           /\ m.cursor_x \in 0..Cols /\ (w.cursor_x < Cols => m.cursor_x < Cols)
           /\ m.cursor_y \in {w.cursor_y, w.cursor_y + 1}
           /\ w.cursor_y >= 0 => m.outside = w.outside
PROOF
  <1>1. CASE c = "\n"
    <2>1. m = NewLine(w)
      BY <1>1 DEF Put
    <2> QED
      BY <2>1, NewLineFacts, Sizes
  <1>2. CASE c = Backspace
    <2>1. c # "\n"
      BY <1>2 DEF Backspace
    <2>2. CASE w.cursor_x >= 1
      <3>1. m = Erased([w EXCEPT !.cursor_x = @ - 1]) /\ w.cursor_x \in 1..Cols
        BY <1>2, <2>1, <2>2, Sizes DEF Put
      <3>2. /\ m \in Window
            /\ m.cursor_x = w.cursor_x - 1 /\ m.cursor_y = w.cursor_y
            /\ w.cursor_y \in 0..Rows - 1 => m.outside = w.outside
        BY <3>1, ErasedFacts DEF Written
      <3> QED
        BY <3>1, <3>2, Sizes
    <2>3. CASE ~ (w.cursor_x >= 1)
      BY <1>2, <2>1, <2>3 DEF Put
    <2> QED
      BY <2>2, <2>3
  <1>3. CASE c # "\n" /\ c # Backspace
    <2> DEFINE v == IF Wraps(w.cursor_x) THEN NewLine(w) ELSE w
    <2>1. m = Stamped(v, c) /\ c \in Glyphs
      BY <1>3 DEF Put, Characters, Glyphs
    <2>2. /\ v \in Window
          /\ v.cursor_x \in 0..Cols - 2
          /\ v.cursor_y \in {w.cursor_y, w.cursor_y + 1}
          /\ v.outside = w.outside
      <3>1. CASE Wraps(w.cursor_x)
        <4>1. v = NewLine(w)
          BY <3>1
        <4> QED
          BY <4>1, NewLineFacts, Sizes
      <3>2. CASE ~ Wraps(w.cursor_x)
        BY <3>2, Sizes DEF Wraps
      <3> QED
        BY <3>1, <3>2
    <2> HIDE DEF v
    <2>3. /\ m \in Window
          /\ m.cursor_x = v.cursor_x + 1 /\ m.cursor_y = v.cursor_y
          /\ v.cursor_y >= Rows => m.outside = v.outside
          /\ v.cursor_y \in 0..Rows - 1 /\ v.cursor_x \in 0..Cols - 1 => m.outside = v.outside
      BY <2>1, <2>2, StampedFacts DEF Written
    <2>4. v.cursor_x \in 0..Cols - 1 /\ (w.cursor_y >= 0 => v.cursor_y >= Rows \/ v.cursor_y \in 0..Rows - 1)
      BY <2>2, Sizes, WindowFields
    <2>5. m.cursor_x \in 0..Cols /\ m.cursor_x < Cols
      BY <2>2, <2>3, Sizes
    <2> QED
      BY <2>2, <2>3, <2>4, <2>5
  <1> QED
    BY <1>1, <1>2, <1>3

LEMMA PutcStays ==
    ASSUME NEW w \in Window, w.cursor_x \in 0..Cols, w.cursor_y \in -1..Rows - 1,
           NEW c \in Characters, NEW m, m = wm_putc(w, c)
    PROVE  /\ m \in Window
           /\ m.cursor_x \in 0..Cols /\ (w.cursor_x < Cols => m.cursor_x < Cols)
           /\ m.cursor_y \in -1..Rows - 1
           /\ w.cursor_y <= Rows - 2 => m.cursor_y <= Rows - 2
           /\ w.cursor_y >= 0 => m.cursor_y >= 0 /\ m.outside = w.outside
           /\ w.cursor_y >= Rows - 2 => m.cursor_y >= Rows - 2
PROOF
  <1> DEFINE p == Put(w, c)
  <1>1. /\ p \in Window
        /\ p.cursor_x \in 0..Cols /\ (w.cursor_x < Cols => p.cursor_x < Cols)
        /\ p.cursor_y \in {w.cursor_y, w.cursor_y + 1}
        /\ w.cursor_y >= 0 => p.outside = w.outside
    BY PutStays
  <1>2. m = Finish(p)
    BY PutcIsPut
  <1> HIDE DEF p
  <1>3. CASE Full(p.cursor_y)
    <2>1. m = wm_scroll_window(p) /\ p.cursor_y >= Rows - 1
      BY <1>1, <1>2, <1>3, Sizes, WindowFields DEF Finish, Full
    <2>2. /\ m \in Window /\ m.cursor_x = p.cursor_x /\ m.outside = p.outside
          /\ m.cursor_y = p.cursor_y - 1
      BY <1>1, <2>1, ScrollFacts, Sizes
    <2> QED
      BY <1>1, <2>1, <2>2, Sizes
  <1>4. CASE ~ Full(p.cursor_y)
    <2>1. m = p /\ p.cursor_y <= Rows - 2
      BY <1>1, <1>2, <1>4, Sizes, WindowFields DEF Finish, Full
    <2> QED
      BY <1>1, <2>1, Sizes
  <1> QED
    BY <1>3, <1>4

LEMMA ClearFacts ==
    ASSUME NEW w \in Window, NEW m, m = term_clear(w)
    PROVE  /\ m \in Window
           /\ m.cursor_x = 0 /\ m.cursor_y = 0 /\ m.outside = w.outside
           /\ \A r \in 0..Rows - 1 : m.buffer[r] = BlankRow
PROOF
  <1> DEFINE buf == [r \in 0..Rows - 1 |-> BlankRow]
  <1>1. buf \in Buffers /\ \A r \in 0..Rows - 1 : buf[r] = BlankRow
    BY DEF Buffers, BlankRow, Glyphs
  <1>2. m = [w EXCEPT !.buffer = buf, !.cursor_x = 0, !.cursor_y = 0]
    BY DEF term_clear
  <1> HIDE DEF buf
  <1>3. m = [buffer |-> buf, cursor_x |-> 0, cursor_y |-> 0, outside |-> w.outside]
    BY <1>2 DEF Window
  <1> QED
    BY <1>1, <1>3, WindowFields DEF Window

-----------------------------------------------------------------------------
(* Induction and iteration up to n, stated for a set and for a function,   *)
(* so that they can be used by name.                                       *)

LEMMA UpTo ==
    ASSUME NEW n \in Nat, NEW S, 0 \in S,
           \A k \in 0..n - 1 : k \in S => k + 1 \in S
    PROVE  0..n \subseteq S
PROOF
  <1> DEFINE Bad == {k \in 0..n : k \notin S}
             R == OpToRel(<, Nat)
  <1> SUFFICES ASSUME Bad # {} PROVE FALSE
    OBVIOUS
  <1>1. PICK m \in Bad : \A k \in Bad : ~ (<<k, m>> \in R)
    <2>1. IsWellFoundedOn(R, Nat)
      BY NatLessThanWellFounded
    <2>2. Bad \subseteq Nat
      OBVIOUS
    <2> QED
      BY <2>1, <2>2, WFMin
  <1>2. \A k \in Bad : ~ (k < m)
    <2>1. \A k \in Bad : <<k, m>> \in R <=> k < m
      <3>1. Bad \subseteq Nat
        OBVIOUS
      <3> HIDE DEF Bad
      <3> QED
        BY <3>1 DEF OpToRel
    <2> QED
      BY <1>1, <2>1
  <1>3. m # 0 /\ m \in 0..n
    OBVIOUS
  <1>4. m - 1 \in 0..n - 1 /\ m - 1 \in S
    BY <1>2, <1>3
  <1>5. (m - 1) + 1 \in S
    BY <1>4
  <1> QED
    BY <1>3, <1>5

Iteration(f, n, base, step) == f[0] = base /\ \A k \in 1..n : f[k] = step[f[k - 1]]

LEMMA Iterates ==
    ASSUME NEW n \in Nat, NEW T, NEW base \in T, NEW step \in [T -> T]
    PROVE  \E f \in [0..n -> T] :
              Iteration(f, n, base, step)
PROOF
  <1> DEFINE Fits(f, m) == Iteration(f, m, base, step)
             S == {m \in 0..n : \E f \in [0..m -> T] : Fits(f, m)}
  <1>1. 0 \in S
    <2>1. [k \in 0..0 |-> base] \in [0..0 -> T] /\ Fits([k \in 0..0 |-> base], 0)
      BY DEF Iteration
    <2>2. \E f \in [0..0 -> T] : Fits(f, 0)
      BY <2>1
    <2> HIDE DEF Fits
    <2> QED
      BY <2>2
  <1>2. ASSUME NEW m \in 0..n - 1, m \in S PROVE m + 1 \in S
    <2>1. PICK f \in [0..m -> T] : Fits(f, m)
      BY <1>2
    <2> DEFINE g == [k \in 0..m + 1 |-> IF k <= m THEN f[k] ELSE step[f[m]]]
    <2>2. m + 1 \in 1..n /\ f[m] \in T
      OBVIOUS
    <2>3. g \in [0..m + 1 -> T]
      BY <2>2
    <2>4. g[0] = base /\ \A k \in 1..m + 1 : g[k] = step[g[k - 1]]
      BY <2>1 DEF Iteration
    <2> HIDE DEF g
    <2>5. Fits(g, m + 1)
      BY <2>4 DEF Iteration
    <2> HIDE DEF Fits
    <2>6. \E h \in [0..m + 1 -> T] : Fits(h, m + 1)
      BY <2>3, <2>5
    <2> QED
      BY <2>2, <2>6
  <1>3. n \in S
    <2> HIDE DEF S
    <2>1. \A m \in 0..n - 1 : m \in S => m + 1 \in S
      BY <1>2
    <2>2. 0..n \subseteq S
      BY <1>1, <2>1, UpTo, Zenon
    <2> QED
      BY <2>2
  <1> QED
    BY <1>3

-----------------------------------------------------------------------------
(* A line printed by the editor, glyph by glyph.                           *)

Rest == {w \in Window : w.cursor_x \in 0..Cols /\ w.cursor_y \in 0..Rows - 2}

LEMMA WindowUnfolds ==
    ASSUME win \in Rest, NEW n \in Nat
    PROVE  \E f \in [0..n -> Rest] :
              /\ WindowAfter(n) = f[n] /\ f[0] = win
              /\ \A k \in 1..n : f[k] = wm_putc(f[k - 1], Shell)
PROOF
  <1> DEFINE step == [w \in Rest |-> wm_putc(w, Shell)]
             Eq(f) == f = [k \in 0..n |-> IF k = 0 THEN win ELSE wm_putc(f[k - 1], Shell)]
             screen == CHOOSE f : Eq(f)
  <1>1. ASSUME NEW w \in Rest PROVE wm_putc(w, Shell) \in Rest
    <2>1. /\ w \in Window /\ w.cursor_x \in 0..Cols /\ w.cursor_y \in -1..Rows - 1
          /\ w.cursor_y >= 0 /\ w.cursor_y <= Rows - 2 /\ Shell \in Characters
      BY Sizes DEF Rest, Characters
    <2> DEFINE m == wm_putc(w, Shell)
    <2>2. /\ m \in Window /\ m.cursor_x \in 0..Cols
          /\ m.cursor_y \in -1..Rows - 1 /\ m.cursor_y <= Rows - 2 /\ m.cursor_y >= 0
      BY <2>1, PutcStays
    <2> HIDE DEF m
    <2>3. m \in Rest
      BY <2>2, Sizes DEF Rest
    <2> QED
      BY <2>3 DEF m
  <1>2. step \in [Rest -> Rest]
    BY <1>1
  <1>3. PICK f \in [0..n -> Rest] : Iteration(f, n, win, step)
    <2> HIDE DEF step, Eq
    <2>1. n \in Nat /\ win \in Rest
      OBVIOUS
    <2> QED
      BY <1>2, <2>1, Iterates
  <1>4. \A k \in 1..n : f[k - 1] \in Rest
    OBVIOUS
  <1>5. \A k \in 1..n : f[k] = wm_putc(f[k - 1], Shell)
    BY <1>3, <1>4 DEF Iteration
  <1>6. Eq(f)
    BY <1>3, <1>5 DEF Iteration
  <1>7. Eq(screen)
    <2> HIDE DEF Eq
    <2> QED
      BY <1>6
  <1>8. WindowAfter(n) = screen[n]
    BY DEF WindowAfter
  <1> HIDE DEF screen
  <1>9. DOMAIN screen = 0..n /\ screen[0] = win
        /\ \A k \in 1..n : screen[k] = wm_putc(screen[k - 1], Shell)
    BY <1>7
  <1> DEFINE S == {k \in 0..n : screen[k] \in Rest}
  <1>10. 0 \in S /\ \A k \in 0..n - 1 : k \in S => k + 1 \in S
    <2>1. ASSUME NEW k \in 0..n - 1, screen[k] \in Rest PROVE screen[k + 1] \in Rest
      <3>1. k + 1 \in 1..n /\ (k + 1) - 1 = k
        OBVIOUS
      <3>2. screen[k + 1] = wm_putc(screen[k], Shell)
        BY <1>9, <3>1
      <3> QED
        BY <1>1, <2>1, <3>2
    <2> QED
      BY <1>9, <2>1
  <1>11. 0..n \subseteq S
    <2> HIDE DEF S
    <2> QED
      BY <1>10, UpTo
  <1>12. screen \in [0..n -> Rest]
    BY <1>7, <1>9, <1>11
  <1> QED
    BY <1>8, <1>9, <1>12

-----------------------------------------------------------------------------
(* However prints overtake one another: where the cursor and the registers *)
(* are at each label.                                                      *)

Labels == {"editor", "putc", "carriage", "feed", "back", "erase", "wrap", "wrapped",
           "draw", "advance", "check", "scroll", "decrement", "clamp", "clamped", "clear"}

Registers == [x : 0..Cols, y : 0..Rows - 1, row : 0..Rows]

(* The registers of the shell, and the character it is about.              *)
ShellInv ==
    /\ reg \in Registers /\ at \in Labels
    /\ out \in Seq({Shell, "\n", Backspace})
    /\ at \notin {"editor", "putc", "clear"} => out # <<>>
    /\ at \in {"wrap", "wrapped", "draw"} => Head(out) \in Glyphs
    /\ at \in {"editor", "putc"} => reg = NoRegisters
    /\ at = "back" => reg.x >= 1
    /\ at \in {"draw", "advance"} => reg.x < Cols
    /\ at = "scroll" => reg.row < Rows
    /\ at \in {"carriage", "feed", "clamped"} => reg.y <= Rows - 2

(* The cursor is above the last row, but for the character that fills it;  *)
(* above the first row only after a clear, until it is clamped.            *)
CursorInv ==
    /\ win \in Window /\ win.cursor_x \in 0..Cols /\ win.cursor_y \in -1..Rows - 1
    /\ cleared \in BOOLEAN
    /\ at \in {"erase", "draw"} => win.cursor_x < Cols
    /\ at \notin {"wrapped", "draw", "advance", "check", "scroll", "decrement"} =>
          win.cursor_y <= Rows - 2
    /\ at \in {"advance", "check"} /\ reg.y <= Rows - 2 => win.cursor_y <= Rows - 2
    /\ at \in {"advance", "check"} /\ reg.y > Rows - 2 => cleared \/ win.cursor_y >= Rows - 2
    /\ at \in {"scroll", "decrement"} => cleared \/ win.cursor_y >= Rows - 2
    /\ win.cursor_y < 0 => cleared /\ at \in {"clamp", "clamped"}
    /\ win.outside => cleared

(* What a program does to the window is right wherever the shell is.       *)
LEMMA OvertakenCursor ==
    ASSUME ShellInv, CursorInv, NEW c \in Characters, win' = wm_putc(win, c),
           UNCHANGED <<at, reg, cleared>>
    PROVE  CursorInv'
PROOF
  <1>1. /\ win \in Window /\ win.cursor_x \in 0..Cols /\ win.cursor_y \in -1..Rows - 1
    BY DEF CursorInv
  <1>2. /\ win' \in Window
        /\ win'.cursor_x \in 0..Cols /\ (win.cursor_x < Cols => win'.cursor_x < Cols)
        /\ win'.cursor_y \in -1..Rows - 1
        /\ win.cursor_y <= Rows - 2 => win'.cursor_y <= Rows - 2
        /\ win.cursor_y >= 0 => win'.cursor_y >= 0 /\ win'.outside = win.outside
        /\ win.cursor_y >= Rows - 2 => win'.cursor_y >= Rows - 2
    <2> DEFINE w == win
               m == win'
    <2>1. m = wm_putc(w, c) /\ w \in Window /\ w.cursor_x \in 0..Cols /\ w.cursor_y \in -1..Rows - 1
      BY <1>1
    <2> HIDE DEF w, m
    <2>2. /\ m \in Window
          /\ m.cursor_x \in 0..Cols /\ (w.cursor_x < Cols => m.cursor_x < Cols)
          /\ m.cursor_y \in -1..Rows - 1
          /\ w.cursor_y <= Rows - 2 => m.cursor_y <= Rows - 2
          /\ w.cursor_y >= 0 => m.cursor_y >= 0 /\ m.outside = w.outside
          /\ w.cursor_y >= Rows - 2 => m.cursor_y >= Rows - 2
      BY <2>1, PutcStays
    <2> QED
      BY <2>2 DEF w, m
  <1> HIDE DEF Window
  <1>3. win.cursor_y < 0 \/ win.cursor_y >= 0
    BY <1>1, Sizes
  <1>4. win'.outside => cleared
    BY <1>2, <1>3 DEF CursorInv
  <1> QED
    BY <1>2, <1>3, <1>4 DEF CursorInv

LEMMA CursorInitially == TermInit => ShellInv /\ CursorInv
PROOF
  <1> SUFFICES ASSUME TermInit PROVE ShellInv /\ CursorInv
    OBVIOUS
  <1>1. ShellInv
    <2>1. out = <<>> /\ reg = NoRegisters /\ at = "editor"
      BY DEF TermInit
    <2>2. out \in Seq({Shell, "\n", Backspace})
      BY <2>1, EmptySeq
    <2>3. NoRegisters \in Registers
      BY Sizes DEF NoRegisters, Registers
    <2> QED
      BY <2>1, <2>2, <2>3 DEF ShellInv, Labels
  <1> DEFINE w1 == create_window
             w2 == wm_putc(w1, Shell)
             w3 == wm_putc(w2, "\n")
  <1>2. /\ w1 \in Window /\ w1.cursor_x = 0 /\ w1.cursor_y = 0 /\ ~ w1.outside
    <2> DEFINE buf == [r \in 0..Rows - 1 |-> BlankRow]
    <2>1. buf \in Buffers
      BY DEF Buffers, BlankRow, Glyphs
    <2>2. w1 = [buffer |-> buf, cursor_x |-> 0, cursor_y |-> 0, outside |-> FALSE]
      BY DEF create_window
    <2> HIDE DEF w1, buf
    <2> QED
      BY <2>1, <2>2 DEF Window
  <1>3. win = w3 /\ at = "editor" /\ cleared = FALSE
    BY DEF TermInit
  <1>4. Shell \in Characters /\ "\n" \in Characters
    BY DEF Characters
  <1> HIDE DEF w1
  <1>5. /\ w2 \in Window /\ w2.cursor_x \in 0..Cols /\ w2.cursor_y \in 0..Rows - 2 /\ ~ w2.outside
    BY <1>2, <1>4, PutcStays, Sizes
  <1> HIDE DEF w2
  <1>6. /\ w3 \in Window /\ w3.cursor_x \in 0..Cols /\ w3.cursor_y \in 0..Rows - 2 /\ ~ w3.outside
    BY <1>4, <1>5, PutcStays, Sizes
  <1> HIDE DEF w3
  <1>7. win.cursor_y \in -1..Rows - 1 /\ win.cursor_y <= Rows - 2 /\ ~ (win.cursor_y < 0)
    BY <1>3, <1>6, Sizes
  <1>8. win \in Window /\ win.cursor_x \in 0..Cols /\ ~ win.outside
    BY <1>3, <1>6
  <1>9. cleared \in BOOLEAN /\ at = "editor"
    BY <1>3
  <1>10. CursorInv
    BY <1>7, <1>8, <1>9 DEF CursorInv
  <1> QED
    BY <1>1, <1>10

(* The registers and the label.                                            *)
LEMMA ShellStep == ShellInv /\ CursorInv /\ [TermNext]_allVars => ShellInv'
PROOF
  <1> SUFFICES ASSUME ShellInv, CursorInv, [TermNext]_allVars PROVE ShellInv'
    OBVIOUS
  <1> DEFINE G == {Shell, "\n", Backspace}
  <1>1. /\ reg.x \in 0..Cols /\ reg.y \in 0..Rows - 1 /\ reg.row \in 0..Rows
        /\ reg \in Registers /\ at \in Labels /\ out \in Seq(G)
    BY DEF ShellInv, Registers
  <1>2. /\ win.cursor_x \in 0..Cols /\ win.cursor_y \in -1..Rows - 1
        /\ at \notin {"clamp", "clamped"} => win.cursor_y \in 0..Rows - 1
    BY Sizes DEF CursorInv
  <1>3. NoRegisters \in Registers /\ NoRegisters.row = 0 /\ NoRegisters.y = 0
    BY Sizes DEF NoRegisters, Registers
  <1>4. ASSUME NEW o \in Seq(G), o # <<>> PROVE Tail(o) \in Seq(G) /\ Head(o) \in G
    BY <1>4, HeadTailProperties
  <1>5. ASSUME NEW x \in 0..Cols, NEW y \in 0..Rows - 1
        PROVE  /\ [reg EXCEPT !.y = y] \in Registers /\ [reg EXCEPT !.y = y].y = y
               /\ [reg EXCEPT !.y = y].x = reg.x
               /\ [reg EXCEPT !.x = x] \in Registers /\ [reg EXCEPT !.x = x].x = x
               /\ [reg EXCEPT !.x = x, !.y = y] \in Registers
               /\ [reg EXCEPT !.x = x, !.y = y].x = x
    BY <1>1 DEF Registers
  <1>6. CASE UNCHANGED <<at, out, reg>>
    BY <1>6 DEF ShellInv
  <1>7. CASE edit
    BY <1>6, <1>7 DEF edit, Echo, window
  <1>8. CASE command
    <2>1. reg' = reg /\ reg = NoRegisters
      BY <1>8 DEF command, ShellInv
    <2>2. \/ UNCHANGED <<at, out>>
          \/ at' = "putc" /\ out' \in {o \o <<Shell>> : o \in Outputs}
          \/ at' = "clear" /\ out' = <<Shell>>
      BY <1>8 DEF command
    <2>3. \A o \in Outputs : o \o <<Shell>> \in Seq(G)
      <3>1. <<Shell>> \in Seq(G)
        OBVIOUS
      <3>2. \A o \in Outputs : o \in Seq(G)
        BY OutputAssumption DEF OutputAssumption
      <3> QED
        BY <3>1, <3>2, ConcatProperties
    <2>4. <<Shell>> \in Seq(G)
      OBVIOUS
    <2>5. CASE at' = "putc" /\ out' \in {o \o <<Shell>> : o \in Outputs}
      BY <1>3, <2>1, <2>3, <2>5 DEF ShellInv, Labels
    <2>6. CASE at' = "clear" /\ out' = <<Shell>>
      BY <1>3, <2>1, <2>4, <2>6 DEF ShellInv, Labels
    <2> QED
      BY <1>6, <2>1, <2>2, <2>5, <2>6
  <1>9. CASE putc
    <2>1. at = "putc" /\ out' = out
      BY <1>9 DEF putc, InShell
    <2>2. CASE out = <<>>
      <3>1. at' = "editor" /\ reg' = NoRegisters
        BY <1>9, <2>2 DEF putc
      <3> QED
        BY <1>1, <1>3, <2>1, <3>1 DEF ShellInv, Labels
    <2>3. CASE out # <<>>
      <3>1. reg' = [x |-> win.cursor_x, y |-> win.cursor_y, row |-> 0]
        BY <1>9, <2>3 DEF putc
      <3>2. reg' \in Registers /\ reg'.x = win.cursor_x /\ reg'.y = win.cursor_y
        BY <1>2, <2>1, <3>1, Sizes DEF Registers
      <3>3. win.cursor_y <= Rows - 2
        BY <2>1 DEF CursorInv
      <3>4. CASE Head(out) = "\n"
        <4>1. at' = "carriage"
          BY <1>9, <2>3, <3>4 DEF putc, Backspace
        <4> QED
          BY <1>1, <2>1, <2>3, <3>2, <3>3, <4>1 DEF ShellInv, Labels
      <3>5. CASE Head(out) = Backspace
        <4>1. at' = IF win.cursor_x >= 1 THEN "back" ELSE "check"
          BY <1>9, <2>3, <3>5 DEF putc, Backspace
        <4> QED
          BY <1>1, <2>1, <2>3, <3>2, <4>1 DEF ShellInv, Labels
      <3>6. CASE Head(out) # "\n" /\ Head(out) # Backspace
        <4>1. at' = IF Wraps(win.cursor_x) THEN "wrap" ELSE "draw"
          BY <1>9, <2>3, <3>6 DEF putc
        <4>2. Head(out) \in Glyphs
          BY <1>1, <1>4, <2>3, <3>6 DEF Glyphs
        <4>3. ~ Wraps(win.cursor_x) => win.cursor_x < Cols
          BY <1>2, Sizes DEF Wraps
        <4> QED
          BY <1>1, <2>1, <2>3, <3>2, <4>1, <4>2, <4>3 DEF ShellInv, Labels
      <3> QED
        BY <3>4, <3>5, <3>6
    <2> QED
      BY <2>2, <2>3
  <1>10. CASE carriage
    BY <1>1, <1>10 DEF carriage, Store, InShell, ShellInv, Labels
  <1>11. CASE feed
    <2>1. PICK y \in {reg.y, win.cursor_y} : reg' = [reg EXCEPT !.y = y + 1]
      BY <1>11 DEF feed, Store
    <2>2. at = "feed" /\ at' = "check" /\ out' = out
      BY <1>11 DEF feed, Store, InShell
    <2>3. reg.y <= Rows - 2 /\ win.cursor_y <= Rows - 2 /\ win.cursor_y \in 0..Rows - 1
      BY <1>2, <2>2 DEF ShellInv, CursorInv
    <2>4. y + 1 \in 0..Rows - 1
      BY <1>1, <2>3, Sizes
    <2> QED
      BY <1>1, <1>5, <2>1, <2>2, <2>4 DEF ShellInv, Labels
  <1>12. CASE back
    BY <1>1, <1>12 DEF back, Store, InShell, ShellInv, Labels
  <1>13. CASE erase
    <2>1. /\ reg' = [reg EXCEPT !.y = win.cursor_y] /\ at = "erase" /\ at' = "check"
          /\ out' = out
      BY <1>13 DEF erase, Store, InShell
    <2> QED
      BY <1>1, <1>2, <1>5, <2>1 DEF ShellInv, Labels
  <1>14. CASE wrap
    BY <1>1, <1>14 DEF wrap, Store, InShell, ShellInv, Labels
  <1>15. CASE wrapped
    <2>1. /\ reg' = [reg EXCEPT !.x = 0] /\ at = "wrapped" /\ at' = "draw" /\ out' = out
      BY <1>15 DEF wrapped, Store, InShell
    <2>2. reg' \in Registers /\ reg'.x = 0
      BY <1>1, <2>1, Sizes DEF Registers
    <2> QED
      BY <1>1, <2>1, <2>2, Sizes DEF ShellInv, Labels
  <1>16. CASE draw
    <2>1. PICK x \in {reg.x, win.cursor_x} : reg' = [reg EXCEPT !.x = x, !.y = win.cursor_y]
      BY <1>16 DEF draw, Store
    <2>2. at = "draw" /\ at' = "advance" /\ out' = out
      BY <1>16 DEF draw, Store, InShell
    <2>3. x \in 0..Cols /\ x < Cols
      BY <1>1, <1>2, <2>2 DEF ShellInv, CursorInv
    <2> QED
      BY <1>1, <1>2, <1>5, <2>1, <2>2, <2>3 DEF ShellInv, Labels
  <1>17. CASE advance
    BY <1>1, <1>17 DEF advance, Store, InShell, ShellInv, Labels
  <1>18. CASE check
    <2>1. CASE Store("check", win, NoRegisters, "scroll")
      BY <1>1, <1>3, <2>1, Sizes DEF Store, InShell, ShellInv, Labels
    <2>2. CASE Done("check", win)
      BY <1>1, <1>3, <1>4, <2>2 DEF Done, InShell, ShellInv, Labels
    <2> QED
      BY <1>18, <2>1, <2>2 DEF check
  <1>19. CASE scroll
    <2>1. /\ reg' = [reg EXCEPT !.row = reg.row + 1] /\ at = "scroll" /\ out' = out
          /\ at' = IF reg.row + 1 = Rows THEN "decrement" ELSE "scroll"
      BY <1>19 DEF scroll, Store, InShell
    <2>2. reg.row + 1 \in 0..Rows
      BY <1>1, <2>1, Sizes DEF ShellInv
    <2>3. reg' \in Registers /\ reg'.row = reg.row + 1
      BY <1>1, <2>1, <2>2 DEF Registers
    <2>4. at' = "scroll" => reg'.row < Rows
      BY <2>1, <2>2, <2>3, Sizes
    <2> QED
      BY <1>1, <2>1, <2>3, <2>4 DEF ShellInv, Labels
  <1>20. CASE decrement
    BY <1>1, <1>20 DEF decrement, Store, InShell, ShellInv, Labels
  <1>21. CASE clamp
    <2> DEFINE y == IF win.cursor_y < 0 THEN 0 ELSE win.cursor_y
    <2>1. /\ reg' = [reg EXCEPT !.y = y] /\ at = "clamp" /\ at' = "clamped" /\ out' = out
      BY <1>21 DEF clamp, Store, InShell
    <2>2. win.cursor_y <= Rows - 2
      BY <2>1 DEF CursorInv
    <2>3. y \in 0..Rows - 1 /\ y <= Rows - 2
      BY <1>2, <2>2, Sizes
    <2> HIDE DEF y
    <2> QED
      BY <1>1, <1>5, <2>1, <2>3 DEF ShellInv, Labels
  <1>22. CASE clamped
    BY <1>1, <1>3, <1>4, <1>22 DEF clamped, Done, InShell, ShellInv, Labels
  <1>23. CASE clear
    <2>1. at = "clear" /\ out' = out
      BY <1>23 DEF clear, InShell
    <2>2. CASE reg.row < Rows /\ reg' = [reg EXCEPT !.row = reg.row + 1] /\ UNCHANGED at
      <3>1. reg.row + 1 \in 0..Rows
        BY <1>1, <2>2, Sizes
      <3> QED
        BY <1>1, <2>1, <2>2, <3>1 DEF ShellInv, Labels, Registers
    <2>3. CASE reg' = NoRegisters /\ at' = "putc"
      BY <1>1, <1>3, <2>1, <2>3 DEF ShellInv, Labels
    <2> QED
      BY <1>23, <2>2, <2>3 DEF clear
  <1>24. CASE UNCHANGED allVars
    BY <1>6, <1>24 DEF allVars, window
  <1>25. CASE SYS_CLEAR
    BY <1>6, <1>25 DEF SYS_CLEAR
  <1>26. ASSUME NEW c \in {Program, "\n", Backspace}, SYS_PRINT(c) PROVE ShellInv'
    BY <1>6, <1>26 DEF SYS_PRINT
  <1> QED
    BY <1>7, <1>8, <1>9, <1>10, <1>11, <1>12, <1>13, <1>14, <1>15, <1>16, <1>17, <1>18,
       <1>19, <1>20, <1>21, <1>22, <1>23, <1>24, <1>25, <1>26 DEF TermNext

LEMMA EchoedWindow ==
    ASSUME win \in Rest, NEW n \in Nat
    PROVE  WindowAfter(n) \in Rest /\ WindowAfter(n).outside = win.outside
PROOF
  <1>1. PICK f \in [0..n -> Rest] :
           /\ WindowAfter(n) = f[n] /\ f[0] = win
           /\ \A k \in 1..n : f[k] = wm_putc(f[k - 1], Shell)
    BY WindowUnfolds
  <1> DEFINE S == {k \in 0..n : f[k].outside = win.outside}
  <1>2. ASSUME NEW w \in Rest PROVE wm_putc(w, Shell).outside = w.outside
    <2>1. /\ w \in Window /\ w.cursor_x \in 0..Cols /\ w.cursor_y \in -1..Rows - 1
          /\ w.cursor_y >= 0 /\ Shell \in Characters
      BY Sizes DEF Rest, Characters
    <2> DEFINE m == wm_putc(w, Shell)
    <2>2. m.outside = w.outside
      BY <2>1, PutcStays
    <2> QED
      BY <2>2
  <1>3. ASSUME NEW k \in 0..n - 1, k \in S PROVE k + 1 \in S
    <2>1. k + 1 \in 1..n /\ (k + 1) - 1 = k /\ k + 1 \in 0..n /\ f[k] \in Rest
      OBVIOUS
    <2>2. f[k + 1] = wm_putc(f[k], Shell)
      BY <1>1, <2>1
    <2> QED
      BY <1>2, <1>3, <2>1, <2>2
  <1>4. 0 \in S
    BY <1>1
  <1>5. n \in S
    <2> HIDE DEF S
    <2>1. 0..n \subseteq S
      BY <1>3, <1>4, UpTo
    <2> QED
      BY <2>1
  <1> QED
    BY <1>1, <1>5

(* What the editor echoes.                                                 *)
LEMMA EchoSizes ==
    ASSUME EditorInv', edit
    PROVE  /\ at = "editor"
           /\ \/ \E n \in Nat : \E s : n = Len(s) /\ Echo(s)
              \/ UNCHANGED window
PROOF
  <1>1. line' \in Seq(Chars) /\ Len(line') \in Nat
    BY LineIsSeq, LenProperties DEF EditorInv
  <1>2. ASSUME NEW c PROVE Len(<<c>>) \in Nat
    OBVIOUS
  <1> QED
    BY <1>1, <1>2 DEF edit

(* The cursor.                                                             *)
LEMMA CursorStep ==
    EditorInv' /\ ShellInv /\ ShellInv' /\ CursorInv /\ [TermNext]_allVars => CursorInv'
PROOF
  <1> SUFFICES ASSUME EditorInv', ShellInv, ShellInv', CursorInv, [TermNext]_allVars
               PROVE  CursorInv'
    OBVIOUS
  <1>1. /\ win \in Window /\ win.cursor_x \in 0..Cols /\ win.cursor_y \in -1..Rows - 1
        /\ at \notin {"clamp", "clamped"} => win.cursor_y >= 0
        /\ cleared \in BOOLEAN /\ (win.outside => cleared)
    BY Sizes DEF CursorInv
  <1>2. reg.x \in 0..Cols /\ reg.y \in 0..Rows - 1 /\ reg.row \in 0..Rows
    BY DEF ShellInv, Registers
  <1>3. CASE UNCHANGED <<win, at, reg, cleared>>
    BY <1>3 DEF CursorInv
  <1>4. CASE edit
    <2>1. CASE UNCHANGED window
      BY <1>3, <2>1 DEF window
    <2>2. ASSUME NEW n \in Nat, NEW s, n = Len(s), Echo(s) PROVE CursorInv'
      <3>1. at = "editor" /\ UNCHANGED <<at, reg, cleared>> /\ win' = WindowAfter(n)
        BY <1>4, <2>2 DEF edit, Echo
      <3>2. win \in Rest
        BY <1>1, <3>1, Sizes DEF Rest, CursorInv
      <3>3. win' \in Rest /\ win'.outside = win.outside
        BY <3>1, <3>2, EchoedWindow
      <3>4. /\ win' \in Window /\ win'.cursor_x \in 0..Cols /\ win'.cursor_y \in -1..Rows - 1
            /\ win'.cursor_y <= Rows - 2 /\ ~ (win'.cursor_y < 0)
        BY <3>3, Sizes DEF Rest
      <3> QED
        BY <1>1, <3>1, <3>3, <3>4 DEF CursorInv
    <2> QED
      BY <1>4, <2>1, <2>2, EchoSizes
  <1>5. CASE command
    <2>1. at = "editor" /\ UNCHANGED <<win, reg, cleared>> /\ at' \in {"editor", "putc", "clear"}
      BY <1>5 DEF command
    <2> QED
      BY <1>1, <2>1 DEF CursorInv
  <1>6. CASE putc
    <2>1. /\ at = "putc" /\ UNCHANGED <<win, cleared>>
          /\ win.cursor_y <= Rows - 2
      BY <1>6 DEF putc, InShell, CursorInv
    <2>2. CASE out = <<>>
      <3>1. at' = "editor"
        BY <1>6, <2>2 DEF putc
      <3> QED
        BY <1>1, <2>1, <3>1 DEF CursorInv
    <2>3. CASE out # <<>>
      <3>1. reg'.y = win.cursor_y
        BY <1>6, <2>3 DEF putc
      <3>2. CASE at' = "draw"
        <4>1. ~ Wraps(win.cursor_x)
          BY <1>6, <2>3, <3>2 DEF putc, Backspace
        <4>2. win.cursor_x < Cols
          BY <1>1, <4>1, Sizes DEF Wraps
        <4> QED
          BY <1>1, <2>1, <3>2, <4>2 DEF CursorInv
      <3>3. CASE at' \in {"carriage", "back", "check", "wrap"}
        BY <1>1, <2>1, <3>1, <3>3, Sizes DEF CursorInv
      <3>4. at' \in {"carriage", "back", "check", "wrap", "draw"}
        BY <1>6, <2>3 DEF putc, Backspace
      <3> QED
        BY <3>2, <3>3, <3>4
    <2> QED
      BY <2>2, <2>3
  <1>7. CASE carriage
    <2>1. /\ at = "carriage" /\ at' = "feed" /\ UNCHANGED <<reg, cleared>>
          /\ win' = [win EXCEPT !.cursor_x = 0] /\ win.cursor_y <= Rows - 2
      BY <1>7 DEF carriage, Store, InShell, CursorInv
    <2>2. /\ win' \in Window /\ win'.cursor_x = 0 /\ win'.cursor_y = win.cursor_y
          /\ win'.outside = win.outside
      BY <1>1, <2>1 DEF Window
    <2> QED
      BY <1>1, <2>1, <2>2, Sizes DEF CursorInv
  <1>8. CASE feed
    <2>1. PICK y \in {reg.y, win.cursor_y} :
             win' = [win EXCEPT !.cursor_y = y + 1] /\ reg' = [reg EXCEPT !.y = y + 1]
      BY <1>8 DEF feed, Store
    <2>2. /\ at = "feed" /\ at' = "check" /\ cleared' = cleared
          /\ win.cursor_y <= Rows - 2 /\ reg.y <= Rows - 2 /\ win.cursor_y >= 0
      BY <1>8 DEF feed, Store, InShell, CursorInv, ShellInv
    <2>3. y + 1 \in 0..Rows - 1
      BY <1>1, <1>2, <2>2, Sizes
    <2>4. /\ win' \in Window /\ win'.cursor_x = win.cursor_x /\ win'.cursor_y = y + 1
          /\ win'.outside = win.outside
      BY <1>1, <2>1, <2>3 DEF Window
    <2>5. reg'.y = y + 1
      BY <2>1 DEF ShellInv, Registers
    <2> QED
      BY <1>1, <2>2, <2>3, <2>4, <2>5, Sizes DEF CursorInv
  <1>9. CASE back
    <2>1. /\ at = "back" /\ at' = "erase" /\ UNCHANGED <<reg, cleared>>
          /\ win' = [win EXCEPT !.cursor_x = reg.x - 1] /\ win.cursor_y <= Rows - 2
          /\ reg.x >= 1
      BY <1>9 DEF back, Store, InShell, CursorInv, ShellInv
    <2>2. reg.x - 1 \in 0..Cols /\ reg.x - 1 < Cols
      BY <1>2, <2>1, Sizes
    <2>3. /\ win' \in Window /\ win'.cursor_x = reg.x - 1 /\ win'.cursor_y = win.cursor_y
          /\ win'.outside = win.outside
      BY <1>1, <2>1, <2>2 DEF Window
    <2> QED
      BY <1>1, <2>1, <2>2, <2>3, Sizes DEF CursorInv
  <1>10. CASE erase
    <2>1. /\ at = "erase" /\ at' = "check" /\ cleared' = cleared
          /\ win' = Erased(win) /\ reg' = [reg EXCEPT !.y = win.cursor_y]
          /\ win.cursor_y <= Rows - 2 /\ win.cursor_x < Cols /\ win.cursor_y >= 0
      BY <1>10 DEF erase, Store, InShell, CursorInv
    <2>2. reg'.y = win.cursor_y
      BY <2>1 DEF ShellInv, Registers
    <2> DEFINE x == win.cursor_x
               y == win.cursor_y
    <2>3. /\ x \in Int /\ y \in Int /\ x \in 0..Cols - 1 /\ y \in 0..Rows - 1
          /\ win' = Cell(win, x, y, Space) /\ Space \in Glyphs
      BY <1>1, <2>1, Sizes DEF Erased, Glyphs
    <2> HIDE DEF x, y
    <2>4. /\ win' \in Window /\ win'.cursor_x = win.cursor_x /\ win'.cursor_y = win.cursor_y
          /\ Written(win', win, x, y, Space)
      BY <1>1, <2>3, CellFacts
    <2>5. win'.outside = win.outside
      BY <2>4 DEF Written
    <2> QED
      BY <1>1, <2>1, <2>2, <2>4, <2>5, Sizes DEF CursorInv
  <1>11. CASE wrap
    <2>1. /\ at = "wrap" /\ at' = "wrapped" /\ UNCHANGED <<reg, cleared>>
          /\ win' = [win EXCEPT !.cursor_y = win.cursor_y + 1] /\ win.cursor_y <= Rows - 2
      BY <1>11 DEF wrap, Store, InShell, CursorInv
    <2>2. /\ win' \in Window /\ win'.cursor_x = win.cursor_x /\ win'.cursor_y = win.cursor_y + 1
          /\ win'.outside = win.outside
      BY <1>1, <2>1 DEF Window
    <2> QED
      BY <1>1, <2>1, <2>2, Sizes DEF CursorInv
  <1>12. CASE wrapped
    <2>1. /\ at = "wrapped" /\ at' = "draw" /\ cleared' = cleared
          /\ win' = [win EXCEPT !.cursor_x = 0]
      BY <1>12 DEF wrapped, Store, InShell
    <2>2. /\ win' \in Window /\ win'.cursor_x = 0 /\ win'.cursor_y = win.cursor_y
          /\ win'.outside = win.outside
      BY <1>1, <2>1 DEF Window
    <2> QED
      BY <1>1, <2>1, <2>2, Sizes DEF CursorInv
  <1>13. CASE draw
    <2>1. PICK x \in {reg.x, win.cursor_x} :
             /\ win' = Drawn(win, x, win.cursor_y, Head(out))
             /\ reg' = [reg EXCEPT !.x = x, !.y = win.cursor_y]
      BY <1>13 DEF draw, Store
    <2>2. /\ at = "draw" /\ at' = "advance" /\ cleared' = cleared
          /\ win.cursor_x < Cols /\ reg.x < Cols /\ Head(out) \in Glyphs /\ win.cursor_y >= 0
      BY <1>13 DEF draw, Store, InShell, CursorInv, ShellInv
    <2> DEFINE y == win.cursor_y
               g == Head(out)
    <2>3. /\ x \in Int /\ y \in Int /\ x \in 0..Cols - 1 /\ y \in 0..Rows - 1
          /\ win' = Cell(win, x, y, g) /\ g \in Glyphs
      BY <1>1, <1>2, <2>1, <2>2, Sizes DEF Drawn
    <2> HIDE DEF y, g
    <2>4. /\ win' \in Window /\ win'.cursor_x = win.cursor_x /\ win'.cursor_y = win.cursor_y
          /\ Written(win', win, x, y, g)
      BY <1>1, <2>3, CellFacts
    <2>5. win'.outside = win.outside /\ reg'.y = win.cursor_y
      BY <2>1, <2>4 DEF Written, ShellInv, Registers
    <2> QED
      BY <1>1, <2>2, <2>4, <2>5, Sizes DEF CursorInv
  <1>14. CASE advance
    <2>1. /\ at = "advance" /\ at' = "check" /\ UNCHANGED <<reg, cleared>>
          /\ win' = [win EXCEPT !.cursor_x = reg.x + 1] /\ reg.x < Cols
      BY <1>14 DEF advance, Store, InShell, ShellInv
    <2>2. reg.x + 1 \in 0..Cols
      BY <1>2, <2>1, Sizes
    <2>3. /\ win' \in Window /\ win'.cursor_x = reg.x + 1 /\ win'.cursor_y = win.cursor_y
          /\ win'.outside = win.outside
      BY <1>1, <2>1, <2>2 DEF Window
    <2> QED
      BY <1>1, <2>1, <2>2, <2>3, Sizes DEF CursorInv
  <1>15. CASE check
    <2>1. PICK y \in {reg.y, win.cursor_y} :
             \/ Full(y) /\ Store("check", win, NoRegisters, "scroll")
             \/ ~Full(y) /\ Done("check", win)
      BY <1>15 DEF check
    <2>2. /\ at = "check" /\ UNCHANGED <<win, cleared>>
          /\ at' = IF Full(y) THEN "scroll" ELSE "putc"
      BY <2>1 DEF Store, Done, InShell
    <2>3. CASE Full(y)
      <3>1. cleared \/ win.cursor_y >= Rows - 2
        BY <1>1, <1>2, <2>2, <2>3, Sizes DEF CursorInv, Full
      <3> QED
        BY <1>1, <2>2, <2>3, <3>1 DEF CursorInv
    <2>4. CASE ~ Full(y)
      <3>1. win.cursor_y <= Rows - 2
        BY <1>1, <1>2, <2>2, <2>4, Sizes DEF CursorInv, Full
      <3> QED
        BY <1>1, <2>2, <2>4, <3>1 DEF CursorInv
    <2> QED
      BY <2>3, <2>4
  <1>16. CASE scroll
    <2> DEFINE row == IF reg.row = Rows - 1 THEN BlankRow ELSE win.buffer[reg.row + 1]
    <2>1. /\ at = "scroll" /\ at' \in {"scroll", "decrement"} /\ cleared' = cleared
          /\ win' = [win EXCEPT !.buffer = [win.buffer EXCEPT ![reg.row] = row]]
      BY <1>16 DEF scroll, Store, InShell, MovedUp
    <2>2. row \in [0..Cols - 1 -> Glyphs]
      <3>1. BlankRow \in [0..Cols - 1 -> Glyphs]
        BY DEF BlankRow, Glyphs
      <3>2. reg.row < Rows
        BY <2>1 DEF ShellInv
      <3>3. reg.row # Rows - 1 => reg.row + 1 \in 0..Rows - 1
        BY <1>2, <3>2, Sizes
      <3> QED
        BY <1>1, <3>1, <3>3, WindowFields DEF Buffers
    <2> HIDE DEF row
    <2>3. [win.buffer EXCEPT ![reg.row] = row] \in Buffers
      BY <1>1, <2>2, WindowFields DEF Buffers
    <2>4. /\ win' \in Window /\ win'.cursor_x = win.cursor_x /\ win'.cursor_y = win.cursor_y
          /\ win'.outside = win.outside
      BY <1>1, <2>1, <2>3 DEF Window
    <2> QED
      BY <1>1, <2>1, <2>4, Sizes DEF CursorInv
  <1>17. CASE decrement
    <2>1. /\ at = "decrement" /\ at' = "clamp" /\ UNCHANGED <<reg, cleared>>
          /\ win' = [win EXCEPT !.cursor_y = win.cursor_y - 1]
          /\ win.cursor_y >= 0
      BY <1>17 DEF decrement, Store, InShell, CursorInv
    <2>2. /\ win' \in Window /\ win'.cursor_x = win.cursor_x /\ win'.cursor_y = win.cursor_y - 1
          /\ win'.outside = win.outside
      BY <1>1, <2>1 DEF Window
    <2>3. /\ win'.cursor_y \in -1..Rows - 1 /\ win'.cursor_y <= Rows - 2
          /\ cleared \/ ~ (win'.cursor_y < 0)
      BY <1>1, <2>1, <2>2, Sizes DEF CursorInv
    <2> QED
      BY <1>1, <2>1, <2>2, <2>3 DEF CursorInv
  <1>18. CASE clamp
    <2>1. at = "clamp" /\ at' = "clamped" /\ UNCHANGED <<win, cleared>>
      BY <1>18 DEF clamp, Store, InShell
    <2> QED
      BY <1>1, <2>1 DEF CursorInv
  <1>19. CASE clamped
    <2>1. /\ at = "clamped" /\ at' = "putc" /\ cleared' = cleared
          /\ win' = [win EXCEPT !.cursor_y = reg.y] /\ reg.y <= Rows - 2
      BY <1>19 DEF clamped, Done, InShell, ShellInv
    <2>2. /\ win' \in Window /\ win'.cursor_x = win.cursor_x /\ win'.cursor_y = reg.y
          /\ win'.outside = win.outside
      BY <1>1, <1>2, <2>1 DEF Window
    <2> QED
      BY <1>1, <1>2, <2>1, <2>2, Sizes DEF CursorInv
  <1>20. CASE clear
    <2>1. at = "clear" /\ cleared' = cleared /\ win.cursor_y <= Rows - 2
      BY <1>20 DEF clear, InShell, CursorInv
    <2>2. CASE win' = [win EXCEPT !.buffer[reg.row] = BlankRow] /\ at' = at
      <3>1. [win.buffer EXCEPT ![reg.row] = BlankRow] \in Buffers
        <4>1. BlankRow \in [0..Cols - 1 -> Glyphs]
          BY DEF BlankRow, Glyphs
        <4> QED
          BY <1>1, <4>1, WindowFields DEF Buffers
      <3>2. /\ win' \in Window /\ win'.cursor_x = win.cursor_x /\ win'.cursor_y = win.cursor_y
            /\ win'.outside = win.outside
        BY <1>1, <2>2, <3>1 DEF Window
      <3> QED
        BY <1>1, <2>1, <2>2, <3>2 DEF CursorInv
    <2>3. CASE win' = [win EXCEPT !.cursor_x = 0, !.cursor_y = 0] /\ at' = "putc"
      <3>1. win' \in Window /\ win'.cursor_x = 0 /\ win'.cursor_y = 0 /\ win'.outside = win.outside
        <4> DEFINE z == 0
        <4>1. win' = [win EXCEPT !.cursor_x = z, !.cursor_y = z] /\ z \in Int /\ z = 0
          BY <2>3
        <4> HIDE DEF z
        <4> QED
          BY <1>1, <4>1 DEF Window
      <3> QED
        BY <1>1, <2>1, <2>3, <3>1, Sizes DEF CursorInv
    <2> QED
      BY <1>20, <2>2, <2>3 DEF clear
  <1>21. CASE SYS_CLEAR
    <2>1. /\ win' = term_clear(win) /\ UNCHANGED <<at, reg>>
          /\ cleared' = (cleared \/ ~AtRest)
      BY <1>21 DEF SYS_CLEAR
    <2>2. win' \in Window /\ win'.cursor_x = 0 /\ win'.cursor_y = 0 /\ win'.outside = win.outside
      BY <1>1, <2>1, ClearFacts
    <2>3. cleared' \in BOOLEAN /\ (win'.outside => cleared')
      BY <1>1, <2>1, <2>2
    <2>4. at \in {"advance", "check", "scroll", "decrement"} => cleared'
      BY <2>1 DEF AtRest
    <2> QED
      BY <2>1, <2>2, <2>3, <2>4, Sizes DEF CursorInv
  <1>22. ASSUME NEW c \in {Program, "\n", Backspace}, SYS_PRINT(c) PROVE CursorInv'
    <2>1. c \in Characters /\ win' = wm_putc(win, c) /\ UNCHANGED <<at, reg, cleared>>
      BY <1>22 DEF SYS_PRINT, Characters
    <2> QED
      BY <2>1, OvertakenCursor
  <1>23. CASE UNCHANGED allVars
    BY <1>3, <1>23 DEF allVars, window
  <1> QED
    BY <1>4, <1>5, <1>6, <1>7, <1>8, <1>9, <1>10, <1>11, <1>12, <1>13, <1>14, <1>15, <1>16,
       <1>17, <1>18, <1>19, <1>20, <1>21, <1>22, <1>23 DEF TermNext

LEMMA CursorAlways == TermSpec => [](ShellInv /\ CursorInv)
PROOF
  <1>1. TermInit => ShellInv /\ CursorInv
    BY CursorInitially
  <1>2. /\ EditorInv /\ EditorInv'
        /\ ShellInv /\ CursorInv /\ [TermNext]_allVars
        => (ShellInv /\ CursorInv)'
    BY ShellStep, CursorStep
  <1>3. TermSpec => []EditorInv
    BY EditorAlways, EditorInTerminal, PTL
  <1> QED
    BY <1>1, <1>2, <1>3, PTL DEF TermSpec

(* However programs and the shell overtake one another, the cursor and the *)
(* registers stay in or just beside the window, for any window.            *)
THEOREM AlwaysInWindow == TermSpec => []WindowOK
PROOF
  <1>1. ASSUME ShellInv, CursorInv PROVE WindowOK
    <2>1. /\ win \in Window /\ win.cursor_x \in 0..Cols /\ win.cursor_y \in -1..Rows - 1
          /\ reg.x \in 0..Cols /\ reg.y \in 0..Rows - 1 /\ reg.row \in 0..Rows
          /\ at \in Labels
      BY <1>1 DEF ShellInv, CursorInv, Registers
    <2>2. win.buffer \in [0..Rows - 1 -> [0..Cols - 1 -> {Space, Shell, Program}]]
      BY <2>1, WindowFields DEF Buffers, Glyphs
    <2>3. win.cursor_y \in -1..Rows /\ reg.y \in -1..Rows
      BY <2>1, Sizes
    <2> QED
      BY <2>1, <2>2, <2>3 DEF WindowOK, Labels
  <1> QED
    BY <1>1, CursorAlways, PTL

(* Nothing is written outside the window unless a program cleared it while *)
(* the shell was about a character, for any window.                        *)
THEOREM AlwaysInsideUnlessCleared == TermSpec => []InsideUnlessCleared
PROOF
  <1>1. CursorInv => InsideUnlessCleared
    BY DEF CursorInv, InsideUnlessCleared
  <1> QED
    BY <1>1, CursorAlways, PTL

-----------------------------------------------------------------------------
(* What the window shows.                                                  *)

Line_ == Seq(Glyphs)

(* The glyph that belongs in row r and column c.                           *)
Shown(ls, r, c) == IF r < Len(ls) /\ c < Len(ls[r + 1]) THEN ls[r + 1][c + 1] ELSE Space

FitsIn(ls, n) ==
    /\ ls \in Seq(Line_) /\ Len(ls) \in 1..n
    /\ \A i \in 1..Len(ls) : Len(ls[i]) <= Cols - 1

Shows(w, ls) ==
    /\ w.cursor_y = Len(ls) - 1 /\ w.cursor_x = Len(ls[Len(ls)])
    /\ \A r \in 0..Rows - 1 : \A c \in 0..Cols - 1 : w.buffer[r][c] = Shown(ls, r, c)

(* The lines printed before the first has to go.                           *)
Long(ls, c) ==
    IF c = "\n" THEN Append(ls, <<>>)
    ELSE IF c = Backspace THEN IF Last(ls) = <<>> THEN ls ELSE Append(Front(ls), Front(Last(ls)))
    ELSE IF Len(Last(ls)) = Cols - 1 THEN Append(ls, <<c>>)
    ELSE Append(Front(ls), Append(Last(ls), c))

LEMMA PrintedIsLong ==
    ASSUME NEW ls, NEW c
    PROVE  Printed(ls, c) = IF Len(Long(ls, c)) < Rows THEN Long(ls, c) ELSE Tail(Long(ls, c))
PROOF
  <1>1. CASE c = "\n"
    <2>1. Printed(ls, c) = IF Len(Append(ls, <<>>)) < Rows THEN Append(ls, <<>>)
                           ELSE Tail(Append(ls, <<>>))
      BY <1>1 DEF Printed, Backspace
    <2> QED
      BY <1>1, <2>1 DEF Long
  <1>2. CASE c = Backspace
    <2>1. c # "\n"
      BY <1>2 DEF Backspace
    <2> DEFINE l == IF Last(ls) = <<>> THEN ls ELSE Append(Front(ls), Front(Last(ls)))
    <2>2. Printed(ls, c) = IF Len(l) < Rows THEN l ELSE Tail(l)
      BY <1>2, <2>1 DEF Printed
    <2>3. Long(ls, c) = l
      BY <1>2, <2>1 DEF Long
    <2> QED
      BY <2>2, <2>3
  <1>3. CASE c # "\n" /\ c # Backspace
    <2> DEFINE l == IF Len(Last(ls)) = Cols - 1 THEN Append(ls, <<c>>)
                    ELSE Append(Front(ls), Append(Last(ls), c))
    <2>1. Long(ls, c) = l
      BY <1>3 DEF Long
    <2>2. Printed(ls, c) = IF Len(l) < Rows THEN l ELSE Tail(l)
      <3>1. CASE Len(Last(ls)) = Cols - 1
        BY <1>3, <3>1 DEF Printed
      <3>2. CASE Len(Last(ls)) # Cols - 1
        BY <1>3, <3>2 DEF Printed
      <3> QED
        BY <3>1, <3>2
    <2> QED
      BY <2>1, <2>2
  <1> QED
    BY <1>1, <1>2, <1>3

LEMMA LineAppended ==
    ASSUME NEW ls \in Seq(Line_), NEW s \in Line_, NEW l, l = Append(ls, s)
    PROVE  /\ l \in Seq(Line_) /\ Len(l) = Len(ls) + 1 /\ l[Len(ls) + 1] = s
           /\ \A i \in 1..Len(ls) : l[i] = ls[i]
PROOF
  BY AppendProperties

(* l is ls with s for the last line.                                       *)
Replaced(l, ls, s) ==
    /\ l \in Seq(Line_) /\ Len(l) = Len(ls) /\ l[Len(ls)] = s
    /\ \A i \in 1..Len(ls) - 1 : l[i] = ls[i]

LEMMA LineReplaced ==
    ASSUME NEW ls \in Seq(Line_), ls # <<>>, NEW s \in Line_
    PROVE  Replaced(Append(Front(ls), s), ls, s)
PROOF
  <1> DEFINE l == Append(Front(ls), s)
             n == Len(ls)
             f == Front(ls)
  <1>1. n \in Nat \ {0} /\ \A i \in 1..n - 1 : ls[i] \in Line_
    BY EmptySeq, ElementOfSeq
  <1>2. /\ f \in Seq(Line_) /\ Len(f) = n - 1
        /\ \A i \in 1..n - 1 : f[i] = ls[i]
    <2>1. f = SubSeq(ls, 1, n - 1)
      BY DEF Front
    <2> HIDE DEF f
    <2>2. /\ f \in Seq(Line_) /\ Len(f) = IF 1 <= n - 1 THEN (n - 1) - 1 + 1 ELSE 0
          /\ \A i \in 1..(n - 1) - 1 + 1 : f[i] = ls[1 + i - 1]
      BY <1>1, <2>1, SubSeqProperties
    <2>3. ASSUME NEW i \in 1..n - 1 PROVE f[i] = ls[i]
      <3>1. i \in 1..(n - 1) - 1 + 1 /\ 1 + i - 1 = i
        BY <1>1
      <3> QED
        BY <2>2, <3>1
    <2>4. Len(f) = n - 1
      <3> HIDE DEF n
      <3>1. ASSUME NEW x \in Nat \ {0}, NEW y, y = IF 1 <= x - 1 THEN (x - 1) - 1 + 1 ELSE 0
            PROVE  y = x - 1
        BY <3>1
      <3> QED
        BY <1>1, <2>2, <3>1
    <2> QED
      BY <2>2, <2>3, <2>4
  <1> HIDE DEF f, n
  <1>3. /\ l \in Seq(Line_) /\ Len(l) = Len(f) + 1 /\ l[Len(f) + 1] = s
        /\ \A i \in 1..Len(f) : l[i] = f[i]
    BY <1>2, AppendProperties DEF f
  <1>4. Len(f) + 1 = n
    BY <1>1, <1>2
  <1> QED
    BY <1>1, <1>2, <1>3, <1>4 DEF n, Replaced

LEMMA FitFacts ==
    ASSUME NEW n \in Nat, NEW ls, FitsIn(ls, n)
    PROVE  /\ ls \in Seq(Line_) /\ Len(ls) \in Nat /\ Len(ls) >= 1 /\ Len(ls) <= n
           /\ Last(ls) = ls[Len(ls)]
           /\ \A i \in 1..Len(ls) : ls[i] \in Line_ /\ Len(ls[i]) \in 0..Cols - 1
PROOF
  <1>1. ls \in Seq(Line_) /\ Len(ls) \in Nat /\ Len(ls) >= 1 /\ Len(ls) <= n
    BY LenProperties DEF FitsIn
  <1>2. Last(ls) = ls[Len(ls)]
    BY DEF Last
  <1>3. ASSUME NEW i \in 1..Len(ls) PROVE ls[i] \in Line_ /\ Len(ls[i]) \in 0..Cols - 1
    <2>1. ls[i] \in Line_
      BY <1>1, ElementOfSeq
    <2>2. Len(ls[i]) \in Nat
      BY <2>1, LenProperties DEF Line_
    <2> QED
      BY <2>1, <2>2, Sizes DEF FitsIn
  <1> QED
    BY <1>1, <1>2, <1>3

(* Scrolling.                                                              *)
LEMMA FinishShows ==
    ASSUME NEW w \in Window, NEW ls, FitsIn(ls, Rows), Shows(w, ls),
           NEW m, m = Finish(w), NEW l, l = IF Len(ls) < Rows THEN ls ELSE Tail(ls)
    PROVE  m \in Window /\ FitsIn(l, Rows - 1) /\ Shows(m, l) /\ m.outside = w.outside
PROOF
  <1>1. /\ ls \in Seq(Line_) /\ Len(ls) \in Nat /\ Len(ls) >= 1 /\ Len(ls) <= Rows
        /\ \A i \in 1..Len(ls) : ls[i] \in Line_ /\ Len(ls[i]) \in 0..Cols - 1
    BY FitFacts, Sizes
  <1>2. w.cursor_y = Len(ls) - 1 /\ w.cursor_x = Len(ls[Len(ls)])
    BY DEF Shows
  <1>3. CASE Len(ls) < Rows
    <2>1. m = w /\ l = ls
      BY <1>1, <1>2, <1>3, Sizes DEF Finish, Full
    <2>2. FitsIn(ls, Rows - 1)
      BY <1>1, <1>3, Sizes DEF FitsIn
    <2> QED
      BY <2>1, <2>2
  <1>4. CASE ~ (Len(ls) < Rows)
    <2>1. Len(ls) = Rows /\ w.cursor_y = Rows - 1 /\ l = Tail(ls)
      BY <1>1, <1>2, <1>4, Sizes
    <2>2. m = wm_scroll_window(w)
      BY <2>1, Sizes DEF Finish, Full
    <2>3. /\ m \in Window
          /\ m.cursor_x = w.cursor_x /\ m.outside = w.outside /\ m.cursor_y = Rows - 2
          /\ \A r \in 0..Rows - 2 : m.buffer[r] = w.buffer[r + 1]
          /\ m.buffer[Rows - 1] = BlankRow
      BY <2>1, <2>2, ScrollFacts, Sizes
    <2>4. /\ l \in Seq(Line_) /\ Len(l) = Rows - 1
          /\ \A i \in 1..Rows - 1 : l[i] = ls[i + 1]
      <3>1. ls # <<>>
        BY <1>1, EmptySeq
      <3>2. l \in Seq(Line_) /\ Len(l) = Len(ls) - 1 /\ \A i \in 1..Len(l) : l[i] = ls[i + 1]
        BY <1>1, <2>1, <3>1, HeadTailProperties
      <3> QED
        BY <2>1, <3>2
    <2>5. FitsIn(l, Rows - 1)
      <3>1. ASSUME NEW i \in 1..Len(l) PROVE Len(l[i]) <= Cols - 1
        <4>1. l[i] = ls[i + 1] /\ i + 1 \in 1..Len(ls)
          BY <2>1, <2>4, Sizes
        <4> QED
          BY <1>1, <4>1, Sizes
      <3> QED
        BY <2>4, <3>1, Sizes DEF FitsIn
    <2>6. m.cursor_y = Len(l) - 1 /\ m.cursor_x = Len(l[Len(l)])
      <3>1. l[Rows - 1] = ls[Rows]
        BY <2>4, Sizes
      <3> QED
        BY <1>2, <2>1, <2>3, <2>4, <3>1, Sizes
    <2>7. ASSUME NEW r \in 0..Rows - 1, NEW c \in 0..Cols - 1
          PROVE  m.buffer[r][c] = Shown(l, r, c)
      <3>1. CASE r = Rows - 1
        <4>1. m.buffer[r][c] = Space
          BY <2>3, <3>1 DEF BlankRow
        <4>2. ~ (r < Len(l))
          BY <2>4, <3>1, Sizes
        <4> QED
          BY <4>1, <4>2 DEF Shown
      <3>2. CASE r # Rows - 1
        <4>1. r \in 0..Rows - 2 /\ r + 1 \in 0..Rows - 1 /\ r + 1 \in 1..Rows - 1
          BY <3>2, Sizes
        <4>2. m.buffer[r][c] = Shown(ls, r + 1, c)
          BY <2>3, <4>1 DEF Shows
        <4>3. l[r + 1] = ls[(r + 1) + 1] /\ r < Len(l) /\ r + 1 < Len(ls)
          BY <2>1, <2>4, <4>1, Sizes
        <4> QED
          BY <4>2, <4>3 DEF Shown
      <3> QED
        BY <3>1, <3>2
    <2> QED
      BY <2>3, <2>5, <2>6, <2>7 DEF Shows
  <1> QED
    BY <1>3, <1>4

LEMMA NewLineShows ==
    ASSUME NEW w \in Window, NEW ls, FitsIn(ls, Rows - 1), Shows(w, ls),
           NEW m, m = NewLine(w), NEW l, l = Append(ls, <<>>)
    PROVE  m \in Window /\ FitsIn(l, Rows) /\ Shows(m, l) /\ m.outside = w.outside
PROOF
  <1> DEFINE n == Len(ls)
  <1>1. /\ ls \in Seq(Line_) /\ n \in Nat /\ n >= 1 /\ n <= Rows - 1
        /\ \A i \in 1..n : ls[i] \in Line_ /\ Len(ls[i]) \in 0..Cols - 1
    BY FitFacts, Sizes
  <1>2. <<>> \in Line_ /\ Len(<<>>) = 0
    BY EmptySeq DEF Line_
  <1>3. /\ l \in Seq(Line_) /\ Len(l) = n + 1 /\ l[n + 1] = <<>>
        /\ \A i \in 1..n : l[i] = ls[i]
    BY <1>1, <1>2, LineAppended
  <1> HIDE DEF n
  <1>4. FitsIn(l, Rows)
    <2>1. ASSUME NEW i \in 1..Len(l) PROVE Len(l[i]) <= Cols - 1
      <3>1. CASE i = n + 1
        BY <1>2, <1>3, <3>1, Sizes
      <3>2. CASE i # n + 1
        <4>1. i \in 1..n
          BY <1>1, <1>3, <3>2
        <4> QED
          BY <1>1, <1>3, <4>1, Sizes
      <3> QED
        BY <3>1, <3>2
    <2> QED
      BY <1>1, <1>3, <2>1, Sizes DEF FitsIn
  <1>5. /\ m \in Window /\ m.cursor_x = 0 /\ m.cursor_y = w.cursor_y + 1
        /\ m.buffer = w.buffer /\ m.outside = w.outside
    BY NewLineFacts
  <1>6. m.cursor_y = Len(l) - 1 /\ m.cursor_x = Len(l[Len(l)])
    <2>1. w.cursor_y = n - 1
      BY DEF Shows, n
    <2> QED
      BY <1>1, <1>2, <1>3, <1>5, <2>1
  <1>7. ASSUME NEW r \in 0..Rows - 1, NEW c \in 0..Cols - 1
        PROVE  m.buffer[r][c] = Shown(l, r, c)
    <2>1. m.buffer[r][c] = Shown(ls, r, c)
      BY <1>5 DEF Shows
    <2>2. CASE r < n
      <3>1. r + 1 \in 1..n /\ r < Len(l)
        BY <1>1, <1>3, <2>2
      <3> QED
        BY <1>3, <2>1, <2>2, <3>1 DEF Shown, n
    <2>3. CASE r = n
      <3>1. Len(l[r + 1]) = 0 /\ ~ (c < 0) /\ ~ (r < n)
        BY <1>1, <1>2, <1>3, <2>3
      <3> QED
        BY <2>1, <3>1 DEF Shown, n
    <2>4. CASE r > n
      <3>1. ~ (r < n) /\ ~ (r < Len(l))
        BY <1>1, <1>3, <2>4
      <3> QED
        BY <2>1, <3>1 DEF Shown, n
    <2> QED
      BY <1>1, <2>2, <2>3, <2>4
  <1> QED
    BY <1>4, <1>5, <1>6, <1>7 DEF Shows

(* Shown in a row, s differs from line t in column x at most, where it is g. *)
Differs(s, t, x, g) ==
    \A c \in 0..Cols - 1 :
       (IF c < Len(s) THEN s[c + 1] ELSE Space)
          = IF c = x THEN g ELSE IF c < Len(t) THEN t[c + 1] ELSE Space

(* The last line becomes s, which differs from it in one place.            *)
LEMMA ReplacedShows ==
    ASSUME NEW w \in Window, NEW ls, FitsIn(ls, Rows), Shows(w, ls),
           NEW s \in Line_, Len(s) <= Cols - 1,
           NEW l, Replaced(l, ls, s),
           NEW m \in Window, NEW x \in Nat, NEW g,
           Written(m, w, x, w.cursor_y, g),
           m.cursor_y = w.cursor_y, m.cursor_x = Len(s), Differs(s, Last(ls), x, g)
    PROVE  FitsIn(l, Rows) /\ Shows(m, l)
PROOF
  <1> DEFINE n == Len(ls)
  <1>1. /\ ls \in Seq(Line_) /\ n \in Nat /\ n >= 1 /\ n <= Rows /\ Last(ls) = ls[n]
        /\ \A i \in 1..n : ls[i] \in Line_ /\ Len(ls[i]) \in 0..Cols - 1
    BY FitFacts, Sizes
  <1>2. /\ l \in Seq(Line_) /\ Len(l) = n /\ l[n] = s
        /\ \A i \in 1..n - 1 : l[i] = ls[i]
    BY DEF Replaced
  <1>3. w.cursor_y = n - 1
    BY DEF Shows
  <1>4. \A r \in 0..Rows - 1 : \A c \in 0..Cols - 1 : w.buffer[r][c] = Shown(ls, r, c)
    BY DEF Shows
  <1> HIDE DEF n
  <1>5. FitsIn(l, Rows)
    <2>1. ASSUME NEW i \in 1..Len(l) PROVE Len(l[i]) <= Cols - 1
      <3>1. CASE i = n
        BY <1>2, <3>1
      <3>2. CASE i # n
        <4>1. i \in 1..n - 1 /\ i \in 1..n
          BY <1>1, <1>2, <3>2
        <4>2. l[i] = ls[i] /\ Len(ls[i]) \in 0..Cols - 1
          BY <1>1, <1>2, <4>1, Zenon
        <4> QED
          BY <4>2, Sizes
      <3> QED
        BY <3>1, <3>2
    <2> QED
      BY <1>1, <1>2, <2>1, Sizes DEF FitsIn
  <1>6. ASSUME NEW r \in 0..Rows - 1, NEW c \in 0..Cols - 1
        PROVE  m.buffer[r][c] = Shown(l, r, c)
    <2>1. CASE r < n - 1
      <3>1. r + 1 \in 1..n - 1 /\ r < n /\ r # w.cursor_y
        BY <1>1, <1>3, <2>1
      <3>2. m.buffer[r][c] = Shown(ls, r, c)
        BY <1>4, <3>1 DEF Written
      <3> QED
        BY <1>2, <3>1, <3>2 DEF Shown, n
    <2>2. CASE r = n - 1
      <3>1. r + 1 = n /\ r < n /\ r = w.cursor_y
        BY <1>1, <1>3, <2>2
      <3>2. Shown(l, r, c) = IF c < Len(s) THEN s[c + 1] ELSE Space
        BY <1>2, <3>1 DEF Shown
      <3>3. Shown(ls, r, c) = IF c < Len(Last(ls)) THEN Last(ls)[c + 1] ELSE Space
        BY <1>1, <3>1 DEF Shown, n
      <3>4. CASE c = x
        BY <3>1, <3>2, <3>4 DEF Written, Differs
      <3>5. CASE c # x
        <4>1. m.buffer[r][c] = Shown(ls, r, c)
          BY <1>4, <3>5 DEF Written
        <4> QED
          BY <3>2, <3>3, <3>5, <4>1 DEF Differs
      <3> QED
        BY <3>4, <3>5
    <2>3. CASE r > n - 1
      <3>1. ~ (r < n) /\ r # w.cursor_y
        BY <1>1, <1>3, <2>3
      <3>2. m.buffer[r][c] = Shown(ls, r, c)
        BY <1>4, <3>1 DEF Written
      <3> QED
        BY <1>2, <3>1, <3>2 DEF Shown, n
    <2> QED
      BY <1>1, <2>1, <2>2, <2>3
  <1>7. m.cursor_y = Len(l) - 1 /\ m.cursor_x = Len(l[Len(l)])
    BY <1>2, <1>3
  <1> QED
    BY <1>5, <1>6, <1>7 DEF Shows

(* A glyph that fits the last line.                                        *)
LEMMA StampedShows ==
    ASSUME NEW w \in Window, NEW ls, FitsIn(ls, Rows), Shows(w, ls),
           NEW g \in Glyphs, Len(Last(ls)) < Cols - 1,
           NEW l, Replaced(l, ls, Append(Last(ls), g)),
           NEW m, m = Stamped(w, g)
    PROVE  m \in Window /\ FitsIn(l, Rows) /\ Shows(m, l) /\ m.outside = w.outside
PROOF
  <1> DEFINE t == Last(ls)
             x == w.cursor_x
             s == Append(t, g)
  <1>1. /\ Len(ls) \in Nat /\ Len(ls) >= 1 /\ Len(ls) <= Rows /\ t = ls[Len(ls)]
        /\ t \in Line_ /\ Len(t) \in Nat
    BY FitFacts, Sizes
  <1>2. x = Len(t) /\ w.cursor_y = Len(ls) - 1
    BY <1>1 DEF Shows
  <1>3. Len(t) < Cols - 1
    OBVIOUS
  <1>4. x \in 0..Cols - 1 /\ w.cursor_y \in 0..Rows - 1 /\ x \in Nat
    BY <1>1, <1>2, <1>3, Sizes
  <1>5. /\ m \in Window /\ m.cursor_x = x + 1 /\ m.cursor_y = w.cursor_y
        /\ Written(m, w, x, w.cursor_y, g)
    BY <1>4, StampedFacts
  <1>6. /\ s \in Line_ /\ Len(s) = Len(t) + 1 /\ s[Len(t) + 1] = g
        /\ \A i \in 1..Len(t) : s[i] = t[i]
    BY <1>1, AppendProperties DEF Line_
  <1> HIDE DEF t, s, x
  <1>7. Differs(s, t, x, g)
    <2> SUFFICES ASSUME NEW c \in 0..Cols - 1
                 PROVE  (IF c < Len(s) THEN s[c + 1] ELSE Space)
                        = IF c = x THEN g ELSE IF c < Len(t) THEN t[c + 1] ELSE Space
      BY DEF Differs
    <2>1. CASE c < x
      <3>1. c + 1 \in 1..Len(t) /\ c < Len(s) /\ c # x
        BY <1>1, <1>2, <1>6, <2>1
      <3> QED
        BY <1>2, <1>6, <2>1, <3>1
    <2>2. CASE c = x
      BY <1>1, <1>2, <1>6, <2>2
    <2>3. CASE c > x
      <3>1. ~ (c < Len(s)) /\ ~ (c < Len(t)) /\ c # x
        BY <1>1, <1>2, <1>6, <2>3
      <3> QED
        BY <3>1
    <2> QED
      BY <1>4, <2>1, <2>2, <2>3
  <1>8. Len(s) <= Cols - 1 /\ m.cursor_x = Len(s)
    BY <1>1, <1>2, <1>3, <1>5, <1>6, Sizes
  <1>9. Replaced(l, ls, s) /\ Differs(s, Last(ls), x, g)
    BY <1>7 DEF s, t
  <1>10. FitsIn(l, Rows) /\ Shows(m, l)
    BY <1>4, <1>5, <1>6, <1>8, <1>9, ReplacedShows
  <1>11. m.outside = w.outside
    BY <1>5 DEF Written
  <1> QED
    BY <1>5, <1>10, <1>11

(* A character that is taken back.                                         *)
LEMMA ErasedShows ==
    ASSUME NEW w \in Window, NEW ls, FitsIn(ls, Rows), Shows(w, ls), Last(ls) # <<>>,
           NEW l, l = Append(Front(ls), Front(Last(ls))),
           NEW m, m = Erased([w EXCEPT !.cursor_x = @ - 1])
    PROVE  /\ m \in Window /\ FitsIn(l, Rows) /\ Shows(m, l) /\ m.outside = w.outside
           /\ w.cursor_x >= 1
PROOF
  <1> DEFINE t == Last(ls)
             x == w.cursor_x - 1
             s == Front(t)
             g == Space
  <1>1. /\ Len(ls) \in Nat /\ Len(ls) >= 1 /\ Len(ls) <= Rows /\ t = ls[Len(ls)]
        /\ t \in Line_ /\ Len(t) \in 0..Cols - 1 /\ ls \in Seq(Line_)
    BY FitFacts, Sizes
  <1>2. x = Len(t) - 1 /\ w.cursor_y = Len(ls) - 1
    BY <1>1 DEF Shows
  <1>3. Len(t) >= 1
    BY <1>1, EmptySeq DEF Line_
  <1>4. x \in 0..Cols - 1 /\ w.cursor_y \in 0..Rows - 1 /\ x \in Nat /\ w.cursor_x \in 1..Cols
    <2>1. w.cursor_x = Len(t)
      BY <1>1 DEF Shows
    <2> QED
      BY <1>1, <1>2, <1>3, <2>1, Sizes
  <1>5. /\ m \in Window /\ m.cursor_x = x /\ m.cursor_y = w.cursor_y
        /\ Written(m, w, x, w.cursor_y, g)
    BY <1>4, ErasedFacts
  <1>6. s \in Line_ /\ Len(s) = Len(t) - 1 /\ \A i \in 1..Len(t) - 1 : s[i] = t[i]
    <2>1. s = SubSeq(t, 1, Len(t) - 1) /\ \A i \in 1..Len(t) - 1 : t[i] \in Glyphs
      BY <1>1, ElementOfSeq DEF Front, Line_
    <2> DEFINE n == Len(t)
    <2>2. n \in Nat \ {0}
      BY <1>1, <1>3
    <2> HIDE DEF s, t
    <2>3. /\ s \in Seq(Glyphs) /\ Len(s) = IF 1 <= n - 1 THEN (n - 1) - 1 + 1 ELSE 0
          /\ \A i \in 1..(n - 1) - 1 + 1 : s[i] = t[1 + i - 1]
      <3>1. t \in Seq(Glyphs) /\ 1 \in Nat /\ n - 1 \in Nat /\ \A i \in 1..n - 1 : t[i] \in Glyphs
        BY <1>1, <2>1, <2>2 DEF Line_
      <3> QED
        BY <2>1, <3>1, SubSeqProperties
    <2> HIDE DEF n
    <2>4. Len(s) = n - 1
      <3>1. ASSUME NEW u \in Nat \ {0}, NEW y, y = IF 1 <= u - 1 THEN (u - 1) - 1 + 1 ELSE 0
            PROVE  y = u - 1
        BY <3>1
      <3> QED
        BY <2>2, <2>3, <3>1
    <2>5. ASSUME NEW i \in 1..n - 1 PROVE s[i] = t[i]
      <3>1. i \in 1..(n - 1) - 1 + 1 /\ 1 + i - 1 = i
        BY <2>2
      <3> QED
        BY <2>3, <3>1
    <2> QED
      BY <2>3, <2>4, <2>5 DEF n, Line_
  <1> HIDE DEF t, s, x
  <1>7. Differs(s, t, x, g)
    <2> SUFFICES ASSUME NEW c \in 0..Cols - 1
                 PROVE  (IF c < Len(s) THEN s[c + 1] ELSE Space)
                        = IF c = x THEN g ELSE IF c < Len(t) THEN t[c + 1] ELSE Space
      BY DEF Differs
    <2>1. CASE c < x
      <3>1. c + 1 \in 1..Len(t) - 1 /\ c < Len(s) /\ c # x /\ c < Len(t)
        BY <1>1, <1>2, <1>6, <2>1
      <3> QED
        BY <1>6, <3>1
    <2>2. CASE c = x
      <3>1. ~ (c < Len(s))
        BY <1>1, <1>2, <1>6, <2>2
      <3> QED
        BY <2>2, <3>1
    <2>3. CASE c > x
      <3>1. ~ (c < Len(s)) /\ ~ (c < Len(t)) /\ c # x
        BY <1>1, <1>2, <1>6, <2>3
      <3> QED
        BY <3>1
    <2> QED
      BY <1>4, <2>1, <2>2, <2>3
  <1>8. Len(s) <= Cols - 1 /\ m.cursor_x = Len(s)
    BY <1>1, <1>2, <1>5, <1>6, Sizes
  <1>9. Replaced(l, ls, s) /\ Differs(s, Last(ls), x, g)
    <2>1. ls # <<>>
      BY <1>1, EmptySeq
    <2>2. Replaced(Append(Front(ls), s), ls, s)
      BY <1>1, <1>6, <2>1, LineReplaced, Zenon
    <2> QED
      BY <1>7, <2>2 DEF s, t
  <1> HIDE DEF g
  <1>10. FitsIn(l, Rows) /\ Shows(m, l)
    BY <1>4, <1>5, <1>6, <1>8, <1>9, ReplacedShows
  <1>11. m.outside = w.outside
    BY <1>5 DEF Written
  <1> QED
    BY <1>4, <1>5, <1>10, <1>11, Sizes

LEMMA PutShows ==
    ASSUME NEW w \in Window, NEW ls, FitsIn(ls, Rows - 1), Shows(w, ls),
           NEW c \in Characters, NEW m, m = Put(w, c), NEW l, l = Long(ls, c)
    PROVE  m \in Window /\ FitsIn(l, Rows) /\ Shows(m, l) /\ m.outside = w.outside
PROOF
  <1> DEFINE t == Last(ls)
  <1>1. /\ ls \in Seq(Line_) /\ Len(ls) \in Nat /\ Len(ls) >= 1 /\ Len(ls) <= Rows - 1
        /\ t = ls[Len(ls)] /\ t \in Line_ /\ Len(t) \in 0..Cols - 1
    BY FitFacts, Sizes
  <1>2. w.cursor_x = Len(t)
    BY <1>1 DEF Shows
  <1>3. FitsIn(ls, Rows)
    BY <1>1, Sizes DEF FitsIn
  <1>4. CASE c = "\n"
    BY <1>4, NewLineShows DEF Put, Long
  <1>5. CASE c = Backspace
    <2>1. c # "\n"
      BY <1>5 DEF Backspace
    <2>2. CASE t = <<>>
      <3>1. ~ (w.cursor_x >= 1)
        BY <1>2, <2>2, EmptySeq
      <3>2. m = w /\ l = ls
        BY <1>5, <2>1, <2>2, <3>1 DEF Put, Long
      <3> QED
        BY <1>3, <3>2
    <2>3. CASE t # <<>>
      <3>1. l = Append(Front(ls), Front(Last(ls)))
        BY <1>5, <2>1, <2>3 DEF Long
      <3>2. Len(t) # 0
        BY <1>1, <2>3, EmptySeq DEF Line_
      <3>3. w.cursor_x >= 1
        BY <1>1, <1>2, <3>2
      <3>4. m = Erased([w EXCEPT !.cursor_x = @ - 1])
        BY <1>5, <2>1, <3>3 DEF Put
      <3> QED
        BY <1>3, <2>3, <3>1, <3>4, ErasedShows
    <2> QED
      BY <2>2, <2>3
  <1>6. CASE c # "\n" /\ c # Backspace
    <2>1. c \in Glyphs
      BY <1>6 DEF Characters, Glyphs
    <2>2. m = Stamped(IF Wraps(w.cursor_x) THEN NewLine(w) ELSE w, c)
      BY <1>6 DEF Put
    <2>3. CASE Len(t) = Cols - 1
      <3> DEFINE v == NewLine(w)
                 k == Append(ls, <<>>)
      <3>1. m = Stamped(v, c)
        BY <1>2, <2>2, <2>3, Sizes DEF Wraps
      <3>2. l = Append(ls, <<c>>)
        BY <1>6, <2>3 DEF Long
      <3>3. v \in Window /\ FitsIn(k, Rows) /\ Shows(v, k) /\ v.outside = w.outside
        BY NewLineShows
      <3>4. <<>> \in Line_ /\ <<c>> \in Line_ /\ Append(<<>>, c) = <<c>> /\ Len(<<>>) = 0
        BY <2>1 DEF Line_
      <3>5. /\ k \in Seq(Line_) /\ Len(k) = Len(ls) + 1 /\ k[Len(ls) + 1] = <<>>
            /\ \A i \in 1..Len(ls) : k[i] = ls[i]
        BY <1>1, <3>4, LineAppended
      <3>6. /\ l \in Seq(Line_) /\ Len(l) = Len(ls) + 1 /\ l[Len(ls) + 1] = <<c>>
            /\ \A i \in 1..Len(ls) : l[i] = ls[i]
        BY <1>1, <3>2, <3>4, LineAppended
      <3>7. Last(k) = <<>>
        BY <3>5 DEF Last
      <3>8. Replaced(l, k, <<c>>)
        <4>1. Len(k) - 1 = Len(ls)
          BY <1>1, <3>5
        <4> QED
          BY <3>5, <3>6, <4>1 DEF Replaced
      <3> HIDE DEF v, k
      <3>9. Replaced(l, k, Append(Last(k), c))
        <4>1. Append(Last(k), c) = <<c>>
          BY <3>4, <3>7, Zenon
        <4> QED
          BY <3>8, <4>1, Zenon
      <3>10. Len(Last(k)) < Cols - 1
        <4>1. Len(Last(k)) = 0
          BY <3>4, <3>7, Zenon
        <4> QED
          BY <4>1, Sizes
      <3> QED
        BY <2>1, <3>1, <3>3, <3>9, <3>10, StampedShows
    <2>4. CASE Len(t) # Cols - 1
      <3>1. m = Stamped(w, c) /\ Len(t) < Cols - 1
        BY <1>1, <1>2, <2>2, <2>4, Sizes DEF Wraps
      <3>2. l = Append(Front(ls), Append(t, c))
        BY <1>6, <2>4 DEF Long
      <3>3. Append(t, c) \in Line_ /\ ls # <<>>
        BY <1>1, <2>1, EmptySeq, AppendProperties DEF Line_
      <3>4. Replaced(l, ls, Append(t, c))
        BY <1>1, <3>2, <3>3, LineReplaced, Zenon
      <3> QED
        BY <1>3, <2>1, <3>1, <3>4, StampedShows
    <2> QED
      BY <2>3, <2>4
  <1> QED
    BY <1>4, <1>5, <1>6

(* A character printed is a character shown.                               *)
LEMMA PutcShows ==
    ASSUME NEW w \in Window, NEW ls, FitsIn(ls, Rows - 1), Shows(w, ls),
           NEW c \in Characters, NEW m, m = wm_putc(w, c), NEW l, l = Printed(ls, c)
    PROVE  m \in Window /\ FitsIn(l, Rows - 1) /\ Shows(m, l) /\ m.outside = w.outside
PROOF
  <1> DEFINE p == Put(w, c)
             k == Long(ls, c)
  <1>1. p \in Window /\ FitsIn(k, Rows) /\ Shows(p, k) /\ p.outside = w.outside
    BY PutShows
  <1>2. m = Finish(p)
    BY PutcIsPut
  <1>3. l = IF Len(k) < Rows THEN k ELSE Tail(k)
    BY PrintedIsLong
  <1> HIDE DEF p, k
  <1> QED
    BY <1>1, <1>2, <1>3, FinishShows

(* The glyphs of a line printed by the editor, on the list of lines.       *)
LEMMA LinesUnfold ==
    ASSUME NEW v \in Window, FitsIn(lines, Rows - 1), Shows(v, lines), NEW n \in Nat
    PROVE  \E ls : /\ LinesAfter(n) = ls[n] /\ ls[0] = lines
                   /\ \A k \in 1..n : ls[k] = Printed(ls[k - 1], Shell)
PROOF
  <1> DEFINE T == {l \in Seq(Line_) : FitsIn(l, Rows - 1) /\ \E w \in Window : Shows(w, l)}
             step == [l \in T |-> Printed(l, Shell)]
             Eq(f) == f = [k \in 0..n |-> IF k = 0 THEN lines ELSE Printed(f[k - 1], Shell)]
             list == CHOOSE f : Eq(f)
  <1>1. ASSUME NEW l \in T PROVE Printed(l, Shell) \in T
    <2>1. FitsIn(l, Rows - 1) /\ Shell \in Characters
      BY DEF Characters
    <2>2. PICK w \in Window : Shows(w, l)
      OBVIOUS
    <2> DEFINE p == Printed(l, Shell)
               m == wm_putc(w, Shell)
    <2>3. m \in Window /\ FitsIn(p, Rows - 1) /\ Shows(m, p)
      BY <2>1, <2>2, PutcShows
    <2> HIDE DEF p, m
    <2>4. p \in Seq(Line_)
      BY <2>3 DEF FitsIn
    <2>5. p \in T
      BY <2>3, <2>4
    <2> QED
      BY <2>5 DEF p
  <1>2. step \in [T -> T] /\ lines \in T
    BY <1>1 DEF FitsIn
  <1>3. PICK f \in [0..n -> T] : Iteration(f, n, lines, step)
    <2> HIDE DEF T, step, Eq
    <2> QED
      BY <1>2, Iterates
  <1>4. \A k \in 1..n : f[k] = Printed(f[k - 1], Shell)
    <2>1. \A k \in 1..n : f[k - 1] \in T
      OBVIOUS
    <2> QED
      BY <1>3, <2>1 DEF Iteration
  <1>5. Eq(f)
    <2> HIDE DEF T
    <2> QED
      BY <1>3, <1>4 DEF Iteration
  <1>6. Eq(list)
    <2> HIDE DEF Eq
    <2> QED
      BY <1>5
  <1>7. LinesAfter(n) = list[n]
    BY DEF LinesAfter
  <1> HIDE DEF list
  <1>8. list[0] = lines /\ \A k \in 1..n : list[k] = Printed(list[k - 1], Shell)
    BY <1>6
  <1> QED
    BY <1>7, <1>8

(* What the editor prints is shown.                                        *)
LEMMA EchoShows ==
    ASSUME win \in Window, FitsIn(lines, Rows - 1), Shows(win, lines), NEW n \in Nat
    PROVE  FitsIn(LinesAfter(n), Rows - 1) /\ Shows(WindowAfter(n), LinesAfter(n))
PROOF
  <1>1. win \in Rest
    <2>1. /\ Len(lines) \in Nat /\ Len(lines) >= 1 /\ Len(lines) <= Rows - 1
          /\ Len(lines[Len(lines)]) \in 0..Cols - 1
      BY FitFacts, Sizes
    <2> QED
      BY <2>1, Sizes DEF Rest, Shows
  <1>2. PICK f \in [0..n -> Rest] :
           /\ WindowAfter(n) = f[n] /\ f[0] = win
           /\ \A k \in 1..n : f[k] = wm_putc(f[k - 1], Shell)
    BY <1>1, WindowUnfolds
  <1>3. PICK ls : /\ LinesAfter(n) = ls[n] /\ ls[0] = lines
                  /\ \A k \in 1..n : ls[k] = Printed(ls[k - 1], Shell)
    BY LinesUnfold
  <1> DEFINE S == {k \in 0..n : FitsIn(ls[k], Rows - 1) /\ Shows(f[k], ls[k])}
  <1>4. ASSUME NEW k \in 0..n - 1, k \in S PROVE k + 1 \in S
    <2>1. k + 1 \in 1..n /\ (k + 1) - 1 = k /\ k + 1 \in 0..n /\ f[k] \in Window
      BY DEF Rest
    <2>2. f[k + 1] = wm_putc(f[k], Shell) /\ ls[k + 1] = Printed(ls[k], Shell)
      BY <1>2, <1>3, <2>1
    <2>3. FitsIn(ls[k], Rows - 1) /\ Shows(f[k], ls[k]) /\ Shell \in Characters
      BY <1>4 DEF Characters
    <2>4. FitsIn(ls[k + 1], Rows - 1) /\ Shows(f[k + 1], ls[k + 1])
      <3> DEFINE w == f[k]
                 l == ls[k]
                 m == f[k + 1]
                 p == ls[k + 1]
      <3>1. w \in Window /\ FitsIn(l, Rows - 1) /\ Shows(w, l) /\ m = wm_putc(w, Shell)
            /\ p = Printed(l, Shell) /\ Shell \in Characters
        BY <2>1, <2>2, <2>3
      <3> HIDE DEF w, l, m, p
      <3>2. FitsIn(p, Rows - 1) /\ Shows(m, p)
        BY <3>1, PutcShows
      <3> QED
        BY <3>2 DEF m, p
    <2> QED
      BY <2>1, <2>4
  <1>5. 0 \in S
    BY <1>2, <1>3
  <1>6. n \in S
    <2> HIDE DEF S
    <2>1. 0..n \subseteq S
      BY <1>4, <1>5, UpTo
    <2> QED
      BY <2>1
  <1> QED
    BY <1>2, <1>3, <1>6

-----------------------------------------------------------------------------
(* What the window will show once the shell is done with a character.      *)

AtLeft(w) == [w EXCEPT !.cursor_x = 0]
Left(w) == [w EXCEPT !.cursor_x = @ - 1]
Right(w) == [w EXCEPT !.cursor_x = @ + 1]
Down(w) == [w EXCEPT !.cursor_y = @ + 1]

Completed(label, w, c) ==
    CASE label = "carriage" -> Finish(NewLine(w))
      [] label = "feed" -> Finish(Down(w))
      [] label = "back" -> Finish(Erased(Left(w)))
      [] label = "erase" -> Finish(Erased(w))
      [] label = "wrap" -> Finish(Stamped(NewLine(w), c))
      [] label = "wrapped" -> Finish(Stamped(AtLeft(w), c))
      [] label = "draw" -> Finish(Stamped(w, c))
      [] label = "advance" -> Finish(Right(w))
      [] label = "check" -> Finish(w)
      [] OTHER -> w

(* A window that shows the lines once the rows from this one on are moved. *)
Scrolled(w, row, ls) ==
    /\ w.cursor_y = Rows - 1 /\ w.cursor_y - 1 = Len(ls) - 1 /\ w.cursor_x = Len(ls[Len(ls)])
    /\ \A r \in 0..Rows - 1 : \A c \in 0..Cols - 1 :
          Shown(ls, r, c) = IF r < row THEN w.buffer[r][c]
                            ELSE IF r = Rows - 1 THEN Space ELSE w.buffer[r + 1][c]

(* While nobody overtakes the shell, its registers are those of the window *)
(* and the character it is about is as good as printed.                    *)
Agreed ==
    /\ FitsIn(lines, Rows - 1)
    /\ at \in {"back", "draw", "advance"} => reg.x = win.cursor_x
    /\ at \in {"carriage", "feed", "advance", "check", "clamped"} => reg.y = win.cursor_y
    /\ at = "clear" => \A r \in 0..reg.row - 1 : win.buffer[r] = BlankRow
    /\ at = "decrement" => reg.row = Rows
    /\ at \in {"scroll", "decrement"} => Scrolled(win, reg.row, lines)
    /\ at \notin {"scroll", "decrement", "clear"} =>
          Shows(Completed(at, win, Head(out)), lines)

ShownInv == mixed \in BOOLEAN /\ (~ mixed => Agreed)

LEMMA SameWindow ==
    ASSUME NEW w \in Window, NEW m \in Window,
           m.buffer = w.buffer, m.outside = w.outside,
           m.cursor_x = w.cursor_x, m.cursor_y = w.cursor_y
    PROVE  m = w
PROOF
  BY DEF Window

LEMMA CompletedBy ==
    ASSUME NEW w, NEW c
    PROVE  /\ Completed("carriage", w, c) = Finish(NewLine(w))
           /\ Completed("feed", w, c) = Finish(Down(w))
           /\ Completed("back", w, c) = Finish(Erased(Left(w)))
           /\ Completed("erase", w, c) = Finish(Erased(w))
           /\ Completed("wrap", w, c) = Finish(Stamped(NewLine(w), c))
           /\ Completed("wrapped", w, c) = Finish(Stamped(AtLeft(w), c))
           /\ Completed("draw", w, c) = Finish(Stamped(w, c))
           /\ Completed("advance", w, c) = Finish(Right(w))
           /\ Completed("check", w, c) = Finish(w)
           /\ \A l \in {"editor", "putc", "clamp", "clamped"} : Completed(l, w, c) = w
PROOF
  BY DEF Completed

(* A line ended in two stores, in either order.                            *)
LEMMA TwoStores ==
    ASSUME NEW w \in Window, NEW m
    PROVE  /\ m = AtLeft(w) => Down(m) = NewLine(w)
           /\ m = Down(w) => AtLeft(m) = NewLine(w)
PROOF
  <1> DEFINE z == 0
             y == w.cursor_y + 1
  <1>1. z \in Int /\ y \in Int /\ y = w.cursor_y + 1 /\ z = 0
    BY WindowFields
  <1>2. NewLine(w) \in Window /\ NewLine(w).cursor_x = z /\ NewLine(w).cursor_y = y
        /\ NewLine(w).buffer = w.buffer /\ NewLine(w).outside = w.outside
    BY NewLineFacts
  <1>3. ASSUME m = [w EXCEPT !.cursor_x = z] PROVE [m EXCEPT !.cursor_y = @ + 1] = NewLine(w)
    <2>1. /\ m \in Window /\ m.cursor_x = z /\ m.cursor_y = w.cursor_y
          /\ m.buffer = w.buffer /\ m.outside = w.outside
      <3> HIDE DEF z, y
      <3> QED
        BY <1>1, <1>3, CursorXMoved
    <2> DEFINE v == [m EXCEPT !.cursor_y = @ + 1]
    <2>2. v = [m EXCEPT !.cursor_y = y]
      BY <2>1
    <2> HIDE DEF v, z, y
    <2>3. /\ v \in Window /\ v.cursor_x = z /\ v.cursor_y = y
          /\ v.buffer = w.buffer /\ v.outside = w.outside
      BY <1>1, <2>1, <2>2, CursorYMoved
    <2>4. v = NewLine(w)
      BY <1>2, <2>3, SameWindow
    <2> QED
      BY <2>4 DEF v
  <1>4. ASSUME m = [w EXCEPT !.cursor_y = @ + 1] PROVE [m EXCEPT !.cursor_x = z] = NewLine(w)
    <2>1. /\ m \in Window /\ m.cursor_x = w.cursor_x /\ m.cursor_y = y
          /\ m.buffer = w.buffer /\ m.outside = w.outside
      <3>1. m = [w EXCEPT !.cursor_y = y]
        BY <1>4
      <3> HIDE DEF z, y
      <3> QED
        BY <1>1, <3>1, CursorYMoved
    <2> DEFINE v == [m EXCEPT !.cursor_x = z]
    <2>2. v = [m EXCEPT !.cursor_x = z]
      OBVIOUS
    <2> HIDE DEF v, z, y
    <2>3. /\ v \in Window /\ v.cursor_x = z /\ v.cursor_y = y
          /\ v.buffer = w.buffer /\ v.outside = w.outside
      BY <1>1, <2>1, <2>2, CursorXMoved
    <2>4. v = NewLine(w)
      BY <1>2, <2>3, SameWindow
    <2> QED
      BY <2>4 DEF v
  <1> QED
    BY <1>3, <1>4 DEF AtLeft, Down

(* A glyph drawn, and then the cursor moved.                               *)
LEMMA DrawnIsStamped ==
    ASSUME NEW w, NEW c, NEW m, m = Drawn(w, w.cursor_x, w.cursor_y, c)
    PROVE  Right(m) = Stamped(w, c)
PROOF
  BY DEF Stamped, Right

(* What is to be scrolled, and a row of it moved up.                       *)
LEMMA ScrollBegins ==
    ASSUME NEW w \in Window, NEW ls, w.cursor_y = Rows - 1, Shows(Finish(w), ls)
    PROVE  Scrolled(w, 0, ls)
PROOF
  <1> DEFINE m == Finish(w)
  <1>1. m = wm_scroll_window(w)
    BY Sizes DEF Finish, Full
  <1> HIDE DEF m
  <1>2. /\ m.cursor_x = w.cursor_x /\ m.cursor_y = w.cursor_y - 1
        /\ \A r \in 0..Rows - 2 : m.buffer[r] = w.buffer[r + 1]
        /\ m.buffer[Rows - 1] = BlankRow
    BY <1>1, ScrollFacts, Sizes
  <1>3. Shows(m, ls)
    BY DEF m
  <1>4. ASSUME NEW r \in 0..Rows - 1, NEW c \in 0..Cols - 1
        PROVE  Shown(ls, r, c) = IF r < 0 THEN w.buffer[r][c]
                                 ELSE IF r = Rows - 1 THEN Space ELSE w.buffer[r + 1][c]
    <2>1. Shown(ls, r, c) = m.buffer[r][c] /\ ~ (r < 0)
      BY <1>3 DEF Shows
    <2>2. CASE r = Rows - 1
      BY <1>2, <2>1, <2>2 DEF BlankRow
    <2>3. CASE r # Rows - 1
      <3>1. r \in 0..Rows - 2
        BY <2>3, Sizes
      <3> QED
        BY <1>2, <2>1, <2>3, <3>1
    <2> QED
      BY <2>2, <2>3
  <1>5. w.cursor_y - 1 = Len(ls) - 1 /\ w.cursor_x = Len(ls[Len(ls)])
    BY <1>2, <1>3 DEF Shows
  <1> QED
    BY <1>4, <1>5 DEF Scrolled

LEMMA RowMoves ==
    ASSUME NEW w \in Window, NEW ls, NEW row \in 0..Rows - 1, Scrolled(w, row, ls),
           NEW m, m = MovedUp(w, row)
    PROVE  Scrolled(m, row + 1, ls)
PROOF
  <1> DEFINE new == IF row = Rows - 1 THEN BlankRow ELSE w.buffer[row + 1]
             buf == [w.buffer EXCEPT ![row] = new]
  <1>1. m = [w EXCEPT !.buffer = buf]
    BY DEF MovedUp
  <1>2. w.buffer \in Buffers
    BY WindowFields
  <1>3. buf[row] = new /\ \A r \in 0..Rows - 1 : r # row => buf[r] = w.buffer[r]
    BY <1>2 DEF Buffers
  <1> HIDE DEF buf
  <1>4. m.buffer = buf /\ m.cursor_x = w.cursor_x /\ m.cursor_y = w.cursor_y
    BY <1>1 DEF Window
  <1>5. ASSUME NEW r \in 0..Rows - 1, NEW c \in 0..Cols - 1
        PROVE  Shown(ls, r, c) = IF r < row + 1 THEN buf[r][c]
                                 ELSE IF r = Rows - 1 THEN Space ELSE buf[r + 1][c]
    <2>1. Shown(ls, r, c) = IF r < row THEN w.buffer[r][c]
                            ELSE IF r = Rows - 1 THEN Space ELSE w.buffer[r + 1][c]
      BY DEF Scrolled
    <2>2. CASE r < row
      BY <1>3, <2>1, <2>2
    <2>3. CASE r = row
      <3>1. buf[r][c] = IF r = Rows - 1 THEN Space ELSE w.buffer[r + 1][c]
        BY <1>3, <2>3 DEF BlankRow
      <3> QED
        BY <2>1, <2>3, <3>1
    <2>4. CASE r > row
      <3>1. ~ (r < row) /\ ~ (r < row + 1) /\ (r # Rows - 1 => r + 1 \in 0..Rows - 1 /\ r + 1 # row)
        BY <2>4, Sizes
      <3> QED
        BY <1>3, <2>1, <3>1
    <2> QED
      BY <2>2, <2>3, <2>4
  <1> QED
    BY <1>4, <1>5 DEF Scrolled

LEMMA ScrollEnds ==
    ASSUME NEW w \in Window, NEW ls, Scrolled(w, Rows, ls),
           NEW m, m = [w EXCEPT !.cursor_y = w.cursor_y - 1]
    PROVE  Shows(m, ls)
PROOF
  <1>1. m.buffer = w.buffer /\ m.cursor_x = w.cursor_x /\ m.cursor_y = w.cursor_y - 1
    BY DEF Window
  <1>2. \A r \in 0..Rows - 1 : r < Rows
    BY Sizes
  <1> QED
    BY <1>1, <1>2 DEF Scrolled, Shows

(* A blank window shows an empty line.                                     *)
LEMMA BlankShows ==
    ASSUME NEW w, w.cursor_x = 0, w.cursor_y = 0,
           \A r \in 0..Rows - 1 : w.buffer[r] = BlankRow
    PROVE  FitsIn(<<<<>>>>, Rows - 1) /\ Shows(w, <<<<>>>>)
PROOF
  <1> DEFINE e == <<>>
             ls == <<e>>
  <1>1. e \in Line_ /\ Len(e) = 0
    BY DEF Line_
  <1> HIDE DEF e
  <1>2. ls \in Seq(Line_) /\ Len(ls) = 1 /\ ls[1] = e
    BY <1>1
  <1> HIDE DEF ls
  <1>3. FitsIn(ls, Rows - 1)
    BY <1>1, <1>2, Sizes DEF FitsIn
  <1>4. ASSUME NEW r \in 0..Rows - 1, NEW c \in 0..Cols - 1 PROVE w.buffer[r][c] = Shown(ls, r, c)
    <2>1. w.buffer[r][c] = Space
      BY DEF BlankRow
    <2>2. ~ (r < Len(ls) /\ c < Len(ls[r + 1]))
      <3>1. CASE r = 0
        BY <1>1, <1>2, <3>1, Sizes
      <3>2. CASE r # 0
        BY <1>2, <3>2, Sizes
      <3> QED
        BY <3>1, <3>2
    <2> QED
      BY <2>1, <2>2 DEF Shown
  <1>5. Shows(w, ls)
    BY <1>1, <1>2, <1>4 DEF Shows
  <1> QED
    BY <1>3, <1>5 DEF ls, e

(* The shell between two characters shows the lines.                       *)
LEMMA RestShows ==
    ASSUME Agreed, AtRest
    PROVE  FitsIn(lines, Rows - 1) /\ Shows(win, lines)
PROOF
  <1>1. at \in {"editor", "putc", "clamp", "clamped"} /\ at \notin {"scroll", "decrement", "clear"}
    BY DEF AtRest
  <1>2. Completed(at, win, Head(out)) = win
    BY <1>1, CompletedBy
  <1> QED
    BY <1>1, <1>2 DEF Agreed

LEMMA AgreedAtRest ==
    ASSUME AtRest', FitsIn(lines', Rows - 1), Shows(win', lines')
    PROVE  Agreed'
PROOF
  <1>1. at' \in {"editor", "putc"}
    BY DEF AtRest
  <1>2. Completed(at', win', Head(out')) = win'
    BY <1>1, CompletedBy
  <1> QED
    BY <1>1, <1>2 DEF Agreed

LEMMA ShownInitially == TermInit => ShownInv
PROOF
  <1> SUFFICES ASSUME TermInit PROVE ShownInv
    OBVIOUS
  <1> DEFINE w0 == create_window
             w1 == wm_putc(w0, Shell)
             l0 == <<<<>>>>
             l1 == Printed(l0, Shell)
  <1>1. w0 \in Window /\ w0.cursor_x = 0 /\ w0.cursor_y = 0
        /\ \A r \in 0..Rows - 1 : w0.buffer[r] = BlankRow
    <2> DEFINE buf == [r \in 0..Rows - 1 |-> BlankRow]
    <2>1. buf \in Buffers /\ \A r \in 0..Rows - 1 : buf[r] = BlankRow
      BY DEF Buffers, BlankRow, Glyphs
    <2>2. w0 = [buffer |-> buf, cursor_x |-> 0, cursor_y |-> 0, outside |-> FALSE]
      BY DEF create_window
    <2> HIDE DEF w0, buf
    <2> QED
      BY <2>1, <2>2 DEF Window
  <1> HIDE DEF w0
  <1>2. FitsIn(l0, Rows - 1) /\ Shows(w0, l0)
    BY <1>1, BlankShows
  <1> HIDE DEF l0
  <1>3. Shell \in Characters /\ "\n" \in Characters
    BY DEF Characters
  <1>4. w1 \in Window /\ FitsIn(l1, Rows - 1) /\ Shows(w1, l1)
    BY <1>1, <1>2, <1>3, PutcShows
  <1> HIDE DEF w1, l1
  <1>5. win = wm_putc(w1, "\n") /\ lines = Printed(l1, "\n")
    BY DEF TermInit, w0, w1, l0, l1
  <1>6. FitsIn(lines, Rows - 1) /\ Shows(win, lines)
    BY <1>3, <1>4, <1>5, PutcShows
  <1>7. at = "editor" /\ mixed = FALSE
    BY DEF TermInit
  <1>8. Completed(at, win, Head(out)) = win
    BY <1>7, CompletedBy
  <1> QED
    BY <1>6, <1>7, <1>8 DEF ShownInv, Agreed

(* A step of the shell inside a character: what it completes is the same.  *)
LEMMA SameCompletion ==
    ASSUME Agreed, at \notin {"scroll", "decrement", "clear"}, lines' = lines,
           Completed(at', win', Head(out')) = Completed(at, win, Head(out))
    PROVE  FitsIn(lines', Rows - 1) /\ Shows(Completed(at', win', Head(out')), lines')
PROOF
  BY DEF Agreed

LEMMA ShownStep ==
    EditorInv' /\ ShellInv /\ CursorInv /\ ShownInv /\ [TermNext]_allVars => ShownInv'
PROOF
  <1> SUFFICES ASSUME EditorInv', ShellInv, CursorInv, ShownInv, [TermNext]_allVars
               PROVE  ShownInv'
    OBVIOUS
  <1>1. mixed' = mixed \/ mixed' = (mixed \/ ~ AtRest)
    BY DEF TermNext, edit, Echo, command, putc, carriage, feed, back, erase, wrap, wrapped,
           draw, advance, check, scroll, decrement, clamp, clamped, clear, Store, Done, InShell,
           SYS_PRINT, SYS_CLEAR, Overtake, allVars, window
  <1>2. mixed' \in BOOLEAN /\ (~ mixed' => ~ mixed)
    BY <1>1 DEF ShownInv
  <1> SUFFICES ASSUME ~ mixed' PROVE Agreed'
    BY <1>2 DEF ShownInv
  <1>3. ~ mixed /\ Agreed
    BY <1>2 DEF ShownInv
  <1>4. /\ win \in Window /\ win.cursor_x \in 0..Cols /\ win.cursor_y \in -1..Rows - 1
        /\ reg \in Registers
        /\ reg.x \in 0..Cols /\ reg.y \in 0..Rows - 1 /\ reg.row \in 0..Rows
    BY DEF ShellInv, CursorInv, Registers
  <1>5. NoRegisters.row = 0
    BY DEF NoRegisters
  <1> DEFINE c == Head(out)
  <1>6. CASE edit
    <2>1. at = "editor" /\ AtRest
      BY <1>6 DEF edit, AtRest
    <2>2. FitsIn(lines, Rows - 1) /\ Shows(win, lines)
      BY <1>3, <2>1, RestShows
    <2>3. CASE UNCHANGED window
      BY <2>1, <2>2, <2>3, AgreedAtRest DEF window, AtRest
    <2>4. CASE \E n \in Nat : \E s : n = Len(s) /\ Echo(s)
      <3> PICK n \in Nat : \E s : n = Len(s) /\ Echo(s)
        BY <2>4
      <3>1. PICK s : n = Len(s) /\ Echo(s)
        OBVIOUS
      <3>2. win' = WindowAfter(n) /\ lines' = LinesAfter(n) /\ at' = at
        BY <1>3, <3>1 DEF Echo
      <3>3. FitsIn(lines', Rows - 1) /\ Shows(win', lines')
        BY <1>4, <2>2, <3>2, EchoShows
      <3>4. AtRest'
        BY <2>1, <3>2 DEF AtRest
      <3> QED
        BY <3>3, <3>4, AgreedAtRest
    <2> QED
      BY <1>6, <2>3, <2>4, EchoSizes
  <1>7. CASE command
    <2>1. at = "editor" /\ AtRest /\ UNCHANGED <<win, reg, lines>> /\ reg.row = 0
      BY <1>5, <1>7 DEF command, AtRest, ShellInv
    <2>2. FitsIn(lines', Rows - 1) /\ Shows(win', lines')
      BY <1>3, <2>1, RestShows
    <2>3. CASE at' \in {"editor", "putc"}
      BY <2>2, <2>3, AgreedAtRest DEF AtRest
    <2>4. CASE at' = "clear"
      <3>1. \A r \in 0..reg'.row - 1 : win'.buffer[r] = BlankRow
        BY <2>1
      <3> QED
        BY <2>2, <2>4, <3>1 DEF Agreed
    <2> QED
      BY <1>7, <2>1, <2>3, <2>4 DEF command
  <1>8. CASE putc
    <2>1. at = "putc" /\ AtRest /\ win' = win /\ out' = out
      BY <1>8 DEF putc, InShell, AtRest
    <2>2. FitsIn(lines, Rows - 1) /\ Shows(win, lines)
      BY <1>3, <2>1, RestShows
    <2>3. CASE out = <<>>
      <3>1. at' = "editor" /\ lines' = lines
        BY <1>8, <2>3 DEF putc
      <3> QED
        BY <2>1, <2>2, <3>1, AgreedAtRest DEF AtRest
    <2>4. CASE out # <<>>
      <3>1. /\ reg' = [x |-> win.cursor_x, y |-> win.cursor_y, row |-> 0]
            /\ lines' = Printed(lines, c)
            /\ at' = CASE c = "\n" -> "carriage"
                       [] c = Backspace -> IF win.cursor_x >= 1 THEN "back" ELSE "check"
                       [] OTHER -> IF Wraps(win.cursor_x) THEN "wrap" ELSE "draw"
        BY <1>3, <1>8, <2>4 DEF putc
      <3>2. c \in {Shell, "\n", Backspace} /\ c \in Characters
        BY <2>4, HeadTailProperties DEF ShellInv, Characters
      <3>3. reg'.x = win'.cursor_x /\ reg'.y = win'.cursor_y
        BY <2>1, <3>1
      <3> DEFINE m == wm_putc(win, c)
      <3>4. FitsIn(lines', Rows - 1) /\ Shows(m, lines')
        BY <1>4, <2>2, <3>1, <3>2, PutcShows
      <3>5. m = Finish(Put(win, c))
        BY PutcIsPut
      <3> HIDE DEF m
      <3>6. /\ at' \in {"carriage", "back", "check", "wrap", "draw"}
            /\ Completed(at', win', c) = m
        <4>1. CASE c = "\n"
          <5>1. at' = "carriage" /\ Put(win, c) = NewLine(win)
            BY <3>1, <4>1 DEF Put, Backspace
          <5> QED
            BY <2>1, <3>5, <5>1, CompletedBy
        <4>2. CASE c = Backspace
          <5>1. c # "\n"
            BY <4>2 DEF Backspace
          <5>2. CASE win.cursor_x >= 1
            <6>1. at' = "back" /\ Put(win, c) = Erased(Left(win))
              BY <3>1, <4>2, <5>1, <5>2 DEF Put, Left
            <6> QED
              BY <2>1, <3>5, <6>1, CompletedBy
          <5>3. CASE ~ (win.cursor_x >= 1)
            <6>1. at' = "check" /\ Put(win, c) = win
              BY <3>1, <4>2, <5>1, <5>3 DEF Put
            <6> QED
              BY <2>1, <3>5, <6>1, CompletedBy
          <5> QED
            BY <5>2, <5>3
        <4>3. CASE c # "\n" /\ c # Backspace
          <5>1. CASE Wraps(win.cursor_x)
            <6>1. at' = "wrap" /\ Put(win, c) = Stamped(NewLine(win), c)
              BY <3>1, <4>3, <5>1 DEF Put
            <6> QED
              BY <2>1, <3>5, <6>1, CompletedBy
          <5>2. CASE ~ Wraps(win.cursor_x)
            <6>1. at' = "draw" /\ Put(win, c) = Stamped(win, c)
              BY <3>1, <4>3, <5>2 DEF Put
            <6> QED
              BY <2>1, <3>5, <6>1, CompletedBy
          <5> QED
            BY <5>1, <5>2
        <4> QED
          BY <4>1, <4>2, <4>3
      <3> QED
        BY <2>1, <3>3, <3>4, <3>6 DEF Agreed
    <2> QED
      BY <2>3, <2>4
  <1>9. CASE carriage
    <2>1. /\ at = "carriage" /\ at' = "feed" /\ UNCHANGED <<out, lines, reg>>
          /\ win' = [win EXCEPT !.cursor_x = 0]
      BY <1>9 DEF carriage, Store, InShell
    <2>2. Down(win') = NewLine(win)
      BY <1>4, <2>1, TwoStores DEF AtLeft
    <2>3. Completed(at', win', Head(out')) = Completed(at, win, Head(out))
      BY <2>1, <2>2, CompletedBy
    <2>4. win'.cursor_y = win.cursor_y
      <3>1. ASSUME NEW z \in Int, win' = [win EXCEPT !.cursor_x = z]
            PROVE  win'.cursor_y = win.cursor_y
        BY <1>4, <3>1 DEF Window
      <3> QED
        BY <2>1, <3>1
    <2> QED
      BY <1>3, <2>1, <2>3, <2>4, SameCompletion DEF Agreed
  <1>10. CASE feed
    <2>1. PICK y \in {reg.y, win.cursor_y} :
             Store("feed", [win EXCEPT !.cursor_y = y + 1], [reg EXCEPT !.y = y + 1], "check")
      BY <1>10 DEF feed
    <2>2. /\ at = "feed" /\ at' = "check" /\ UNCHANGED <<out, lines>>
          /\ win' = [win EXCEPT !.cursor_y = y + 1] /\ reg' = [reg EXCEPT !.y = y + 1]
      BY <2>1 DEF Store, InShell
    <2>3. y = win.cursor_y
      BY <1>3, <2>2 DEF Agreed
    <2>4. Completed(at', win', Head(out')) = Completed(at, win, Head(out))
      <3>1. win' = Down(win)
        BY <2>2, <2>3 DEF Down
      <3> QED
        BY <2>2, <3>1, CompletedBy
    <2>5. reg'.y = y + 1 /\ win'.cursor_y = y + 1
      BY <1>4, <2>2 DEF Window, Registers
    <2> QED
      BY <1>3, <2>2, <2>4, <2>5, SameCompletion DEF Agreed
  <1>11. CASE back
    <2>1. /\ at = "back" /\ at' = "erase" /\ UNCHANGED <<out, lines>>
          /\ win' = [win EXCEPT !.cursor_x = reg.x - 1]
      BY <1>11 DEF back, Store, InShell
    <2>2. win' = Left(win)
      BY <1>3, <2>1 DEF Agreed, Left
    <2>3. Completed(at', win', Head(out')) = Completed(at, win, Head(out))
      BY <2>1, <2>2, CompletedBy
    <2> QED
      BY <1>3, <2>1, <2>3, SameCompletion DEF Agreed
  <1>12. CASE erase
    <2>1. /\ at = "erase" /\ at' = "check" /\ UNCHANGED <<out, lines>>
          /\ win' = Erased(win) /\ reg' = [reg EXCEPT !.y = win.cursor_y]
      BY <1>12 DEF erase, Store, InShell
    <2>2. Completed(at', win', Head(out')) = Completed(at, win, Head(out))
      BY <2>1, CompletedBy
    <2>3. win'.cursor_y = win.cursor_y
      <3>1. win' = Cell(win, win.cursor_x, win.cursor_y, Space)
            /\ win.cursor_x \in Int /\ win.cursor_y \in Int /\ Space \in Glyphs
        BY <1>4, <2>1, WindowFields DEF Erased, Glyphs
      <3> QED
        BY <1>4, <3>1, CellFacts
    <2>4. reg'.y = win.cursor_y
      BY <1>4, <2>1 DEF Registers
    <2> QED
      BY <1>3, <2>1, <2>2, <2>3, <2>4, SameCompletion DEF Agreed
  <1>13. CASE wrap
    <2>1. /\ at = "wrap" /\ at' = "wrapped" /\ UNCHANGED <<out, lines>>
          /\ win' = [win EXCEPT !.cursor_y = @ + 1]
      BY <1>13 DEF wrap, Store, InShell
    <2>2. AtLeft(win') = NewLine(win)
      BY <1>4, <2>1, TwoStores DEF Down
    <2>3. Completed(at', win', Head(out')) = Completed(at, win, Head(out))
      BY <2>1, <2>2, CompletedBy
    <2> QED
      BY <1>3, <2>1, <2>3, SameCompletion DEF Agreed
  <1>14. CASE wrapped
    <2>1. /\ at = "wrapped" /\ at' = "draw" /\ UNCHANGED <<out, lines>>
          /\ win' = [win EXCEPT !.cursor_x = 0] /\ reg' = [reg EXCEPT !.x = 0]
      BY <1>14 DEF wrapped, Store, InShell
    <2>2. Completed(at', win', Head(out')) = Completed(at, win, Head(out))
      <3>1. win' = AtLeft(win)
        BY <2>1 DEF AtLeft
      <3> QED
        BY <2>1, <3>1, CompletedBy
    <2>3. win'.cursor_x = reg'.x
      <3>1. ASSUME NEW z \in Int, win' = [win EXCEPT !.cursor_x = z], reg' = [reg EXCEPT !.x = z]
            PROVE  win'.cursor_x = reg'.x
        BY <1>4, <3>1 DEF Window, Registers
      <3> QED
        BY <2>1, <3>1
    <2> QED
      BY <1>3, <2>1, <2>2, <2>3, SameCompletion DEF Agreed
  <1>15. CASE draw
    <2>1. PICK x \in {reg.x, win.cursor_x} :
             Store("draw", Drawn(win, x, win.cursor_y, Head(out)),
                   [reg EXCEPT !.x = x, !.y = win.cursor_y], "advance")
      BY <1>15 DEF draw
    <2>2. /\ at = "draw" /\ at' = "advance" /\ UNCHANGED <<out, lines>>
          /\ win' = Drawn(win, x, win.cursor_y, c)
          /\ reg' = [reg EXCEPT !.x = x, !.y = win.cursor_y]
      BY <2>1 DEF Store, InShell
    <2>3. x = win.cursor_x
      BY <1>3, <2>2 DEF Agreed
    <2>4. Right(win') = Stamped(win, c)
      BY <2>2, <2>3, DrawnIsStamped
    <2>5. Completed(at', win', Head(out')) = Completed(at, win, Head(out))
      BY <2>2, <2>4, CompletedBy
    <2>6. win'.cursor_x = x /\ win'.cursor_y = win.cursor_y
      <3>1. c \in Glyphs
        BY <2>2 DEF ShellInv
      <3>2. x \in Int /\ win.cursor_y \in Int
        BY <1>4, <2>3, WindowFields
      <3>3. CASE win.cursor_y >= Rows
        BY <2>2, <2>3, <3>3 DEF Drawn
      <3>4. CASE ~ (win.cursor_y >= Rows)
        <4>1. win' = Cell(win, x, win.cursor_y, c)
          BY <2>2, <3>4 DEF Drawn
        <4> QED
          BY <1>4, <2>3, <3>1, <3>2, <4>1, CellFacts
      <3> QED
        BY <3>3, <3>4
    <2>7. reg'.x = x /\ reg'.y = win.cursor_y
      BY <1>4, <2>2 DEF Registers
    <2> QED
      BY <1>3, <2>2, <2>5, <2>6, <2>7, SameCompletion DEF Agreed
  <1>16. CASE advance
    <2>1. /\ at = "advance" /\ at' = "check" /\ UNCHANGED <<out, lines, reg>>
          /\ win' = [win EXCEPT !.cursor_x = reg.x + 1]
      BY <1>16 DEF advance, Store, InShell
    <2>2. win' = Right(win)
      BY <1>3, <2>1 DEF Agreed, Right
    <2>3. Completed(at', win', Head(out')) = Completed(at, win, Head(out))
      BY <2>1, <2>2, CompletedBy
    <2>4. win'.cursor_y = win.cursor_y
      BY <1>4, <2>1 DEF Window
    <2> QED
      BY <1>3, <2>1, <2>3, <2>4, SameCompletion DEF Agreed
  <1>17. CASE check
    <2>1. PICK y \in {reg.y, win.cursor_y} :
             \/ Full(y) /\ Store("check", win, NoRegisters, "scroll")
             \/ ~Full(y) /\ Done("check", win)
      BY <1>17 DEF check
    <2>2. at = "check" /\ UNCHANGED <<win, lines>>
      BY <2>1 DEF Store, Done, InShell
    <2>3. y = win.cursor_y /\ FitsIn(lines, Rows - 1) /\ Shows(Finish(win), lines)
      BY <1>3, <2>2, CompletedBy DEF Agreed
    <2>4. CASE Full(y)
      <3>1. at' = "scroll" /\ reg'.row = 0
        BY <1>5, <2>1, <2>4 DEF Store
      <3>2. win.cursor_y = Rows - 1
        BY <1>4, <2>3, <2>4, Sizes DEF Full
      <3>3. Scrolled(win, 0, lines)
        BY <1>4, <2>3, <3>2, ScrollBegins
      <3> QED
        BY <2>2, <2>3, <3>1, <3>3 DEF Agreed
    <2>5. CASE ~ Full(y)
      <3>1. at' = "putc" /\ Finish(win) = win
        BY <2>1, <2>3, <2>5 DEF Done, Finish
      <3> QED
        BY <2>2, <2>3, <3>1, AgreedAtRest DEF AtRest
    <2> QED
      BY <2>4, <2>5
  <1>18. CASE scroll
    <2>1. /\ at = "scroll" /\ lines' = lines
          /\ win' = MovedUp(win, reg.row) /\ reg' = [reg EXCEPT !.row = reg.row + 1]
          /\ at' = IF reg.row + 1 = Rows THEN "decrement" ELSE "scroll"
      BY <1>18 DEF scroll, Store, InShell
    <2>2. reg.row \in 0..Rows - 1
      BY <1>4, <2>1, Sizes DEF ShellInv
    <2>3. FitsIn(lines, Rows - 1) /\ Scrolled(win, reg.row, lines)
      BY <1>3, <2>1 DEF Agreed
    <2>4. Scrolled(win', reg.row + 1, lines)
      BY <1>4, <2>1, <2>2, <2>3, RowMoves
    <2>5. reg'.row = reg.row + 1
      BY <1>4, <2>1 DEF Registers
    <2> QED
      BY <2>1, <2>3, <2>4, <2>5 DEF Agreed
  <1>19. CASE decrement
    <2>1. /\ at = "decrement" /\ at' = "clamp" /\ lines' = lines
          /\ win' = [win EXCEPT !.cursor_y = win.cursor_y - 1]
      BY <1>19 DEF decrement, Store, InShell
    <2>2. FitsIn(lines, Rows - 1) /\ Scrolled(win, Rows, lines)
      BY <1>3, <2>1 DEF Agreed
    <2>3. Shows(win', lines)
      BY <1>4, <2>1, <2>2, ScrollEnds
    <2>4. Completed(at', win', Head(out')) = win'
      BY <2>1, CompletedBy
    <2> QED
      BY <2>1, <2>2, <2>3, <2>4 DEF Agreed
  <1>20. CASE clamp
    <2>1. /\ at = "clamp" /\ at' = "clamped" /\ UNCHANGED <<out, win, lines>>
          /\ reg' = [reg EXCEPT !.y = IF win.cursor_y < 0 THEN 0 ELSE win.cursor_y]
      BY <1>20 DEF clamp, Store, InShell
    <2>2. Completed(at, win, Head(out)) = win /\ Completed(at', win', Head(out')) = win
      BY <2>1, CompletedBy
    <2>3. FitsIn(lines, Rows - 1) /\ Shows(win, lines)
      BY <1>3, <2>1, <2>2 DEF Agreed
    <2>4. ~ (win.cursor_y < 0)
      BY <2>3, FitFacts, Sizes DEF Shows
    <2>5. reg'.y = win.cursor_y
      BY <1>4, <2>1, <2>4 DEF Registers
    <2> QED
      BY <1>3, <2>1, <2>2, <2>3, <2>5 DEF Agreed
  <1>21. CASE clamped
    <2>1. /\ at = "clamped" /\ at' = "putc" /\ lines' = lines
          /\ win' = [win EXCEPT !.cursor_y = reg.y]
      BY <1>21 DEF clamped, Done, InShell
    <2>2. Completed(at, win, Head(out)) = win
      BY <2>1, CompletedBy
    <2>3. FitsIn(lines, Rows - 1) /\ Shows(win, lines) /\ reg.y = win.cursor_y
      BY <1>3, <2>1, <2>2 DEF Agreed
    <2>4. win' = win
      BY <1>4, <2>1, <2>3 DEF Window
    <2> QED
      BY <2>1, <2>3, <2>4, AgreedAtRest DEF AtRest
  <1>22. CASE clear
    <2>1. at = "clear" /\ mixed = FALSE
      BY <1>2, <1>3, <1>22 DEF clear, InShell, ShownInv
    <2>2. FitsIn(lines, Rows - 1) /\ \A r \in 0..reg.row - 1 : win.buffer[r] = BlankRow
      BY <1>3, <2>1 DEF Agreed
    <2>3. CASE /\ reg.row < Rows
               /\ win' = [win EXCEPT !.buffer[reg.row] = BlankRow]
               /\ reg' = [reg EXCEPT !.row = @ + 1]
               /\ UNCHANGED <<at, lines>>
      <3> DEFINE buf == [win.buffer EXCEPT ![reg.row] = BlankRow]
      <3>1. reg'.row = reg.row + 1 /\ reg.row \in 0..Rows - 1
        BY <1>4, <2>3, Sizes DEF Registers
      <3>2. \A r \in 0..reg.row : buf[r] = BlankRow
        <4>1. buf[reg.row] = BlankRow /\ \A r \in 0..Rows - 1 : r # reg.row => buf[r] = win.buffer[r]
          BY <1>4, <3>1, WindowFields DEF Buffers
        <4> HIDE DEF buf
        <4>2. ASSUME NEW r \in 0..reg.row, r # reg.row PROVE r \in 0..reg.row - 1 /\ r \in 0..Rows - 1
          BY <3>1, <4>2, Sizes
        <4> QED
          BY <2>2, <4>1, <4>2
      <3> HIDE DEF buf
      <3>3. win'.buffer = buf
        BY <1>4, <2>3 DEF Window, buf
      <3>4. \A r \in 0..reg'.row - 1 : win'.buffer[r] = BlankRow
        BY <1>4, <3>1, <3>2, <3>3
      <3> QED
        BY <2>1, <2>2, <2>3, <3>4 DEF Agreed
    <2>4. CASE /\ reg.row = Rows
               /\ win' = [win EXCEPT !.cursor_x = 0, !.cursor_y = 0]
               /\ at' = "putc"
               /\ lines' = IF mixed THEN lines ELSE <<<<>>>>
      <3>1. win'.cursor_x = 0 /\ win'.cursor_y = 0 /\ win'.buffer = win.buffer
        <4> DEFINE z == 0
        <4>1. win' = [win EXCEPT !.cursor_x = z, !.cursor_y = z] /\ z \in Int /\ z = 0
          BY <2>4
        <4> HIDE DEF z
        <4> QED
          BY <1>4, <4>1 DEF Window
      <3>2. \A r \in 0..Rows - 1 : win'.buffer[r] = BlankRow
        BY <2>2, <2>4, <3>1
      <3>3. lines' = <<<<>>>>
        BY <2>1, <2>4
      <3>4. FitsIn(lines', Rows - 1) /\ Shows(win', lines')
        BY <3>1, <3>2, <3>3, BlankShows
      <3> QED
        BY <2>4, <3>4, AgreedAtRest DEF AtRest
    <2> QED
      BY <1>22, <2>3, <2>4 DEF clear
  <1>23. CASE SYS_CLEAR
    <2>1. /\ win' = term_clear(win) /\ at' = at /\ mixed' = (mixed \/ ~ AtRest)
          /\ lines' = IF mixed' THEN <<>> ELSE <<<<>>>>
      BY <1>23 DEF SYS_CLEAR, Overtake
    <2>2. AtRest' /\ lines' = <<<<>>>>
      BY <2>1 DEF AtRest
    <2>3. win'.cursor_x = 0 /\ win'.cursor_y = 0 /\ \A r \in 0..Rows - 1 : win'.buffer[r] = BlankRow
      BY <1>4, <2>1, ClearFacts
    <2>4. FitsIn(lines', Rows - 1) /\ Shows(win', lines')
      BY <2>2, <2>3, BlankShows
    <2> QED
      BY <2>2, <2>4, AgreedAtRest
  <1>24. ASSUME NEW d \in {Program, "\n", Backspace}, SYS_PRINT(d) PROVE Agreed'
    <2>1. /\ win' = wm_putc(win, d) /\ at' = at /\ mixed' = (mixed \/ ~ AtRest)
          /\ lines' = IF mixed' THEN <<>> ELSE IF mixed THEN lines ELSE Printed(lines, d)
      BY <1>24 DEF SYS_PRINT, Overtake
    <2>2. AtRest /\ AtRest' /\ lines' = Printed(lines, d) /\ d \in Characters
      BY <1>3, <2>1 DEF AtRest, Characters
    <2>3. FitsIn(lines, Rows - 1) /\ Shows(win, lines)
      BY <1>3, <2>2, RestShows
    <2>4. FitsIn(lines', Rows - 1) /\ Shows(win', lines')
      BY <1>4, <2>1, <2>2, <2>3, PutcShows
    <2> QED
      BY <2>2, <2>4, AgreedAtRest
  <1>25. CASE UNCHANGED allVars
    BY <1>3, <1>25 DEF allVars, window, Agreed
  <1> QED
    BY <1>6, <1>7, <1>8, <1>9, <1>10, <1>11, <1>12, <1>13, <1>14, <1>15, <1>16, <1>17, <1>18,
       <1>19, <1>20, <1>21, <1>22, <1>23, <1>24, <1>25 DEF TermNext

(* While nobody prints in the middle of another's character, the window    *)
(* shows the last lines printed, for any window.                           *)
THEOREM AlwaysShowsLines == TermSpec => []ShowsLines
PROOF
  <1>1. TermInit => ShownInv
    BY ShownInitially
  <1>2. /\ EditorInv /\ EditorInv'
        /\ (ShellInv /\ CursorInv) /\ ShownInv /\ [TermNext]_allVars
        => ShownInv'
    BY ShownStep
  <1>3. TermSpec => []EditorInv
    BY EditorAlways, EditorInTerminal, PTL
  <1>4. CursorInv /\ ShownInv => ShowsLines
    <2> SUFFICES ASSUME CursorInv, ShownInv, AtRest, ~ mixed
                 PROVE  /\ win.cursor_y = Len(lines) - 1
                        /\ win.cursor_x = Len(Last(lines))
                        /\ win.buffer = [r \in 0..Rows - 1 |-> [c \in 0..Cols - 1 |->
                              IF r < Len(lines) /\ c < Len(lines[r + 1])
                              THEN lines[r + 1][c + 1] ELSE Space]]
      BY DEF ShowsLines
    <2>1. win \in Window /\ Shows(win, lines)
      BY RestShows DEF CursorInv, ShownInv
    <2>2. Last(lines) = lines[Len(lines)]
      BY DEF Last
    <2>3. win.buffer = [r \in 0..Rows - 1 |-> [c \in 0..Cols - 1 |-> Shown(lines, r, c)]]
      <3>1. /\ win.buffer = [r \in 0..Rows - 1 |-> win.buffer[r]]
            /\ \A r \in 0..Rows - 1 : win.buffer[r] = [c \in 0..Cols - 1 |-> win.buffer[r][c]]
        BY <2>1, WindowFields DEF Buffers
      <3>2. \A r \in 0..Rows - 1 : win.buffer[r] = [c \in 0..Cols - 1 |-> Shown(lines, r, c)]
        BY <2>1, <3>1 DEF Shows
      <3> QED
        BY <3>1, <3>2
    <2> QED
      BY <2>1, <2>2, <2>3 DEF Shows, Shown
  <1> QED
    BY <1>1, <1>2, <1>3, <1>4, CursorAlways, PTL DEF TermSpec
=============================================================================
