------------------------------ MODULE ShellLine ------------------------------
(***************************************************************************)
(* The line editor of the shell, shell_task in src/src/kernel/main.c: the  *)
(* line being typed, the history of lines and the arrow keys that walk     *)
(* through it.  What is printed and what a command does are left out.      *)
(***************************************************************************)
EXTENDS Integers, Sequences, SequencesExt

CONSTANTS
    HISTORY_MAX, CMD_LEN,
    Chars,          \* the characters typed
    MaxEntered      \* bound: the number of lines entered

ASSUME ShellLineAssumption ==
    /\ HISTORY_MAX \in Nat \ {0} /\ CMD_LEN \in Nat \ {0}
    /\ MaxEntered \in Nat

VARIABLES
    line,               \* cmd_buffer up to idx
    history,            \* its first history_count entries
    history_view_idx,
    entered             \* all lines ever entered that were not empty

vars == <<line, history, history_view_idx, entered>>

Line == BoundedSeq(Chars, CMD_LEN - 1)
history_count == Len(history)

TypeOK ==
    /\ line \in Line
    /\ history \in BoundedSeq(Line \ {<<>>}, HISTORY_MAX)
    /\ history_view_idx \in 0..history_count
    /\ entered \in Seq(Line)
-----------------------------------------------------------------------------
Init ==
    /\ line = <<>> /\ history = <<>> /\ history_view_idx = 0
    /\ entered = <<>>

(* Seeded faults: the index is moved after the copy; the oldest line is    *)
(* not pushed out.                                                         *)
RecallBeforeMove ==
    /\ history_view_idx > 0
    /\ history_view_idx' = history_view_idx - 1
    /\ line' = (IF history_view_idx < history_count THEN history[history_view_idx + 1] ELSE <<>>)
    /\ UNCHANGED <<history, entered>>
PushedOverLast(s) ==
    IF history_count < HISTORY_MAX THEN Append(history, s)
    ELSE [history EXCEPT ![HISTORY_MAX] = s]

up_arrow ==
    /\ history_view_idx > 0
    /\ history_view_idx' = history_view_idx - 1
    /\ line' = history[history_view_idx]
    /\ UNCHANGED <<history, entered>>

down_arrow ==
    /\ history_view_idx < history_count
    /\ history_view_idx' = history_view_idx + 1
    /\ line' = IF history_view_idx' = history_count THEN <<>>
               ELSE history[history_view_idx + 2]
    /\ UNCHANGED <<history, entered>>

(* The new history when a line is entered: the oldest line makes room. *)
Pushed(s) ==
    Append(IF history_count < HISTORY_MAX THEN history ELSE Tail(history), s)

(* An empty line runs no command and is not remembered.                    *)
enter ==
    /\ \/ /\ line # <<>>
          /\ Len(entered) < MaxEntered
          /\ history' = Pushed(line)
          /\ history_view_idx' = Len(history')
          /\ entered' = Append(entered, line)
       \/ /\ line = <<>>
          /\ UNCHANGED <<history, history_view_idx, entered>>
    /\ line' = <<>>

backspace ==
    /\ line # <<>>
    /\ line' = Front(line)
    /\ UNCHANGED <<history, history_view_idx, entered>>

typed(c) ==
    /\ Len(line) < CMD_LEN - 1
    /\ line' = Append(line, c)
    /\ UNCHANGED <<history, history_view_idx, entered>>

Next == up_arrow \/ down_arrow \/ enter \/ backspace \/ \E c \in Chars : typed(c)

Spec == Init /\ [][Next]_vars
-----------------------------------------------------------------------------
(* Properties.                                                             *)

(* The history holds the last lines entered, HISTORY_MAX of them or all,   *)
(* as they were entered and in order, whatever was recalled and edited in  *)
(* between.                                                                *)
RemembersLast ==
    LET kept == IF Len(entered) < HISTORY_MAX THEN Len(entered) ELSE HISTORY_MAX
    IN  history = SubSeq(entered, Len(entered) - kept + 1, Len(entered))

(* When the place in the history moves, the line becomes what is there;    *)
(* behind the newest entry it is empty.                                    *)
LineFollowsView ==
    [][history_view_idx' # history_view_idx =>
          line' = (IF history_view_idx' < Len(history') THEN history'[history_view_idx' + 1]
                   ELSE <<>>)]_vars
=============================================================================
