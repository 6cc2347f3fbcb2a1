----------------------------- MODULE MCProcess -----------------------------
(* Values of the constants of Process for TLC.                             *)
EXTENDS Process

\* The shell waits for any child or for thread 4: it makes the processes and
\* is the only one to take them off the list.  Thread 3 waits for the monitor,
\* which never exits: a key press wakes it for nothing (KeyReason is the pid of
\* the monitor), and it goes round the loop of process_wait.
Waits == {<<2, AnyChild>>, <<2, 4>>, <<3, 1>>}
=============================================================================
