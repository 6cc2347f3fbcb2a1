------------------------------- MODULE MCIrq -------------------------------
(* Values of the constants of Irq for TLC.                                 *)
EXTENDS Irq

\* The processes of the shipped system: kmain's loop and the monitor never
\* enter the kernel by themselves, the shell reads the keyboard.
Shipped == {0, 1}

\* Only kmain's loop never enters the kernel.
OnlyLoop == {0}
=============================================================================
