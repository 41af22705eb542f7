------------------------------ MODULE MCKernel ------------------------------
(* A small instance of Kernel: four tids, two levels, two UART events. *)
EXTENDS Kernel

\* The idle task makes no call; the first one is a server that creates and kills
\* the others, which exchange messages, wait for events and exit.
ServerCalls == [t \in 1 .. MaxTid |->
                    CASE t = 1 -> {}
                      [] t = 2 -> {"Create", "Kill", "Receive", "Reply", "Yield"}
                      [] OTHER -> {"Send", "Receive", "Reply", "AwaitEvent", "Exit"}]

Events == {"CLOCK_TICK", "TASK_FINISHED", "CONSOLE_RECEIVE", "CONSOLE_SEND"}
=============================================================================
