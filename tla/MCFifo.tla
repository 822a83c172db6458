------------------------------- MODULE MCFifo -------------------------------
(* Fifo with a guest that uses a few settings of the control register. *)
EXTENDS Fifo

Reading == [GPReadEnable |-> TRUE, GPLinkEnable |-> TRUE,
            FifoOverflowIntEnable |-> TRUE, FifoUnderflowIntEnable |-> FALSE]

\* The GPU rests and the guest writes elsewhere.
Unlinked == [GPReadEnable |-> FALSE, GPLinkEnable |-> FALSE,
             FifoOverflowIntEnable |-> FALSE, FifoUnderflowIntEnable |-> FALSE]

\* The GPU may be a cycle ahead before it waits for the CPU.
Behind == -1

AllSettings == {Reading, Unlinked}
=============================================================================
