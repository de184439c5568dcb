---------------------------- MODULE MCInterrupts ----------------------------
\* An instance of Interrupts: the line of the external devices, and one above it.
EXTENDS Interrupts
MCLevel == [b \in Bits |-> IF b = "ports" THEN 2 ELSE 3]
=============================================================================
