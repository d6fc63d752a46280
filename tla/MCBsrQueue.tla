----------------------------- MODULE MCBsrQueue -----------------------------
\* Instances of BsrQueue for TLC.
EXTENDS BsrQueue

\* The shipped main loop in function role, where one poll may queue several
\* items, and a board with real interrupts in host role.
Polled == [preempt |-> FALSE, peripheral |-> TRUE, perIsr |-> 3]
Interrupts == [preempt |-> TRUE, peripheral |-> FALSE, perIsr |-> 1]
BothBoards == {Polled, Interrupts}

ASSUME TheRingIsLongEnough == Capacity
=============================================================================
