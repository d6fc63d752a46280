------------------------------ MODULE BsrFifo ------------------------------
(***************************************************************************)
(* What the controller driver expects of the system's background queue     *)
(* (mu_dsi.h, pfQueueBackgroundItem / pfDequeueBackgroundItem /            *)
(* pfFlushBackgroundQueue): a FIFO to which the interrupt side may only    *)
(* append, from which the background side takes the oldest item, and       *)
(* which only the background side may empty.                               *)
(***************************************************************************)
EXTENDS Sequences

CONSTANT Items      \* what an MGC_BsrItem may hold

VARIABLES
  fifo,             \* items accepted and not yet taken, oldest first
  out,              \* the item taken last
  isr               \* TRUE while interrupt-level code runs

vars == <<fifo, out, isr>>

Init == /\ fifo = <<>>
        /\ out \in Items
        /\ isr = FALSE

Put(x) == /\ fifo' = Append(fifo, x)
          /\ UNCHANGED <<out, isr>>

Take == /\ ~isr
        /\ fifo # <<>>
        /\ out' = Head(fifo)
        /\ fifo' = Tail(fifo)
        /\ UNCHANGED isr

Flush == /\ ~isr
         /\ fifo' = <<>>
         /\ UNCHANGED <<out, isr>>

SwitchLevel == /\ isr' = ~isr
               /\ UNCHANGED <<fifo, out>>

Next == \/ \E x \in Items : Put(x)
        \/ Take
        \/ Flush
        \/ SwitchLevel

Spec == Init /\ [][Next]_vars
=============================================================================
