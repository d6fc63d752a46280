------------------------------- MODULE MCPipe -------------------------------
(***************************************************************************)
(* Instances of Pipe for TLC.  The names of the IRPs are those of the mass *)
(* storage driver: packets hold two bytes, a data stage is two packets, a  *)
(* CBW or a CSW one whole packet.  Then, lists and arrays for mu_list.c.   *)
(***************************************************************************)
EXTENDS Pipe, Lists

CONSTANTS out, cbw, cbw2, in, csw

Sending == {out, cbw, cbw2}
Directions == [i \in Irps |-> IF i \in Sending THEN "tx" ELSE "rx"]
Lengths == [i \in Irps |-> IF i \in {out, in} THEN 3 ELSE 2]

\* The state without the history of the data, for runs that ask nothing of it.
WithoutData == <<endpoint, busy, intr, packet, loop, state, halted>>

\* Of no state, so TLC evaluates them once, before it begins.  The lists of waiting IRPs
\* may be modelled as sequences (mu_list.c:149-359), and the array of endpoint resources
\* too (mu_list.c:22-146).
ASSUME ListsAreSequences ==
  \A r \in SetToSeqs(1 .. 3), n \in 0 .. 3 :
    \A content \in [1 .. n -> 1 .. 2], pItem \in 1 .. 2 : ListIsSequence(r, content, pItem)
ASSUME ArraysAreSequences ==
  \A statics \in 0 .. 3, n \in 0 .. 9 : ArrayIsSequence(statics, [k \in 1 .. n |-> k])
=============================================================================
