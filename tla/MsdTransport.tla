---------------------------- MODULE MsdTransport ----------------------------
(***************************************************************************)
(* What a mass-storage transport promises the command set above it         *)
(* (mu_mpcsi.h, MGC_pfMsdProtocolSendCmd): a command it accepts is         *)
(* answered by at most one callback, and the callback reports success only *)
(* if the device has reported that very command as carried out.            *)
(***************************************************************************)
CONSTANT Luns         \* logical units

VARIABLES
  open,               \* TRUE while the device is attached and initialised
  pending,            \* units with a command accepted and not yet called back
  served,             \* those of them whose command the device reported done
  done                \* the last callback: its unit, and whether it said success

vars == <<open, pending, served, done>>

NoCallback == [lun |-> 0, good |-> FALSE]

Init == /\ open = FALSE
        /\ pending = {}
        /\ served = {}
        /\ done = NoCallback

Attach == /\ ~open
          /\ open' = TRUE
          /\ UNCHANGED <<pending, served, done>>

Accept(l) == /\ open
             /\ l \notin pending
             /\ pending' = pending \cup {l}
             /\ UNCHANGED <<open, served, done>>

Serve(l) == /\ l \in pending
            /\ served' = served \cup {l}
            /\ UNCHANGED <<open, pending, done>>

Complete(l, good) == /\ l \in pending
                     /\ good => l \in served
                     /\ pending' = pending \ {l}
                     /\ served' = served \ {l}
                     /\ done' = [lun |-> l, good |-> good]
                     /\ UNCHANGED open

Detach == /\ open' = FALSE
          /\ pending' = {}
          /\ served' = {}
          /\ UNCHANGED done

Next == \/ Attach
        \/ \E l \in Luns : Accept(l) \/ Serve(l)
        \/ \E l \in Luns, good \in BOOLEAN : Complete(l, good)
        \/ Detach

Spec == Init /\ [][Next]_vars
=============================================================================
