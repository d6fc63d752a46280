--------------------------- MODULE PipeTransfers ---------------------------
(***************************************************************************)
(* What the bulk pipes promise the class drivers (mu_cdi.h, MUSB_Irp and   *)
(* MUSB_StartTransfer): an IRP that was started is called back once; its   *)
(* data moves while no other IRP of its direction is half moved; and a     *)
(* transmission ends with status 0 only when all of its data has moved.    *)
(***************************************************************************)
EXTENDS Integers

CONSTANTS
  Irps,             \* the IRPs of the clients
  Dir,              \* per IRP: "tx" or "rx"
  dwLength          \* per IRP

VARIABLES
  state,            \* per IRP: "free", "pending", or ended "good" or "failed"
  moved             \* per IRP: bytes moved since it was started, 0 while it is free

vars == <<state, moved>>

Init == /\ state = [i \in Irps |-> "free"]
        /\ moved = [i \in Irps |-> 0]

Start(i) == /\ state[i] = "free"
            /\ state' = [state EXCEPT ![i] = "pending"]
            /\ UNCHANGED moved

\* No other IRP of the direction is under way.
Alone(i) == \A j \in Irps \ {i} :
              Dir[j] = Dir[i] /\ state[j] = "pending" => moved[j] = 0

Move(i, n) == /\ state[i] = "pending"
              /\ n = 0 \/ Alone(i)
              /\ moved[i] + n <= dwLength[i]
              /\ moved' = [moved EXCEPT ![i] = @ + n]

Advance(i, n) == Move(i, n) /\ UNCHANGED state

\* An IRP may end with its last piece of data; a reception may end early.
End(i, n, good) == /\ Move(i, n)
                   /\ good /\ Dir[i] = "tx" => moved'[i] = dwLength[i]
                   /\ state' = [state EXCEPT ![i] = IF good THEN "good" ELSE "failed"]

CallBack(i) == /\ state[i] \in {"good", "failed"}
               /\ state' = [state EXCEPT ![i] = "free"]
               /\ moved' = [moved EXCEPT ![i] = 0]

Next == \E i \in Irps :
          \/ Start(i)
          \/ CallBack(i)
          \/ \E n \in 0 .. dwLength[i] : \/ Advance(i, n)
                                    \/ \E good \in BOOLEAN : End(i, n, good)

Spec == Init /\ [][Next]_vars
=============================================================================
