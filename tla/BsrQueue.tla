------------------------------ MODULE BsrQueue ------------------------------
(***************************************************************************)
(* systems/none/plat_uds.c: the ring of MGC_BsrItem between the            *)
(* interrupt service routine and the background service routine (BSR),     *)
(* and the three 8-bit counters by which the main loop decides to run the  *)
(* BSR.                                                                    *)
(*                                                                         *)
(* The shipped main loop (tst_msd.c, msd_main) polls: it calls             *)
(* MGC_NoneControllerIsrPoll, then MUSB_NoneRunBackground, forever.        *)
(* MGC_NoneControllerIsr is the same code for a board that delivers real   *)
(* interrupts, which preempt the main loop between any two of its steps.   *)
(***************************************************************************)
EXTENDS Integers, Sequences

CONSTANTS
  Items,          \* the values of a BSR item
  QueueLength,    \* wQueueLength: slots in the ring (80 in mu_cntlr.c)
  CounterMod,     \* the 8-bit counters wrap at this value (256)
  MaxOwed,        \* bound: most requested and not yet run BSR passes
  Boards          \* the boards the code may run on, see below

\* A board: the ISR preempts the main loop or is polled; it plays the
\* function role, where a BSR handler may queue an item, or the host role; and
\* the most items one ISR run queues (EP0, 15 Tx, 15 Rx, 7 USB causes).
BoardType == [preempt : BOOLEAN, peripheral : BOOLEAN, perIsr : Nat \ {0}]

ASSUME BsrQueueAssumption ==
  /\ QueueLength \in Nat \ {0}
  /\ CounterMod \in Nat
  /\ MaxOwed \in Nat \ {0}
  /\ MaxOwed < CounterMod
  /\ Boards \subseteq BoardType
  /\ Items # {}

\* Room for every ISR run that may precede the end of a BSR pass.
RoomOn(b) == (IF b.preempt THEN MaxOwed + 1 ELSE 1) * b.perIsr < QueueLength
Capacity == \A b \in Boards : RoomOn(b)

VARIABLES
  board,               \* the board, which never changes
  pQueueData,          \* the ring's slots
  wNextQueueItem,      \* where the next item is written
  wNextDequeueItem,    \* where the next item is read
  bBsrRequest,         \* ISR runs that queued something, modulo CounterMod
  bBsrRan,             \* BSR passes run, modulo CounterMod
  bBsrOver,            \* wraps of bBsrRequest not yet matched by bBsrRan
  bOver,               \* MUSB_NoneRunBackground's local copy of bBsrOver
  item,                \* MGC_DrcBsr's local copy of the item it handles
  pc,                  \* where the main loop is
  inIsr,               \* TRUE while the ISR runs
  nQueued,             \* items queued by this ISR run (its return value)
  owed                 \* history: requested minus run BSR passes

ring == <<pQueueData, wNextQueueItem, wNextDequeueItem>>
counters == <<bBsrRequest, bBsrRan, bBsrOver, owed>>
vars == <<board, ring, counters, bOver, item, pc, inIsr, nQueued>>

Preempt == board.preempt
Peripheral == board.peripheral
MaxPerIsr == board.perIsr

Slots == 0 .. QueueLength - 1
Control == {"poll", "background", "test", "bsr", "handle", "ack"}

\* Top of the main loop: a polling loop calls the ISR there itself.
LoopTop == IF Preempt THEN "background" ELSE "poll"

\* One more than n in a counter of CounterMod values.
Inc(n) == IF n + 1 = CounterMod THEN 0 ELSE n + 1

\* Mutation of NextSlot: wraps one slot late.
NextSlotLate(n) == IF n + 1 > QueueLength THEN 0 ELSE n + 1

\* One more than a ring index.
NextSlot(n) == IF n + 1 >= QueueLength THEN 0 ELSE n + 1

\* The number of items the two indices delimit, and the items, oldest first.
Count == IF wNextQueueItem >= wNextDequeueItem
           THEN wNextQueueItem - wNextDequeueItem
           ELSE wNextQueueItem - wNextDequeueItem + QueueLength

SlotOf(i) == IF wNextDequeueItem + i - 1 >= QueueLength
               THEN wNextDequeueItem + i - 1 - QueueLength
               ELSE wNextDequeueItem + i - 1

Pending == [i \in 1 .. Count |-> pQueueData[SlotOf(i)]]

-----------------------------------------------------------------------------
Init ==
  /\ board \in Boards
  /\ pQueueData \in [Slots -> Items]
  /\ wNextQueueItem = 0
  /\ wNextDequeueItem = 0
  /\ bBsrRequest = 0
  /\ bBsrRan = 0
  /\ bBsrOver = 0
  /\ bOver = 0
  /\ item \in Items
  /\ pc = LoopTop
  /\ inIsr = FALSE
  /\ nQueued = 0
  /\ owed = 0

\* MGC_NoneQueueBackgroundItem: no test for a full ring, TRUE always.
QueueBackgroundItem(x) ==
  /\ pQueueData' = [pQueueData EXCEPT ![wNextQueueItem] = x]
  /\ wNextQueueItem' = NextSlot(wNextQueueItem)
  /\ UNCHANGED wNextDequeueItem

\* MGC_NoneDequeueBackgroundItem when the indices differ.
DequeueBackgroundItem ==
  /\ wNextDequeueItem # wNextQueueItem
  /\ item' = pQueueData[wNextDequeueItem]
  /\ wNextDequeueItem' = NextSlot(wNextDequeueItem)
  /\ UNCHANGED <<pQueueData, wNextQueueItem>>

\* Mutation of FlushBackgroundQueue: resets one index only.
FlushHalf ==
  /\ wNextDequeueItem' = 0
  /\ UNCHANGED <<pQueueData, wNextQueueItem>>

\* MGC_NoneFlushBackgroundQueue.  An interrupt between its two stores only
\* moves wNextQueueItem, as it would right after both.
FlushBackgroundQueue ==
  /\ wNextQueueItem' = 0
  /\ wNextDequeueItem' = 0
  /\ UNCHANGED pQueueData

-----------------------------------------------------------------------------
(* The ISR: polled at the top of the loop, or a preempting interrupt.      *)

IsrEnter ==
  /\ ~inIsr
  /\ pc = "poll" \/ Preempt
  /\ owed < MaxOwed
  /\ inIsr' = TRUE
  /\ nQueued' = 0
  /\ UNCHANGED <<board, ring, counters, bOver, item, pc>>

\* The controller's ISR queues one item.
IsrQueue(x) ==
  /\ inIsr
  /\ nQueued < MaxPerIsr
  /\ QueueBackgroundItem(x)
  /\ nQueued' = nQueued + 1
  /\ UNCHANGED <<board, counters, bOver, item, pc, inIsr>>

\* MGC_NoneControllerIsr / MGC_NoneControllerIsrPoll after pfIsr returned.
IsrReturn ==
  /\ inIsr
  /\ inIsr' = FALSE
  /\ nQueued' = 0
  /\ pc' = IF pc = "poll" THEN "background" ELSE pc
  /\ IF nQueued > 0
       THEN /\ bBsrRequest' = Inc(bBsrRequest)
            /\ bBsrOver' = IF bBsrRequest' = 0 THEN Inc(bBsrOver) ELSE bBsrOver
            /\ owed' = owed + 1
       ELSE UNCHANGED <<bBsrRequest, bBsrOver, owed>>
  /\ UNCHANGED <<board, ring, bBsrRan, bOver, item>>

-----------------------------------------------------------------------------
(* MUSB_NoneRunBackground and the BSR it calls.                            *)

ReadOver ==
  /\ ~inIsr
  /\ pc = "background"
  /\ bOver' = bBsrOver
  /\ pc' = "test"
  /\ UNCHANGED <<board, ring, counters, item, inIsr, nQueued>>

StartBsr ==
  /\ ~inIsr
  /\ pc = "test"
  /\ bBsrRequest > bBsrRan \/ bOver # 0
  /\ bBsrRan' = Inc(bBsrRan)
  /\ owed' = owed - 1
  /\ pc' = "bsr"
  /\ UNCHANGED <<board, ring, bBsrRequest, bBsrOver, bOver, item, inIsr, nQueued>>

SkipBsr ==
  /\ ~inIsr
  /\ pc = "test"
  /\ ~(bBsrRequest > bBsrRan \/ bOver # 0)
  /\ pc' = LoopTop
  /\ UNCHANGED <<board, ring, counters, bOver, item, inIsr, nQueued>>

\* MGC_DrcBsr takes items until the queue is empty.
BsrTake ==
  /\ ~inIsr
  /\ pc = "bsr"
  /\ DequeueBackgroundItem
  /\ pc' = "handle"
  /\ UNCHANGED <<board, counters, bOver, inIsr, nQueued>>

\* Mutation of BsrReturn: a pass may end with items left.
BsrReturnEarly ==
  /\ ~inIsr
  /\ pc = "bsr"
  /\ pc' = "ack"
  /\ UNCHANGED <<board, ring, counters, bOver, item, inIsr, nQueued>>

BsrReturn ==
  /\ ~inIsr
  /\ pc = "bsr"
  /\ wNextDequeueItem = wNextQueueItem
  /\ pc' = "ack"
  /\ UNCHANGED <<board, ring, counters, bOver, item, inIsr, nQueued>>

\* Most items are handled without touching the queue.
HandlePlain ==
  /\ ~inIsr
  /\ pc = "handle"
  /\ pc' = "bsr"
  /\ UNCHANGED <<board, ring, counters, bOver, item, inIsr, nQueued>>

\* A host-role bus RESET makes MGC_DrcResetPort flush the queue.
HandleReset ==
  /\ ~inIsr
  /\ pc = "handle"
  /\ ~Peripheral
  /\ FlushBackgroundQueue
  /\ pc' = "bsr"
  /\ UNCHANGED <<board, counters, bOver, item, inIsr, nQueued>>

\* In function role, a completion callback that starts the next reception
\* finds a packet already in the FIFO: MGC_MhdrcStartRx completes the IRP at
\* once and queues it from the BSR.
HandleResidual(x) ==
  /\ ~inIsr
  /\ pc = "handle"
  /\ Peripheral
  /\ QueueBackgroundItem(x)
  /\ pc' = "bsr"
  /\ UNCHANGED <<board, counters, bOver, item, inIsr, nQueued>>

\* Mutation of AckOver: forgets the wraps after any pass.
AckOverAlways ==
  /\ ~inIsr
  /\ pc = "ack"
  /\ bBsrOver' = 0
  /\ pc' = LoopTop
  /\ UNCHANGED <<board, ring, bBsrRequest, bBsrRan, owed, bOver, item, inIsr, nQueued>>

\* The BSR has returned: forget the wraps once bBsrRan itself has wrapped.
AckOver ==
  /\ ~inIsr
  /\ pc = "ack"
  /\ bBsrOver' = IF bBsrRan = 0 THEN 0 ELSE bBsrOver
  /\ pc' = LoopTop
  /\ UNCHANGED <<board, ring, bBsrRequest, bBsrRan, owed, bOver, item, inIsr, nQueued>>

MainStep ==
  \/ ReadOver
  \/ StartBsr
  \/ SkipBsr
  \/ BsrTake
  \/ BsrReturn
  \/ HandlePlain
  \/ HandleReset
  \/ \E x \in Items : HandleResidual(x)
  \/ AckOver

Next ==
  \/ IsrEnter
  \/ \E x \in Items : IsrQueue(x)
  \/ IsrReturn
  \/ MainStep

Spec == Init /\ [][Next]_vars

\* The loop never stops: a polled ISR is called on every turn, an ISR
\* returns, and the main loop keeps running.
FairSpec == /\ Spec
            /\ WF_vars(IsrEnter)
            /\ WF_vars(IsrReturn)
            /\ WF_vars(MainStep)

-----------------------------------------------------------------------------
(* Properties                                                              *)

TypeOK ==
  /\ board \in Boards
  /\ pQueueData \in [Slots -> Items]
  /\ wNextQueueItem \in Slots
  /\ wNextDequeueItem \in Slots
  /\ bBsrRequest \in 0 .. CounterMod - 1
  /\ bBsrRan \in 0 .. CounterMod - 1
  /\ bBsrOver \in 0 .. CounterMod - 1
  /\ bOver \in 0 .. CounterMod - 1
  /\ item \in Items
  /\ pc \in Control
  /\ inIsr \in BOOLEAN
  /\ nQueued \in 0 .. MaxPerIsr
  /\ owed \in 0 .. MaxOwed

\* No wake-up is lost: whenever an item waits while neither the ISR nor a
\* BSR pass is in progress, MUSB_NoneRunBackground's test will succeed, even
\* after the 8-bit counters have wrapped (plat_uds.c:158-162, 233-238).
NoLostWakeup ==
  Count > 0 /\ ~inIsr /\ pc \notin {"bsr", "handle"}
    => bBsrRequest > bBsrRan \/ bBsrOver > 0

\* In the polling loop one ISR run is answered by one complete BSR pass: the
\* hardware is never polled while an item of an earlier poll is undelivered.
DrainedBeforePoll == pc = "poll" /\ ~inIsr => Count = 0

\* The ring is a FIFO: nothing accepted is overwritten, dropped, duplicated
\* or reordered, and interrupt-level code never removes anything.
Fifo == INSTANCE BsrFifo WITH fifo <- Pending, out <- item, isr <- inIsr
ImplementsFifo == Fifo!Spec

\* On a polled board every item queued is eventually handed to the BSR, unless
\* a bus reset empties the queue first, even while handlers keep queueing more.
EventuallyHandled ==
  \A x \in Items :
    (~Preempt /\ \E i \in 1 .. Count : Pending[i] = x)
      ~> (pc = "handle" /\ item = x) \/ Count = 0
=============================================================================
