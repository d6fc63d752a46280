--------------------------- MODULE BsrQueueProofs ---------------------------
(***************************************************************************)
(* Proofs about BsrQueue for every ring length, counter width and number   *)
(* of items per interrupt with Capacity: the types, that no wake-up is     *)
(* lost, that the polling loop drains the queue, and that the ring is the  *)
(* FIFO of BsrFifo.                                                        *)
(***************************************************************************)
EXTENDS BsrQueue, SequenceTheorems, TLAPS

\* A BSR pass is in progress.
Passing == pc \in {"bsr", "handle"}
Pass == IF Passing THEN 1 ELSE 0
Handling == IF pc = "handle" THEN 1 ELSE 0
IsrRuns == IF inIsr THEN 1 ELSE 0

\* bBsrRan has wrapped in this pass, and AckOver will clear bBsrOver.
Wrapping == bBsrRan = 0 /\ pc \in {"bsr", "handle", "ack"}

\* What the three 8-bit counters mean: their difference is the number of
\* passes owed, corrected by CounterMod while bBsrOver says so.
CounterInv ==
  /\ bBsrOver \in {0, 1}
  /\ bOver \in {0, 1}
  /\ Wrapping => bBsrOver = 1
  /\ pc = "test" /\ bOver = 1 => bBsrOver = 1
  /\ owed = bBsrRequest - bBsrRan
              + (IF bBsrOver = 1 /\ ~Wrapping THEN CounterMod ELSE 0)

\* Who runs when.
ControlInv ==
  /\ ~inIsr => nQueued = 0
  /\ inIsr => owed < MaxOwed
  /\ ~Preempt => (inIsr => pc = "poll")
  /\ pc = "poll" => ~Preempt
  /\ ~Preempt => /\ owed + Pass + IsrRuns <= 1
                 /\ pc \in {"poll", "ack"} => owed = 0
                 /\ pc = "test" => bOver = bBsrOver

\* Items in the ring were queued by ISR runs whose pass is still owed or in
\* progress, or by the ISR run in progress.
LoadInv == Count + Handling <= (owed + Pass) * MaxPerIsr + nQueued

IInv == TypeOK /\ CounterInv /\ ControlInv /\ LoadInv

\* The board is one of BoardType and stays the same.
LEMMA BoardIs ==
  ASSUME board \in Boards
  PROVE  Preempt \in BOOLEAN /\ MaxPerIsr \in Nat \ {0}
<1>1. board \in BoardType
  BY BsrQueueAssumption
<1> QED BY <1>1 DEF BoardType, Preempt, MaxPerIsr

LEMMA BoardKept ==
  ASSUME board' = board
  PROVE  (Preempt' <=> Preempt) /\ MaxPerIsr' = MaxPerIsr
BY DEF Preempt, MaxPerIsr

-----------------------------------------------------------------------------
(* Arithmetic of the ring                                                  *)

LEMMA CountType ==
  ASSUME QueueLength \in Nat \ {0},
         wNextQueueItem \in Slots, wNextDequeueItem \in Slots
  PROVE  Count \in 0 .. QueueLength - 1
BY DEF Slots, Count

LEMMA CountAfterPut ==
  ASSUME QueueLength \in Nat \ {0},
         wNextQueueItem \in Slots, wNextDequeueItem \in Slots,
         wNextQueueItem' = NextSlot(wNextQueueItem),
         wNextDequeueItem' = wNextDequeueItem
  PROVE  /\ wNextQueueItem' \in Slots
         /\ Count' <= Count + 1
         /\ Count + 1 < QueueLength => Count' = Count + 1
BY DEF Slots, Count, NextSlot

LEMMA CountAfterTake ==
  ASSUME QueueLength \in Nat \ {0},
         wNextQueueItem \in Slots, wNextDequeueItem \in Slots,
         wNextDequeueItem # wNextQueueItem,
         wNextDequeueItem' = NextSlot(wNextDequeueItem),
         wNextQueueItem' = wNextQueueItem
  PROVE  /\ wNextDequeueItem' \in Slots
         /\ Count > 0
         /\ Count' = Count - 1
BY DEF Slots, Count, NextSlot

LEMMA TimesStep ==
  ASSUME NEW m \in Nat, NEW a \in Nat
  PROVE  /\ a * m \in Nat
         /\ (a + 1) * m = a * m + m
         /\ 0 * m = 0
BY SMT

LEMMA TimesMono ==
  ASSUME NEW m \in Nat, NEW a \in Nat, NEW b \in Nat, a <= b
  PROVE  a * m <= b * m
BY SMT

-----------------------------------------------------------------------------
(* The inductive invariant                                                 *)

LEMMA InitIInv == Init => IInv
<1> SUFFICES ASSUME Init PROVE IInv
  OBVIOUS
<1> USE BsrQueueAssumption
<1>b. Preempt \in BOOLEAN /\ MaxPerIsr \in Nat \ {0}
  BY BoardIs DEF Init
<1> USE <1>b
<1>1. TypeOK
  <2>1. bBsrRequest \in 0 .. CounterMod - 1 /\ owed \in 0 .. MaxOwed
    BY DEF Init
  <2>2. wNextQueueItem \in Slots /\ pc \in Control
    BY DEF Init, Slots, Control, LoopTop
  <2>3. inIsr \in BOOLEAN
    BY DEF Init
  <2>4. bBsrRan = 0 /\ bBsrOver = 0 /\ bOver = 0 /\ nQueued = 0 /\ wNextDequeueItem = 0
    BY DEF Init
  <2>5. board \in Boards /\ pQueueData \in [Slots -> Items] /\ item \in Items
    BY DEF Init
  <2>6. /\ 0 \in Slots
        /\ 0 \in 0 .. CounterMod - 1
        /\ 0 \in 0 .. MaxPerIsr
    BY DEF Slots
  <2> QED BY <2>1, <2>2, <2>3, <2>4, <2>5, <2>6 DEF TypeOK
<1>2. CounterInv
  BY DEF Init, CounterInv, Wrapping, LoopTop
<1>3. ControlInv
  BY DEF Init, ControlInv, Pass, Passing, IsrRuns, LoopTop
<1>4. LoadInv
  BY TimesStep DEF Init, LoadInv, Count, Pass, Passing, Handling, LoopTop
<1> QED BY <1>1, <1>2, <1>3, <1>4 DEF IInv

LEMMA IsrEnterIInv == IInv /\ IsrEnter => IInv'
<1> SUFFICES ASSUME IInv, IsrEnter PROVE IInv'
  OBVIOUS
<1> USE BsrQueueAssumption DEF IInv, IsrEnter, ring, counters
<1>b. /\ Preempt \in BOOLEAN /\ (Preempt' <=> Preempt)
      /\ MaxPerIsr \in Nat \ {0} /\ MaxPerIsr' = MaxPerIsr
  BY BoardIs, BoardKept DEF TypeOK
<1> USE <1>b
<1>1. TypeOK'
  BY DEF TypeOK
<1>2. CounterInv'
  BY DEF CounterInv, Wrapping
<1>3. ControlInv'
  BY DEF ControlInv, TypeOK, Pass, Passing, IsrRuns, Control
<1>4. LoadInv'
  <2>1. Count' = Count /\ Handling' = Handling /\ Pass' = Pass
    BY DEF Count, Handling, Pass, Passing
  <2> QED BY <2>1 DEF LoadInv, ControlInv
<1> QED BY <1>1, <1>2, <1>3, <1>4 DEF IInv

LEMMA IsrQueueIInv == IInv /\ (\E x \in Items : IsrQueue(x)) => IInv'
<1> SUFFICES ASSUME IInv, NEW x \in Items, IsrQueue(x) PROVE IInv'
  OBVIOUS
<1> USE BsrQueueAssumption DEF IInv, IsrQueue, QueueBackgroundItem, counters
<1>b. /\ Preempt \in BOOLEAN /\ (Preempt' <=> Preempt)
      /\ MaxPerIsr \in Nat \ {0} /\ MaxPerIsr' = MaxPerIsr
  BY BoardIs, BoardKept DEF TypeOK
<1> USE <1>b
<1>1. wNextQueueItem' \in Slots /\ Count' <= Count + 1
  BY CountAfterPut DEF TypeOK
<1>2. TypeOK'
  BY <1>1 DEF TypeOK, Slots
<1>3. CounterInv'
  BY DEF CounterInv, Wrapping
<1>4. ControlInv'
  BY DEF ControlInv, Pass, Passing, IsrRuns
<1>5. LoadInv'
  <2>1. Handling' = Handling /\ Pass' = Pass
    BY DEF Handling, Pass, Passing
  <2>2. Count \in Nat /\ Count' \in Nat
    BY <1>2, CountType, CountType DEF TypeOK, Slots, Count
  <2>3. (owed + Pass) * MaxPerIsr \in Nat /\ Handling \in Nat
    BY TimesStep DEF TypeOK, Pass, Handling
  <2> QED BY <1>1, <2>1, <2>2, <2>3 DEF LoadInv, TypeOK
<1> QED BY <1>2, <1>3, <1>4, <1>5 DEF IInv

LEMMA IsrReturnIInv == IInv /\ IsrReturn => IInv'
<1> SUFFICES ASSUME IInv, IsrReturn PROVE IInv'
  OBVIOUS
<1> USE BsrQueueAssumption DEF IInv, IsrReturn, ring
<1>b. /\ Preempt \in BOOLEAN /\ (Preempt' <=> Preempt)
      /\ MaxPerIsr \in Nat \ {0} /\ MaxPerIsr' = MaxPerIsr
  BY BoardIs, BoardKept DEF TypeOK
<1> USE <1>b
<1>2. CounterInv'
  BY DEF TypeOK, CounterInv, ControlInv, Wrapping, Inc, Control
<1>1. TypeOK'
  <2>1. bBsrRequest' \in 0 .. CounterMod - 1 /\ owed' \in 0 .. MaxOwed
    BY DEF TypeOK, ControlInv, Inc
  <2>2. bBsrOver' \in 0 .. CounterMod - 1
    BY <1>2 DEF CounterInv
  <2>3. pc' \in Control /\ nQueued' \in 0 .. MaxPerIsr
    BY DEF TypeOK, Control
  <2>5. inIsr' \in BOOLEAN
    BY Zenon
  <2>4. UNCHANGED <<board, ring, bBsrRan, bOver, item>>
    OBVIOUS
  <2> QED BY <2>1, <2>2, <2>3, <2>4, <2>5 DEF TypeOK
<1>3. ControlInv'
  BY DEF TypeOK, ControlInv, Pass, Passing, IsrRuns, Control
<1>4. LoadInv'
  <2>1. Count' = Count /\ Handling' = Handling /\ Pass' = Pass
    BY DEF Count, Handling, Pass, Passing
  <2>2. Count \in Nat
    BY CountType DEF TypeOK
  <2>3. owed + Pass \in Nat /\ Handling \in Nat
    BY DEF TypeOK, Pass, Handling
  <2>4. (owed + Pass + 1) * MaxPerIsr = (owed + Pass) * MaxPerIsr + MaxPerIsr
    BY <2>3, TimesStep
  <2>5. (owed + Pass) * MaxPerIsr \in Nat
    BY <2>3, TimesStep
  <2>6. CASE nQueued > 0
    <3>1. (owed' + Pass') * MaxPerIsr = (owed + Pass) * MaxPerIsr + MaxPerIsr
      <4>1. owed' + Pass' = owed + Pass + 1
        BY <2>1, <2>3, <2>6 DEF TypeOK, Pass
      <4> QED BY <4>1, <2>4
    <3> QED BY <2>1, <2>2, <2>3, <2>5, <3>1 DEF LoadInv, TypeOK
  <2>7. CASE ~(nQueued > 0)
    BY <2>1, <2>7 DEF LoadInv, TypeOK
  <2> QED BY <2>6, <2>7
<1> QED BY <1>1, <1>2, <1>3, <1>4 DEF IInv

LEMMA ReadOverIInv == IInv /\ ReadOver => IInv'
<1> SUFFICES ASSUME IInv, ReadOver PROVE IInv'
  OBVIOUS
<1> USE BsrQueueAssumption DEF IInv, ReadOver, ring, counters
<1>b. /\ Preempt \in BOOLEAN /\ (Preempt' <=> Preempt)
      /\ MaxPerIsr \in Nat \ {0} /\ MaxPerIsr' = MaxPerIsr
  BY BoardIs, BoardKept DEF TypeOK
<1> USE <1>b
<1>1. TypeOK'
  BY DEF TypeOK, Control
<1>2. CounterInv'
  BY DEF CounterInv, Wrapping
<1>3. ControlInv'
  BY DEF ControlInv, Pass, Passing, IsrRuns
<1>4. LoadInv'
  <2>1. Count' = Count /\ Handling' = Handling /\ Pass' = Pass
    BY DEF Count, Handling, Pass, Passing
  <2> QED BY <2>1 DEF LoadInv
<1> QED BY <1>1, <1>2, <1>3, <1>4 DEF IInv

LEMMA StartBsrIInv == IInv /\ StartBsr => IInv'
<1> SUFFICES ASSUME IInv, StartBsr PROVE IInv'
  OBVIOUS
<1> USE BsrQueueAssumption DEF IInv, StartBsr, ring
<1>b. /\ Preempt \in BOOLEAN /\ (Preempt' <=> Preempt)
      /\ MaxPerIsr \in Nat \ {0} /\ MaxPerIsr' = MaxPerIsr
  BY BoardIs, BoardKept DEF TypeOK
<1> USE <1>b
<1>0. owed >= 1
  <2>1. ~Wrapping
    BY DEF Wrapping
  <2>2. CASE bBsrOver = 1
    BY <2>1, <2>2 DEF TypeOK, CounterInv
  <2>3. CASE bBsrOver = 0
    BY <2>1, <2>3 DEF TypeOK, CounterInv
  <2> QED BY <2>2, <2>3 DEF CounterInv
<1>1. TypeOK'
  BY <1>0 DEF TypeOK, Inc, Control
<1>2. CounterInv'
  BY DEF TypeOK, CounterInv, Wrapping, Inc
<1>3. ControlInv'
  BY DEF ControlInv, TypeOK, Pass, Passing, IsrRuns
<1>4. LoadInv'
  <2>1. Count' = Count /\ Handling' = Handling
    BY DEF Count, Handling
  <2>2. owed' + Pass' = owed + Pass
    BY DEF TypeOK, Pass, Passing
  <2> QED BY <2>1, <2>2 DEF LoadInv
<1> QED BY <1>1, <1>2, <1>3, <1>4 DEF IInv

LEMMA SkipBsrIInv == IInv /\ SkipBsr => IInv'
<1> SUFFICES ASSUME IInv, SkipBsr PROVE IInv'
  OBVIOUS
<1> USE BsrQueueAssumption DEF IInv, SkipBsr, ring, counters
<1>b. /\ Preempt \in BOOLEAN /\ (Preempt' <=> Preempt)
      /\ MaxPerIsr \in Nat \ {0} /\ MaxPerIsr' = MaxPerIsr
  BY BoardIs, BoardKept DEF TypeOK
<1> USE <1>b
<1>0. ~Preempt => owed = 0
  <2> SUFFICES ASSUME ~Preempt PROVE owed = 0
    OBVIOUS
  <2>1. bOver = bBsrOver /\ ~Wrapping
    BY DEF ControlInv, Wrapping
  <2>2. bBsrOver = 0 /\ ~(bBsrRequest > bBsrRan)
    BY <2>1
  <2>3. owed = bBsrRequest - bBsrRan
    BY <2>1, <2>2 DEF CounterInv, TypeOK
  <2> QED BY <2>2, <2>3 DEF TypeOK
<1>1. TypeOK'
  BY DEF TypeOK, Control, LoopTop
<1>2. CounterInv'
  BY DEF CounterInv, Wrapping, LoopTop
<1>3. ControlInv'
  BY <1>0 DEF ControlInv, Pass, Passing, IsrRuns, LoopTop
<1>4. LoadInv'
  <2>1. Count' = Count /\ Handling' = Handling /\ Pass' = Pass
    BY DEF Count, Handling, Pass, Passing, LoopTop
  <2> QED BY <2>1 DEF LoadInv
<1> QED BY <1>1, <1>2, <1>3, <1>4 DEF IInv

LEMMA BsrTakeIInv == IInv /\ BsrTake => IInv'
<1> SUFFICES ASSUME IInv, BsrTake PROVE IInv'
  OBVIOUS
<1> USE BsrQueueAssumption DEF IInv, BsrTake, DequeueBackgroundItem, counters
<1>b. /\ Preempt \in BOOLEAN /\ (Preempt' <=> Preempt)
      /\ MaxPerIsr \in Nat \ {0} /\ MaxPerIsr' = MaxPerIsr
  BY BoardIs, BoardKept DEF TypeOK
<1> USE <1>b
<1>1. wNextDequeueItem' \in Slots /\ Count > 0 /\ Count' = Count - 1
  BY CountAfterTake DEF TypeOK
<1>2. TypeOK'
  BY <1>1 DEF TypeOK, Control, Slots
<1>3. CounterInv'
  BY DEF CounterInv, Wrapping
<1>4. ControlInv'
  BY DEF ControlInv, Pass, Passing, IsrRuns
<1>5. LoadInv'
  <2>1. Handling = 0 /\ Handling' = 1 /\ Pass' = Pass
    BY DEF Handling, Pass, Passing
  <2>2. Count \in Nat
    BY CountType DEF TypeOK
  <2> QED BY <1>1, <2>1, <2>2 DEF LoadInv
<1> QED BY <1>2, <1>3, <1>4, <1>5 DEF IInv

LEMMA BsrReturnIInv == IInv /\ BsrReturn => IInv'
<1> SUFFICES ASSUME IInv, BsrReturn PROVE IInv'
  OBVIOUS
<1> USE BsrQueueAssumption DEF IInv, BsrReturn, ring, counters
<1>b. /\ Preempt \in BOOLEAN /\ (Preempt' <=> Preempt)
      /\ MaxPerIsr \in Nat \ {0} /\ MaxPerIsr' = MaxPerIsr
  BY BoardIs, BoardKept DEF TypeOK
<1> USE <1>b
<1>1. TypeOK'
  BY DEF TypeOK, Control
<1>2. CounterInv'
  BY DEF CounterInv, Wrapping
<1>3. ControlInv'
  BY DEF ControlInv, TypeOK, Pass, Passing, IsrRuns
<1>4. LoadInv'
  <2>1. Count' = 0 /\ Handling' = 0 /\ Pass' = 0
    BY DEF Count, Handling, Pass, Passing, TypeOK, Slots
  <2>2. (owed' + Pass') * MaxPerIsr \in Nat
    BY <2>1, TimesStep DEF TypeOK
  <2> QED BY <2>1, <2>2 DEF LoadInv, TypeOK
<1> QED BY <1>1, <1>2, <1>3, <1>4 DEF IInv

LEMMA HandlePlainIInv == IInv /\ HandlePlain => IInv'
<1> SUFFICES ASSUME IInv, HandlePlain PROVE IInv'
  OBVIOUS
<1> USE BsrQueueAssumption DEF IInv, HandlePlain, ring, counters
<1>b. /\ Preempt \in BOOLEAN /\ (Preempt' <=> Preempt)
      /\ MaxPerIsr \in Nat \ {0} /\ MaxPerIsr' = MaxPerIsr
  BY BoardIs, BoardKept DEF TypeOK
<1> USE <1>b
<1>1. TypeOK'
  BY DEF TypeOK, Control
<1>2. CounterInv'
  BY DEF CounterInv, Wrapping
<1>3. ControlInv'
  BY DEF ControlInv, TypeOK, Pass, Passing, IsrRuns
<1>4. LoadInv'
  <2>1. Count' = Count /\ Handling' = 0 /\ Handling = 1 /\ Pass' = Pass
    BY DEF Count, Handling, Pass, Passing
  <2>2. Count \in Nat /\ owed + Pass \in Nat
    BY CountType DEF TypeOK, Pass
  <2>3. (owed + Pass) * MaxPerIsr \in Nat
    BY <2>2, TimesStep
  <2> QED BY <2>1, <2>2, <2>3 DEF LoadInv, TypeOK
<1> QED BY <1>1, <1>2, <1>3, <1>4 DEF IInv

LEMMA HandleResetIInv == IInv /\ HandleReset => IInv'
<1> SUFFICES ASSUME IInv, HandleReset PROVE IInv'
  OBVIOUS
<1> USE BsrQueueAssumption DEF IInv, HandleReset, FlushBackgroundQueue, counters
<1>b. /\ Preempt \in BOOLEAN /\ (Preempt' <=> Preempt)
      /\ MaxPerIsr \in Nat \ {0} /\ MaxPerIsr' = MaxPerIsr
  BY BoardIs, BoardKept DEF TypeOK
<1> USE <1>b
<1>1. TypeOK'
  BY DEF TypeOK, Control, Slots
<1>2. CounterInv'
  BY DEF CounterInv, Wrapping
<1>3. ControlInv'
  BY DEF ControlInv, TypeOK, Pass, Passing, IsrRuns
<1>4. LoadInv'
  <2>1. Count' = 0 /\ Handling' = 0 /\ Pass' = 1
    BY DEF Count, Handling, Pass, Passing
  <2>2. (owed' + Pass') * MaxPerIsr \in Nat
    BY <2>1, TimesStep DEF TypeOK
  <2> QED BY <2>1, <2>2 DEF LoadInv, TypeOK
<1> QED BY <1>1, <1>2, <1>3, <1>4 DEF IInv

LEMMA HandleResidualIInv == IInv /\ (\E x \in Items : HandleResidual(x)) => IInv'
<1> SUFFICES ASSUME IInv, NEW x \in Items, HandleResidual(x) PROVE IInv'
  OBVIOUS
<1> USE BsrQueueAssumption DEF IInv, HandleResidual, QueueBackgroundItem, counters
<1>b. /\ Preempt \in BOOLEAN /\ (Preempt' <=> Preempt)
      /\ MaxPerIsr \in Nat \ {0} /\ MaxPerIsr' = MaxPerIsr
  BY BoardIs, BoardKept DEF TypeOK
<1> USE <1>b
<1>1. wNextQueueItem' \in Slots /\ Count' <= Count + 1
  BY CountAfterPut DEF TypeOK
<1>2. TypeOK'
  BY <1>1 DEF TypeOK, Slots, Control
<1>3. CounterInv'
  BY DEF CounterInv, Wrapping
<1>4. ControlInv'
  BY DEF ControlInv, Pass, Passing, IsrRuns
<1>5. LoadInv'
  <2>1. Handling' = 0 /\ Handling = 1 /\ Pass' = Pass
    BY DEF Handling, Pass, Passing
  <2>2. Count \in Nat /\ Count' \in Nat
    BY <1>2, CountType DEF TypeOK, Slots, Count
  <2>3. (owed + Pass) * MaxPerIsr \in Nat
    BY TimesStep DEF TypeOK, Pass
  <2> QED BY <1>1, <2>1, <2>2, <2>3 DEF LoadInv, TypeOK
<1> QED BY <1>2, <1>3, <1>4, <1>5 DEF IInv

LEMMA AckOverIInv == IInv /\ AckOver => IInv'
<1> SUFFICES ASSUME IInv, AckOver PROVE IInv'
  OBVIOUS
<1> USE BsrQueueAssumption DEF IInv, AckOver, ring
<1>b. /\ Preempt \in BOOLEAN /\ (Preempt' <=> Preempt)
      /\ MaxPerIsr \in Nat \ {0} /\ MaxPerIsr' = MaxPerIsr
  BY BoardIs, BoardKept DEF TypeOK
<1> USE <1>b
<1>1. TypeOK'
  BY DEF TypeOK, Control, LoopTop
<1>2. CounterInv'
  BY DEF TypeOK, CounterInv, Wrapping, LoopTop
<1>3. ControlInv'
  BY DEF ControlInv, TypeOK, Pass, Passing, IsrRuns, LoopTop
<1>4. LoadInv'
  <2>1. Count' = Count /\ Handling' = Handling /\ Pass' = Pass
    BY DEF Count, Handling, Pass, Passing, LoopTop
  <2> QED BY <2>1 DEF LoadInv
<1> QED BY <1>1, <1>2, <1>3, <1>4 DEF IInv

LEMMA StutterIInv == IInv /\ UNCHANGED vars => IInv'
<1> SUFFICES ASSUME IInv, UNCHANGED vars PROVE IInv'
  OBVIOUS
<1> USE DEF IInv, vars, ring, counters
<1>b. /\ Preempt \in BOOLEAN /\ (Preempt' <=> Preempt)
      /\ MaxPerIsr \in Nat \ {0} /\ MaxPerIsr' = MaxPerIsr
  BY BoardIs, BoardKept DEF TypeOK
<1> USE <1>b
<1>1. TypeOK'
  BY DEF TypeOK
<1>2. CounterInv'
  BY DEF CounterInv, Wrapping
<1>3. ControlInv'
  BY DEF ControlInv, Pass, Passing, IsrRuns
<1>4. LoadInv'
  BY DEF LoadInv, Count, Handling, Pass, Passing
<1> QED BY <1>1, <1>2, <1>3, <1>4 DEF IInv

\* IInv is inductive: one lemma per action.
LEMMA NextIInv == IInv /\ [Next]_vars => IInv'
BY IsrEnterIInv, IsrQueueIInv, IsrReturnIInv, ReadOverIInv, StartBsrIInv,
   SkipBsrIInv, BsrTakeIInv, BsrReturnIInv, HandlePlainIInv, HandleResetIInv,
   HandleResidualIInv, AckOverIInv, StutterIInv DEF Next, MainStep

LEMMA Invariance == Spec => []IInv
<1>1. Init => IInv
  BY InitIInv
<1>2. IInv /\ [Next]_vars => IInv'
  BY NextIInv
<1> QED BY <1>1, <1>2, PTL DEF Spec

\* Every variable of plat_uds.c keeps its type: the indices stay inside the
\* ring and the number of owed passes stays within its bound.
THEOREM TypeCorrect == Spec => []TypeOK
<1>1. IInv => TypeOK
  BY DEF IInv
<1> QED BY <1>1, Invariance, PTL

\* No wake-up is lost by the three 8-bit counters (plat_uds.c:158-162,
\* 233-238), whatever their width, however late the main loop is.
THEOREM WakeupKept == Spec => []NoLostWakeup
<1>1. IInv => NoLostWakeup
  <2> SUFFICES ASSUME IInv, Count > 0, ~inIsr, pc \notin {"bsr", "handle"}
               PROVE  bBsrRequest > bBsrRan \/ bBsrOver > 0
    BY DEF NoLostWakeup
  <2> USE BsrQueueAssumption DEF IInv
  <2>0. /\ owed \in Nat /\ owed + Pass = owed
        /\ nQueued = 0 /\ Handling = 0
        /\ Count \in Nat
    BY CountType DEF ControlInv, TypeOK, Handling, Pass, Passing
  <2>m. MaxPerIsr \in Nat
    BY BoardIs DEF TypeOK
  <2>1. Count <= owed * MaxPerIsr
    <3>1. Count + 0 <= owed * MaxPerIsr + 0
      BY <2>0 DEF LoadInv
    <3>2. owed * MaxPerIsr \in Nat
      BY <2>0, <2>m, TimesStep
    <3> QED BY <2>0, <3>1, <3>2
  <2>2. owed # 0
    BY <2>1, <2>m, TimesStep, CountType DEF TypeOK
  <2>3. CASE bBsrOver = 1
    BY <2>3
  <2>4. CASE bBsrOver = 0
    BY <2>2, <2>4 DEF CounterInv, TypeOK
  <2> QED BY <2>3, <2>4 DEF CounterInv
<1> QED BY <1>1, Invariance, PTL

\* The polling loop answers every ISR run with a BSR pass that empties the
\* queue before the hardware is polled again (tst_msd.c, msd_main).
THEOREM PolledDrains == Spec => []DrainedBeforePoll
<1>1. IInv => DrainedBeforePoll
  <2> SUFFICES ASSUME IInv, pc = "poll", ~inIsr PROVE Count = 0
    BY DEF DrainedBeforePoll
  <2> USE BsrQueueAssumption DEF IInv
  <2>1. owed + Pass = 0 /\ nQueued = 0 /\ Handling = 0
    BY DEF ControlInv, TypeOK, Pass, Passing, Handling
  <2>2. Count + 0 <= 0 * MaxPerIsr + 0
    BY <2>1 DEF LoadInv
  <2>3. MaxPerIsr \in Nat
    BY BoardIs DEF TypeOK
  <2> QED BY <2>2, <2>3, TimesStep, CountType DEF TypeOK
<1> QED BY <1>1, Invariance, PTL

-----------------------------------------------------------------------------
(* The ring implements the FIFO                                            *)

LEMMA SeqOfFunction ==
  ASSUME NEW S, NEW n \in Nat, NEW f \in [1 .. n -> S]
  PROVE  f \in Seq(S) /\ Len(f) = n
OBVIOUS

LEMMA SlotInRing ==
  ASSUME TypeOK, NEW i \in 1 .. Count
  PROVE  SlotOf(i) \in Slots
BY BsrQueueAssumption, CountType DEF TypeOK, Slots, SlotOf

LEMMA PendingType ==
  ASSUME TypeOK
  PROVE  /\ Count \in Nat
         /\ Pending \in Seq(Items)
         /\ Len(Pending) = Count
         /\ \A i \in 1 .. Count : Pending[i] = pQueueData[SlotOf(i)]
<1>1. Count \in Nat
  BY BsrQueueAssumption, CountType DEF TypeOK
<1>2. \A i \in 1 .. Count : pQueueData[SlotOf(i)] \in Items
  BY SlotInRing DEF TypeOK
<1>3. Pending \in [1 .. Count -> Items]
  BY <1>2 DEF Pending
<1> QED BY <1>1, <1>3, SeqOfFunction DEF Pending

LEMMA PutPending ==
  ASSUME TypeOK, NEW x \in Items, QueueBackgroundItem(x), Count + 1 < QueueLength
  PROVE  Pending' = Append(Pending, x)
<1> USE BsrQueueAssumption
<1>1. PICK c \in Nat : c = Count
  BY CountType DEF TypeOK
<1>2. Count' = c + 1
  BY <1>1, CountAfterPut DEF TypeOK, QueueBackgroundItem
<1>3. ASSUME NEW i \in 1 .. c
      PROVE  SlotOf(i)' = SlotOf(i) /\ SlotOf(i) \in Slots /\ SlotOf(i) # wNextQueueItem
  BY <1>1 DEF TypeOK, Slots, SlotOf, Count, QueueBackgroundItem
<1>4. SlotOf(c + 1)' = wNextQueueItem
  BY <1>1 DEF TypeOK, Slots, SlotOf, Count, QueueBackgroundItem
<1>5. \A i \in 1 .. c + 1 : Pending'[i] = pQueueData'[SlotOf(i)']
  BY <1>2 DEF Pending
<1>6. ASSUME NEW i \in 1 .. c PROVE Pending'[i] = Pending[i]
  <2>1. pQueueData'[SlotOf(i)] = pQueueData[SlotOf(i)]
    BY <1>3 DEF QueueBackgroundItem, TypeOK
  <2> QED BY <1>1, <1>3, <1>5, <2>1, PendingType
<1>7. Pending'[c + 1] = x
  BY <1>4, <1>5 DEF QueueBackgroundItem, TypeOK
<1>8. Pending \in Seq(Items) /\ Len(Pending) = c
  BY <1>1, PendingType
<1>9. Pending' \in Seq(Items) /\ Len(Pending') = c + 1
  <2>1. ASSUME NEW i \in 1 .. c PROVE Pending'[i] \in Items
    BY <1>6, <1>8, ElementOfSeq
  <2>2. \A i \in 1 .. c + 1 : Pending'[i] \in Items
    BY <1>7, <2>1
  <2>3. Pending' \in [1 .. c + 1 -> Items]
    BY <1>2, <2>2 DEF Pending
  <2> QED BY <2>3, SeqOfFunction
<1>10. Append(Pending, x) \in Seq(Items) /\ Len(Append(Pending, x)) = c + 1
  BY <1>8
<1>11. ASSUME NEW i \in 1 .. c + 1 PROVE Pending'[i] = Append(Pending, x)[i]
  BY <1>6, <1>7, <1>8
<1> QED BY <1>9, <1>10, <1>11, SeqEqual

LEMMA TakePending ==
  ASSUME TypeOK, DequeueBackgroundItem
  PROVE  /\ Pending # <<>>
         /\ item' = Head(Pending)
         /\ Pending' = Tail(Pending)
<1> USE BsrQueueAssumption
<1>1. PICK c \in Nat : c = Count
  BY CountType DEF TypeOK
<1>2. c > 0 /\ Count' = c - 1
  BY <1>1, CountAfterTake DEF TypeOK, DequeueBackgroundItem
<1>3. ASSUME NEW i \in 1 .. c - 1
      PROVE  SlotOf(i)' = SlotOf(i + 1)
  BY <1>1, <1>2 DEF TypeOK, Slots, SlotOf, Count, NextSlot, DequeueBackgroundItem
<1>4. SlotOf(1) = wNextDequeueItem
  BY DEF TypeOK, Slots, SlotOf
<1>5. /\ Pending \in Seq(Items)
      /\ Len(Pending) = c
      /\ \A i \in 1 .. c : Pending[i] = pQueueData[SlotOf(i)]
  BY <1>1, PendingType
<1>6. Pending # <<>> /\ item' = Head(Pending)
  BY <1>2, <1>4, <1>5 DEF DequeueBackgroundItem
<1>7. ASSUME NEW i \in 1 .. c - 1 PROVE Pending'[i] = Pending[i + 1]
  <2>1. Pending'[i] = pQueueData'[SlotOf(i)']
    BY <1>2 DEF Pending
  <2> QED BY <1>3, <1>5, <2>1 DEF DequeueBackgroundItem
<1>8. Pending' \in Seq(Items) /\ Len(Pending') = c - 1
  <2>1. \A i \in 1 .. c - 1 : Pending'[i] \in Items
    BY <1>5, <1>7, ElementOfSeq
  <2>2. Pending' \in [1 .. c - 1 -> Items] /\ c - 1 \in Nat
    BY <1>2, <2>1 DEF Pending
  <2> QED BY <2>2, SeqOfFunction
<1>9. /\ Tail(Pending) \in Seq(Items)
      /\ Len(Tail(Pending)) = c - 1
      /\ \A i \in 1 .. c - 1 : Tail(Pending)[i] = Pending[i + 1]
  BY <1>2, <1>5, <1>6, HeadTailProperties
<1>10. Pending' = Tail(Pending)
  BY <1>7, <1>8, <1>9, SeqEqual
<1> QED BY <1>6, <1>10

LEMMA FlushPending ==
  ASSUME FlushBackgroundQueue
  PROVE  Pending' = <<>>
<1>1. Count' = 0
  BY DEF FlushBackgroundQueue, Count
<1> QED BY <1>1 DEF Pending

LEMMA SamePending ==
  ASSUME UNCHANGED ring
  PROVE  Pending' = Pending
BY DEF ring, Pending, Count, SlotOf

\* With Capacity, the ring has a free slot beyond the one it must keep empty
\* whenever something may be queued.
LEMMA Room ==
  ASSUME Capacity, IInv,
         (inIsr /\ nQueued < MaxPerIsr) \/ (~inIsr /\ pc = "handle")
  PROVE  Count + 1 < QueueLength
<1> USE BsrQueueAssumption DEF IInv
<1> DEFINE most == IF Preempt THEN MaxOwed + 1 ELSE 1
           passes == owed + Pass
<1>1. /\ most \in Nat /\ passes \in Nat /\ Count \in Nat
      /\ nQueued \in Nat /\ MaxPerIsr \in Nat
  BY CountType, BoardIs DEF TypeOK, Pass
<1>2. most * MaxPerIsr < QueueLength /\ most * MaxPerIsr \in Nat
  <2>1. RoomOn(board)
    BY DEF Capacity, TypeOK
  <2> QED BY <1>1, <2>1, TimesStep DEF RoomOn, Preempt, MaxPerIsr
<1>3. CASE inIsr /\ nQueued < MaxPerIsr
  <2>1. passes + 1 <= most
    BY <1>3 DEF ControlInv, TypeOK, Pass, IsrRuns
  <2>2. (passes + 1) * MaxPerIsr <= most * MaxPerIsr
    <3> HIDE DEF passes, most
    <3> QED BY <1>1, <2>1, TimesMono
  <2>3. (passes + 1) * MaxPerIsr = passes * MaxPerIsr + MaxPerIsr
        /\ passes * MaxPerIsr \in Nat
    <3> HIDE DEF passes, most
    <3> QED BY <1>1, TimesStep
  <2>4. Count + Handling <= passes * MaxPerIsr + nQueued /\ Handling \in Nat
    BY DEF LoadInv, Handling
  <2> HIDE DEF passes, most
  <2> QED BY <1>1, <1>2, <1>3, <2>2, <2>3, <2>4
<1>4. CASE ~inIsr /\ pc = "handle"
  <2>1. passes <= most /\ nQueued = 0 /\ Handling = 1
    BY <1>4 DEF ControlInv, TypeOK, Pass, Passing, IsrRuns, Handling
  <2>2. passes * MaxPerIsr <= most * MaxPerIsr /\ passes * MaxPerIsr \in Nat
    <3> HIDE DEF passes, most
    <3> QED BY <1>1, <2>1, TimesMono, TimesStep
  <2>3. Count + 1 <= passes * MaxPerIsr + 0
    BY <2>1 DEF LoadInv
  <2> HIDE DEF passes, most
  <2> QED BY <1>1, <1>2, <2>2, <2>3
<1> QED BY <1>3, <1>4

LEMMA InitFifo == Init => Fifo!Init
<1> SUFFICES ASSUME Init PROVE Fifo!Init
  OBVIOUS
<1>1. Pending = <<>>
  BY DEF Init, Pending, Count
<1> QED BY <1>1 DEF Init, Fifo!Init

LEMMA StepFifo ==
  ASSUME Capacity, IInv, [Next]_vars
  PROVE  [Fifo!Next]_(Fifo!vars)
<1> USE DEF IInv
<1>1. CASE IsrEnter \/ IsrReturn
  <2>1. Pending' = Pending /\ UNCHANGED item /\ inIsr' = ~inIsr
    BY <1>1, SamePending DEF IsrEnter, IsrReturn, TypeOK
  <2> QED BY <2>1 DEF Fifo!Next, Fifo!SwitchLevel
<1>2. ASSUME NEW x \in Items, IsrQueue(x) PROVE Fifo!Next
  <2>1. Count + 1 < QueueLength
    BY <1>2, Room DEF IsrQueue
  <2>2. Pending' = Append(Pending, x)
    BY <1>2, <2>1, PutPending DEF IsrQueue
  <2> QED BY <1>2, <2>2 DEF IsrQueue, Fifo!Next, Fifo!Put
<1>3. ASSUME NEW x \in Items, HandleResidual(x) PROVE Fifo!Next
  <2>1. Count + 1 < QueueLength
    BY <1>3, Room DEF HandleResidual
  <2>2. Pending' = Append(Pending, x)
    BY <1>3, <2>1, PutPending DEF HandleResidual
  <2> QED BY <1>3, <2>2 DEF HandleResidual, Fifo!Next, Fifo!Put
<1>4. CASE BsrTake
  <2>1. Pending # <<>> /\ item' = Head(Pending) /\ Pending' = Tail(Pending)
    BY <1>4, TakePending DEF BsrTake
  <2> QED BY <1>4, <2>1 DEF BsrTake, Fifo!Next, Fifo!Take
<1>5. CASE HandleReset
  <2>1. Pending' = <<>>
    BY <1>5, FlushPending DEF HandleReset
  <2> QED BY <1>5, <2>1 DEF HandleReset, Fifo!Next, Fifo!Flush
<1>6. CASE \/ ReadOver \/ StartBsr \/ SkipBsr \/ BsrReturn
           \/ HandlePlain \/ AckOver \/ UNCHANGED vars
  <2>1. UNCHANGED <<ring, item, inIsr>>
    BY <1>6 DEF ReadOver, StartBsr, SkipBsr, BsrReturn, HandlePlain, AckOver, vars
  <2> QED BY <2>1, SamePending DEF Fifo!vars
<1> QED BY <1>1, <1>2, <1>3, <1>4, <1>5, <1>6 DEF Next, MainStep

\* The ring of plat_uds.c is a FIFO between the ISR and the BSR for every
\* capacity that leaves one slot free: nothing is overwritten, lost,
\* duplicated or reordered, and only background code removes items.
THEOREM RingIsFifo == ASSUME Capacity PROVE Spec => ImplementsFifo
<1>1. Init => Fifo!Init
  BY InitFifo
<1>2. IInv /\ [Next]_vars => [Fifo!Next]_(Fifo!vars)
  BY StepFifo
<1> QED BY <1>1, <1>2, Invariance, PTL DEF Spec, ImplementsFifo, Fifo!Spec
=============================================================================
