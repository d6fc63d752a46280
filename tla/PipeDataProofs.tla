--------------------------- MODULE PipeDataProofs ---------------------------
(***************************************************************************)
(* Proofs about the data that Pipe moves, where clients only start         *)
(* transfers, from their callbacks too (Shipped): every byte is in its     *)
(* place, and the pipes keep the promise of PipeTransfers.  And for        *)
(* clients that do not halt pipes: no side is left with IRPs that nothing  *)
(* will start.                                                             *)
(***************************************************************************)
EXTENDS PipeProofs, FiniteSetTheorems

\* What the drivers of the repository do with pipes that stay connected.
Shipped == Uses \subseteq {"chain"}

-----------------------------------------------------------------------------
(* The inductive invariant of the data                                     *)

\* Nobody halts a pipe, and no device is removed.
CalmInv ==
  /\ bIsHalted = FALSE /\ bIsRxHalted = FALSE /\ bStopTx = FALSE
  /\ halted = [d \in Sides |-> FALSE]
  /\ ~Gone

NumbersInv ==
  /\ offset \in [Sides -> Nat] /\ dwTxSize \in 0 .. PacketSize
  /\ busy \in [Sides -> BOOLEAN] /\ intr \in [Sides -> Outcomes \cup {"none"}]
  /\ fifo \in 0 .. MaxLen /\ packet \in -1 .. PacketSize
  /\ moved \in [Irps -> Nat] /\ actual \in [Irps -> Nat]
  /\ inPlace \in [Irps -> BOOLEAN]

\* A side without a current IRP is at rest; one with an IRP has a packet on its way or
\* an interrupt to be served, never both.
TurnInv ==
  \A d \in Sides :
    /\ current[d] = None => ~busy[d] /\ intr[d] = "none" /\ offset[d] = 0
    /\ current[d] # None => (busy[d] <=> intr[d] = "none")

\* How far the current transmission is, before and after the ISR has seen the packet go.
SendingInv ==
  \A i \in Irps : current["tx"] = i =>
    /\ offset["tx"] + dwTxSize <= dwLength[i]
    /\ busy["tx"] => fifo = offset["tx"]
    /\ moved[i] = IF intr["tx"] = "ok" THEN offset["tx"] + dwTxSize ELSE offset["tx"]

\* How far the current reception is.
ReceivingInv ==
  \A i \in Irps : current["rx"] = i =>
    /\ offset["rx"] <= dwLength[i]
    /\ moved[i] = offset["rx"]
    /\ intr["rx"] = "ok" => packet >= 0

\* The IRPs that are not current.
HistoryInv ==
  \A i \in Irps :
    /\ inPlace[i] /\ moved[i] <= dwLength[i] /\ actual[i] <= dwLength[i]
    /\ state[i] = "pending" /\ current[Dir[i]] # i => moved[i] = 0
    /\ state[i] \in {"good", "failed"} => actual[i] = moved[i]

DInv == CalmInv /\ NumbersInv /\ TurnInv /\ SendingInv /\ ReceivingInv /\ HistoryInv

-----------------------------------------------------------------------------
(* The inductive invariant of the side's turns, without halts              *)

NeverHalted == bStopTx = FALSE /\ bIsRxHalted = FALSE /\ bIsHalted = FALSE

LatchInv == busy \in [Sides -> BOOLEAN] /\ intr \in [Sides -> Outcomes \cup {"none"}]

\* The current IRP has a packet on its way, or an interrupt to be served.
Active(d) == current[d] # None => busy[d] \/ intr[d] # "none"

\* IRPs wait for the current one, or for a callback after which the BSR looks again.
Awaited(d) ==
  list[d] # <<>> =>
    \/ current[d] # None
    \/ \E i \in Irps : Dir[i] = d /\ (Contains(items, i) \/ handled = i)

\* Where the handled IRP is known.
HandledInv ==
  handled # None => main = "callback" \/ (main = "append" /\ back = "callback")

TurnsInv ==
  NeverHalted /\ LatchInv /\ HandledInv /\ \A d \in Sides : Active(d) /\ Awaited(d)

-----------------------------------------------------------------------------
(* Bounds                                                                  *)

\* The largest of a finite set of numbers is there: the smallest of its subsets that bound
\* it from above has one element.
LEMMA MaxFacts ==
  ASSUME NEW S, IsFiniteSet(S), S # {}, S \subseteq Nat
  PROVE  Max(S) \in S /\ \A y \in S : Max(S) >= y
<1> DEFINE T == {X \in SUBSET S : \A y \in S : \E x \in X : x >= y}
<1>1. T \subseteq FiniteSubsetsOf(S) /\ S \in T
  BY FS_Subset DEF FiniteSubsetsOf
<1>2. IsWellFoundedOn(StrictSubsetOrdering(S), FiniteSubsetsOf(S))
  BY FS_StrictSubsetOrderingWellFounded
<1> HIDE DEF T
<1>3. PICK X \in T : \A Y \in T : ~(<<Y, X>> \in StrictSubsetOrdering(S))
  BY <1>1, <1>2, WFMin
<1>4. X \subseteq S /\ \A y \in S : \E x \in X : x >= y
  BY DEF T
<1>5. ASSUME NEW a \in X, NEW b \in X
      PROVE  ~(a < b)
  <2> SUFFICES ASSUME a < b
               PROVE  FALSE
    OBVIOUS
  <2> DEFINE Y == X \ {a}
  <2>1. \A y \in S : \E x \in Y : x >= y
    <3> SUFFICES ASSUME NEW y \in S
                 PROVE  \E x \in Y : x >= y
      OBVIOUS
    <3>1. PICK x \in X : x >= y
      BY <1>4
    <3>2. CASE x = a
      BY <1>4, <3>1, <3>2
    <3>3. CASE x # a
      BY <3>1, <3>3
    <3> QED
      BY <3>2, <3>3
  <2>2. Y \in T /\ Y \subseteq X /\ Y # X /\ Y \in SUBSET S /\ X \in SUBSET S
    BY <1>4, <2>1 DEF T
  <2> HIDE DEF Y
  <2>3. <<Y, X>> \in StrictSubsetOrdering(S)
    BY <2>2 DEF StrictSubsetOrdering
  <2> QED
    BY <1>3, <2>2, <2>3
<1>6. PICK m : m \in X
  BY <1>4
<1>7. m \in S /\ \A y \in S : m >= y
  <2> SUFFICES ASSUME NEW y \in S
               PROVE  m >= y
    BY <1>4, <1>6
  <2>1. PICK x \in X : x >= y
    BY <1>4
  <2>2. ~(m < x) /\ m \in Nat /\ x \in Nat /\ y \in Nat
    BY <1>4, <1>5, <1>6
  <2> QED
    BY <2>1, <2>2
<1> QED
  BY <1>7 DEF Max

LEMMA MaxLenFacts == MaxLen \in Nat /\ \A i \in Irps : dwLength[i] \in 0 .. MaxLen
<1> DEFINE S == {dwLength[i] : i \in Irps}
<1>1. S \subseteq Nat /\ S # {} /\ IsFiniteSet(S)
  <2>1. dwLength \in Surjection(Irps, S) /\ S \subseteq Nat /\ S # {}
    BY PipeAssumption, IrpsAssumption DEF PipeAssumption, IrpsAssumption, Surjection
  <2> HIDE DEF S
  <2> QED
    BY <2>1, IrpsAssumption, FS_Surjection DEF IrpsAssumption
<1>2. Max(S) \in S /\ \A y \in S : Max(S) >= y
  <2> HIDE DEF S
  <2> QED
    BY <1>1, MaxFacts
<1>3. MaxLen = Max(S)
  BY DEF MaxLen
<1>4. Max(S) \in Nat /\ \A i \in Irps : dwLength[i] \in S /\ dwLength[i] \in Nat
  BY <1>1, <1>2
<1> HIDE DEF S
<1> QED
  BY <1>2, <1>3, <1>4

-----------------------------------------------------------------------------
(* The data                                                                *)

\* What the proofs below take from IInv, and from the constants.
LEMMA Context ==
  ASSUME IInv
  PROVE  /\ None \notin Irps /\ PacketSize \in Nat \ {0}
         /\ \A i \in Irps : Dir[i] \in Sides /\ dwLength[i] \in Nat \ {0}
         /\ \A d \in Sides : current[d] \in Irps \cup {None}
         /\ \A d \in Sides : current[d] # None =>
              Dir[current[d]] = d /\ state[current[d]] = "pending"
  BY PipeAssumption DEF PipeAssumption, IInv, ShapeInv, SideInv, Sides

\* All that DInv speaks of, but for the queue.
data == <<current, offset, flags, hardware, moved, inPlace, actual, halted>>

\* IRPs that are not current may be started, refused and called back.
LEMMA DataStutters ==
  ASSUME DInv, UNCHANGED data, ~Gone',
         \A i \in Irps : /\ state'[i] = "pending" => state[i] = "pending"
                         /\ state'[i] \in {"good", "failed"} => state'[i] = state[i]
  PROVE  DInv'
  BY DEF DInv, data, flags, hardware, CalmInv, NumbersInv, TurnInv, SendingInv, ReceivingInv,
         HistoryInv

\* A side at rest starts an IRP that has not moved anything.
LEMMA Starting ==
  ASSUME IInv, DInv, NEW i \in Irps, NEW n, current[Dir[i]] = None, n = dwLength[i],
         StartIrp(i, n), UNCHANGED <<offset, bIsHalted, bIsRxHalted, bStopTx, intr, halted>>,
         ~Gone', state' \in [Irps -> {"free", "pending", "good", "failed"}],
         moved' \in [Irps -> Nat], actual' \in [Irps -> Nat], inPlace' \in [Irps -> BOOLEAN],
         moved'[i] = 0, inPlace'[i], actual'[i] <= dwLength[i], state'[i] = "pending",
         \A j \in Irps \ {i} : /\ moved'[j] = moved[j] /\ inPlace'[j] = inPlace[j]
                              /\ actual'[j] = actual[j] /\ state'[j] = state[j]
  PROVE  DInv'
<1> DEFINE d == Dir[i]
<1>1. d \in Sides /\ dwLength[i] \in Nat \ {0} /\ i # None /\ PacketSize \in Nat \ {0}
  BY Context
<1>2. /\ ~busy[d] /\ intr[d] = "none" /\ offset[d] = 0
  BY <1>1 DEF DInv, TurnInv
<1>3. /\ current' = [current EXCEPT ![d] = i] /\ busy' = [busy EXCEPT ![d] = TRUE]
      /\ d = "tx" => dwTxSize' = MinOf(PacketSize, n) /\ fifo' = 0 /\ UNCHANGED packet
      /\ d = "rx" => packet' = -1 /\ UNCHANGED <<dwTxSize, fifo>>
  BY <1>1 DEF StartIrp, StartTx, StartRx, Sides
<1>4. /\ current \in [Sides -> Irps \cup {None}]
      /\ \A e \in Sides : current[e] # None =>
           Dir[current[e]] = e /\ state[current[e]] = "pending"
  BY Context DEF IInv, ShapeInv
<1> HIDE DEF d
<1>5. /\ \A e \in Sides : current'[e] = IF e = d THEN i ELSE current[e]
      /\ \A e \in Sides : busy'[e] <=> e = d \/ busy[e]
  BY <1>3, <1>4 DEF DInv, NumbersInv
<1>6. CalmInv'
  BY DEF DInv, CalmInv
<1>7. NumbersInv'
  BY <1>1, <1>3, MaxLenFacts DEF DInv, NumbersInv, MinOf, Sides
<1>8. TurnInv'
  <2> SUFFICES ASSUME NEW e \in Sides
               PROVE  /\ current'[e] = None => ~busy'[e] /\ intr'[e] = "none" /\ offset'[e] = 0
                      /\ current'[e] # None => (busy'[e] <=> intr'[e] = "none")
    BY DEF TurnInv
  <2>1. CASE e = d
    BY <1>1, <1>2, <1>5, <2>1
  <2>2. CASE e # d
    BY <1>5, <2>2 DEF DInv, TurnInv
  <2> QED
    BY <2>1, <2>2
<1>9. SendingInv'
  <2>1. CASE d = "tx"
    BY <1>1, <1>2, <1>3, <1>5, <2>1 DEF SendingInv, MinOf, Sides
  <2>2. CASE d = "rx"
    BY <1>1, <1>3, <1>4, <1>5, <2>2 DEF DInv, SendingInv, Sides, d
  <2> QED
    BY <1>1, <2>1, <2>2 DEF Sides
<1>10. ReceivingInv'
  <2>1. CASE d = "tx"
    BY <1>1, <1>3, <1>4, <1>5, <2>1 DEF DInv, ReceivingInv, Sides, d
  <2>2. CASE d = "rx"
    BY <1>1, <1>2, <1>3, <1>5, <2>2 DEF ReceivingInv, Sides
  <2> QED
    BY <1>1, <2>1, <2>2 DEF Sides
<1>11. HistoryInv'
  <2> SUFFICES ASSUME NEW j \in Irps
               PROVE  /\ inPlace'[j] /\ moved'[j] <= dwLength[j] /\ actual'[j] <= dwLength[j]
                      /\ state'[j] = "pending" /\ current'[Dir[j]] # j => moved'[j] = 0
                      /\ state'[j] \in {"good", "failed"} => actual'[j] = moved'[j]
    BY DEF HistoryInv
  <2>1. CASE j = i
    BY <1>1, <2>1
  <2>2. CASE j # i
    <3>1. Dir[j] \in Sides
      BY Context
    <3>2. current[Dir[j]] = j => current'[Dir[j]] = j
      BY <1>5, <2>2, <3>1, Context DEF d
    <3> QED
      BY <2>2, <3>2 DEF DInv, HistoryInv
  <2> QED
    BY <2>1, <2>2
<1> QED
  BY <1>6, <1>7, <1>8, <1>9, <1>10, <1>11 DEF DInv
\* Bytes move from or to the current IRP of side d, in their place.
MovesOn(i, n) ==
  /\ moved' = [moved EXCEPT ![i] = moved[i] + n]
  /\ inPlace' = inPlace

LEMMA MovedFacts ==
  ASSUME NumbersInv, HistoryInv, NEW i \in Irps, NEW n \in Nat, NEW at, Moved(i, n, at),
         at = moved[i], at + n <= dwLength[i], dwLength[i] \in Nat
  PROVE  MovesOn(i, n)
<1>1. moved' = [moved EXCEPT ![i] = moved[i] + n]
  <2>1. MinOf(moved[i] + n, dwLength[i] + 1) = moved[i] + n
    BY DEF NumbersInv, MinOf
  <2> QED
    BY <2>1 DEF Moved
<1>2. inPlace' = [inPlace EXCEPT ![i] = inPlace[i] /\ (n = 0 \/ (at = moved[i] /\ at + n <= dwLength[i]))]
  BY DEF Moved
<1>3. inPlace \in [Irps -> BOOLEAN] /\ inPlace[i] = TRUE
  BY DEF NumbersInv, HistoryInv
<1>4. (inPlace[i] /\ (n = 0 \/ (at = moved[i] /\ at + n <= dwLength[i]))) = TRUE
  BY <1>3
<1>5. inPlace' = inPlace
  BY <1>2, <1>3, <1>4
<1> QED
  BY <1>1, <1>5 DEF MovesOn

LEMMA TxDoneKeeps ==
  ASSUME IInv, DInv, NEW outcome \in Outcomes, TxDone(outcome)
  PROVE  DInv'
<1> DEFINE i == current["tx"]
<1>1. /\ i \in Irps /\ i # None /\ intr["tx"] = "none" /\ busy["tx"]
      /\ Dir[i] = "tx" /\ dwLength[i] \in Nat \ {0} /\ state[i] = "pending"
  BY Context DEF TxDone, DInv, TurnInv, Sides
<1>2. /\ fifo = offset["tx"] /\ moved[i] = offset["tx"]
      /\ offset["tx"] + dwTxSize <= dwLength[i] /\ offset["tx"] \in Nat /\ dwTxSize \in Nat
  BY <1>1, Context DEF DInv, SendingInv, NumbersInv, Sides
<1>3. /\ busy' = [busy EXCEPT !["tx"] = FALSE] /\ intr' = [intr EXCEPT !["tx"] = outcome]
      /\ outcome = "ok" => Moved(i, dwTxSize, fifo)
      /\ outcome # "ok" => UNCHANGED <<moved, inPlace>>
      /\ UNCHANGED <<current, list, offset, flags, fifo, packet, items, state, actual, halted>>
  BY <1>1 DEF TxDone, endpoint, loop
<1>4. outcome = "ok" => MovesOn(i, dwTxSize)
  <2> HIDE DEF i
  <2> QED
    BY <1>1, <1>2, <1>3, MovedFacts DEF DInv
<1> HIDE DEF i
<1>5. /\ moved' \in [Irps -> Nat] /\ inPlace' = inPlace
      /\ moved'[i] = IF outcome = "ok" THEN offset["tx"] + dwTxSize ELSE offset["tx"]
      /\ \A j \in Irps \ {i} : moved'[j] = moved[j]
  BY <1>1, <1>2, <1>3, <1>4 DEF MovesOn, DInv, NumbersInv
<1>6. CalmInv' /\ NumbersInv'
  BY <1>3, <1>5 DEF DInv, CalmInv, NumbersInv, Gone, flags, Sides
<1>7. TurnInv'
  BY <1>1, <1>3 DEF DInv, TurnInv, NumbersInv, Outcomes, Sides, i
<1>8. SendingInv'
  BY <1>1, <1>2, <1>3, <1>5 DEF DInv, SendingInv, NumbersInv, flags, Sides, i
<1>9. ReceivingInv'
  BY <1>1, <1>3, <1>5, Context DEF DInv, ReceivingInv, NumbersInv, Sides
<1>10. HistoryInv'
  BY <1>1, <1>2, <1>3, <1>5 DEF DInv, HistoryInv, NumbersInv, i
<1> QED
  BY <1>6, <1>7, <1>8, <1>9, <1>10 DEF DInv

LEMMA RxDoneKeeps ==
  ASSUME IInv, DInv, NEW outcome \in Outcomes, NEW n \in 0 .. PacketSize, RxDone(outcome, n)
  PROVE  DInv'
<1>1. /\ busy["rx"] /\ busy' = [busy EXCEPT !["rx"] = FALSE]
      /\ intr' = [intr EXCEPT !["rx"] = outcome]
      /\ packet' = IF outcome = "ok" THEN n ELSE -1
      /\ UNCHANGED <<current, list, offset, flags, fifo, items, state, moved, inPlace, actual,
                     halted>>
  BY DEF RxDone, endpoint, loop, irp
<1>2. current["rx"] # None /\ PacketSize \in Nat \ {0}
  BY <1>1, Context DEF DInv, TurnInv, Sides
<1>3. CalmInv' /\ NumbersInv'
  BY <1>1, <1>2 DEF DInv, CalmInv, NumbersInv, Gone, flags, Sides
<1>4. TurnInv'
  BY <1>1, <1>2 DEF DInv, TurnInv, NumbersInv, Outcomes, Sides
<1>5. SendingInv' /\ HistoryInv'
  BY <1>1 DEF DInv, SendingInv, HistoryInv, NumbersInv, flags, Sides
<1>6. ReceivingInv'
  BY <1>1, <1>2 DEF DInv, ReceivingInv, NumbersInv, Sides
<1> QED
  BY <1>3, <1>4, <1>5, <1>6 DEF DInv

LEMMA TxNextKeeps ==
  ASSUME IInv, DInv, TxNext
  PROVE  DInv'
<1> DEFINE i == current["tx"]
           off == offset["tx"] + dwTxSize
<1>1. /\ i \in Irps /\ i # None /\ Dir[i] = "tx" /\ dwLength[i] \in Nat \ {0}
      /\ PacketSize \in Nat \ {0}
  BY Context DEF TxNext, Sides
<1>2. /\ intr["tx"] = "ok" /\ offset' = [offset EXCEPT !["tx"] = off] /\ fifo' = off
      /\ \/ off < dwLength[i] /\ dwTxSize' = MinOf(PacketSize, dwLength[i] - off)
         \/ off >= dwLength[i] /\ dwTxSize' = 0
      /\ busy' = [busy EXCEPT !["tx"] = TRUE] /\ intr' = [intr EXCEPT !["tx"] = "none"]
      /\ UNCHANGED <<current, list, bIsHalted, bIsRxHalted, bStopTx, packet, items, state, moved,
                     inPlace, actual, halted>>
  BY DEF TxNext, irp
<1>3. moved[i] = off /\ off <= dwLength[i] /\ off \in Nat
  BY <1>1, <1>2 DEF DInv, SendingInv, NumbersInv, Sides
<1> HIDE DEF i, off
<1>4. dwTxSize' \in 0 .. PacketSize /\ off + dwTxSize' <= dwLength[i]
  BY <1>1, <1>2, <1>3 DEF MinOf
<1>5. CalmInv' /\ NumbersInv'
  BY <1>1, <1>2, <1>3, <1>4, MaxLenFacts DEF DInv, CalmInv, NumbersInv, Gone, Sides
<1>6. TurnInv'
  BY <1>1, <1>2 DEF DInv, TurnInv, NumbersInv, Sides, i
<1>7. SendingInv'
  BY <1>1, <1>2, <1>3, <1>4 DEF DInv, SendingInv, NumbersInv, Sides, i
<1>8. ReceivingInv' /\ HistoryInv'
  BY <1>2 DEF DInv, ReceivingInv, HistoryInv, NumbersInv, Sides
<1> QED
  BY <1>5, <1>6, <1>7, <1>8 DEF DInv

\* MGC_CompleteIrp of the current IRP, all of whose data so far is in its place.
LEMMA EndingKeeps ==
  ASSUME IInv, DInv, NEW d \in Sides, NEW off \in Nat, NEW ended \in {"good", "failed"},
         current[d] # None, CompleteIrp(d, off, ended), off <= dwLength[current[d]],
         moved' = [moved EXCEPT ![current[d]] = off], inPlace' = inPlace,
         intr' = [intr EXCEPT ![d] = "none"], busy' = [busy EXCEPT ![d] = FALSE],
         packet' \in -1 .. PacketSize, d = "tx" => packet' = packet,
         UNCHANGED <<bIsHalted, bIsRxHalted, bStopTx, fifo, halted>>
  PROVE  DInv'
<1> DEFINE i == current[d]
<1>1. /\ i \in Irps /\ i # None /\ Dir[i] = d /\ dwLength[i] \in Nat \ {0}
      /\ PacketSize \in Nat \ {0} /\ None \notin Irps
  BY Context
<1>2. /\ current' = [current EXCEPT ![d] = None] /\ offset' = [offset EXCEPT ![d] = 0]
      /\ dwTxSize' = IF d = "tx" THEN 0 ELSE dwTxSize
      /\ items' = Append(items, i)
      /\ state' = [state EXCEPT ![i] = ended] /\ actual' = [actual EXCEPT ![i] = off]
  BY <1>1 DEF CompleteIrp
<1>3. /\ current \in [Sides -> Irps \cup {None}] /\ items \in Seq(Irps \cup {None})
      /\ state \in [Irps -> {"free", "pending", "good", "failed"}]
  BY DEF IInv, ShapeInv
<1>4. ~Gone'
  BY <1>1, <1>2, <1>3, AppendFacts DEF DInv, CalmInv, Gone
<1> HIDE DEF i
<1>5. CalmInv' /\ NumbersInv'
  BY <1>1, <1>2, <1>4 DEF DInv, CalmInv, NumbersInv, i
<1>6. TurnInv'
  BY <1>1, <1>2, <1>3 DEF DInv, TurnInv, NumbersInv
<1>7. SendingInv'
  <2>1. CASE d = "tx"
    BY <1>1, <1>2, <1>3, <2>1 DEF SendingInv
  <2>2. CASE d = "rx"
    BY <1>1, <1>2, <1>3, <2>2, Context DEF DInv, SendingInv, NumbersInv, Sides, i
  <2> QED
    BY <2>1, <2>2 DEF Sides
<1>8. ReceivingInv'
  <2>1. CASE d = "rx"
    BY <1>1, <1>2, <1>3, <2>1 DEF ReceivingInv
  <2>2. CASE d = "tx"
    BY <1>1, <1>2, <1>3, <2>2, Context DEF DInv, ReceivingInv, NumbersInv, Sides, i
  <2> QED
    BY <2>1, <2>2 DEF Sides
<1>9. HistoryInv'
  <2> SUFFICES ASSUME NEW j \in Irps
               PROVE  /\ inPlace'[j] /\ moved'[j] <= dwLength[j] /\ actual'[j] <= dwLength[j]
                      /\ state'[j] = "pending" /\ current'[Dir[j]] # j => moved'[j] = 0
                      /\ state'[j] \in {"good", "failed"} => actual'[j] = moved'[j]
    BY DEF HistoryInv
  <2>1. CASE j = i
    BY <1>1, <1>2, <1>3, <2>1 DEF DInv, HistoryInv, NumbersInv, i
  <2>2. CASE j # i
    <3>1. current[Dir[j]] = j => current'[Dir[j]] = j
      BY <1>1, <1>2, <1>3, <2>2, Context DEF i
    <3> QED
      BY <1>2, <1>3, <2>2, <3>1 DEF DInv, HistoryInv, NumbersInv, i
  <2> QED
    BY <2>1, <2>2
<1> QED
  BY <1>5, <1>6, <1>7, <1>8, <1>9 DEF DInv

LEMMA TxEndingKeeps ==
  ASSUME IInv, DInv, TxEnd \/ TxFail
  PROVE  DInv'
<1> DEFINE i == current["tx"]
           off == IF TxEnd THEN offset["tx"] + dwTxSize ELSE offset["tx"]
<1>1. /\ intr["tx"] # "none" /\ (intr["tx"] = "ok" <=> TxEnd)
      /\ intr' = [intr EXCEPT !["tx"] = "none"] /\ "tx" \in Sides
  BY DEF TxEnd, TxFail, Sides
<1>2. i \in Irps /\ i # None
  BY <1>1, Context DEF DInv, TurnInv
<1>3. moved[i] = off /\ off <= dwLength[i] /\ off \in Nat
  BY <1>1, <1>2, Context DEF DInv, SendingInv, NumbersInv
<1>4. ~busy["tx"] /\ busy \in [Sides -> BOOLEAN]
  BY <1>1, <1>2 DEF DInv, TurnInv, NumbersInv
<1>5. busy' = [busy EXCEPT !["tx"] = FALSE]
  <2>1. CASE TxEnd
    BY <1>4, <2>1 DEF TxEnd, Sides
  <2>2. CASE TxFail
    BY <2>2 DEF TxFail
  <2> QED
    BY <2>1, <2>2
<1>6. moved' = [moved EXCEPT ![i] = off] /\ inPlace' = inPlace
  BY <1>2, <1>3 DEF TxEnd, TxFail, DInv, NumbersInv
<1>7. packet' = packet /\ packet \in -1 .. PacketSize
  BY DEF TxEnd, TxFail, DInv, NumbersInv
<1>8. UNCHANGED <<bIsHalted, bIsRxHalted, bStopTx, fifo, halted>>
  BY DEF TxEnd, TxFail, DInv, CalmInv
<1>9. CompleteIrp("tx", off, "good") \/ CompleteIrp("tx", off, "failed")
  BY <1>1 DEF TxEnd, TxFail
<1> HIDE DEF off
<1> QED
  BY <1>1, <1>2, <1>3, <1>5, <1>6, <1>7, <1>8, <1>9, EndingKeeps

\* What is unloaded of a packet has room in the buffer.
LEMMA UnloadedFacts ==
  ASSUME IInv, DInv, NEW i \in Irps, current["rx"] = i, packet >= 0
  PROVE  /\ Unloaded(i) \in 0 .. packet /\ Unloaded(i) \in Nat
         /\ offset["rx"] + Unloaded(i) <= dwLength[i]
<1>1. /\ offset["rx"] <= dwLength[i] /\ offset["rx"] \in Nat /\ packet \in Nat
      /\ dwLength[i] \in Nat
  BY Context DEF DInv, ReceivingInv, NumbersInv, Sides
<1> QED
  BY <1>1 DEF Unloaded, MinOf

LEMMA RxNextKeeps ==
  ASSUME IInv, DInv, RxNext
  PROVE  DInv'
<1> DEFINE i == current["rx"]
           n == Unloaded(i)
<1>1. /\ i \in Irps /\ i # None /\ Dir[i] = "rx" /\ dwLength[i] \in Nat \ {0}
      /\ state[i] = "pending"
      /\ PacketSize \in Nat \ {0} /\ packet >= 0
  BY Context DEF RxNext, Sides
<1>2. n \in Nat /\ offset["rx"] + n <= dwLength[i]
  BY <1>1, UnloadedFacts
<1>3. moved[i] = offset["rx"] /\ offset["rx"] \in Nat
  BY <1>1 DEF DInv, ReceivingInv, NumbersInv, Sides
<1>4. /\ intr["rx"] = "ok" /\ offset' = [offset EXCEPT !["rx"] = offset["rx"] + n]
      /\ packet' = -1 /\ Moved(i, n, offset["rx"])
      /\ busy' = [busy EXCEPT !["rx"] = TRUE] /\ intr' = [intr EXCEPT !["rx"] = "none"]
      /\ UNCHANGED <<current, list, flags, fifo, items, state, actual, halted>>
  BY DEF RxNext
<1> HIDE DEF n
<1>5. MovesOn(i, n)
  <2> HIDE DEF i
  <2> QED
    BY <1>1, <1>2, <1>3, <1>4, MovedFacts DEF DInv
<1> HIDE DEF i
<1>6. /\ moved' \in [Irps -> Nat] /\ inPlace' = inPlace /\ moved'[i] = offset["rx"] + n
      /\ \A j \in Irps \ {i} : moved'[j] = moved[j]
  BY <1>1, <1>2, <1>3, <1>5 DEF MovesOn, DInv, NumbersInv
<1>7. CalmInv' /\ NumbersInv'
  BY <1>1, <1>2, <1>3, <1>4, <1>6 DEF DInv, CalmInv, NumbersInv, Gone, flags, Sides
<1>8. TurnInv'
  BY <1>1, <1>4 DEF DInv, TurnInv, NumbersInv, Sides, i
<1>9. SendingInv'
  BY <1>1, <1>4, <1>6, Context DEF DInv, SendingInv, NumbersInv, flags, Sides
<1>10. ReceivingInv'
  BY <1>1, <1>2, <1>3, <1>4, <1>6 DEF DInv, ReceivingInv, NumbersInv, Sides, i
<1>11. HistoryInv'
  BY <1>1, <1>2, <1>3, <1>4, <1>6 DEF DInv, HistoryInv, NumbersInv, i
<1> QED
  BY <1>7, <1>8, <1>9, <1>10, <1>11 DEF DInv

LEMMA RxEndingKeeps ==
  ASSUME IInv, DInv, RxEnd \/ RxFail
  PROVE  DInv'
<1> DEFINE i == current["rx"]
           n == IF RxEnd THEN Unloaded(i) ELSE 0
           off == offset["rx"] + n
<1>1. /\ intr["rx"] # "none" /\ intr' = [intr EXCEPT !["rx"] = "none"] /\ "rx" \in Sides
      /\ packet' = -1 /\ "rx" # "tx"
  BY DEF RxEnd, RxFail, Sides
<1>2. i \in Irps /\ i # None /\ PacketSize \in Nat \ {0} /\ dwLength[i] \in Nat
  BY <1>1, Context DEF DInv, TurnInv
<1>3. moved[i] = offset["rx"] /\ offset["rx"] \in Nat /\ offset["rx"] <= dwLength[i]
  BY <1>1, <1>2 DEF DInv, ReceivingInv, NumbersInv
<1>4. n \in Nat /\ off <= dwLength[i] /\ off \in Nat
  BY <1>2, <1>3, UnloadedFacts DEF RxEnd
<1>5. ~busy["rx"] /\ busy \in [Sides -> BOOLEAN]
  BY <1>1, <1>2 DEF DInv, TurnInv, NumbersInv
<1>6. busy' = [busy EXCEPT !["rx"] = FALSE]
  <2>1. CASE RxEnd
    BY <1>5, <2>1 DEF RxEnd, Sides
  <2>2. CASE RxFail
    BY <2>2 DEF RxFail
  <2> QED
    BY <2>1, <2>2
<1>7. moved' = [moved EXCEPT ![i] = off] /\ inPlace' = inPlace
  <2>1. CASE RxEnd
    <3>1. Moved(i, n, offset["rx"])
      BY <2>1 DEF RxEnd
    <3> HIDE DEF i, n
    <3>2. MovesOn(i, n)
      BY <1>2, <1>3, <1>4, <3>1, MovedFacts DEF DInv
    <3> QED
      BY <1>3, <3>2 DEF MovesOn
  <2>2. CASE ~RxEnd
    <3>1. off = moved[i]
      BY <1>3, <2>2
    <3> QED
      BY <1>2, <2>2, <3>1 DEF RxFail, DInv, NumbersInv
  <2> QED
    BY <2>1, <2>2
<1>8. UNCHANGED <<bIsHalted, bIsRxHalted, bStopTx, fifo, halted>>
  BY DEF RxEnd, RxFail
<1>9. CompleteIrp("rx", off, "good") \/ CompleteIrp("rx", off, "failed")
  <2>1. CASE RxEnd
    BY <2>1 DEF RxEnd
  <2>2. CASE ~RxEnd
    <3>1. off = offset["rx"]
      BY <1>3, <2>2
    <3> QED
      BY <2>2, <3>1 DEF RxFail
  <2> QED
    BY <2>1, <2>2
<1>10. packet' \in -1 .. PacketSize
  BY <1>1, <1>2
<1> HIDE DEF i, n, off
<1> QED
  BY <1>1, <1>2, <1>4, <1>6, <1>7, <1>8, <1>9, <1>10, EndingKeeps DEF i

\* MGC_StartNextIrp of a side at rest starts the first IRP that waits, if any.
LEMMA NextStarting ==
  ASSUME IInv, DInv, NEW d \in Sides, NEW l \in Seq(Irps), current[d] = None,
         StartNextIrp(d, l), l # <<>> => state[Head(l)] = "pending" /\ Dir[Head(l)] = d,
         UNCHANGED <<offset, bIsHalted, bIsRxHalted, bStopTx, intr, halted, irp>>, ~Gone'
  PROVE  DInv'
<1>1. CASE l = <<>>
  <2>1. UNCHANGED data /\ UNCHANGED state
    BY <1>1 DEF StartNextIrp, programmed, data, flags, hardware, irp
  <2> QED
    BY <2>1, DataStutters
<1>2. CASE l # <<>>
  <2> DEFINE i == Head(l)
  <2>1. i \in Irps /\ i # None /\ Dir[i] = d /\ state[i] = "pending"
    BY <1>2, Context
  <2>2. StartIrp(i, dwLength[i] - offset[d])
    BY <1>2, <2>1 DEF StartNextIrp
  <2>3. dwLength[i] - offset[d] = dwLength[i]
    BY <2>1, Context DEF DInv, TurnInv
  <2>4. /\ UNCHANGED <<state, moved, actual, inPlace>>
        /\ state \in [Irps -> {"free", "pending", "good", "failed"}]
        /\ moved \in [Irps -> Nat] /\ actual \in [Irps -> Nat] /\ inPlace \in [Irps -> BOOLEAN]
    BY DEF irp, IInv, ShapeInv, DInv, NumbersInv
  <2>5. moved[i] = 0 /\ inPlace[i] /\ actual[i] <= dwLength[i]
    BY <2>1 DEF DInv, HistoryInv
  <2>6. StartIrp(i, dwLength[i]) /\ current[Dir[i]] = None
    BY <2>1, <2>2, <2>3
  <2> HIDE DEF i
  <2>7. /\ state' \in [Irps -> {"free", "pending", "good", "failed"}]
        /\ moved' \in [Irps -> Nat] /\ actual' \in [Irps -> Nat]
        /\ inPlace' \in [Irps -> BOOLEAN]
        /\ moved'[i] = 0 /\ inPlace'[i] /\ actual'[i] <= dwLength[i] /\ state'[i] = "pending"
        /\ \A j \in Irps \ {i} : /\ moved'[j] = moved[j] /\ inPlace'[j] = inPlace[j]
                                 /\ actual'[j] = actual[j] /\ state'[j] = state[j]
    BY <2>1, <2>4, <2>5
  <2> QED
    BY <2>1, <2>6, <2>7, Starting
<1> QED
  BY <1>1, <1>2

LEMMA BsrKeepsData ==
  ASSUME IInv, DInv, BsrComplete \/ BsrNext
  PROVE  DInv'
<1>1. CASE BsrComplete
  <2>1. items \in Seq(Irps \cup {None}) /\ items # <<>> /\ Distinct(items)
        /\ items' = Tail(items) /\ state' = [state EXCEPT ![Head(items)] = "free"]
        /\ state \in [Irps -> {"free", "pending", "good", "failed"}]
        /\ Head(items) # None
    BY <1>1 DEF BsrComplete, IInv, ShapeInv, CompletedInv
  <2>2. Head(items) \in Irps /\ ~Gone'
    BY <2>1, TailFacts DEF DInv, CalmInv, Gone
  <2>3. UNCHANGED data
    BY <1>1 DEF BsrComplete, data, endpoint
  <2>4. \A j \in Irps : state'[j] = IF j = Head(items) THEN "free" ELSE state[j]
    BY <2>1, <2>2
  <2> QED
    BY <2>2, <2>3, <2>4, DataStutters
<1>2. CASE BsrNext
  <2> DEFINE d == Dir[handled]
  <2>1. handled \in Irps /\ d \in Sides
    BY <1>2, Context DEF BsrNext, IInv, ShapeInv, MainInv
  <2>2. /\ UNCHANGED <<offset, bIsHalted, bIsRxHalted, bStopTx, intr, halted, irp>>
        /\ ~Gone' /\ ~(IF d = "tx" THEN bStopTx ELSE bIsRxHalted)
    BY <1>2 DEF BsrNext, DInv, CalmInv, Gone
  <2>3. /\ list[d] \in Seq(Irps)
        /\ list[d] # <<>> => state[Head(list[d])] = "pending" /\ Dir[Head(list[d])] = d
    BY <2>1, TailFacts DEF IInv, ShapeInv, SideInv
  <2>4. CASE current[d] = None
    <3>1. StartNextIrp(d, list[d])
      BY <1>2, <2>2, <2>4 DEF BsrNext
    <3> HIDE DEF d
    <3> QED
      BY <2>1, <2>2, <2>3, <2>4, <3>1, NextStarting
  <2>5. CASE current[d] # None
    <3>1. UNCHANGED data /\ UNCHANGED state
      BY <1>2, <2>5 DEF BsrNext, programmed, data, flags, hardware, irp
    <3> QED
      BY <2>2, <3>1, DataStutters
  <2> QED
    BY <2>4, <2>5
<1> QED
  BY <1>1, <1>2

LEMMA StartKeepsData ==
  ASSUME IInv, DInv, NEW i \in Irps, StartNow(i) \/ StartLater(i)
  PROVE  DInv'
<1>1. /\ state' = [state EXCEPT ![i] = "pending"] /\ moved' = [moved EXCEPT ![i] = 0]
      /\ inPlace' = [inPlace EXCEPT ![i] = TRUE] /\ actual' = [actual EXCEPT ![i] = 0]
      /\ state[i] = "free" /\ items' = items /\ halted' = halted
  BY DEF StartNow, StartLater, Started, loop
<1>2. /\ state \in [Irps -> {"free", "pending", "good", "failed"}]
      /\ moved \in [Irps -> Nat] /\ actual \in [Irps -> Nat] /\ inPlace \in [Irps -> BOOLEAN]
      /\ bIsHalted = FALSE
  BY DEF IInv, ShapeInv, DInv, NumbersInv, CalmInv
<1>3. /\ state' \in [Irps -> {"free", "pending", "good", "failed"}]
      /\ moved' \in [Irps -> Nat] /\ actual' \in [Irps -> Nat] /\ inPlace' \in [Irps -> BOOLEAN]
      /\ moved'[i] = 0 /\ inPlace'[i] /\ actual'[i] <= dwLength[i] /\ state'[i] = "pending"
      /\ \A j \in Irps \ {i} : /\ moved'[j] = moved[j] /\ inPlace'[j] = inPlace[j]
                               /\ actual'[j] = actual[j] /\ state'[j] = state[j]
      /\ ~Gone'
  BY <1>1, <1>2, Context DEF DInv, CalmInv, Gone
<1>4. CASE StartNow(i)
  <2>1. /\ current[Dir[i]] = None /\ StartIrp(i, dwLength[i])
        /\ UNCHANGED <<offset, bIsHalted, bIsRxHalted, bStopTx, intr, halted>>
    BY <1>2, <1>4 DEF StartNow
  <2> QED
    BY <1>3, <2>1, Starting
<1>5. CASE StartLater(i)
  <2>1. UNCHANGED <<current, offset, flags, hardware>>
    BY <1>5 DEF StartLater, endpoint
  <2>2. \A d \in Sides : current[d] # i
    BY <1>1, Context
  <2>3. CalmInv' /\ NumbersInv' /\ TurnInv'
    BY <1>1, <1>3, <2>1 DEF DInv, CalmInv, NumbersInv, TurnInv, flags, hardware
  <2>4. SendingInv' /\ ReceivingInv'
    BY <1>3, <2>1, <2>2 DEF DInv, SendingInv, ReceivingInv, flags, hardware, Sides
  <2>5. HistoryInv'
    BY <1>3, <2>1, Context DEF DInv, HistoryInv
  <2> QED
    BY <2>3, <2>4, <2>5 DEF DInv
<1> QED
  BY <1>4, <1>5

LEMMA AppendKeepsData ==
  ASSUME IInv, DInv, AppendIrp \/ AppendFails
  PROVE  DInv'
<1> DEFINE i == starting
           d == Dir[i]
<1>1. /\ i \in Irps /\ d \in Sides /\ state[i] = "pending"
      /\ state \in [Irps -> {"free", "pending", "good", "failed"}]
  BY Context DEF AppendIrp, AppendFails, IInv, ShapeInv, MainInv
<1>2. ~Gone' /\ halted' = halted
  BY DEF AppendIrp, AppendFails, DInv, CalmInv, Gone
<1>3. CASE AppendIrp /\ current[d] = None /\ list[d] = <<>>
  <2>1. /\ StartNextIrp(d, <<i>>)
        /\ UNCHANGED <<offset, bIsHalted, bIsRxHalted, bStopTx, intr, halted, irp>>
    BY <1>3 DEF AppendIrp
  <2>2. <<i>> \in Seq(Irps) /\ Head(<<i>>) = i
    BY <1>1
  <2> HIDE DEF d, i
  <2>3. DInv'
    BY <1>1, <1>2, <1>3, <2>1, <2>2, NextStarting DEF d
  <2> QED
    BY <2>3
<1>4. CASE AppendIrp /\ ~(current[d] = None /\ list[d] = <<>>)
  <2>1. UNCHANGED data /\ UNCHANGED state
    BY <1>4 DEF AppendIrp, programmed, data, flags, hardware, irp
  <2> QED
    BY <1>2, <2>1, DataStutters
<1>5. CASE AppendFails
  <2>1. UNCHANGED data /\ state' = [state EXCEPT ![i] = "free"]
    BY <1>5 DEF AppendFails, data, endpoint
  <2> QED
    BY <1>1, <1>2, <2>1, DataStutters
<1> QED
  BY <1>3, <1>4, <1>5

\* What only other clients do, or only happens to them.
OtherNext ==
  \/ RxUnexpected \/ BsrDisconnect \/ Unplug \/ ResumeTx \/ ResumeRx
  \/ \E d \in Sides : Halt(d)
  \/ \E i \in Irps : CancelCurrent(i) \/ CancelWaiting(i)

LEMMA NoOther ==
  ASSUME Shipped, IInv, DInv
  PROVE  ~OtherNext
<1>1. ~RxUnexpected
  BY DEF RxUnexpected, DInv, TurnInv, Sides
<1>2. ASSUME BsrDisconnect
      PROVE  FALSE
  BY <1>2, TailFacts DEF BsrDisconnect, IInv, ShapeInv, CompletedInv, DInv, CalmInv, Gone
<1>3. /\ ~Unplug /\ ~ResumeTx /\ ~ResumeRx
      /\ \A d \in Sides : ~Halt(d)
      /\ \A i \in Irps : ~CancelCurrent(i) /\ ~CancelWaiting(i)
  BY DEF Shipped, Unplug, ResumeTx, ResumeRx, Halt, CancelCurrent, CancelWaiting
<1> QED
  BY <1>1, <1>2, <1>3 DEF OtherNext

\* Under Shipped no other action touches the data.
LEMMA DataStep ==
  ASSUME Shipped, IInv, DInv, [Next]_vars
  PROVE  DInv'
<1>1. CASE Bus
  BY <1>1, TxDoneKeeps, RxDoneKeeps DEF Bus
<1>2. CASE UNCHANGED vars \/ Poll \/ BsrEmpty \/ NoUsbCause \/ NoTxInterrupt \/ NoRxInterrupt
  <2>1. UNCHANGED <<data, state, items>>
    BY <1>2 DEF vars, Poll, BsrEmpty, NoUsbCause, NoTxInterrupt, NoRxInterrupt, data, endpoint,
                irp, loop
  <2> QED
    BY <2>1, DataStutters DEF DInv, CalmInv, Gone
<1>3. CASE TxNext \/ TxEnd \/ TxFail \/ RxNext \/ RxEnd \/ RxFail
  BY <1>3, TxNextKeeps, TxEndingKeeps, RxNextKeeps, RxEndingKeeps
<1>4. CASE BsrComplete \/ BsrNext \/ AppendIrp \/ AppendFails
  BY <1>4, BsrKeepsData, AppendKeepsData
<1>5. CASE \E i \in Irps : StartNow(i) \/ StartLater(i)
  BY <1>5, StartKeepsData
<1> QED
  BY <1>1, <1>2, <1>3, <1>4, <1>5, NoOther
     DEF OtherNext, Next, IsrUsb, IsrTx, IsrRx, MainLoop, Client

LEMMA DataInitial == Init => DInv
<1> SUFFICES ASSUME Init
             PROVE  DInv
  OBVIOUS
<1>1. PacketSize \in Nat \ {0} /\ None \notin Irps /\ dwLength \in [Irps -> Nat \ {0}]
  BY PipeAssumption DEF PipeAssumption
<1>2. CalmInv
  BY EmptyFacts DEF Init, CalmInv, Gone
<1>3. NumbersInv /\ TurnInv
  BY <1>1, MaxLenFacts DEF Init, NumbersInv, TurnInv, Outcomes
<1>4. SendingInv /\ ReceivingInv
  BY <1>1 DEF Init, SendingInv, ReceivingInv, Sides
<1>5. HistoryInv
  BY <1>1 DEF Init, HistoryInv
<1> QED
  BY <1>2, <1>3, <1>4, <1>5 DEF DInv

LEMMA Always == Spec => []IInv
<1>1. IInv /\ [Next]_vars => IInv'
  BY Step
<1> QED
  BY Initial, <1>1, PTL DEF Spec

LEMMA DataAlways == ASSUME Shipped PROVE Spec => []DInv
<1>1. IInv /\ DInv /\ [Next]_vars => DInv'
  BY DataStep
<1> QED
  BY Always, DataInitial, <1>1, PTL DEF Spec

\* Every byte of every IRP moves to or from its own place, and dwActualLength is what has
\* moved, for any IRPs, lengths, packet sizes, short packets, errors and interleavings of the
\* ISR with clients that start transfers (MGC_PipeTransmitReady, MGC_PipePacketReceived).
THEOREM DataKept == ASSUME Shipped PROVE Spec => []DataInPlace
<1>1. DInv => DataInPlace
  BY DEF DInv, HistoryInv, DataInPlace
<1> QED
  BY DataAlways, <1>1, PTL

-----------------------------------------------------------------------------
(* Types                                                                   *)

\* Every index, size, latch and list stays in its range, whatever the IRPs and the packets
\* (MGC_EndpointResource, mu_impl.h:245-302).
THEOREM TypeCorrect == ASSUME Shipped PROVE Spec => []TypeOK
<1>1. IInv /\ DInv => TypeOK
  <2> SUFFICES ASSUME IInv, DInv
               PROVE  TypeOK
    OBVIOUS
  <2>1. /\ MaxLen \in Nat
        /\ \A i \in Irps : dwLength[i] \in 0 .. MaxLen /\ dwLength[i] \in Nat
    BY MaxLenFacts
  <2>2. offset \in [Sides -> 0 .. MaxLen]
    <3>1. \A d \in Sides : offset[d] \in 0 .. MaxLen
      <4> SUFFICES ASSUME NEW d \in Sides
                   PROVE  offset[d] \in 0 .. MaxLen
        OBVIOUS
      <4>1. offset[d] \in Nat /\ dwTxSize \in Nat
        BY Context DEF DInv, NumbersInv
      <4>2. CASE current[d] = None
        BY <2>1, <4>2 DEF DInv, TurnInv
      <4>3. CASE current[d] # None
        <5>1. current[d] \in Irps
          BY <4>3, Context
        <5>2. offset[d] <= dwLength[current[d]]
          BY <2>1, <4>1, <5>1 DEF DInv, SendingInv, ReceivingInv, Sides
        <5> QED
          BY <2>1, <4>1, <5>1, <5>2
      <4> QED
        BY <4>2, <4>3
    <3> QED
      BY <3>1 DEF DInv, NumbersInv
  <2>3. moved \in [Irps -> 0 .. MaxLen] /\ actual \in [Irps -> 0 .. MaxLen]
    BY <2>1 DEF DInv, NumbersInv, HistoryInv
  <2>4. halted \in [Sides -> BOOLEAN]
    BY DEF DInv, CalmInv
  <2> QED
    BY <2>2, <2>3, <2>4
       DEF TypeOK, DInv, CalmInv, NumbersInv, IInv, ShapeInv, Places
<1> QED
  BY Always, DataAlways, <1>1, PTL

-----------------------------------------------------------------------------
(* The promise of PipeTransfers                                            *)

\* The current IRP is the one of its direction that is under way.
LEMMA CurrentAlone ==
  ASSUME IInv, DInv, NEW d \in Sides, current[d] # None
  PROVE  LET i == current[d]
         IN  /\ i \in Irps /\ Dir[i] = d /\ state[i] = "pending" /\ starting # i
             /\ Begun[i] = "pending" /\ Carried[i] = moved[i]
             /\ Transfers!Alone(i)
<1> DEFINE i == current[d]
<1>1. i \in Irps /\ Dir[i] = d /\ state[i] = "pending"
  BY Context
<1>2. starting # i
  BY <1>1 DEF IInv, SideInv
<1>3. Begun[i] = "pending" /\ Carried[i] = moved[i]
  BY <1>1, <1>2 DEF Begun, Carried
<1> HIDE DEF i
<1>4. ASSUME NEW j \in Irps \ {i}, Dir[j] = Dir[i], Begun[j] = "pending"
      PROVE  Carried[j] = 0
  <2>1. state[j] = "pending"
    BY <1>4 DEF Begun
  <2>2. moved[j] = 0
    BY <1>1, <1>4, <2>1 DEF DInv, HistoryInv, i
  <2> QED
    BY <1>4, <2>1, <2>2 DEF Carried
<1>5. Transfers!Alone(i)
  BY <1>4 DEF Transfers!Alone
<1> QED
  BY <1>1, <1>2, <1>3, <1>5 DEF i

\* Data of the current IRP moves, and ends it or not.
LEMMA Carries ==
  ASSUME IInv, DInv, NEW d \in Sides, current[d] # None, NEW n \in Nat,
         NEW ended \in {"pending", "good", "failed"},
         moved[current[d]] + n <= dwLength[current[d]],
         moved' = [moved EXCEPT ![current[d]] = moved[current[d]] + n],
         state' = [state EXCEPT ![current[d]] = ended], UNCHANGED starting,
         ended = "good" /\ d = "tx" => moved[current[d]] + n = dwLength[current[d]]
  PROVE  Transfers!Next
<1> DEFINE i == current[d]
<1>1. /\ i \in Irps /\ Dir[i] = d /\ state[i] = "pending" /\ starting # i
      /\ Begun[i] = "pending" /\ Carried[i] = moved[i] /\ Transfers!Alone(i)
  BY CurrentAlone
<1>2. /\ moved \in [Irps -> Nat] /\ moved[i] \in Nat /\ dwLength[i] \in Nat
      /\ state \in [Irps -> {"free", "pending", "good", "failed"}]
  BY <1>1, Context DEF DInv, NumbersInv, IInv, ShapeInv
<1> HIDE DEF i
<1>3. n \in 0 .. dwLength[i]
  BY <1>2 DEF i
<1>4. Begun' = [Begun EXCEPT ![i] = ended]
  BY <1>1, <1>2 DEF Begun, i
<1>5. Carried' = [Carried EXCEPT ![i] = Carried[i] + n] /\ Carried'[i] = Carried[i] + n
  BY <1>1, <1>2 DEF Carried, i
<1>6. Transfers!Move(i, n)
  BY <1>1, <1>5 DEF Transfers!Move, i
<1>7. CASE ended = "pending"
  <2>1. Begun' = Begun
    BY <1>1, <1>4, <1>7 DEF Begun
  <2>2. Transfers!Advance(i, n)
    BY <1>6, <2>1 DEF Transfers!Advance
  <2> QED
    BY <1>1, <1>3, <2>2 DEF Transfers!Next
<1>8. CASE ended = "good"
  <2>1. Transfers!End(i, n, TRUE)
    BY <1>1, <1>4, <1>5, <1>6, <1>8 DEF Transfers!End, i
  <2> QED
    BY <1>1, <1>3, <2>1 DEF Transfers!Next
<1>9. CASE ended = "failed"
  <2>1. Transfers!End(i, n, FALSE)
    BY <1>1, <1>4, <1>5, <1>6, <1>9 DEF Transfers!End
  <2> QED
    BY <1>1, <1>3, <2>1 DEF Transfers!Next
<1> QED
  BY <1>7, <1>8, <1>9

\* The steps in which nothing moves, starts or ends.
LEMMA NothingCarried ==
  ASSUME UNCHANGED <<state, moved, starting>>
  PROVE  UNCHANGED Transfers!vars
  BY DEF Transfers!vars, Begun, Carried

LEMMA PacketCarried ==
  ASSUME IInv, DInv, TxNext \/ RxNext \/ \E outcome \in Outcomes :
           TxDone(outcome) \/ \E n \in 0 .. PacketSize : RxDone(outcome, n)
  PROVE  Transfers!Next \/ UNCHANGED Transfers!vars
<1>1. CASE TxNext \/ \E outcome \in Outcomes, n \in 0 .. PacketSize : RxDone(outcome, n)
  <2>1. UNCHANGED <<state, moved, starting>>
    BY <1>1 DEF TxNext, RxDone, irp, loop
  <2> QED
    BY <2>1, NothingCarried
<1>2. CASE RxNext
  <2> DEFINE i == current["rx"]
             n == Unloaded(i)
  <2>1. /\ i \in Irps /\ i # None /\ dwLength[i] \in Nat /\ packet >= 0 /\ state[i] = "pending"
    BY <1>2, Context DEF RxNext, Sides
  <2>2. /\ n \in Nat /\ offset["rx"] + n <= dwLength[i] /\ moved[i] = offset["rx"]
    BY <2>1, UnloadedFacts DEF DInv, ReceivingInv
  <2>3. Moved(i, n, offset["rx"]) /\ UNCHANGED <<state, starting>>
    BY <1>2 DEF RxNext
  <2> HIDE DEF n
  <2>4. moved' = [moved EXCEPT ![i] = moved[i] + n]
    <3> HIDE DEF i
    <3> QED
      BY <2>1, <2>2, <2>3, MovedFacts DEF DInv, MovesOn
  <2>5. state' = [state EXCEPT ![i] = "pending"]
    BY <2>1, <2>3 DEF IInv, ShapeInv
  <2> QED
    BY <2>1, <2>2, <2>3, <2>4, <2>5, Carries DEF Sides
<1>3. ASSUME NEW outcome \in Outcomes, TxDone(outcome)
      PROVE  Transfers!Next \/ UNCHANGED Transfers!vars
  <2> DEFINE i == current["tx"]
  <2>1. i \in Irps /\ i # None /\ dwLength[i] \in Nat /\ state[i] = "pending"
    BY <1>3, Context DEF TxDone, DInv, TurnInv, Sides
  <2>2. /\ fifo = offset["tx"] /\ moved[i] = offset["tx"] /\ dwTxSize \in Nat
        /\ offset["tx"] + dwTxSize <= dwLength[i]
    BY <1>3, <2>1 DEF TxDone, DInv, SendingInv, TurnInv, NumbersInv, Sides
  <2>3. UNCHANGED <<state, starting>>
    BY <1>3 DEF TxDone, loop
  <2>4. CASE outcome = "ok"
    <3>1. Moved(i, dwTxSize, fifo)
      BY <1>3, <2>1, <2>4 DEF TxDone
    <3>2. moved' = [moved EXCEPT ![i] = moved[i] + dwTxSize]
      <4> HIDE DEF i
      <4> QED
        BY <2>1, <2>2, <3>1, MovedFacts DEF DInv, MovesOn
    <3>3. state' = [state EXCEPT ![i] = "pending"]
      BY <2>1, <2>3 DEF IInv, ShapeInv
    <3> QED
      BY <2>1, <2>2, <2>3, <3>2, <3>3, Carries DEF Sides
  <2>5. CASE outcome # "ok"
    <3>1. UNCHANGED <<state, moved, starting>>
      BY <1>3, <2>3, <2>5 DEF TxDone
    <3> QED
      BY <3>1, NothingCarried
  <2> QED
    BY <2>4, <2>5
<1> QED
  BY <1>1, <1>2, <1>3

LEMMA EndCarried ==
  ASSUME IInv, DInv, TxEnd \/ TxFail \/ RxEnd \/ RxFail
  PROVE  Transfers!Next
<1>1. CASE TxEnd \/ TxFail
  <2> DEFINE i == current["tx"]
             ended == IF TxEnd THEN "good" ELSE "failed"
  <2>1. /\ intr["tx"] # "none" /\ (intr["tx"] = "ok" <=> TxEnd) /\ "tx" \in Sides
        /\ UNCHANGED <<moved, starting>>
    BY <1>1 DEF TxEnd, TxFail, Sides
  <2>2. i \in Irps /\ i # None /\ dwLength[i] \in Nat
    BY <2>1, Context DEF DInv, TurnInv
  <2>3. moved[i] \in Nat /\ moved[i] <= dwLength[i]
    BY <2>2 DEF DInv, NumbersInv, HistoryInv
  <2>4. TxEnd => moved[i] = dwLength[i]
    <3> SUFFICES ASSUME TxEnd
                 PROVE  moved[i] = dwLength[i]
      OBVIOUS
    <3>1. offset["tx"] + dwTxSize >= dwLength[i]
      BY <2>2 DEF TxEnd
    <3>2. moved[i] = offset["tx"] + dwTxSize
      BY <2>1, <2>2 DEF DInv, SendingInv
    <3> QED
      BY <2>2, <2>3, <3>1, <3>2
  <2>5. state' = [state EXCEPT ![i] = ended]
    BY <1>1, <2>1, <2>2 DEF TxEnd, TxFail, CompleteIrp
  <2>6. moved' = [moved EXCEPT ![i] = moved[i] + 0] /\ moved[i] + 0 = moved[i] /\ 0 \in Nat
    BY <2>1, <2>3 DEF DInv, NumbersInv
  <2>7. ended \in {"pending", "good", "failed"} /\ (ended = "good" => TxEnd)
    OBVIOUS
  <2> HIDE DEF ended
  <2> QED
    BY <2>1, <2>2, <2>3, <2>4, <2>5, <2>6, <2>7, Carries
<1>2. CASE RxEnd \/ RxFail
  <2> DEFINE i == current["rx"]
             n == IF RxEnd THEN Unloaded(i) ELSE 0
             ended == IF RxEnd THEN "good" ELSE "failed"
  <2>1. intr["rx"] # "none" /\ "rx" \in Sides /\ UNCHANGED starting /\ "rx" # "tx"
    BY <1>2 DEF RxEnd, RxFail, Sides
  <2>2. i \in Irps /\ i # None /\ dwLength[i] \in Nat
    BY <2>1, Context DEF DInv, TurnInv
  <2>3. moved[i] = offset["rx"] /\ moved[i] \in Nat /\ moved[i] <= dwLength[i]
    BY <2>1, <2>2 DEF DInv, ReceivingInv, NumbersInv, HistoryInv
  <2>4. n \in Nat /\ moved[i] + n <= dwLength[i]
    BY <2>2, <2>3, UnloadedFacts DEF RxEnd
  <2>5. state' = [state EXCEPT ![i] = ended]
    BY <1>2, <2>2 DEF RxEnd, RxFail, CompleteIrp
  <2>6. moved' = [moved EXCEPT ![i] = moved[i] + n]
    <3>1. CASE RxEnd
      <4>1. Moved(i, n, offset["rx"])
        BY <3>1 DEF RxEnd
      <4> HIDE DEF i, n
      <4> QED
        BY <2>2, <2>3, <2>4, <4>1, MovedFacts DEF DInv, MovesOn
    <3>2. CASE ~RxEnd
      <4>1. moved' = moved /\ moved[i] + n = moved[i]
        BY <1>2, <2>3, <3>2 DEF RxFail
      <4> QED
        BY <4>1 DEF DInv, NumbersInv
    <3> QED
      BY <3>1, <3>2
  <2>7. ended \in {"pending", "good", "failed"}
    OBVIOUS
  <2> HIDE DEF ended, n
  <2> QED
    BY <2>1, <2>2, <2>4, <2>5, <2>6, <2>7, Carries
<1> QED
  BY <1>1, <1>2

LEMMA StartCarried ==
  ASSUME IInv, DInv, NEW i \in Irps, StartNow(i) \/ StartLater(i)
  PROVE  Transfers!Next \/ UNCHANGED Transfers!vars
<1>1. /\ state' = [state EXCEPT ![i] = "pending"] /\ moved' = [moved EXCEPT ![i] = 0]
      /\ state[i] = "free" /\ main \in {"client", "callback"}
  BY DEF StartNow, StartLater, Started, InClient
<1>2. starting = None /\ None \notin Irps
  BY <1>1, Context DEF IInv, ShapeInv, MainInv
<1>3. /\ state \in [Irps -> {"free", "pending", "good", "failed"}] /\ moved \in [Irps -> Nat]
  BY DEF IInv, ShapeInv, DInv, NumbersInv
<1>4. Carried' = Carried
  BY <1>1, <1>3 DEF Carried
<1>5. CASE StartNow(i)
  <2>1. starting' = None
    BY <1>2, <1>5 DEF StartNow, loop
  <2>2. Begun' = [Begun EXCEPT ![i] = "pending"] /\ Begun[i] = "free"
    BY <1>1, <1>2, <1>3, <2>1 DEF Begun
  <2> QED
    BY <1>4, <2>2 DEF Transfers!Next, Transfers!Start
<1>6. CASE StartLater(i)
  <2>1. starting' = i
    BY <1>6 DEF StartLater
  <2>2. Begun' = Begun
    BY <1>1, <1>2, <1>3, <2>1 DEF Begun
  <2> QED
    BY <1>4, <2>2 DEF Transfers!vars
<1> QED
  BY <1>5, <1>6

LEMMA LoopCarried ==
  ASSUME IInv, DInv, AppendIrp \/ AppendFails \/ BsrComplete \/ BsrNext
  PROVE  Transfers!Next \/ UNCHANGED Transfers!vars
<1>0. /\ state \in [Irps -> {"free", "pending", "good", "failed"}] /\ moved \in [Irps -> Nat]
      /\ None \notin Irps
  BY Context DEF IInv, ShapeInv, DInv, NumbersInv
<1>1. CASE AppendIrp
  <2>1. /\ starting \in Irps /\ state[starting] = "pending" /\ starting' = None
        /\ UNCHANGED <<state, moved>>
    BY <1>1, Context DEF AppendIrp, IInv, ShapeInv, MainInv, irp
  <2>2. Begun' = [Begun EXCEPT ![starting] = "pending"] /\ Begun[starting] = "free"
    BY <1>0, <2>1 DEF Begun
  <2>3. Carried' = Carried
    BY <2>1 DEF Carried
  <2> QED
    BY <2>1, <2>2, <2>3 DEF Transfers!Next, Transfers!Start
<1>2. CASE AppendFails
  <2>1. /\ starting \in Irps /\ state[starting] = "pending" /\ starting' = None
        /\ UNCHANGED moved /\ state' = [state EXCEPT ![starting] = "free"]
    BY <1>2, Context DEF AppendFails, IInv, ShapeInv, MainInv
  <2>2. moved[starting] = 0
    <3>1. current[Dir[starting]] # starting
      BY <2>1, Context DEF IInv, SideInv
    <3> QED
      BY <2>1, <3>1 DEF DInv, HistoryInv
  <2>3. Begun' = Begun /\ Carried' = Carried
    BY <1>0, <2>1, <2>2 DEF Begun, Carried
  <2> QED
    BY <2>3 DEF Transfers!vars
<1>3. CASE BsrComplete
  <2> DEFINE i == Head(items)
  <2>1. /\ items # <<>> /\ i # None /\ state' = [state EXCEPT ![i] = "free"]
        /\ UNCHANGED <<moved, starting>> /\ starting = None
    BY <1>3, <1>0 DEF BsrComplete, IInv, ShapeInv, MainInv
  <2>2. i \in Irps /\ Contains(items, i)
    BY <2>1, TailFacts DEF IInv, ShapeInv, CompletedInv
  <2>3. state[i] \in {"good", "failed"}
    BY <2>2 DEF IInv, CompletedInv
  <2> HIDE DEF i
  <2>4. Begun' = [Begun EXCEPT ![i] = "free"] /\ Begun[i] \in {"good", "failed"}
    BY <1>0, <2>1, <2>2, <2>3 DEF Begun
  <2>5. Carried' = [Carried EXCEPT ![i] = 0]
    BY <1>0, <2>1, <2>2 DEF Carried
  <2> QED
    BY <2>2, <2>4, <2>5 DEF Transfers!Next, Transfers!CallBack
<1>4. CASE BsrNext
  <2>1. UNCHANGED <<state, moved, starting>>
    BY <1>4 DEF BsrNext, irp
  <2> QED
    BY <2>1, NothingCarried
<1> QED
  BY <1>1, <1>2, <1>3, <1>4

LEMMA StepCarried ==
  ASSUME Shipped, IInv, DInv, [Next]_vars
  PROVE  Transfers!Next \/ UNCHANGED Transfers!vars
<1>1. CASE Bus \/ TxNext \/ RxNext
  BY <1>1, PacketCarried DEF Bus
<1>2. CASE UNCHANGED vars \/ Poll \/ BsrEmpty \/ NoUsbCause \/ NoTxInterrupt \/ NoRxInterrupt
  <2>1. UNCHANGED <<state, moved, starting>>
    BY <1>2 DEF vars, Poll, BsrEmpty, NoUsbCause, NoTxInterrupt, NoRxInterrupt, irp, loop
  <2> QED
    BY <2>1, NothingCarried
<1>3. CASE TxEnd \/ TxFail \/ RxEnd \/ RxFail
  BY <1>3, EndCarried
<1>4. CASE BsrComplete \/ BsrNext \/ AppendIrp \/ AppendFails
  BY <1>4, LoopCarried
<1>5. CASE \E i \in Irps : StartNow(i) \/ StartLater(i)
  BY <1>5, StartCarried
<1> QED
  BY <1>1, <1>2, <1>3, <1>4, <1>5, NoOther
     DEF OtherNext, Next, IsrUsb, IsrTx, IsrRx, MainLoop, Client

\* The pipes keep their promise to the class drivers (mu_cdi.h, MUSB_Irp and
\* MUSB_StartTransfer): each step of packets, ISR, BSR and callbacks starts, advances, ends or
\* calls back one transfer as PipeTransfers allows, or is none of its business.
THEOREM TransfersKept == ASSUME Shipped PROVE Spec => ImplementsTransfers
<1>1. Init => Transfers!Init
  BY DEF Init, Transfers!Init, Begun, Carried
<1>2. IInv /\ DInv /\ [Next]_vars => [Transfers!Next]_(Transfers!vars)
  BY StepCarried
<1> QED
  BY Always, DataAlways, <1>1, <1>2, PTL DEF Spec, Transfers!Spec, ImplementsTransfers

-----------------------------------------------------------------------------
(* Turns                                                                   *)

\* The endpoint, but for what side d has: nothing to show for the other side.
Elsewhere(d) ==
  \A e \in Sides \ {d} : /\ current'[e] = current[e] /\ list'[e] = list[e]
                         /\ busy'[e] = busy[e] /\ intr'[e] = intr[e]

LEMMA TurnsStutter ==
  ASSUME TurnsInv, UNCHANGED <<current, list, busy, intr, flags, items, handled>>,
         handled # None => main' = main /\ back' = back
  PROVE  TurnsInv'
  BY DEF TurnsInv, NeverHalted, LatchInv, HandledInv, Active, Awaited, flags

\* A packet moves, or fails.
LEMMA BusTurns ==
  ASSUME TurnsInv, Bus
  PROVE  TurnsInv'
<1>1. PICK d \in Sides, outcome \in Outcomes :
        /\ busy' = [busy EXCEPT ![d] = FALSE] /\ intr' = [intr EXCEPT ![d] = outcome]
        /\ UNCHANGED <<endpoint, loop>>
  BY DEF Bus, TxDone, RxDone, Sides
<1>2. UNCHANGED <<current, list, flags, items, main, back, handled>>
  BY <1>1 DEF endpoint, loop
<1>3. LatchInv' /\ NeverHalted' /\ HandledInv'
  BY <1>1, <1>2 DEF TurnsInv, NeverHalted, LatchInv, HandledInv, flags
<1>4. outcome # "none"
  BY DEF Outcomes
<1>5. ASSUME NEW e \in Sides
      PROVE  Active(e)' /\ Awaited(e)'
  <2>1. Active(e) /\ Awaited(e)
    BY DEF TurnsInv
  <2>2. Active(e)'
    BY <1>1, <1>2, <1>4, <2>1 DEF Active, TurnsInv, LatchInv
  <2> QED
    BY <1>2, <2>1, <2>2 DEF Awaited
<1> QED
  BY <1>3, <1>5 DEF TurnsInv

\* MGC_CompleteIrp: those that wait have the callback to wait for.
LEMMA EndTurns ==
  ASSUME IInv, TurnsInv, NEW d \in Sides, NEW off, NEW ended, CompleteIrp(d, off, ended),
         UNCHANGED <<list, bIsRxHalted, bStopTx, handled, back>>, bIsHalted' = FALSE,
         handled # None => main' = main,
         busy' = busy \/ busy' = [busy EXCEPT ![d] = FALSE],
         intr' = [intr EXCEPT ![d] = "none"]
  PROVE  TurnsInv'
<1>1. LatchInv' /\ NeverHalted' /\ HandledInv'
  BY DEF TurnsInv, NeverHalted, LatchInv, HandledInv
<1>2. /\ current \in [Sides -> Irps \cup {None}] /\ items \in Seq(Irps \cup {None})
      /\ current[d] # None => current[d] \in Irps /\ Dir[current[d]] = d
  BY DEF IInv, ShapeInv, SideInv
<1>3. /\ \A e \in Sides : current'[e] = IF e = d THEN None ELSE current[e]
      /\ items' = IF current[d] = None THEN items ELSE Append(items, current[d])
  BY <1>2 DEF CompleteIrp
<1>4. \A y : Contains(items', y) <=> Contains(items, y) \/ (current[d] # None /\ y = current[d])
  BY <1>2, <1>3, AppendFacts
<1>5. ASSUME NEW e \in Sides
      PROVE  Active(e)' /\ Awaited(e)'
  <2>1. Active(e) /\ Awaited(e) /\ LatchInv
    BY DEF TurnsInv
  <2>2. Active(e)'
    BY <1>3, <2>1 DEF Active, LatchInv
  <2>3. Awaited(e)'
    BY <1>2, <1>3, <1>4, <2>1 DEF Awaited
  <2> QED
    BY <2>2, <2>3
<1> QED
  BY <1>1, <1>5 DEF TurnsInv

LEMMA IsrTurns ==
  ASSUME IInv, TurnsInv, TxNext \/ TxEnd \/ TxFail \/ RxNext \/ RxEnd \/ RxFail \/ RxUnexpected
  PROVE  TurnsInv'
<1> USE DEF Sides
<1>1. handled # None => ~(main \in {"usb", "tx", "rx", "bsr"})
  BY DEF TurnsInv, HandledInv
<1>2. ASSUME NEW p \in {"tx", "rx"}, NEW q, IsrAt(p, q)
      PROVE  handled # None => main' = main
  BY <1>1, <1>2 DEF IsrAt
<1>3. CASE TxEnd \/ TxFail
  <2>1. PICK off, ended : CompleteIrp("tx", off, ended)
    BY <1>3 DEF TxEnd, TxFail
  <2>2. handled # None => main' = main
    BY <1>2, <1>3 DEF TxEnd, TxFail
  <2>3. bIsHalted' = FALSE
    BY <1>3 DEF TxEnd, TxFail, TurnsInv, NeverHalted
  <2>4. /\ UNCHANGED <<list, bIsRxHalted, bStopTx, handled, back>>
        /\ busy' = busy \/ busy' = [busy EXCEPT !["tx"] = FALSE]
        /\ intr' = [intr EXCEPT !["tx"] = "none"]
    BY <1>3 DEF TxEnd, TxFail
  <2> QED
    BY <2>1, <2>2, <2>3, <2>4, EndTurns
<1>4. CASE RxEnd \/ RxFail
  <2>1. PICK off, ended : CompleteIrp("rx", off, ended)
    BY <1>4 DEF RxEnd, RxFail
  <2>2. handled # None => main' = main
    BY <1>2, <1>4 DEF RxEnd, RxFail
  <2>3. bIsHalted' = FALSE
    BY <1>4 DEF RxEnd, RxFail, TurnsInv, NeverHalted
  <2>4. /\ UNCHANGED <<list, bIsRxHalted, bStopTx, handled, back>>
        /\ busy' = busy \/ busy' = [busy EXCEPT !["rx"] = FALSE]
        /\ intr' = [intr EXCEPT !["rx"] = "none"]
    BY <1>4 DEF RxEnd, RxFail
  <2> QED
    BY <2>1, <2>2, <2>3, <2>4, EndTurns
<1>5. CASE TxNext \/ RxNext \/ RxUnexpected
  <2>1. PICK d \in Sides : /\ busy' = [busy EXCEPT ![d] = TRUE] \/ (UNCHANGED busy /\ current[d] = None)
                           /\ intr' = [intr EXCEPT ![d] = "none"]
    BY <1>5 DEF TxNext, RxNext, RxUnexpected
  <2>2. /\ UNCHANGED <<current, list, items, handled, back, bIsHalted, bIsRxHalted, bStopTx>>
        /\ handled # None => main' = main
    BY <1>2, <1>5 DEF TxNext, RxNext, RxUnexpected, endpoint, flags
  <2>3. LatchInv' /\ NeverHalted' /\ HandledInv'
    BY <2>1, <2>2 DEF TurnsInv, NeverHalted, LatchInv, HandledInv
  <2>4. ASSUME NEW e \in Sides
        PROVE  Active(e)' /\ Awaited(e)'
    <3>1. Active(e) /\ Awaited(e) /\ LatchInv
      BY DEF TurnsInv
    <3>2. Active(e)'
      BY <2>1, <2>2, <3>1 DEF Active, LatchInv
    <3> QED
      BY <2>2, <3>1, <3>2 DEF Awaited
  <2> QED
    BY <2>3, <2>4 DEF TurnsInv
<1> QED
  BY <1>3, <1>4, <1>5

\* The device is removed, and the BSR tells of it.
LEMMA UnplugTurns ==
  ASSUME IInv, TurnsInv, Unplug \/ BsrDisconnect
  PROVE  TurnsInv'
<1>1. CASE Unplug
  <2>1. main' = main \/ (main = "usb" /\ main' = "tx")
    BY <1>1 DEF Unplug, IsrAt
  <2>2. LatchInv' /\ NeverHalted' /\ HandledInv'
    BY <1>1, <2>1 DEF Unplug, Flushed, FlushInterrupt, TurnsInv, NeverHalted, LatchInv, HandledInv,
                      Outcomes
  <2> QED
    BY <1>1, <2>2 DEF Unplug, TurnsInv, Active, Awaited
<1>2. CASE BsrDisconnect
  <2>1. \A d \in Sides : current[d] = None /\ list[d] = <<>>
    BY <1>2, TailFacts DEF BsrDisconnect, IInv, ShapeInv, CompletedInv, HeldInv, Gone
  <2>2. UNCHANGED <<current, list, busy, intr, flags, main, back, handled>>
    BY <1>2 DEF BsrDisconnect, endpoint, hardware
  <2> QED
    BY <2>1, <2>2 DEF TurnsInv, NeverHalted, LatchInv, HandledInv, Active, Awaited, flags
<1> QED
  BY <1>1, <1>2

LEMMA BsrCompleteTurns ==
  ASSUME IInv, TurnsInv, BsrComplete
  PROVE  TurnsInv'
<1>1. /\ handled = None /\ main = "bsr" /\ main' = "callback" /\ handled' = Head(items)
      /\ items' = Tail(items) /\ items # <<>>
      /\ UNCHANGED <<current, list, busy, intr, flags>>
  BY DEF BsrComplete, TurnsInv, HandledInv, endpoint, hardware
<1>2. \A y : Contains(items, y) => y = handled' \/ Contains(items', y)
  BY <1>1, TailFacts DEF IInv, ShapeInv, CompletedInv
<1>3. LatchInv' /\ NeverHalted' /\ HandledInv'
  BY <1>1 DEF TurnsInv, NeverHalted, LatchInv, HandledInv, flags
<1>4. ASSUME NEW e \in Sides
      PROVE  Active(e)' /\ Awaited(e)'
  BY <1>1, <1>2, PipeAssumption DEF TurnsInv, Active, Awaited, PipeAssumption
<1> QED
  BY <1>3, <1>4 DEF TurnsInv

\* A side whose next IRP is looked for has one under way, or none at all.
Served(d) ==
  /\ current'[d] # None => busy'[d] \/ intr'[d] # "none"
  /\ list'[d] # <<>> => current'[d] # None

LEMMA ServedTurns ==
  ASSUME TurnsInv, NEW d \in Sides, Served(d), Elsewhere(d), LatchInv',
         UNCHANGED <<bIsHalted, bIsRxHalted, bStopTx, items>>, HandledInv',
         \A i \in Irps : Dir[i] # d /\ handled = i => handled' = i
  PROVE  TurnsInv'
<1>1. NeverHalted'
  BY DEF TurnsInv, NeverHalted
<1>2. ASSUME NEW e \in Sides
      PROVE  Active(e)' /\ Awaited(e)'
  <2>1. CASE e = d
    BY <2>1 DEF Served, Active, Awaited
  <2>2. CASE e # d
    BY <2>2 DEF Elsewhere, TurnsInv, Active, Awaited
  <2> QED
    BY <2>1, <2>2
<1> QED
  BY <1>1, <1>2 DEF TurnsInv

\* MGC_MhdrcStartTx, MGC_MhdrcStartRx.
LEMMA StartServes ==
  ASSUME IInv, LatchInv, NEW i \in Irps, NEW n, StartIrp(i, n)
  PROVE  /\ busy' \in [Sides -> BOOLEAN] /\ current'[Dir[i]] # None /\ busy'[Dir[i]]
         /\ \A e \in Sides \ {Dir[i]} : current'[e] = current[e] /\ busy'[e] = busy[e]
<1>1. Dir[i] \in Sides /\ i # None
  BY Context
<1>2. current' = [current EXCEPT ![Dir[i]] = i] /\ busy' = [busy EXCEPT ![Dir[i]] = TRUE]
  BY <1>1 DEF StartIrp, StartTx, StartRx, Sides
<1> QED
  BY <1>1, <1>2 DEF IInv, ShapeInv, LatchInv

\* MGC_StartNextIrp.
LEMMA NextServes ==
  ASSUME IInv, TurnsInv, NEW d \in Sides, NEW l \in Seq(Irps), StartNextIrp(d, l),
         UNCHANGED intr, \A i \in Irps : Contains(l, i) => Dir[i] = d
  PROVE  Served(d) /\ Elsewhere(d) /\ LatchInv'
<1>1. /\ list \in [Sides -> Seq(Irps)] /\ current \in [Sides -> Irps \cup {None}] /\ LatchInv
      /\ current[d] # None => current[d] \in Irps /\ Dir[current[d]] = d
      /\ None \notin Irps
  BY Context DEF IInv, ShapeInv, TurnsInv
<1>2. ASSUME NEW i \in Irps, NEW n, Dir[i] = d, StartIrp(i, n),
             NEW r, list' = [list EXCEPT ![d] = r]
      PROVE  Served(d) /\ Elsewhere(d) /\ LatchInv'
  BY <1>1, <1>2, StartServes DEF Served, Elsewhere, LatchInv
<1>3. CASE current[d] # None
  BY <1>1, <1>2, <1>3 DEF StartNextIrp
<1>4. CASE current[d] = None /\ l # <<>>
  <2>1. Head(l) \in Irps /\ Contains(l, Head(l))
    BY <1>4 DEF Contains
  <2> QED
    BY <1>1, <1>2, <1>4, <2>1 DEF StartNextIrp
<1>5. CASE current[d] = None /\ l = <<>>
  <2>1. UNCHANGED <<current, busy, intr>> /\ list' = [list EXCEPT ![d] = l]
    BY <1>5 DEF StartNextIrp, programmed
  <2> QED
    BY <1>1, <1>5, <2>1 DEF Served, Elsewhere, LatchInv
<1> QED
  BY <1>3, <1>4, <1>5

\* The callback has returned.
LEMMA BsrNextTurns ==
  ASSUME IInv, TurnsInv, BsrNext
  PROVE  TurnsInv'
<1> DEFINE d == Dir[handled]
<1>1. handled \in Irps /\ d \in Sides
  BY Context DEF BsrNext, IInv, ShapeInv, MainInv
<1>2. /\ handled' = None /\ UNCHANGED <<bIsHalted, bIsRxHalted, bStopTx, items, intr>>
      /\ \A i \in Irps : Dir[i] # d /\ handled = i => handled' = i
      /\ HandledInv'
  BY DEF BsrNext, HandledInv
<1>3. CASE current[d] = None
  <2>1. StartNextIrp(d, list[d])
    BY <1>1, <1>3 DEF BsrNext, TurnsInv, NeverHalted
  <2>2. list[d] \in Seq(Irps) /\ \A i \in Irps : Contains(list[d], i) => Dir[i] = d
    BY <1>1 DEF IInv, ShapeInv, SideInv
  <2> HIDE DEF d
  <2> QED
    BY <1>1, <1>2, <2>1, <2>2, NextServes, ServedTurns
<1>4. CASE current[d] # None
  <2>1. UNCHANGED <<current, busy, list>>
    BY <1>4 DEF BsrNext, programmed
  <2>2. Served(d) /\ Elsewhere(d) /\ LatchInv'
    BY <1>1, <1>2, <1>4, <2>1 DEF Served, Elsewhere, TurnsInv, LatchInv, Active
  <2> HIDE DEF d
  <2> QED
    BY <1>1, <1>2, <2>2, ServedTurns
<1> QED
  BY <1>3, <1>4

\* MUSB_StartTransfer.
LEMMA StartTurns ==
  ASSUME IInv, TurnsInv, NEW i \in Irps, StartNow(i) \/ StartLater(i)
  PROVE  TurnsInv'
<1>1. CASE StartNow(i)
  <2>1. /\ StartIrp(i, dwLength[i]) /\ Dir[i] \in Sides
        /\ UNCHANGED <<list, intr, bIsHalted, bIsRxHalted, bStopTx, items, main, back, handled>>
    BY <1>1, Context DEF StartNow, TurnsInv, NeverHalted, loop
  <2>2. Served(Dir[i]) /\ Elsewhere(Dir[i]) /\ LatchInv' /\ HandledInv'
    BY <2>1, StartServes DEF Served, Elsewhere, TurnsInv, LatchInv, HandledInv
  <2> QED
    BY <2>1, <2>2, ServedTurns
<1>2. CASE StartLater(i)
  <2>1. UNCHANGED <<current, list, busy, intr, flags, items, handled>>
    BY <1>2 DEF StartLater, endpoint, hardware
  <2>2. HandledInv'
    BY <1>2 DEF StartLater, InClient, TurnsInv, HandledInv
  <2> QED
    BY <2>1, <2>2 DEF TurnsInv, NeverHalted, LatchInv, Active, Awaited, flags
<1> QED
  BY <1>1, <1>2

LEMMA AppendTurns ==
  ASSUME IInv, TurnsInv, AppendIrp \/ AppendFails
  PROVE  TurnsInv'
<1> DEFINE d == Dir[starting]
<1>1. starting \in Irps /\ d \in Sides
  BY Context DEF AppendIrp, AppendFails, IInv, ShapeInv, MainInv
<1>2. /\ UNCHANGED <<bIsHalted, bIsRxHalted, bStopTx, items, intr, handled>>
      /\ HandledInv'
  BY DEF AppendIrp, AppendFails, endpoint, flags, hardware, TurnsInv, HandledInv
<1>3. CASE AppendFails
  <2>1. UNCHANGED <<current, list, busy, intr, flags, items, handled>>
    BY <1>3 DEF AppendFails, endpoint, hardware
  <2> QED
    BY <1>2, <2>1 DEF TurnsInv, NeverHalted, LatchInv, Active, Awaited, flags
<1>4. CASE AppendIrp /\ current[d] = None /\ list[d] = <<>>
  <2>1. StartNextIrp(d, <<starting>>)
    BY <1>4 DEF AppendIrp
  <2>2. <<starting>> \in Seq(Irps) /\ \A j \in Irps : Contains(<<starting>>, j) => Dir[j] = d
    BY <1>1, EmptyFacts
  <2> HIDE DEF d
  <2> QED
    BY <1>1, <1>2, <2>1, <2>2, NextServes, ServedTurns
<1>5. CASE AppendIrp /\ ~(current[d] = None /\ list[d] = <<>>)
  <2>1. /\ UNCHANGED <<current, busy>>
        /\ \A e \in Sides \ {d} : list'[e] = list[e]
    BY <1>5 DEF AppendIrp, programmed, IInv, ShapeInv
  <2>2. LatchInv' /\ NeverHalted'
    BY <1>2, <2>1 DEF TurnsInv, LatchInv, NeverHalted
  <2> HIDE DEF d
  <2>3. ASSUME NEW e \in Sides
        PROVE  Active(e)' /\ Awaited(e)'
    BY <1>2, <1>5, <2>1 DEF TurnsInv, Active, Awaited
  <2> QED
    BY <1>2, <2>2, <2>3 DEF TurnsInv
<1> QED
  BY <1>3, <1>4, <1>5

\* MUSB_CancelTransfer.
LEMMA CancelTurns ==
  ASSUME IInv, TurnsInv, NEW i \in Irps, CancelCurrent(i) \/ CancelWaiting(i)
  PROVE  TurnsInv'
<1> DEFINE d == Dir[i]
<1>1. /\ d \in Sides /\ list \in [Sides -> Seq(Irps)] /\ Distinct(list[d])
      /\ current \in [Sides -> Irps \cup {None}] /\ LatchInv
      /\ \A j \in Irps : Contains(list[d], j) => Dir[j] = d
  BY Context DEF IInv, ShapeInv, SideInv, TurnsInv
<1>2. /\ UNCHANGED <<bIsHalted, bIsRxHalted, bStopTx, items, main, back, handled>>
      /\ HandledInv'
  BY DEF CancelCurrent, CancelWaiting, loop, TurnsInv, HandledInv
<1>3. CASE CancelWaiting(i)
  <2>1. /\ StartNextIrp(d, Without(list[d], i)) /\ UNCHANGED intr
        /\ Without(list[d], i) \in Seq(Irps)
        /\ \A j \in Irps : Contains(Without(list[d], i), j) => Dir[j] = d
    BY <1>1, <1>3, WithoutFacts DEF CancelWaiting
  <2> HIDE DEF d
  <2> QED
    BY <1>1, <1>2, <2>1, NextServes, ServedTurns
<1>4. CASE CancelCurrent(i)
  <2>1. intr' \in [Sides -> Outcomes \cup {"none"}] /\ \A e \in Sides \ {d} : intr'[e] = intr[e]
    BY <1>1, <1>4 DEF CancelCurrent, FlushInterrupt, LatchInv, Outcomes, Sides
  <2>2. CASE list[d] = <<>>
    <3>1. /\ current' = [current EXCEPT ![d] = None] /\ UNCHANGED list
          /\ busy' = [e \in Sides |-> busy[e] /\ e \notin {d}]
      BY <1>4, <2>2 DEF CancelCurrent, Flushed
    <3> HIDE DEF d
    <3>2. Served(d) /\ Elsewhere(d) /\ LatchInv'
      BY <1>1, <2>1, <2>2, <3>1 DEF Served, Elsewhere, LatchInv
    <3> QED
      BY <1>1, <1>2, <3>2, ServedTurns
  <2>3. CASE list[d] # <<>>
    <3> DEFINE h == Head(list[d])
    <3>1. h \in Irps /\ Contains(list[d], h)
      BY <1>1, <2>3, TailFacts
    <3>2. list' = [list EXCEPT ![d] = Tail(@)] /\ StartIrp(h, dwLength[h] - offset[d])
      BY <1>4, <2>3 DEF CancelCurrent
    <3> HIDE DEF d, h
    <3>3. Dir[h] = d
      BY <1>1, <3>1
    <3>4. Served(d) /\ Elsewhere(d) /\ LatchInv'
      BY <1>1, <2>1, <3>1, <3>2, <3>3, StartServes DEF Served, Elsewhere, LatchInv
    <3> QED
      BY <1>1, <1>2, <3>4, ServedTurns
  <2> QED
    BY <2>2, <2>3
<1> QED
  BY <1>3, <1>4

LEMMA TurnsStep ==
  ASSUME "halt" \notin Uses, IInv, TurnsInv, [Next]_vars
  PROVE  TurnsInv'
<1>1. CASE UNCHANGED vars \/ Poll \/ BsrEmpty \/ NoUsbCause \/ NoTxInterrupt \/ NoRxInterrupt
  <2>1. UNCHANGED <<current, list, busy, intr, flags, items, handled, back>>
    BY <1>1 DEF vars, Poll, BsrEmpty, NoUsbCause, NoTxInterrupt, NoRxInterrupt, endpoint,
                hardware, loop
  <2>2. handled # None => main' = main
    BY <1>1 DEF vars, Poll, BsrEmpty, NoUsbCause, NoTxInterrupt, NoRxInterrupt, IsrAt, loop,
                TurnsInv, HandledInv
  <2> QED
    BY <2>1, <2>2, TurnsStutter
<1>2. ~ResumeTx /\ ~ResumeRx /\ \A d \in Sides : ~Halt(d)
  BY DEF ResumeTx, ResumeRx, Halt
<1> QED
  BY <1>1, <1>2, BusTurns, IsrTurns, UnplugTurns, BsrCompleteTurns, BsrNextTurns, StartTurns,
     AppendTurns, CancelTurns
     DEF Next, IsrUsb, IsrTx, IsrRx, MainLoop, Client

\* MGC_StartNextIrp after every callback, and MUSB_StartTransfer that looks at the list again,
\* suffice: without halts, whatever clients start, cancel or unplug in whatever order, no IRP
\* is left on a side where nothing will start it.
THEOREM NoneLeft == ASSUME "halt" \notin Uses PROVE Spec => []NoneStranded
<1>1. Init => TurnsInv
  <2> SUFFICES ASSUME Init
               PROVE  TurnsInv
    OBVIOUS
  <2> QED
    BY DEF Init, TurnsInv, NeverHalted, LatchInv, HandledInv, Active, Awaited, Outcomes
<1>2. IInv /\ TurnsInv /\ [Next]_vars => TurnsInv'
  BY TurnsStep
<1>3. TurnsInv => NoneStranded
  <2> SUFFICES ASSUME TurnsInv, main = "client", items = <<>>, NEW d \in Sides,
                      current[d] # None \/ list[d] # <<>>
               PROVE  busy[d] \/ intr[d] # "none"
    BY DEF NoneStranded
  <2>1. Active(d) /\ Awaited(d) /\ handled = None
    BY DEF TurnsInv, HandledInv
  <2>2. \A i \in Irps : ~Contains(items, i) /\ handled # i
    BY <2>1, EmptyFacts, PipeAssumption DEF PipeAssumption
  <2> QED
    BY <2>1, <2>2 DEF Active, Awaited
<1> QED
  BY Always, <1>1, <1>2, <1>3, PTL DEF Spec
=============================================================================
