-------------------------------- MODULE Pipe --------------------------------
(***************************************************************************)
(* cd/mu_pip.c with the endpoint service of cd/mu_hdr.c, the register      *)
(* programming of cd/mu_mdr.c and the completion part of MGC_DrcBsr: bulk  *)
(* IRPs in host role on one local endpoint, which has a Tx and an Rx side. *)
(*                                                                         *)
(* The main loop polls: client code, then the ISR (USB causes, then Tx,    *)
(* then Rx), then the BSR until its queue is empty.  With Preempt the ISR  *)
(* runs between any two steps of the main loop instead, as it does under   *)
(* MGC_NoneControllerIsr.                                                  *)
(*                                                                         *)
(* Completions are background ones (bIsrCallback FALSE, as in every IRP of *)
(* the drivers); a packet is what one register programming moves.          *)
(***************************************************************************)
EXTENDS Integers, Sequences, FiniteSets, SequencesExt, FiniteSetsExt

CONSTANTS
  Irps,             \* the IRPs of the clients
  Dir,              \* per IRP: "tx" or "rx" (MGC_PIPEFLAGS_TRANSMIT)
  dwLength,         \* per IRP
  PacketSize,       \* wPacketSize, wRxPacketSize
  AllowShort,       \* the IRPs with bAllowShortTransfer
  Uses,             \* what clients do besides starting transfers, see below
  Preempt,          \* TRUE: the ISR preempts the main loop; FALSE: it is polled
  None              \* NULL

\* "chain": start transfers from callbacks; "cancel": MUSB_CancelTransfer;
\* "halt": MUSB_SetPipeHalt; "unplug": the device is removed.
AllUses == {"chain", "cancel", "halt", "unplug"}

ASSUME PipeAssumption ==
  /\ Dir \in [Irps -> {"tx", "rx"}]
  /\ dwLength \in [Irps -> Nat \ {0}]
  /\ PacketSize \in Nat \ {0}
  /\ AllowShort \subseteq Irps
  /\ Uses \subseteq AllUses
  /\ Preempt \in BOOLEAN
  /\ Preempt => Uses \subseteq {"chain"}
  /\ None \notin Irps

\* IRPs are records in memory.
ASSUME IrpsAssumption == IsFiniteSet(Irps) /\ Irps # {}

VARIABLES
  current,          \* per side: pTxIrp, pRxIrp
  list,             \* per side: TxIrpList, RxIrpList
  offset,           \* per side: dwTxOffset, dwRxOffset
  dwTxSize, bIsHalted, bIsRxHalted, bStopTx,
  busy,             \* hardware, per side: TXPKTRDY, REQPKT
  intr,             \* hardware, per side: the latched interrupt and its error bits
  fifo,             \* hardware: where in pBuffer the packet in the Tx FIFO comes from
  packet,           \* hardware: bytes of the packet in the Rx FIFO, or -1
  items,            \* the background queue: IRPs completed, or None for a disconnect
  main,             \* where the main loop is
  starting,         \* MUSB_StartTransfer's IRP while it waits to be appended
  back,             \* where main returns to from there
  handled,          \* the IRP whose completion the BSR handles
  state, moved,     \* history per IRP: see PipeTransfers
  inPlace,          \* history per IRP: each byte moved to or from its own place
  actual,           \* per IRP: dwActualLength
  halted            \* history, per side: what the client asked for last

flags == <<dwTxSize, bIsHalted, bIsRxHalted, bStopTx>>
hardware == <<busy, intr, fifo, packet>>
endpoint == <<current, list, offset, flags>>
loop == <<items, main, starting, back, handled>>
irp == <<state, moved, inPlace, actual>>
vars == <<endpoint, hardware, loop, irp, halted>>

Sides == {"tx", "rx"}
Outcomes == {"ok", "stalled", "error"}
Places == {"client", "usb", "tx", "rx", "bsr", "callback", "append"}
MaxLen == Max({dwLength[i] : i \in Irps})
MinOf(a, b) == IF a < b THEN a ELSE b

-----------------------------------------------------------------------------
Init ==
  /\ current = [d \in Sides |-> None]
  /\ list = [d \in Sides |-> <<>>]
  /\ offset = [d \in Sides |-> 0]
  /\ dwTxSize = 0
  /\ bIsHalted = FALSE
  /\ bIsRxHalted = FALSE
  /\ bStopTx = FALSE
  /\ busy = [d \in Sides |-> FALSE]
  /\ intr = [d \in Sides |-> "none"]
  /\ fifo = 0
  /\ packet = -1
  /\ items = <<>>
  /\ main = "client"
  /\ starting = None
  /\ back = "client"
  /\ handled = None
  /\ state = [i \in Irps |-> "free"]
  /\ moved = [i \in Irps |-> 0]
  /\ inPlace = [i \in Irps |-> TRUE]
  /\ actual = [i \in Irps |-> 0]
  /\ halted = [d \in Sides |-> FALSE]

-----------------------------------------------------------------------------
(* Programming the controller.                                             *)

\* MGC_MhdrcStartTx: load a packet from place at; n bytes are left, a 32-bit
\* number that has wrapped when it is negative here.
StartTx(i, at, n) ==
  /\ dwTxSize' = IF n < 0 THEN PacketSize ELSE MinOf(PacketSize, n)
  /\ fifo' = at
  /\ busy' = [busy EXCEPT !["tx"] = TRUE]
  /\ current' = [current EXCEPT !["tx"] = i]
  /\ UNCHANGED packet

\* MGC_MhdrcStartRx: request a packet; one already received is dropped.
StartRx(i) ==
  /\ packet' = -1
  /\ busy' = [busy EXCEPT !["rx"] = TRUE]
  /\ current' = [current EXCEPT !["rx"] = i]
  /\ UNCHANGED <<dwTxSize, fifo>>

\* What StartTx, StartRx and the operators below them write.
programmed == <<current, dwTxSize, busy, fifo, packet>>

StartIrp(i, n) == IF Dir[i] = "tx" THEN StartTx(i, 0, n) ELSE StartRx(i)

\* MUSB_ListRemoveItem; an item that is not there is left to RemoveFaults of Lists.
Without(l, i) ==
  IF Contains(l, i) THEN RemoveAt(l, CHOOSE n \in 1 .. Len(l) : l[n] = i) ELSE l

\* MGC_StartNextIrp(pEnd, d): the current IRP, or else the head of list l, is
\* programmed from the start of its buffer.
StartNextIrp(d, l) ==
  LET next == IF current[d] # None THEN current[d]
              ELSE IF l # <<>> THEN Head(l) ELSE None
  IN IF next = None
       THEN UNCHANGED programmed /\ list' = [list EXCEPT ![d] = l]
       ELSE /\ list' = [list EXCEPT ![d] = Without(l, next)]
            /\ StartIrp(next, dwLength[next] - offset[d])

\* Mutation of CompleteIrp: the offset is not reset.
CompleteIrpOffsetKept(d, off, ended) ==
  /\ current' = [current EXCEPT ![d] = None]
  /\ offset' = [offset EXCEPT ![d] = off]
  /\ IF current[d] = None
       THEN UNCHANGED <<dwTxSize, items, state, actual>>
       ELSE /\ dwTxSize' = IF d = "tx" THEN 0 ELSE dwTxSize
            /\ items' = Append(items, current[d])
            /\ state' = [state EXCEPT ![current[d]] = ended]
            /\ actual' = [actual EXCEPT ![current[d]] = off]

\* MGC_CompleteIrp for side d, whose offset is off by then.
CompleteIrp(d, off, ended) ==
  /\ current' = [current EXCEPT ![d] = None]
  /\ IF current[d] = None
       THEN /\ offset' = [offset EXCEPT ![d] = off]
            /\ UNCHANGED <<dwTxSize, items, state, actual>>
       ELSE /\ offset' = [offset EXCEPT ![d] = 0]
            /\ dwTxSize' = IF d = "tx" THEN 0 ELSE dwTxSize
            /\ items' = Append(items, current[d])
            /\ state' = [state EXCEPT ![current[d]] = ended]
            /\ actual' = [actual EXCEPT ![current[d]] = off]

\* MGC_HdrcFlushEndpoint; flushing a loaded Tx FIFO may raise an interrupt.
Flushed(sides) ==
  /\ busy' = [d \in Sides |-> busy[d] /\ d \notin sides]
  /\ packet' = IF "rx" \in sides THEN -1 ELSE packet
  /\ UNCHANGED fifo
FlushInterrupt(sides) ==
  \/ UNCHANGED intr
  \/ "tx" \in sides /\ busy["tx"] /\ intr' = [intr EXCEPT !["tx"] = "ok"]

-----------------------------------------------------------------------------
(* The bus: a programmed packet moves, or fails, and an interrupt latches. *)

\* The history of IRP i once n bytes have moved to or from place at.  How far
\* beyond its length it has gone does not matter.
Moved(i, n, at) ==
  /\ moved' = [moved EXCEPT ![i] = MinOf(@ + n, dwLength[i] + 1)]
  /\ inPlace' = [inPlace EXCEPT ![i] = @ /\ (n = 0 \/ (at = moved[i] /\ at + n <= dwLength[i]))]

TxDone(outcome) ==
  /\ busy["tx"]
  /\ busy' = [busy EXCEPT !["tx"] = FALSE]
  /\ intr' = [intr EXCEPT !["tx"] = outcome]
  /\ IF outcome = "ok" /\ current["tx"] # None
       THEN Moved(current["tx"], dwTxSize, fifo)
       ELSE UNCHANGED <<moved, inPlace>>
  /\ UNCHANGED <<endpoint, fifo, packet, loop, state, actual, halted>>

RxDone(outcome, n) ==
  /\ busy["rx"]
  /\ busy' = [busy EXCEPT !["rx"] = FALSE]
  /\ intr' = [intr EXCEPT !["rx"] = outcome]
  /\ packet' = IF outcome = "ok" THEN n ELSE -1
  /\ UNCHANGED <<endpoint, fifo, loop, irp, halted>>

-----------------------------------------------------------------------------
(* The ISR.                                                                *)

\* The ISR reaches a part of its work: in its turn, or at any time.
IsrAt(place, next) ==
  IF Preempt THEN UNCHANGED main ELSE main = place /\ main' = next

\* The polling loop calls the ISR when the client code is done.
Poll ==
  /\ main = "client"
  /\ main' = IF Preempt THEN "bsr" ELSE "usb"
  /\ UNCHANGED <<endpoint, hardware, items, starting, back, handled, irp, halted>>

\* The USB causes of no concern here; Tx or Rx without an interrupt.
NoUsbCause ==
  /\ ~Preempt /\ IsrAt("usb", "tx")
  /\ UNCHANGED <<endpoint, hardware, items, starting, back, handled, irp, halted>>
NoTxInterrupt ==
  /\ ~Preempt /\ IsrAt("tx", "rx") /\ intr["tx"] = "none"
  /\ UNCHANGED <<endpoint, hardware, items, starting, back, handled, irp, halted>>
NoRxInterrupt ==
  /\ ~Preempt /\ IsrAt("rx", "bsr") /\ intr["rx"] = "none"
  /\ UNCHANGED <<endpoint, hardware, items, starting, back, handled, irp, halted>>

\* DISCONNECT: MGC_DrcFlushAll drops every IRP.  The offsets, dwTxSize and
\* bStopTx stay as they are.  A bound keeps an offset that piles up finite.
Unplug ==
  /\ "unplug" \in Uses
  /\ \A d \in Sides : offset[d] <= MaxLen
  /\ IsrAt("usb", "tx")
  /\ current' = [d \in Sides |-> None]
  /\ list' = [d \in Sides |-> <<>>]
  /\ bIsHalted' = FALSE
  /\ bIsRxHalted' = FALSE
  /\ Flushed(Sides)
  /\ FlushInterrupt(Sides)
  /\ items' = Append(items, None)
  /\ UNCHANGED <<offset, dwTxSize, bStopTx, starting, back, handled, irp, halted>>

\* A packet went out: MGC_HdrcServiceTransmitAvail, MGC_PipeTransmitReady.
TxNext ==
  /\ intr["tx"] = "ok"
  /\ IsrAt("tx", "rx")
  /\ current["tx"] # None
  /\ LET i == current["tx"]
         off == offset["tx"] + dwTxSize
     IN /\ offset' = [offset EXCEPT !["tx"] = off]
        /\ \/ /\ off < dwLength[i]
              /\ fifo' = off
              /\ dwTxSize' = MinOf(PacketSize, dwLength[i] - off)
           \/ /\ off >= dwLength[i]
              /\ i \in AllowShort /\ dwTxSize % PacketSize = 0
              /\ fifo' = off
              /\ dwTxSize' = 0
  /\ busy' = [busy EXCEPT !["tx"] = TRUE]
  /\ intr' = [intr EXCEPT !["tx"] = "none"]
  /\ UNCHANGED <<current, list, bIsHalted, bIsRxHalted, bStopTx, packet, items,
                 starting, back, handled, irp, halted>>

\* Mutation of TxEnd: done when less than a packet is left.
TxEndEarly ==
  /\ intr["tx"] = "ok"
  /\ IsrAt("tx", "rx")
  /\ LET off == offset["tx"] + dwTxSize
     IN /\ current["tx"] # None =>
             /\ off + PacketSize > dwLength[current["tx"]]
             /\ ~(current["tx"] \in AllowShort /\ dwTxSize % PacketSize = 0)
        /\ CompleteIrp("tx", off, "good")
  /\ bIsHalted' = (bIsHalted \/ bStopTx)
  /\ intr' = [intr EXCEPT !["tx"] = "none"]
  /\ UNCHANGED <<list, bIsRxHalted, bStopTx, busy, fifo, packet, starting, back,
                 handled, moved, inPlace, halted>>

\* The last packet went out, or there is no IRP.
TxEnd ==
  /\ intr["tx"] = "ok"
  /\ IsrAt("tx", "rx")
  /\ LET off == offset["tx"] + dwTxSize
     IN /\ current["tx"] # None =>
             /\ off >= dwLength[current["tx"]]
             /\ ~(current["tx"] \in AllowShort /\ dwTxSize % PacketSize = 0)
        /\ CompleteIrp("tx", off, "good")
  /\ bIsHalted' = (bIsHalted \/ bStopTx)
  /\ intr' = [intr EXCEPT !["tx"] = "none"]
  /\ UNCHANGED <<list, bIsRxHalted, bStopTx, busy, fifo, packet, starting, back,
                 handled, moved, inPlace, halted>>

\* STALL, or no answer: the FIFO is flushed and the IRP ends.
TxFail ==
  /\ intr["tx"] \in {"stalled", "error"}
  /\ IsrAt("tx", "rx")
  /\ CompleteIrp("tx", offset["tx"], "failed")
  /\ bIsHalted' = (bIsHalted \/ bStopTx)
  /\ busy' = [busy EXCEPT !["tx"] = FALSE]
  /\ intr' = [intr EXCEPT !["tx"] = "none"]
  /\ UNCHANGED <<list, bIsRxHalted, bStopTx, fifo, packet, starting, back,
                 handled, moved, inPlace, halted>>

\* MGC_PipePacketReceived: how much of the packet is unloaded, and whether
\* that completes IRP i.
Unloaded(i) ==
  IF packet + offset["rx"] >= dwLength[i] /\ offset["rx"] <= dwLength[i]
    THEN MinOf(packet, dwLength[i] - offset["rx"]) ELSE packet
Completes(i) ==
  IF packet + offset["rx"] >= dwLength[i]
    THEN ~(i \in AllowShort /\ packet % PacketSize = 0)
    ELSE packet < PacketSize

\* Mutation of RxNext: the offset stays behind.
RxNextInPlace ==
  /\ intr["rx"] = "ok" /\ packet >= 0
  /\ IsrAt("rx", "bsr")
  /\ current["rx"] # None
  /\ ~Completes(current["rx"])
  /\ Moved(current["rx"], Unloaded(current["rx"]), offset["rx"])
  /\ packet' = -1
  /\ busy' = [busy EXCEPT !["rx"] = TRUE]
  /\ intr' = [intr EXCEPT !["rx"] = "none"]
  /\ UNCHANGED <<endpoint, fifo, items, starting, back, handled, state, actual,
                 halted>>

\* A packet came in and more is to come: unload it, request the next.
RxNext ==
  /\ intr["rx"] = "ok" /\ packet >= 0
  /\ IsrAt("rx", "bsr")
  /\ current["rx"] # None
  /\ ~Completes(current["rx"])
  /\ Moved(current["rx"], Unloaded(current["rx"]), offset["rx"])
  /\ offset' = [offset EXCEPT !["rx"] = @ + Unloaded(current["rx"])]
  /\ packet' = -1
  /\ busy' = [busy EXCEPT !["rx"] = TRUE]
  /\ intr' = [intr EXCEPT !["rx"] = "none"]
  /\ UNCHANGED <<current, list, flags, fifo, items, starting, back, handled,
                 state, actual, halted>>

RxEnd ==
  /\ intr["rx"] = "ok" /\ packet >= 0
  /\ IsrAt("rx", "bsr")
  /\ current["rx"] # None
  /\ Completes(current["rx"])
  /\ Moved(current["rx"], Unloaded(current["rx"]), offset["rx"])
  /\ CompleteIrp("rx", offset["rx"] + Unloaded(current["rx"]), "good")
  /\ packet' = -1
  /\ intr' = [intr EXCEPT !["rx"] = "none"]
  /\ UNCHANGED <<list, bIsHalted, bIsRxHalted, bStopTx, busy, fifo, starting,
                 back, handled, halted>>

\* STALL, error, or an interrupt without a packet (an internal error).
RxFail ==
  /\ intr["rx"] \in {"stalled", "error"} \/ (intr["rx"] = "ok" /\ packet < 0)
  /\ IsrAt("rx", "bsr")
  /\ CompleteIrp("rx", offset["rx"], "failed")
  /\ packet' = -1
  /\ busy' = [busy EXCEPT !["rx"] = FALSE]
  /\ intr' = [intr EXCEPT !["rx"] = "none"]
  /\ UNCHANGED <<list, bIsHalted, bIsRxHalted, bStopTx, fifo, starting, back,
                 handled, moved, inPlace, halted>>

\* A packet nobody waits for stays in the FIFO.
RxUnexpected ==
  /\ intr["rx"] = "ok" /\ packet >= 0
  /\ IsrAt("rx", "bsr")
  /\ current["rx"] = None
  /\ intr' = [intr EXCEPT !["rx"] = "none"]
  /\ UNCHANGED <<endpoint, busy, fifo, packet, items, starting, back, handled,
                 irp, halted>>

IsrUsb == NoUsbCause \/ Unplug
IsrTx == NoTxInterrupt \/ TxNext \/ TxEnd \/ TxFail
IsrRx == NoRxInterrupt \/ RxNext \/ RxEnd \/ RxFail \/ RxUnexpected

-----------------------------------------------------------------------------
(* The BSR.                                                                *)

BsrEmpty ==
  /\ main = "bsr" /\ items = <<>>
  /\ main' = "client"
  /\ UNCHANGED <<endpoint, hardware, items, starting, back, handled, irp, halted>>

\* The IRP's completion callback begins.
BsrComplete ==
  /\ main = "bsr" /\ items # <<>> /\ Head(items) # None
  /\ handled' = Head(items)
  /\ items' = Tail(items)
  /\ state' = [state EXCEPT ![Head(items)] = "free"]
  /\ main' = "callback"
  /\ UNCHANGED <<endpoint, hardware, starting, back, moved, inPlace, actual, halted>>

\* The class driver is told that its device is gone; it drops its IRPs.
BsrDisconnect ==
  /\ main = "bsr" /\ items # <<>> /\ Head(items) = None
  /\ items' = Tail(items)
  /\ state' = [i \in Irps |-> "free"]
  /\ halted' = [d \in Sides |-> FALSE]
  /\ UNCHANGED <<endpoint, hardware, main, starting, back, handled, moved, inPlace,
                 actual>>

\* Mutation of BsrNext: waiting IRPs are not looked at.
BsrNextNever ==
  /\ main = "callback"
  /\ handled' = None
  /\ main' = "bsr"
  /\ UNCHANGED <<endpoint, hardware, items, starting, back, irp, halted>>

\* The callback has returned: start the next IRP if none was started.
BsrNext ==
  /\ main = "callback"
  /\ handled' = None
  /\ main' = "bsr"
  /\ LET d == Dir[handled]
     IN IF current[d] = None /\ ~(IF d = "tx" THEN bStopTx ELSE bIsRxHalted)
          THEN StartNextIrp(d, list[d])
          ELSE UNCHANGED <<programmed, list>>
  /\ UNCHANGED <<offset, bIsHalted, bIsRxHalted, bStopTx, intr, items, starting,
                 back, irp, halted>>

-----------------------------------------------------------------------------
(* The clients, in the main loop or in a completion callback.              *)

InClient == main = "client" \/ (main = "callback" /\ "chain" \in Uses)

Started(i) ==
  /\ state' = [state EXCEPT ![i] = "pending"]
  /\ moved' = [moved EXCEPT ![i] = 0]
  /\ inPlace' = [inPlace EXCEPT ![i] = TRUE]
  /\ actual' = [actual EXCEPT ![i] = 0]

\* MUSB_StartTransfer on an idle side, before any IRP that waits.
StartNow(i) ==
  /\ InClient /\ state[i] = "free"
  /\ current[Dir[i]] = None
  /\ Started(i)
  /\ IF Dir[i] = "tx" /\ bIsHalted
       THEN /\ current' = [current EXCEPT !["tx"] = i]
            /\ UNCHANGED <<dwTxSize, busy, fifo, packet>>
       ELSE StartIrp(i, dwLength[i])
  /\ UNCHANGED <<list, intr, offset, bIsHalted, bIsRxHalted, bStopTx, loop, halted>>

\* MUSB_StartTransfer on a busy side: the current IRP has been read ...
StartLater(i) ==
  /\ InClient /\ state[i] = "free"
  /\ current[Dir[i]] # None
  /\ Started(i)
  /\ starting' = i
  /\ back' = main
  /\ main' = "append"
  /\ UNCHANGED <<endpoint, hardware, items, handled, halted>>

\* ... and the IRP is appended, and started if the ISR has finished the
\* current one in the meantime and no other IRP waits.
AppendIrp ==
  /\ main = "append"
  /\ LET d == Dir[starting]
     IN IF current[d] = None /\ list[d] = <<>>
          THEN StartNextIrp(d, <<starting>>)
          ELSE /\ list' = [list EXCEPT ![d] = Append(@, starting)]
               /\ UNCHANGED programmed
  /\ starting' = None
  /\ back' = "client"
  /\ main' = back
  /\ UNCHANGED <<offset, bIsHalted, bIsRxHalted, bStopTx, intr, items, handled,
                 irp, halted>>

\* Without memory for its list record the IRP is refused.
AppendFails ==
  /\ main = "append"
  /\ list[Dir[starting]] # <<>>
  /\ state' = [state EXCEPT ![starting] = "free"]
  /\ starting' = None
  /\ back' = "client"
  /\ main' = back
  /\ UNCHANGED <<endpoint, hardware, items, handled, moved, inPlace, actual, halted>>

\* MUSB_CancelTransfer of the current IRP: its side is flushed and the next
\* IRP started.  The offset stays.
CancelCurrent(i) ==
  /\ "cancel" \in Uses /\ main = "client"
  /\ offset[Dir[i]] <= MaxLen
  /\ state[i] = "pending" /\ current[Dir[i]] = i
  /\ state' = [state EXCEPT ![i] = "free"]
  /\ FlushInterrupt({Dir[i]})
  /\ LET d == Dir[i]
     IN IF list[d] = <<>>
          THEN /\ current' = [current EXCEPT ![d] = None]
               /\ Flushed({d})
               /\ UNCHANGED <<list, dwTxSize>>
          ELSE /\ list' = [list EXCEPT ![d] = Tail(@)]
               /\ StartIrp(Head(list[d]), dwLength[Head(list[d])] - offset[d])
  /\ UNCHANGED <<offset, bIsHalted, bIsRxHalted, bStopTx, loop, moved, inPlace,
                 actual, halted>>

\* Mutation of CancelWaiting: the IRP stays in the list.
CancelWaitingKept(i) ==
  /\ "cancel" \in Uses /\ main = "client"
  /\ state[i] = "pending" /\ current[Dir[i]] # i
  /\ state' = [state EXCEPT ![i] = "free"]
  /\ StartNextIrp(Dir[i], list[Dir[i]])
  /\ UNCHANGED <<offset, bIsHalted, bIsRxHalted, bStopTx, intr, loop, moved,
                 inPlace, actual, halted>>

\* MUSB_CancelTransfer of a waiting IRP: it also programs the current IRP
\* again, from the start of its buffer.
CancelWaiting(i) ==
  /\ "cancel" \in Uses /\ main = "client"
  /\ state[i] = "pending" /\ current[Dir[i]] # i
  /\ state' = [state EXCEPT ![i] = "free"]
  /\ StartNextIrp(Dir[i], Without(list[Dir[i]], i))
  /\ UNCHANGED <<offset, bIsHalted, bIsRxHalted, bStopTx, intr, loop, moved,
                 inPlace, actual, halted>>

\* MUSB_SetPipeHalt(TRUE) of a pipe in use: bIsHalted whatever the side.
Halt(d) ==
  /\ "halt" \in Uses /\ InClient
  /\ \E i \in Irps : Dir[i] = d
  /\ halted' = [halted EXCEPT ![d] = TRUE]
  /\ bIsHalted' = TRUE
  /\ bStopTx' = (bStopTx \/ d = "tx")
  /\ bIsRxHalted' = (bIsRxHalted \/ d = "rx")
  /\ busy' = IF d = "rx" THEN [busy EXCEPT ![d] = FALSE] ELSE busy
  /\ UNCHANGED <<current, list, offset, dwTxSize, intr, fifo, packet, loop, irp>>

\* MUSB_SetPipeHalt(FALSE) of the Tx pipe; bStopTx stays.
ResumeTx ==
  /\ "halt" \in Uses /\ InClient
  /\ halted["tx"]
  /\ halted' = [halted EXCEPT !["tx"] = FALSE]
  /\ bIsHalted' = FALSE
  /\ StartNextIrp("tx", list["tx"])
  /\ UNCHANGED <<offset, bIsRxHalted, bStopTx, intr, loop, irp>>

\* MUSB_SetPipeHalt(FALSE) of the Rx pipe: RXCSR, read before the next IRP is
\* started, is written back after it, without the request for a packet.
ResumeRx ==
  /\ "halt" \in Uses /\ InClient
  /\ halted["rx"]
  /\ halted' = [halted EXCEPT !["rx"] = FALSE]
  /\ bIsHalted' = FALSE
  /\ bIsRxHalted' = FALSE
  /\ IF current["rx"] # None
       THEN /\ busy' = [busy EXCEPT !["rx"] = TRUE]
            /\ UNCHANGED <<current, list, packet>>
       ELSE /\ current' = [current EXCEPT !["rx"] =
                             IF list["rx"] = <<>> THEN None ELSE Head(list["rx"])]
            /\ list' = [list EXCEPT !["rx"] = IF @ = <<>> THEN @ ELSE Tail(@)]
            /\ packet' = IF list["rx"] = <<>> THEN packet ELSE -1
            /\ UNCHANGED busy
  /\ UNCHANGED <<offset, dwTxSize, bStopTx, intr, fifo, loop, irp>>

-----------------------------------------------------------------------------
Bus == \E outcome \in Outcomes :
         \/ TxDone(outcome)
         \/ \E n \in 0 .. PacketSize : RxDone(outcome, n)

MainLoop == Poll \/ BsrEmpty \/ BsrComplete \/ BsrDisconnect \/ BsrNext
            \/ AppendIrp

Client == \/ \E i \in Irps : \/ StartNow(i)
                             \/ StartLater(i)
                             \/ CancelCurrent(i)
                             \/ CancelWaiting(i)
          \/ AppendFails
          \/ \E d \in Sides : Halt(d)
          \/ ResumeTx
          \/ ResumeRx

Next == Bus \/ IsrUsb \/ IsrTx \/ IsrRx \/ MainLoop \/ Client

Spec == Init /\ [][Next]_vars

\* The main loop and the ISR, which serves both sides, keep running, and a
\* packet either moves or the controller gives up after three errors or its
\* NAK limit.
FairSpec == /\ Spec
            /\ WF_vars(\E outcome \in Outcomes : TxDone(outcome))
            /\ WF_vars(\E outcome \in Outcomes, n \in 0 .. PacketSize :
                         RxDone(outcome, n))
            /\ WF_vars(IsrUsb)
            /\ WF_vars(IsrTx)
            /\ WF_vars(IsrRx)
            /\ WF_vars(MainLoop)

-----------------------------------------------------------------------------
(* Properties                                                              *)

TypeOK ==
  /\ current \in [Sides -> Irps \cup {None}]
  /\ list \in [Sides -> Seq(Irps)]
  /\ offset \in [Sides -> 0 .. MaxLen]
  /\ dwTxSize \in 0 .. PacketSize
  /\ bIsHalted \in BOOLEAN /\ bIsRxHalted \in BOOLEAN /\ bStopTx \in BOOLEAN
  /\ busy \in [Sides -> BOOLEAN]
  /\ intr \in [Sides -> Outcomes \cup {"none"}]
  /\ fifo \in 0 .. MaxLen
  /\ packet \in -1 .. PacketSize
  /\ items \in Seq(Irps \cup {None})
  /\ main \in Places /\ back \in Places
  /\ starting \in Irps \cup {None} /\ handled \in Irps \cup {None}
  /\ state \in [Irps -> {"free", "pending", "good", "failed"}]
  /\ moved \in [Irps -> 0 .. MaxLen] /\ actual \in [Irps -> 0 .. MaxLen]
  /\ inPlace \in [Irps -> BOOLEAN]
  /\ halted \in [Sides -> BOOLEAN]

\* An IRP counts as started once it is appended: until then it may be refused.
Begun == [i \in Irps |-> IF i = starting THEN "free" ELSE state[i]]
Carried == [i \in Irps |-> IF state[i] = "free" THEN 0 ELSE moved[i]]

\* An IRP started is called back once, whatever the packets bring; IRPs of a
\* side do not interleave; a transmission ends well only when it is whole.
Transfers == INSTANCE PipeTransfers WITH state <- Begun, moved <- Carried
ImplementsTransfers == Transfers!Spec

\* Each byte moves to or from its own place in the IRP's buffer, in order and
\* inside it, and dwActualLength is "actual transfer length" (mu_cdi.h:418):
\* the packets of an IRP, the IRPs of a side and the errors between them
\* never leave an offset behind.
DataInPlace ==
  \A i \in Irps : /\ inPlace[i]
                  /\ state[i] \in {"good", "failed"} => actual[i] = moved[i]

\* An IRP is in one place at most (current, waiting, completed, being
\* appended), and in one exactly while it is neither free nor lost with its device.
PlacesOf(i) ==
  ({"current"} \X {d \in Sides : current[d] = i})
    \cup (UNION {{d} \X {n \in 1 .. Len(list[d]) : list[d][n] = i} : d \in Sides})
    \cup ({"completed"} \X {n \in 1 .. Len(items) : items[n] = i})
    \cup ({"starting"} \X {j \in {starting} : j = i})
InOnePlace ==
  \A i \in Irps :
    /\ \A p, q \in PlacesOf(i) : p = q
    /\ state[i] = "free" => PlacesOf(i) = {}
    /\ state[i] # "free" => PlacesOf(i) # {} \/ Contains(items, None)

\* No race of MUSB_StartTransfer, in the main loop or in a callback, with the ISR that
\* completes the current IRP, or with the BSR that is about to start a waiting one, leaves an
\* IRP on a side that nothing will ever start (mu_pip.c:588-623, mu_drc.c:1563-1578).  This
\* is said of pipes that no client has halted: bStopTx outlives a halt of the Tx side
\* (mu_hdr.c:1279), so the IRPs that wait there are stranded in spite of the resume.
NoneStranded ==
  main = "client" /\ items = <<>> =>
    \A d \in Sides : ~halted[d] /\ (current[d] # None \/ list[d] # <<>>)
                       => busy[d] \/ intr[d] # "none"

\* As long as a side has IRPs, IRPs of that side complete, even where
\* MUSB_StartTransfer, the ISR and the BSR hand the side to each other.
SideProgresses ==
  \A d \in Sides :
    (\E i \in Irps : Dir[i] = d /\ state[i] = "pending")
      ~> (\E i \in Irps : Dir[i] = d /\ state[i] \in {"good", "failed"})
=============================================================================
