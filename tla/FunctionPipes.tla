---------------------------- MODULE FunctionPipes ----------------------------
(***************************************************************************)
(* The two bulk pipes of a function: IRPs, halts and flushes of            *)
(* cd/mu_pip.c, the endpoint service of cd/mu_hdr.c and the register       *)
(* programming of cd/mu_mdr.c where bIsHost is FALSE.  Both pipes are on   *)
(* local endpoint 1, which has a transmit (IN) and a receive (OUT) side.   *)
(* The calls nest, so they are operators from a driver state d to the next *)
(* one.  Every IRP has bAllowShortTransfer and bIsrCallback FALSE, as      *)
(* those of examples/msd/mu_msdfn.c.                                       *)
(***************************************************************************)
EXTENDS Integers, SequencesExt, FiniteSetsExt

NoIrp == "none"         \* NULL
TxIrps == {"TxData", "TxCsw"}
RxIrps == {"RxCbw", "RxData"}
Irps == TxIrps \cup RxIrps
Dir == [i \in Irps |-> IF i \in TxIrps THEN "tx" ELSE "rx"]
Sides == {"tx", "rx"}

wPacketSize == 64       \* of both endpoints at full speed
wHighPacketSize == 512  \* at high speed
NoCommand == [op |-> "none", page |-> "none", dirIn |-> FALSE, xfer |-> 0, alloc |-> 0]
NoPacket == [kind |-> "none", tag |-> 0, at |-> 0, len |-> 0, cmd |-> NoCommand]
Least(a, b) == Min({a, b})

\* MUSB_ListRemoveItem; an item that is not there is left to RemoveFaults of Lists.
Without(l, i) ==
  IF Contains(l, i) THEN RemoveAt(l, CHOOSE n \in 1 .. Len(l) : l[n] = i) ELSE l

\* Per side of the endpoint: whether it is claimed, its FIFO, the current IRP, the IRPs
\* that wait, and the offset.
NewSide == [claimed |-> FALSE, wMax |-> 0, base |-> 0, irp |-> NoIrp, list |-> <<>>,
            offset |-> 0]

\* Hardware, per side: the packet in the FIFO (TXPKTRDY or RXPKTRDY), SENDSTALL,
\* SENTSTALL and the data toggle.
NewCsr == [pkt |-> NoPacket, sendstall |-> FALSE, sentstall |-> FALSE, tog |-> 0]

-----------------------------------------------------------------------------
(* Programming the controller *)

\* MGC_HdrcFlushEndpoint
Flush(d, s) == [d EXCEPT !.csr[s].pkt = NoPacket, !.csr[s].tog = 0]

\* MGC_HdrcHaltEndpoint.  Clearing a halt also clears the data toggle.
ProgramHalt(d, s, bHalt) ==
  [d EXCEPT !.csr[s].sendstall = bHalt, !.csr[s].tog = IF bHalt THEN @ ELSE 0]

\* MGC_MIN(wPacketSize, dwTotalBytes): a 32-bit number that has wrapped when it is negative
\* here, as when an IRP that was cancelled has left a larger offset.
LoadCount(n) == IF n < 0 THEN wPacketSize ELSE Least(wPacketSize, n)

\* What IRP i sends from place at of its buffer.  A packet loaded upon another one
\* is none of either.
Loaded(d, i, at, n) ==
  [kind |-> IF d.csr["tx"].pkt # NoPacket THEN "garbled"
            ELSE IF i = "TxCsw" THEN "csw" ELSE "data",
   tag |-> d.irp[i].tag, at |-> at, len |-> LoadCount(n), cmd |-> NoCommand]

\* MGC_MhdrcStartTx: n bytes are left.
StartTx(d, i, at, n) ==
  [d EXCEPT !.csr["tx"].pkt = Loaded(d, i, at, n), !.dwTxSize = LoadCount(n),
            !.end["tx"].irp = i]

\* MGC_CompleteIrp, with the item for the BSR.  sent is history: what the other side
\* has taken of the IRP.
CompleteIrp(d, s, i) ==
  [d EXCEPT !.end[s].irp = NoIrp, !.end[s].offset = 0,
            !.irp[i].dwActualLength = d.end[s].offset,
            !.irp[i].honest = (s = "rx") \/ d.irp[i].sent = d.end[s].offset,
            !.dwTxSize = IF s = "tx" THEN 0 ELSE @, !.queue = Append(@, i)]

\* MGC_PipePacketReceived: a short packet, or the last byte that was asked for.
IsLast(d, i) ==
  LET p == d.csr["rx"].pkt
  IN  p.len < wPacketSize \/ p.len + d.end["rx"].offset >= d.irp[i].dwLength

\* What is left of the buffer is unsigned as well.
Unloaded(d, i) ==
  LET p == d.csr["rx"].pkt
      left == d.irp[i].dwLength - d.end["rx"].offset
      n == IF left < 0 THEN p.len ELSE Least(p.len, left)
  IN  [d EXCEPT !.end["rx"].offset = @ + n, !.csr["rx"].pkt = NoPacket,
                !.irp[i].tag = p.tag,
                !.cbw = IF i = "RxCbw" THEN p ELSE @]

\* The packet of the FIFO goes to IRP i, which may be complete then.
PacketReceived(d, i) ==
  IF IsLast(d, i) THEN CompleteIrp(Unloaded(d, i), "rx", i) ELSE Unloaded(d, i)

\* MGC_MhdrcStartRx.  If a packet is there already, the caller polls for the rest of the
\* IRP and nothing else runs until it has come.
StartRx(d, i) ==
  LET r == PacketReceived(d, i)
  IN  IF d.csr["rx"].pkt = NoPacket THEN [d EXCEPT !.end["rx"].irp = i]
      ELSE [r EXCEPT !.spin = IF IsLast(d, i) THEN NoIrp ELSE i]

-----------------------------------------------------------------------------
(* The calls of cd/mu_pip.c *)

StartNextIrp(d, s) ==
  LET side == d.end[s]
      next == IF side.irp # NoIrp THEN side.irp ELSE Head(side.list)
      e == [d EXCEPT !.end[s].list = Without(@, next)]
  IN  CASE side.irp = NoIrp /\ side.list = <<>> -> d
        [] OTHER -> IF s = "tx" THEN StartTx(e, next, 0, e.irp[next].dwLength - side.offset)
                    ELSE StartRx(e, next)

StartTransfer(d, i) ==
  LET s == Dir[i]
  IN  CASE d.end[s].irp # NoIrp -> [d EXCEPT !.end[s].list = Append(@, i)]
        [] d.end[s].irp = NoIrp /\ s = "rx" -> StartRx(d, i)
        [] d.end[s].irp = NoIrp /\ s = "tx" /\ d.bIsHalted -> [d EXCEPT !.end[s].irp = i]
        [] OTHER -> StartTx(d, i, 0, d.irp[i].dwLength)

\* The offset stays.
CancelTransfer(d, i) ==
  LET s == Dir[i]
  IN  StartNextIrp(IF d.end[s].irp = i THEN [Flush(d, s) EXCEPT !.end[s].irp = NoIrp]
                   ELSE [d EXCEPT !.end[s].list = Without(@, i)], s)

FlushPipe(d, s) == Flush(d, s)

\* One flag for both sides.
SetPipeHalt(d, s, bHalt) == ProgramHalt([d EXCEPT !.bIsHalted = bHalt], s, bHalt)

-----------------------------------------------------------------------------
(* The interrupts *)

\* MGC_PipeTransmitReady: the rest of the IRP, if there is any.
TransmitReady(d, i) ==
  LET n == d.irp[i].dwLength - d.end["tx"].offset
  IN  IF n <= 0 THEN CompleteIrp(d, "tx", i) ELSE StartTx(d, i, d.end["tx"].offset, n)

\* MGC_HdrcServiceTransmitAvail.  What was sent counts even if there is no IRP.
ServiceTransmitAvail(d) ==
  LET e == [d EXCEPT !.end["tx"].offset = @ + d.dwTxSize]
  IN  CASE d.csr["tx"].sentstall -> [d EXCEPT !.csr["tx"].sentstall = FALSE]
        [] ~d.csr["tx"].sentstall /\ d.end["tx"].irp = NoIrp -> e
        [] OTHER -> TransmitReady(e, d.end["tx"].irp)

\* The packet of a halted endpoint.
Dropped(d, s) == [d EXCEPT !.csr[s].pkt = NoPacket, !.csr[s].sendstall = TRUE]

\* MGC_HdrcServiceReceiveReady.  On a halted endpoint the packet is dropped; without an
\* IRP it waits for the next MGC_MhdrcStartRx.
ServiceReceiveReady(d) ==
  LET i == d.end["rx"].irp
  IN  CASE d.csr["rx"].sentstall -> [d EXCEPT !.csr["rx"].sentstall = FALSE]
        [] ~d.csr["rx"].sentstall /\ d.bIsHalted -> Dropped(d, "rx")
        [] OTHER -> IF i # NoIrp /\ d.csr["rx"].pkt # NoPacket THEN PacketReceived(d, i)
                    ELSE d

-----------------------------------------------------------------------------
(* MGC_AllocateDynamicFifo in function role, and the binding of an endpoint *)

UsedSize(d) == 64 + d.end["tx"].wMax + d.end["rx"].wMax

\* bBind FALSE: what an endpoint needs is compared with what is left by those bound.
Checks(d, TotalSize, wSize) == TotalSize - UsedSize(d) >= wSize

\* bBind TRUE: 8 bytes are left for every endpoint of a higher number.
Fits(d, TotalSize) == TotalSize - UsedSize(d) - wPacketSize >= 8
Placed(d, s) ==
  [d EXCEPT !.end[s].claimed = TRUE, !.end[s].wMax = wPacketSize, !.end[s].base = UsedSize(d),
            !.bIsHalted = FALSE]

\* MGC_FunctionPreparePipe
Prepared(d, s) == [d EXCEPT !.end[s].irp = NoIrp, !.end[s].offset = 0]

\* MGC_MhdrcBindEndpoint.  SENDSTALL goes with the rest of the register.
Bound(d, s, TotalSize) ==
  IF Fits(d, TotalSize) THEN Prepared([Placed(d, s) EXCEPT !.csr[s] = NewCsr], s) ELSE d

\* Mutation of Unbound: the sizes stay.
UnboundOnly(d) == [d EXCEPT !.end["tx"].claimed = FALSE, !.end["rx"].claimed = FALSE]

\* MGC_FunctionBindConfig: all ends are cleared first.
Unbound(d) == [d EXCEPT !.end["tx"].claimed = FALSE, !.end["rx"].claimed = FALSE,
                        !.end["tx"].wMax = 0, !.end["rx"].wMax = 0]

\* MGC_DrcFlushAll.  The offsets stay.
WithoutIrps(d) ==
  [d EXCEPT !.bIsHalted = FALSE,
            !.end["tx"].irp = NoIrp, !.end["rx"].irp = NoIrp,
            !.end["tx"].list = <<>>, !.end["rx"].list = <<>>]
FlushAll(d) == WithoutIrps(Flush(Flush(Unbound(d), "tx"), "rx"))
=============================================================================
