------------------------------- MODULE BulkEnd -------------------------------
(***************************************************************************)
(* The bulk endpoint, the only one besides endpoint 0 (MUSB_C_NUM_EPS is 2 *)
(* in hdrc_cnf.h), and its two FIFOs in the RAM of the controller, which   *)
(* the dynamic allocator of cd/mu_cntlr.c places in host role, as          *)
(* operators on the endpoint's record.  Two requests made of it together   *)
(* are those of the mass-storage transport, which opens an IN and an OUT   *)
(* pipe.                                                                   *)
(***************************************************************************)
EXTENDS Naturals, FiniteSetsExt

CONSTANT TotalSize      \* MGC_DFIFO_TOTAL: the bytes of the RAM

End0Size == 64          \* MGC_END0_FIFOSIZE, at the bottom of the RAM
Ends == 2               \* MUSB_C_NUM_EPS
BulkNumber == 1         \* the local number of the bulk endpoint
DynamicSizes == {8, 16, 32, 64, 128, 256, 512, 1024, 2048, 4096}
Sides == {"tx", "rx"}

\* The packet sizes MGC_awDynamicSize has an entry for; larger ones would index it past
\* its end.
PacketSizes == 0 .. 8191

ASSUME BulkEndAssumption == TotalSize \in Nat

\* Per side: whether it is claimed, its share of the used size (wMaxPacketSizeTx or
\* wMaxPacketSizeRx, which a flush for re-use resets), and the registers of its FIFO.
BulkEnds == [Sides -> [claimed : BOOLEAN, wMax : Nat, base : Nat, size : Nat]]

\* MGC_HdrcInit.  A side whose base is 0 has no FIFO yet.
NewBulkEnd == [s \in Sides |-> [claimed |-> FALSE, wMax |-> 0, base |-> 0, size |-> 8]]

Top(e, s) == e[s].base + e[s].size

-----------------------------------------------------------------------------
(* MGC_AllocateDynamicFifo *)

\* The largest size that does not exceed the packet's.
FifoSize(wPacketSize) == Max({8} \cup {n \in DynamicSizes : n <= wPacketSize})

Share(e, s) == IF e[s].base = 0 THEN 0 ELSE e[s].wMax

\* Mutation of UsedSize: only endpoint 0 and the transmit side are counted.
UsedSizeTx(e) == End0Size + Share(e, "tx")

UsedSize(e) == End0Size + Share(e, "tx") + Share(e, "rx")

\* The nearest of the FIFOs of S above the address a moves down to it, unless one is there
\* already.  The code first waits until the side has come to a stop.
Lowered(e, a, S) ==
  LET above == {s \in S : e[s].base > a}
      nearest == {s \in above : \A t \in above : e[s].base <= e[t].base}
      first == IF "tx" \in nearest THEN "tx" ELSE "rx"
  IN  IF above = {} \/ \E s \in S : e[s].base = a THEN e ELSE [e EXCEPT ![first].base = a]

\* One pass over endpoint 0, the transmit side and the receive side; each looks at
\* those after it.
Compact(e) ==
  LET c == Lowered(e, End0Size, Sides)
  IN  IF c["tx"].base = 0 THEN c ELSE Lowered(c, Top(c, "tx"), {"rx"})

\* Some RAM is kept for the endpoints that follow.
Fits(e, wPacketSize) == UsedSize(e) + wPacketSize <= TotalSize
Allocates(e, s, wPacketSize) ==
  /\ Fits(e, wPacketSize) /\ ~e[s].claimed
  /\ UsedSize(e) + FifoSize(wPacketSize) + (Ends - BulkNumber) * 8 <= TotalSize

Allocated(e, s, wPacketSize) ==
  CASE ~Fits(e, wPacketSize) -> e
    [] Allocates(e, s, wPacketSize) ->
         [Compact(e) EXCEPT ![s] = [claimed |-> TRUE, wMax |-> FifoSize(wPacketSize),
                                    base |-> UsedSize(e), size |-> FifoSize(wPacketSize)]]
    [] OTHER -> Compact(e)

-----------------------------------------------------------------------------
(* Closing and flushing.  A flush for re-use forgets the sizes of both sides. *)

Reused(e) == [s \in Sides |-> [e[s] EXCEPT !.wMax = 0]]

Closed(e, s) == [Reused(e) EXCEPT ![s].claimed = FALSE]

FlushedAll(e) == [s \in Sides |-> [Reused(e)[s] EXCEPT !.claimed = FALSE]]

-----------------------------------------------------------------------------
(* MGC_CreateBotInstance and MGC_DestroyBotInstance: the IN pipe is opened  *)
(* first and closed last, and is closed again if the OUT pipe cannot be     *)
(* opened.                                                                  *)

BothAllocate(e, wIn, wOut) ==
  Allocates(e, "rx", wIn) /\ Allocates(Allocated(e, "rx", wIn), "tx", wOut)

BothOpened(e, wIn, wOut) ==
  LET i == Allocated(e, "rx", wIn)
      o == Allocated(i, "tx", wOut)
  IN  CASE ~Allocates(e, "rx", wIn) -> i
        [] Allocates(e, "rx", wIn) /\ Allocates(i, "tx", wOut) -> o
        [] OTHER -> Closed(o, "rx")

BothClosed(e) == Closed(Closed(e, "tx"), "rx")

-----------------------------------------------------------------------------
\* The two FIFOs are inside the RAM, above endpoint 0's and apart.
Apart(e) ==
  /\ \A s \in Sides : e[s].base >= End0Size /\ Top(e, s) <= TotalSize
  /\ Top(e, "rx") <= e["tx"].base \/ Top(e, "tx") <= e["rx"].base
=============================================================================
