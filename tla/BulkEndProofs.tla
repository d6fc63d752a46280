---------------------------- MODULE BulkEndProofs ----------------------------
(***************************************************************************)
(* What the allocator does for the mass-storage transport, whatever the    *)
(* size of the RAM and of the packets of one device after the other.       *)
(***************************************************************************)
EXTENDS BulkEnd, TLAPS

\* Where the transport's order of opening puts the FIFOs: the receive side's, once there
\* is one, starts right after endpoint 0's, and the other lies above it.
Placed(e) ==
  /\ e \in BulkEnds
  /\ \A s \in Sides : e[s].size >= 8
  /\ e["rx"].base \in {0, End0Size}
  /\ e["rx"].base = 0 => e["tx"].base = 0
  /\ e["tx"].base # 0 => e["tx"].base > End0Size

\* The endpoint as the transport leaves it behind, between two of its calls.
Tidy(e) ==
  /\ Placed(e)
  /\ e["tx"].claimed <=> e["rx"].claimed
  /\ ~e["rx"].claimed => e["tx"].wMax = 0 /\ e["rx"].wMax = 0

-----------------------------------------------------------------------------
\* The size found for a packet is one of the controller's.
LEMMA FifoSizeIsOne ==
  ASSUME NEW w \in Nat
  PROVE  FifoSize(w) \in DynamicSizes
<1> DEFINE S == {8} \cup {n \in DynamicSizes : n <= w}
<1>1. \E x \in S : \A y \in S : x >= y
  <2>1. CASE w >= 4096  BY <2>1 DEF DynamicSizes
  <2>2. CASE w >= 2048 /\ w < 4096  BY <2>2 DEF DynamicSizes
  <2>3. CASE w >= 1024 /\ w < 2048  BY <2>3 DEF DynamicSizes
  <2>4. CASE w >= 512 /\ w < 1024  BY <2>4 DEF DynamicSizes
  <2>5. CASE w >= 256 /\ w < 512  BY <2>5 DEF DynamicSizes
  <2>6. CASE w >= 128 /\ w < 256  BY <2>6 DEF DynamicSizes
  <2>7. CASE w >= 64 /\ w < 128  BY <2>7 DEF DynamicSizes
  <2>8. CASE w >= 32 /\ w < 64  BY <2>8 DEF DynamicSizes
  <2>9. CASE w >= 16 /\ w < 32  BY <2>9 DEF DynamicSizes
  <2>10. CASE w < 16  BY <2>10 DEF DynamicSizes
  <2> QED  BY <2>1, <2>2, <2>3, <2>4, <2>5, <2>6, <2>7, <2>8, <2>9, <2>10
<1>2. FifoSize(w) \in S  BY <1>1 DEF FifoSize, Max
<1> QED  BY <1>2 DEF DynamicSizes

\* So it is a number, and not less than 8.
LEMMA FifoSizeNat ==
  ASSUME NEW w \in Nat
  PROVE  FifoSize(w) \in Nat /\ FifoSize(w) >= 8
BY FifoSizeIsOne DEF DynamicSizes

\* A record with both its sides, one at a time.
LEMMA BulkEndsSides ==
  ASSUME NEW e \in BulkEnds
  PROVE  /\ \A s \in Sides : /\ e[s] \in [claimed : BOOLEAN, wMax : Nat, base : Nat, size : Nat]
                             /\ e[s].wMax \in Nat /\ e[s].base \in Nat /\ e[s].size \in Nat
         /\ DOMAIN e = Sides
BY DEF BulkEnds

\* Nothing to lower where one FIFO starts right at the address, or none is above it.
LEMMA LoweredNot ==
  ASSUME NEW e, NEW a, NEW S,
         (\E s \in S : e[s].base = a) \/ (\A s \in S : ~(e[s].base > a))
  PROVE  Lowered(e, a, S) = e
BY DEF Lowered

\* MGC_AllocateDynamicFifo never has to move a FIFO of the transport, so it never waits
\* for an endpoint to come to a stop.
THEOREM NeverMoves ==
  ASSUME NEW e, Placed(e)
  PROVE  Compact(e) = e
<1>1. e \in BulkEnds /\ "tx" \in Sides /\ "rx" \in Sides  BY DEF Placed, Sides
<1>2. e["tx"].base \in Nat /\ e["rx"].base \in Nat /\ e["tx"].size \in Nat
  BY <1>1, BulkEndsSides
<1>3. Lowered(e, End0Size, Sides) = e
  <2>1. CASE e["rx"].base = End0Size  BY <1>1, <2>1, LoweredNot
  <2>2. CASE e["rx"].base = 0
    <3>1. \A s \in Sides : ~(e[s].base > End0Size)  BY <2>2 DEF Placed, Sides, End0Size
    <3> QED  BY <3>1, LoweredNot
  <2> QED  BY <2>1, <2>2 DEF Placed
<1>4. ASSUME e["tx"].base # 0  PROVE Lowered(e, Top(e, "tx"), {"rx"}) = e
  <2>1. ~(e["rx"].base > Top(e, "tx"))  BY <1>2, <1>4 DEF Placed, Top, End0Size
  <2> QED  BY <2>1, LoweredNot
<1> QED  BY <1>3, <1>4 DEF Compact

-----------------------------------------------------------------------------
\* What opening both pipes makes of the endpoint.
Sized(base, size) == [claimed |-> TRUE, wMax |-> size, base |-> base, size |-> size]
Opened(e, wIn, wOut) ==
  [s \in Sides |-> IF s = "rx" THEN Sized(End0Size, FifoSize(wIn))
                  ELSE Sized(End0Size + FifoSize(wIn), FifoSize(wOut))]

\* The IN pipe is the first to be opened, and nothing else is counted then.
LEMMA RxOpened ==
  ASSUME NEW e, Tidy(e), NEW wIn \in Nat, Allocates(e, "rx", wIn)
  PROVE  /\ Allocated(e, "rx", wIn) = [e EXCEPT !["rx"] = Sized(End0Size, FifoSize(wIn))]
         /\ Placed(Allocated(e, "rx", wIn))
         /\ UsedSize(Allocated(e, "rx", wIn)) = End0Size + FifoSize(wIn)
         /\ e["tx"].claimed = FALSE
<1> DEFINE F == FifoSize(wIn)
           i == [e EXCEPT !["rx"] = Sized(End0Size, F)]
<1>1. e \in BulkEnds /\ "tx" \in Sides /\ "rx" \in Sides  BY DEF Tidy, Placed, Sides
<1>2. F \in Nat /\ F >= 8  BY FifoSizeNat
<1> HIDE DEF F
<1>3. /\ e["tx"] \in [claimed : BOOLEAN, wMax : Nat, base : Nat, size : Nat]
      /\ e["tx"].base \in Nat /\ e["tx"].wMax \in Nat
  BY <1>1, BulkEndsSides
<1>4. ~e["rx"].claimed  BY DEF Allocates
<1>5. e["tx"].wMax = 0 /\ e["rx"].wMax = 0  BY <1>4 DEF Tidy
<1>6. UsedSize(e) = End0Size  BY <1>5 DEF UsedSize, Share, End0Size
<1>7. Compact(e) = e  BY NeverMoves DEF Tidy
<1>8. Fits(e, wIn)  BY DEF Allocates
<1>9. Allocated(e, "rx", wIn) = i  BY <1>6, <1>7, <1>8 DEF Allocated, Sized, F
<1>10. i["tx"] = e["tx"] /\ i["rx"] = Sized(End0Size, F)  BY <1>1 DEF BulkEnds, Sides
<1>11. Placed(i)
  <2>1. Sized(End0Size, F) \in [claimed : BOOLEAN, wMax : Nat, base : Nat, size : Nat]
    BY <1>2 DEF Sized, End0Size
  <2>2. i \in BulkEnds  BY <1>1, <2>1 DEF BulkEnds
  <2>3. i["rx"].base = End0Size /\ i["rx"].size = F  BY <1>10 DEF Sized
  <2>4. \A s \in Sides : i[s].size >= 8  BY <1>2, <1>10, <2>3 DEF Tidy, Placed, Sides
  <2> QED  BY <1>10, <2>2, <2>3, <2>4 DEF Tidy, Placed, End0Size
<1>12. UsedSize(i) = End0Size + F
  <2>1. Share(i, "tx") = 0  BY <1>5, <1>10 DEF Share
  <2>2. Share(i, "rx") = F  BY <1>10 DEF Share, Sized, End0Size
  <2> QED  BY <1>2, <2>1, <2>2 DEF UsedSize, End0Size
<1>13. e["tx"].claimed = FALSE
  <2>1. e["tx"].claimed \in BOOLEAN  BY <1>3, Zenon
  <2>2. ~e["tx"].claimed  BY <1>4 DEF Tidy
  <2> QED  BY <2>1, <2>2
<1> QED  BY <1>9, <1>11, <1>12, <1>13 DEF F

\* Both pipes open: the FIFOs follow each other without a gap, and fit.
LEMMA BothOpenedIs ==
  ASSUME NEW e, Tidy(e), NEW wIn \in Nat, NEW wOut \in Nat, BothAllocate(e, wIn, wOut)
  PROVE  /\ BothOpened(e, wIn, wOut) = Opened(e, wIn, wOut)
         /\ End0Size + FifoSize(wIn) + FifoSize(wOut) + 8 <= TotalSize
<1> DEFINE i == Allocated(e, "rx", wIn)
           F == FifoSize(wIn)
           G == FifoSize(wOut)
<1>1. Allocates(e, "rx", wIn) /\ Allocates(i, "tx", wOut)  BY DEF BothAllocate
<1>2. /\ i = [e EXCEPT !["rx"] = Sized(End0Size, F)]
      /\ Placed(i) /\ UsedSize(i) = End0Size + F
  BY <1>1, RxOpened
<1>3. F \in Nat /\ G \in Nat  BY FifoSizeNat
<1>4. BothOpened(e, wIn, wOut) = Allocated(i, "tx", wOut)  BY <1>1 DEF BothOpened
<1> HIDE DEF i, F, G
<1>5. Compact(i) = i  BY <1>2, NeverMoves
<1>6. Allocated(i, "tx", wOut) = [i EXCEPT !["tx"] = Sized(End0Size + F, G)]
  <2>1. Fits(i, wOut)  BY <1>1 DEF Allocates
  <2> QED  BY <1>1, <1>2, <1>5, <2>1 DEF Allocated, Sized, G
<1>7. e \in [Sides -> [claimed : BOOLEAN, wMax : Nat, base : Nat, size : Nat]]
  BY DEF Tidy, Placed, BulkEnds
<1>8. [i EXCEPT !["tx"] = Sized(End0Size + F, G)] = Opened(e, wIn, wOut)
  BY <1>2, <1>7 DEF Opened, Sides, F, G
<1>9. UsedSize(i) + G + 8 <= TotalSize
  BY <1>1, <1>3 DEF Allocates, Ends, BulkNumber, G
<1>10. End0Size + F + G + 8 <= TotalSize  BY <1>2, <1>3, <1>9 DEF End0Size
<1> QED  BY <1>4, <1>6, <1>8, <1>10 DEF F, G

\* MUSB_OpenPipe, both times: the FIFOs of the IN and of the OUT pipe lie apart in the RAM.
THEOREM OpenedApart ==
  ASSUME NEW e, Tidy(e), NEW wIn \in PacketSizes, NEW wOut \in PacketSizes,
         BothAllocate(e, wIn, wOut)
  PROVE  Apart(BothOpened(e, wIn, wOut))
<1>0. wIn \in Nat /\ wOut \in Nat  BY DEF PacketSizes
<1> DEFINE o == Opened(e, wIn, wOut)
           F == FifoSize(wIn)
           G == FifoSize(wOut)
<1>1. BothOpened(e, wIn, wOut) = o /\ End0Size + F + G + 8 <= TotalSize  BY <1>0, BothOpenedIs
<1>2. F \in Nat /\ G \in Nat /\ TotalSize \in Nat  BY <1>0, FifoSizeNat, BulkEndAssumption
<1>3. o["rx"] = Sized(End0Size, F) /\ o["tx"] = Sized(End0Size + F, G)  BY DEF Opened, Sides
<1> HIDE DEF o, F, G
<1>4. /\ o["rx"].base = End0Size /\ Top(o, "rx") = End0Size + F
      /\ o["tx"].base = End0Size + F /\ Top(o, "tx") = End0Size + F + G
  BY <1>3 DEF Top, Sized
<1>5. \A s \in Sides : o[s].base >= End0Size /\ Top(o, s) <= TotalSize
  BY <1>1, <1>2, <1>4 DEF Sides, End0Size
<1>6. Top(o, "rx") <= o["tx"].base  BY <1>2, <1>4 DEF End0Size
<1> QED  BY <1>1, <1>5, <1>6 DEF Apart

\* Closing and flushing leave the FIFOs where they are.
LEMMA ReusedKeeps ==
  ASSUME NEW e, Placed(e)
  PROVE  /\ \A s \in Sides : /\ Reused(e)[s].base = e[s].base /\ Reused(e)[s].size = e[s].size
                             /\ Reused(e)[s].claimed = e[s].claimed /\ Reused(e)[s].wMax = 0
         /\ Placed(Reused(e))
<1>1. \A s \in Sides : e[s] \in [claimed : BOOLEAN, wMax : Nat, base : Nat, size : Nat]
  BY BulkEndsSides DEF Placed
<1>2. \A s \in Sides : Reused(e)[s] = [e[s] EXCEPT !.wMax = 0]  BY DEF Reused
<1>3. \A s \in Sides : /\ Reused(e)[s].base = e[s].base /\ Reused(e)[s].size = e[s].size
                       /\ Reused(e)[s].claimed = e[s].claimed /\ Reused(e)[s].wMax = 0
                       /\ Reused(e)[s] \in [claimed : BOOLEAN, wMax : Nat, base : Nat, size : Nat]
  <2> SUFFICES ASSUME NEW s \in Sides, NEW r, r = e[s], NEW q, q = Reused(e)[s]
               PROVE  /\ q.base = r.base /\ q.size = r.size
                      /\ q.claimed = r.claimed /\ q.wMax = 0
                      /\ q \in [claimed : BOOLEAN, wMax : Nat, base : Nat, size : Nat]
    OBVIOUS
  <2>1. r \in [claimed : BOOLEAN, wMax : Nat, base : Nat, size : Nat]  BY <1>1
  <2>2. q = [r EXCEPT !.wMax = 0]  BY <1>2
  <2>3. q \in [claimed : BOOLEAN, wMax : Nat, base : Nat, size : Nat]  BY <2>1, <2>2
  <2>4. q.base = r.base /\ q.size = r.size /\ q.wMax = 0  BY <2>1, <2>2
  <2>5. q.claimed = r.claimed  BY <2>1, <2>2
  <2> QED  BY <2>3, <2>4, <2>5
<1>4. Reused(e) \in BulkEnds  BY <1>3 DEF Reused, BulkEnds
<1>5. "tx" \in Sides /\ "rx" \in Sides  BY DEF Sides
<1> QED  BY <1>3, <1>4, <1>5 DEF Placed

\* One claim more or less does not move them either.
LEMMA ClosedKeeps ==
  ASSUME NEW e, Placed(e), NEW t \in Sides
  PROVE  /\ \A s \in Sides : Closed(e, t)[s].wMax = 0
         /\ \A s \in Sides : s # t => Closed(e, t)[s].claimed = e[s].claimed
         /\ Closed(e, t)[t].claimed = FALSE
         /\ Placed(Closed(e, t))
<1> DEFINE r == Reused(e)
           c == [r EXCEPT ![t].claimed = FALSE]
<1>1. /\ \A s \in Sides : r[s].claimed = e[s].claimed /\ r[s].wMax = 0
      /\ Placed(r)
  BY ReusedKeeps
<1>2. Closed(e, t) = c  BY DEF Closed
<1> HIDE DEF r
<1>3. r \in [Sides -> [claimed : BOOLEAN, wMax : Nat, base : Nat, size : Nat]]
  BY <1>1 DEF Placed, BulkEnds
<1>4. c[t] = [r[t] EXCEPT !.claimed = FALSE] /\ \A s \in Sides : s # t => c[s] = r[s]
  BY <1>3
<1>5. \A s \in Sides : /\ c[s].base = r[s].base /\ c[s].size = r[s].size /\ c[s].wMax = r[s].wMax
                       /\ c[s] \in [claimed : BOOLEAN, wMax : Nat, base : Nat, size : Nat]
  BY <1>3, <1>4
<1>6. c[t].claimed = FALSE  BY <1>3, <1>4
<1>7. c \in BulkEnds  BY <1>3, <1>5 DEF BulkEnds
<1>8. "tx" \in Sides /\ "rx" \in Sides  BY DEF Sides
<1>9. Placed(c)  BY <1>1, <1>5, <1>7, <1>8 DEF Placed
<1>10. \A s \in Sides : s # t => c[s].claimed = e[s].claimed  BY <1>1, <1>4
<1>11. \A s \in Sides : c[s].wMax = 0  BY <1>1, <1>5
<1> QED  BY <1>2, <1>6, <1>9, <1>10, <1>11

\* The IN pipe is the last to be closed.
LEMMA RxClosed ==
  ASSUME NEW e, Placed(e)
  PROVE  /\ Placed(Closed(e, "rx")) /\ Closed(e, "rx")["rx"].claimed = FALSE
         /\ Closed(e, "rx")["tx"].claimed = e["tx"].claimed
         /\ Closed(e, "rx")["tx"].wMax = 0 /\ Closed(e, "rx")["rx"].wMax = 0
<1>1. "tx" \in Sides /\ "rx" \in Sides /\ "tx" # "rx"  BY DEF Sides
<1> QED  BY <1>1, ClosedKeeps

\* The order of the transport is kept by everything that happens to the endpoint: by
\* opening, also when the first or the second pipe is refused, by closing, and by
\* MGC_DrcFlushAll at any time.
THEOREM StaysTidy ==
  /\ Tidy(NewBulkEnd)
  /\ \A e : Tidy(e) => Tidy(BothClosed(e)) /\ Tidy(FlushedAll(e))
  /\ \A e : \A wIn, wOut \in PacketSizes : Tidy(e) => Tidy(BothOpened(e, wIn, wOut))
<1>0. "tx" \in Sides /\ "rx" \in Sides  BY DEF Sides
<1>1. Tidy(NewBulkEnd)
  BY DEF Tidy, Placed, NewBulkEnd, BulkEnds, Sides, End0Size
<1>2. ASSUME NEW e, Tidy(e)  PROVE Tidy(BothClosed(e))
  <2> DEFINE c == Closed(e, "tx")
             d == Closed(c, "rx")
  <2>1. Placed(e)  BY <1>2 DEF Tidy
  <2>2. Placed(c) /\ c["tx"].claimed = FALSE  BY <1>0, <2>1, ClosedKeeps
  <2> HIDE DEF c
  <2>3. /\ Placed(d) /\ d["tx"].claimed = c["tx"].claimed /\ d["rx"].claimed = FALSE
        /\ d["tx"].wMax = 0 /\ d["rx"].wMax = 0
    BY <2>2, RxClosed
  <2> HIDE DEF d
  <2>4. Tidy(d)  BY <2>2, <2>3 DEF Tidy
  <2> QED  BY <2>4 DEF BothClosed, c, d
<1>3. ASSUME NEW e, Tidy(e)  PROVE Tidy(FlushedAll(e))
  <2> DEFINE r == Reused(e)
             f == [s \in Sides |-> [r[s] EXCEPT !.claimed = FALSE]]
  <2>1. Placed(r) /\ \A s \in Sides : r[s].wMax = 0  BY <1>3, ReusedKeeps DEF Tidy
  <2> HIDE DEF r
  <2>2. \A s \in Sides : r[s] \in [claimed : BOOLEAN, wMax : Nat, base : Nat, size : Nat]
    BY <2>1, BulkEndsSides DEF Placed
  <2>3. \A s \in Sides : /\ f[s].base = r[s].base /\ f[s].size = r[s].size
                         /\ f[s].claimed = FALSE /\ f[s].wMax = r[s].wMax
                         /\ f[s] \in [claimed : BOOLEAN, wMax : Nat, base : Nat, size : Nat]
    BY <2>2
  <2>4. f \in BulkEnds  BY <2>3 DEF BulkEnds
  <2> HIDE DEF f
  <2>5. Placed(f)  BY <1>0, <2>1, <2>3, <2>4 DEF Placed
  <2>6. Tidy(f)  BY <1>0, <2>1, <2>3, <2>5 DEF Tidy
  <2> QED  BY <2>6 DEF FlushedAll, f, r
<1>4. ASSUME NEW e, NEW wIn \in Nat, NEW wOut \in Nat, Tidy(e)
      PROVE  Tidy(BothOpened(e, wIn, wOut))
  <2> DEFINE i == Allocated(e, "rx", wIn)
  <2>1. Compact(e) = e  BY <1>4, NeverMoves DEF Tidy
  <2>2. CASE ~Allocates(e, "rx", wIn)
    <3>1. i = e  BY <2>1, <2>2 DEF Allocated
    <3> QED  BY <1>4, <2>2, <3>1 DEF BothOpened
  <2>3. CASE BothAllocate(e, wIn, wOut)
    <3> DEFINE o == Opened(e, wIn, wOut)
    <3>1. BothOpened(e, wIn, wOut) = o  BY <1>4, <2>3, BothOpenedIs
    <3>2. /\ FifoSize(wIn) \in Nat /\ FifoSize(wOut) \in Nat
          /\ FifoSize(wIn) >= 8 /\ FifoSize(wOut) >= 8
      BY FifoSizeNat
    <3>3. /\ o["rx"] = Sized(End0Size, FifoSize(wIn))
          /\ o["tx"] = Sized(End0Size + FifoSize(wIn), FifoSize(wOut))
          /\ o = [s \in Sides |-> o[s]]
      BY DEF Opened, Sides
    <3> HIDE DEF o
    <3>4. \A s \in Sides : o[s] \in [claimed : BOOLEAN, wMax : Nat, base : Nat, size : Nat]
      <4>1. Sized(End0Size, FifoSize(wIn)) \in
              [claimed : BOOLEAN, wMax : Nat, base : Nat, size : Nat]
        BY <3>2 DEF Sized, End0Size
      <4>2. Sized(End0Size + FifoSize(wIn), FifoSize(wOut)) \in
              [claimed : BOOLEAN, wMax : Nat, base : Nat, size : Nat]
        BY <3>2 DEF Sized, End0Size
      <4> QED  BY <3>3, <4>1, <4>2 DEF Sides
    <3>5. o \in BulkEnds  BY <3>3, <3>4 DEF BulkEnds
    <3>6. Placed(o)  BY <3>2, <3>3, <3>5 DEF Placed, Sized, Sides, End0Size
    <3>7. Tidy(o)  BY <3>3, <3>6 DEF Tidy, Sized
    <3> QED  BY <3>1, <3>7
  <2>4. CASE Allocates(e, "rx", wIn) /\ ~Allocates(i, "tx", wOut)
    <3>1. /\ i = [e EXCEPT !["rx"] = Sized(End0Size, FifoSize(wIn))]
          /\ Placed(i) /\ e["tx"].claimed = FALSE
      BY <1>4, <2>4, RxOpened
    <3>2. Allocated(i, "tx", wOut) = i
      BY <2>4, <3>1, NeverMoves DEF Allocated
    <3>3. BothOpened(e, wIn, wOut) = Closed(i, "rx")  BY <2>4, <3>2 DEF BothOpened
    <3>4. i["tx"] = e["tx"]  BY <1>4, <3>1 DEF Tidy, Placed, BulkEnds, Sides
    <3> HIDE DEF i
    <3>5. Placed(i)  BY <3>1
    <3> DEFINE c == Closed(i, "rx")
    <3>6. /\ Placed(c) /\ c["rx"].claimed = FALSE /\ c["tx"].claimed = i["tx"].claimed
          /\ c["tx"].wMax = 0 /\ c["rx"].wMax = 0
      BY <3>5, RxClosed
    <3> HIDE DEF c
    <3>7. Tidy(c)  BY <3>1, <3>4, <3>6 DEF Tidy
    <3> QED  BY <3>3, <3>7 DEF c
  <2> QED  BY <2>2, <2>3, <2>4 DEF BothAllocate
<1>5. \A w \in PacketSizes : w \in Nat  BY DEF PacketSizes
<1> QED  BY <1>1, <1>2, <1>3, <1>4, <1>5
=============================================================================
