--------------------------- MODULE FunctionProofs ---------------------------
(***************************************************************************)
(* Whatever hosts do, a configured disk always waits for exactly one thing *)
(* (AlwaysListening), and a driver at rest agrees with the host on address *)
(* and configuration (BusAgreed).  The IRP a disk waits with is a token:   *)
(* it is with the pipes, with the background, or polled for.  The lemmas   *)
(* go up with the calls: registers, pipes, client, endpoint 0, ISR, host.  *)
(* For the second, what the host has asked and been told of a transfer is  *)
(* related to what the driver has done of it, at every stage (AgreedInv).  *)
(***************************************************************************)
EXTENDS Function, TLAPS

\* The fields of a driver state that the proof is about are there.
Shape(d) ==
  /\ {"port", "ep0", "end", "csr", "bIsHalted", "dwTxSize", "irp", "msd", "cbw", "queue",
      "intr", "spin"} \subseteq DOMAIN d
  /\ {"pFunctionClient", "apConfigDescriptors", "bUsbState", "wSetupDataIndex",
      "wSetupDataSize", "request"} \subseteq DOMAIN d.port
  /\ {"rx", "sentstall", "sendstall", "dataend"} \subseteq DOMAIN d.ep0
  /\ Sides \subseteq DOMAIN d.end /\ Sides \subseteq DOMAIN d.csr
  /\ \A s \in Sides : {"claimed", "wMax", "base", "irp", "list", "offset"} \subseteq DOMAIN d.end[s]
  /\ \A s \in Sides : {"pkt", "sendstall", "sentstall", "tog"} \subseteq DOMAIN d.csr[s]
  /\ "next" \in DOMAIN d.msd

\* What the pipes leave alone.
Aside(d, e) == e.port = d.port /\ e.ep0 = d.ep0 /\ e.msd = d.msd /\ e.intr = d.intr

\* The FIFOs of the two sides.
SamePlaces(d, e) ==
  \A s \in Sides : /\ e.end[s].claimed = d.end[s].claimed
                   /\ e.end[s].wMax = d.end[s].wMax /\ e.end[s].base = d.end[s].base
SameEnds(d, e) == e.end = d.end /\ e.queue = d.queue /\ e.spin = d.spin
SameStalls(d, e) ==
  \A s \in Sides : /\ e.csr[s].sendstall = d.csr[s].sendstall
                   /\ e.csr[s].sentstall = d.csr[s].sentstall

\* Of an empty list nothing is removed.
LEMMA WithoutNothing == ASSUME NEW i PROVE Without(<<>>, i) = <<>>
  BY DEF Without, Contains

\* Programming the controller leaves the IRPs where they are.
LEMMA FlushFacts ==
  ASSUME NEW d, Shape(d), NEW s \in Sides, NEW e, e = Flush(d, s)
  PROVE  /\ Shape(e) /\ Aside(d, e) /\ SameEnds(d, e) /\ SameStalls(d, e)
         /\ \A t \in Sides : e.csr[t].pkt = IF t = s THEN NoPacket ELSE d.csr[t].pkt
  BY DEF Shape, Flush, Sides, Aside, SameEnds, SameStalls

\* A halt is set, or cleared.
LEMMA ProgramHaltFacts ==
  ASSUME NEW d, Shape(d), NEW s \in Sides, NEW e,
         e = ProgramHalt(d, s, TRUE) \/ e = ProgramHalt(d, s, FALSE)
  PROVE  /\ Shape(e) /\ Aside(d, e) /\ SameEnds(d, e)
         /\ \A t \in Sides : /\ e.csr[t].pkt = d.csr[t].pkt
                             /\ e.csr[t].sentstall = d.csr[t].sentstall
<1>1. CASE e = ProgramHalt(d, s, TRUE)
  BY <1>1 DEF Shape, ProgramHalt, Sides, Aside, SameEnds
<1>2. CASE e = ProgramHalt(d, s, FALSE)
  BY <1>2 DEF Shape, ProgramHalt, Sides, Aside, SameEnds
<1> QED
  BY <1>1, <1>2

\* A packet is loaded, and its IRP is the current one.
LEMMA StartTxFacts ==
  ASSUME NEW d, Shape(d), NEW i, NEW at, NEW n, NEW e, e = StartTx(d, i, at, n)
  PROVE  /\ Shape(e) /\ Aside(d, e) /\ SameStalls(d, e) /\ SamePlaces(d, e)
         /\ e.queue = d.queue /\ e.spin = d.spin
         /\ e.end["tx"].irp = i /\ e.end["rx"].irp = d.end["rx"].irp
         /\ \A s \in Sides : e.end[s].list = d.end[s].list
         /\ e.csr["rx"].pkt = d.csr["rx"].pkt
  BY DEF Shape, StartTx, Sides, Aside, SameStalls, SamePlaces

\* A complete IRP is with the background.
LEMMA CompleteIrpFacts ==
  ASSUME NEW d, Shape(d), NEW s \in Sides, NEW i, NEW e, e = CompleteIrp(d, s, i)
  PROVE  /\ Shape(e) /\ Aside(d, e) /\ SameStalls(d, e) /\ SamePlaces(d, e)
         /\ e.queue = Append(d.queue, i) /\ e.spin = d.spin
         /\ \A t \in Sides : /\ e.end[t].irp = IF t = s THEN NoIrp ELSE d.end[t].irp
                             /\ e.end[t].list = d.end[t].list
                             /\ e.csr[t].pkt = d.csr[t].pkt
  BY DEF Shape, CompleteIrp, Sides, Aside, SameStalls, SamePlaces

\* A packet is taken out of the FIFO.
LEMMA UnloadedFacts ==
  ASSUME NEW d, Shape(d), NEW i, NEW e, e = Unloaded(d, i)
  PROVE  /\ Shape(e) /\ Aside(d, e) /\ SameStalls(d, e) /\ SamePlaces(d, e)
         /\ e.queue = d.queue /\ e.spin = d.spin
         /\ \A t \in Sides : e.end[t].irp = d.end[t].irp /\ e.end[t].list = d.end[t].list
         /\ e.csr["rx"].pkt = NoPacket /\ e.csr["tx"].pkt = d.csr["tx"].pkt
  BY DEF Shape, Unloaded, Sides, Aside, SameStalls, SamePlaces

\* Its IRP is complete, or waits for the next packet.
LEMMA PacketReceivedFacts ==
  ASSUME NEW d, Shape(d), NEW i, NEW e, e = PacketReceived(d, i)
  PROVE  /\ Shape(e) /\ Aside(d, e) /\ SameStalls(d, e) /\ SamePlaces(d, e) /\ e.spin = d.spin
         /\ \A t \in Sides : e.end[t].list = d.end[t].list
         /\ e.csr["rx"].pkt = NoPacket /\ e.csr["tx"].pkt = d.csr["tx"].pkt
         /\ e.end["tx"].irp = d.end["tx"].irp
         /\ IsLast(d, i) => e.end["rx"].irp = NoIrp /\ e.queue = Append(d.queue, i)
         /\ ~IsLast(d, i) => e.end["rx"].irp = d.end["rx"].irp /\ e.queue = d.queue
<1> DEFINE u == Unloaded(d, i)
<1>1. /\ Shape(u) /\ Aside(d, u) /\ SameStalls(d, u) /\ SamePlaces(d, u)
      /\ u.queue = d.queue /\ u.spin = d.spin
      /\ \A t \in Sides : u.end[t].irp = d.end[t].irp /\ u.end[t].list = d.end[t].list
      /\ u.csr["rx"].pkt = NoPacket /\ u.csr["tx"].pkt = d.csr["tx"].pkt
  BY UnloadedFacts
<1>2. CASE IsLast(d, i)
  <2> HIDE DEF u
  <2>1. e = CompleteIrp(u, "rx", i)
    BY <1>2 DEF PacketReceived, u
  <2>2. /\ Shape(e) /\ Aside(u, e) /\ SameStalls(u, e) /\ SamePlaces(u, e)
        /\ e.queue = Append(u.queue, i) /\ e.spin = u.spin
        /\ \A t \in Sides : /\ e.end[t].irp = IF t = "rx" THEN NoIrp ELSE u.end[t].irp
                            /\ e.end[t].list = u.end[t].list
                            /\ e.csr[t].pkt = u.csr[t].pkt
    BY <1>1, <2>1, CompleteIrpFacts DEF Sides
  <2> QED
    BY <1>1, <1>2, <2>2 DEF Aside, SameStalls, SamePlaces, Sides
<1>3. CASE ~IsLast(d, i)
  BY <1>1, <1>3 DEF PacketReceived, Sides
<1> QED
  BY <1>2, <1>3

\* A packet that is there already is taken at once.
LEMMA StartRxFacts ==
  ASSUME NEW d, Shape(d), NEW i, NEW e, e = StartRx(d, i)
  PROVE  /\ Shape(e) /\ Aside(d, e) /\ SameStalls(d, e) /\ SamePlaces(d, e)
         /\ \A t \in Sides : e.end[t].list = d.end[t].list
         /\ e.csr["rx"].pkt = NoPacket /\ e.csr["tx"].pkt = d.csr["tx"].pkt
         /\ e.end["tx"].irp = d.end["tx"].irp
         /\ \/ d.csr["rx"].pkt = NoPacket /\ e.end["rx"].irp = i /\ e.queue = d.queue /\ e.spin = d.spin
            \/ /\ d.csr["rx"].pkt # NoPacket
               /\ e.end["rx"].irp = NoIrp /\ e.queue = Append(d.queue, i) /\ e.spin = NoIrp
            \/ /\ d.csr["rx"].pkt # NoPacket
               /\ e.end["rx"].irp = d.end["rx"].irp /\ e.queue = d.queue /\ e.spin = i
<1>1. CASE d.csr["rx"].pkt = NoPacket
  BY <1>1 DEF StartRx, Shape, Aside, SameStalls, SamePlaces, Sides
<1>2. CASE d.csr["rx"].pkt # NoPacket
  <2> DEFINE r == PacketReceived(d, i)
  <2>1. /\ Shape(r) /\ Aside(d, r) /\ SameStalls(d, r) /\ SamePlaces(d, r) /\ r.spin = d.spin
        /\ \A t \in Sides : r.end[t].list = d.end[t].list
        /\ r.csr["rx"].pkt = NoPacket /\ r.csr["tx"].pkt = d.csr["tx"].pkt
        /\ r.end["tx"].irp = d.end["tx"].irp
        /\ IsLast(d, i) => r.end["rx"].irp = NoIrp /\ r.queue = Append(d.queue, i)
        /\ ~IsLast(d, i) => r.end["rx"].irp = d.end["rx"].irp /\ r.queue = d.queue
    BY PacketReceivedFacts
  <2>2. e = [r EXCEPT !.spin = IF IsLast(d, i) THEN NoIrp ELSE i]
    BY <1>2 DEF StartRx
  <2> HIDE DEF r
  <2>3. /\ \A f \in DOMAIN r \ {"spin"} : e[f] = r[f]
        /\ DOMAIN e = DOMAIN r
        /\ e.spin = IF IsLast(d, i) THEN NoIrp ELSE i
    BY <2>1, <2>2 DEF Shape
  <2>4. /\ e.port = r.port /\ e.ep0 = r.ep0 /\ e.msd = r.msd /\ e.intr = r.intr
        /\ e.end = r.end /\ e.csr = r.csr /\ e.queue = r.queue
    BY <2>1, <2>2 DEF Shape
  <2>5. Shape(e)
    BY <2>1, <2>3, <2>4 DEF Shape
  <2> QED
    BY <1>2, <2>1, <2>3, <2>4, <2>5 DEF Aside, SameStalls, SamePlaces, Sides
<1> QED
  BY <1>1, <1>2

-----------------------------------------------------------------------------
(* One transfer at a time *)

NoList(d) == \A s \in Sides : d.end[s].list = <<>>

\* Nothing is outstanding; an IRP is with the pipes, is with the background, is polled for.
Rested(d) == d.queue = <<>> /\ d.spin = NoIrp
Idle(d) == d.end["tx"].irp = NoIrp /\ d.end["rx"].irp = NoIrp /\ Rested(d)
Sends1(d) == d.end["tx"].irp \in TxIrps /\ d.end["rx"].irp = NoIrp /\ Rested(d)
Waits1(d) == d.end["tx"].irp = NoIrp /\ d.end["rx"].irp \in RxIrps /\ Rested(d)
Called1(d) ==
  /\ d.end["tx"].irp = NoIrp /\ d.end["rx"].irp = NoIrp /\ d.spin = NoIrp
  /\ \E i \in Irps : d.queue = <<i>>
Spins1(d) ==
  /\ d.end["tx"].irp = NoIrp /\ d.end["rx"].irp = NoIrp /\ d.queue = <<>> /\ d.spin \in RxIrps
One(d) == Sends1(d) \/ Waits1(d) \/ Called1(d) \/ Spins1(d)

\* A packet to send belongs to an IRP; a packet that has come lies before an IRP.
Loads(d) == d.csr["tx"].pkt # NoPacket => d.end["tx"].irp # NoIrp
Pending(d) == d.csr["rx"].pkt # NoPacket /\ d.end["rx"].irp # NoIrp

\* An IRP that is started when none is outstanding is the one.
LEMMA StartTransferFacts ==
  ASSUME NEW d, Shape(d), Idle(d), NoList(d), NEW i \in Irps, NEW e, e = StartTransfer(d, i)
  PROVE  /\ Shape(e) /\ Aside(d, e) /\ SameStalls(d, e) /\ SamePlaces(d, e)
         /\ One(e) /\ NoList(e) /\ ~Pending(e) /\ (Loads(d) => Loads(e))
         /\ i \in RxIrps => e.end["tx"].irp = NoIrp /\ e.csr["rx"].pkt = NoPacket
         /\ i \in RxIrps /\ d.csr["rx"].pkt = NoPacket => Waits1(e)
<1>1. CASE i \in RxIrps
  <2>1. e = StartRx(d, i)
    BY <1>1 DEF StartTransfer, Idle, Dir, RxIrps, TxIrps, Irps, Rested
  <2>2. /\ Shape(e) /\ Aside(d, e) /\ SameStalls(d, e) /\ SamePlaces(d, e)
        /\ \A t \in Sides : e.end[t].list = d.end[t].list
        /\ e.csr["rx"].pkt = NoPacket /\ e.csr["tx"].pkt = d.csr["tx"].pkt
        /\ e.end["tx"].irp = d.end["tx"].irp
        /\ \/ d.csr["rx"].pkt = NoPacket /\ e.end["rx"].irp = i /\ e.queue = d.queue /\ e.spin = d.spin
           \/ /\ d.csr["rx"].pkt # NoPacket
              /\ e.end["rx"].irp = NoIrp /\ e.queue = Append(d.queue, i) /\ e.spin = NoIrp
           \/ /\ d.csr["rx"].pkt # NoPacket
              /\ e.end["rx"].irp = d.end["rx"].irp /\ e.queue = d.queue /\ e.spin = i
    BY <2>1, StartRxFacts
  <2>3. One(e)
    <3>1. Append(<<>>, i) = <<i>>
      OBVIOUS
    <3> QED
      BY <1>1, <2>2, <3>1 DEF One, Idle, Rested, Sends1, Waits1, Called1, Spins1
  <2> QED
    BY <1>1, <2>2, <2>3, SMTT(40) DEF NoList, Pending, Loads, Idle, Rested, Waits1
<1>2. CASE i \in TxIrps
  <2>1. i # NoIrp /\ i \notin RxIrps
    BY <1>2 DEF TxIrps, NoIrp, RxIrps
  <2>2. CASE ~d.bIsHalted
    <3>1. e = StartTx(d, i, 0, d.irp[i].dwLength)
      BY <1>2, <2>2 DEF StartTransfer, Idle, Dir, RxIrps, TxIrps, Irps, Rested
    <3>2. /\ Shape(e) /\ Aside(d, e) /\ SameStalls(d, e) /\ SamePlaces(d, e)
          /\ e.queue = d.queue /\ e.spin = d.spin
          /\ e.end["tx"].irp = i /\ e.end["rx"].irp = d.end["rx"].irp
          /\ \A s \in Sides : e.end[s].list = d.end[s].list
          /\ e.csr["rx"].pkt = d.csr["rx"].pkt
      BY <3>1, StartTxFacts
    <3> QED
      BY <1>2, <2>1, <3>2 DEF NoList, Pending, Loads, Idle, Rested, One, Sends1
  <2>3. CASE d.bIsHalted
    <3>1. e = [d EXCEPT !.end["tx"].irp = i]
      BY <1>2, <2>3 DEF StartTransfer, Idle, Dir, RxIrps, TxIrps, Irps, Rested
    <3>2. /\ Shape(e) /\ Aside(d, e) /\ SameStalls(d, e) /\ SamePlaces(d, e)
          /\ e.queue = d.queue /\ e.spin = d.spin /\ e.csr = d.csr
          /\ e.end["tx"].irp = i /\ e.end["rx"].irp = d.end["rx"].irp
          /\ \A s \in Sides : e.end[s].list = d.end[s].list
      BY <3>1 DEF Shape, Aside, SameStalls, SamePlaces, Sides
    <3> QED
      BY <1>2, <2>1, <3>2, SMTT(40) DEF NoList, Pending, Loads, Idle, Rested, One, Sends1
  <2> QED
    BY <2>2, <2>3
<1> QED
  BY <1>1, <1>2 DEF Irps

\* Without a list, and without a packet before its IRP, a side has its IRP programmed again.
LEMMA StartNextIrpFacts ==
  ASSUME NEW d, Shape(d), NoList(d), NEW s \in Sides, s = "rx" => ~Pending(d),
         NEW e, e = StartNextIrp(d, s)
  PROVE  /\ Shape(e) /\ Aside(d, e) /\ SameStalls(d, e) /\ SamePlaces(d, e)
         /\ NoList(e) /\ e.queue = d.queue /\ e.spin = d.spin
         /\ \A t \in Sides : e.end[t].irp = d.end[t].irp
         /\ e.csr["rx"].pkt = d.csr["rx"].pkt /\ (Loads(d) => Loads(e))
<1>1. CASE d.end[s].irp = NoIrp
  <2>1. e = d
    BY <1>1 DEF StartNextIrp, NoList
  <2> QED
    BY <2>1 DEF Aside, SameStalls, SamePlaces
<1>2. CASE d.end[s].irp # NoIrp
  <2> DEFINE i == d.end[s].irp
             f == [d EXCEPT !.end[s].list = Without(@, i)]
  <2>1. /\ Shape(f) /\ Aside(d, f) /\ SameStalls(d, f) /\ SamePlaces(d, f)
        /\ NoList(f) /\ f.queue = d.queue /\ f.spin = d.spin /\ f.csr = d.csr
        /\ \A t \in Sides : f.end[t].irp = d.end[t].irp
    <3>1. Without(d.end[s].list, i) = <<>>
      BY WithoutNothing DEF NoList
    <3> QED
      BY <3>1 DEF Shape, NoList, Aside, SameStalls, SamePlaces, Sides
  <2>2. CASE s = "tx"
    <3> DEFINE n == f.irp[i].dwLength - d.end[s].offset
    <3>1. e = StartTx(f, i, 0, n)
      BY <1>2, <2>2 DEF StartNextIrp
    <3> HIDE DEF f, n
    <3>2. /\ Shape(e) /\ Aside(f, e) /\ SameStalls(f, e) /\ SamePlaces(f, e)
          /\ e.queue = f.queue /\ e.spin = f.spin
          /\ e.end["tx"].irp = i /\ e.end["rx"].irp = f.end["rx"].irp
          /\ \A t \in Sides : e.end[t].list = f.end[t].list
          /\ e.csr["rx"].pkt = f.csr["rx"].pkt
      BY <2>1, <3>1, StartTxFacts
    <3> QED
      BY <1>2, <2>1, <2>2, <3>2 DEF NoList, Aside, SameStalls, SamePlaces, Loads, Sides
  <2>3. CASE s = "rx"
    <3>1. e = StartRx(f, i)
      BY <1>2, <2>3 DEF StartNextIrp
    <3>2. d.csr["rx"].pkt = NoPacket
      BY <1>2, <2>3 DEF Pending
    <3> HIDE DEF f
    <3>3. /\ Shape(e) /\ Aside(f, e) /\ SameStalls(f, e) /\ SamePlaces(f, e)
          /\ \A t \in Sides : e.end[t].list = f.end[t].list
          /\ e.csr["rx"].pkt = NoPacket /\ e.csr["tx"].pkt = f.csr["tx"].pkt
          /\ e.end["tx"].irp = f.end["tx"].irp
          /\ e.end["rx"].irp = i /\ e.queue = f.queue /\ e.spin = f.spin
      BY <2>1, <3>1, <3>2, StartRxFacts
    <3> QED
      BY <1>2, <2>1, <2>3, <3>2, <3>3 DEF NoList, Aside, SameStalls, SamePlaces, Loads, Sides
  <2> QED
    BY <2>2, <2>3 DEF Sides
<1> QED
  BY <1>1, <1>2

\* An IRP that is cancelled is nowhere, and no other one moves.
LEMMA CancelTransferFacts ==
  ASSUME NEW d, Shape(d), NoList(d), ~Pending(d), NEW i \in Irps, NEW e, e = CancelTransfer(d, i)
  PROVE  /\ Shape(e) /\ Aside(d, e) /\ SameStalls(d, e) /\ SamePlaces(d, e)
         /\ NoList(e) /\ ~Pending(e) /\ e.queue = d.queue /\ e.spin = d.spin
         /\ \A t \in Sides : e.end[t].irp =
                               IF t = Dir[i] /\ d.end[t].irp = i THEN NoIrp ELSE d.end[t].irp
<1> DEFINE s == Dir[i]
<1>1. s \in Sides
  BY DEF Dir, Sides
<1>2. CASE d.end[s].irp = i
  <2> DEFINE f == Flush(d, s)
             g == [f EXCEPT !.end[s].irp = NoIrp]
  <2>1. /\ Shape(f) /\ Aside(d, f) /\ SameEnds(d, f) /\ SameStalls(d, f)
        /\ \A t \in Sides : f.csr[t].pkt = IF t = s THEN NoPacket ELSE d.csr[t].pkt
    BY <1>1, FlushFacts
  <2>2. e = StartNextIrp(g, s)
    BY <1>2 DEF CancelTransfer
  <2> HIDE DEF f
  <2>3. /\ Shape(g) /\ Aside(f, g) /\ g.csr = f.csr /\ g.queue = f.queue /\ g.spin = f.spin
        /\ SamePlaces(f, g)
        /\ \A t \in Sides : /\ g.end[t].irp = IF t = s THEN NoIrp ELSE f.end[t].irp
                            /\ g.end[t].list = f.end[t].list
    BY <1>1, <2>1 DEF Shape, Aside, SamePlaces, Sides
  <2>4. NoList(g)
    BY <2>1, <2>3, SMTT(40) DEF NoList, SameEnds
  <2> HIDE DEF g
  <2>5. e = g
    BY <1>1, <2>2, <2>3, <2>4, Zenon DEF StartNextIrp, NoList
  <2>6. ~Pending(e)
    BY <1>1, <2>1, <2>3, <2>5 DEF Pending, SameEnds, Sides
  <2> QED
    BY <1>1, <1>2, <2>1, <2>3, <2>4, <2>5, <2>6 DEF Aside, SameEnds, SameStalls, SamePlaces
<1>3. CASE d.end[s].irp # i
  <2> DEFINE g == [d EXCEPT !.end[s].list = Without(@, i)]
  <2>1. e = StartNextIrp(g, s)
    BY <1>3 DEF CancelTransfer
  <2>2. /\ Shape(g) /\ Aside(d, g) /\ g.csr = d.csr /\ g.queue = d.queue /\ g.spin = d.spin
        /\ SamePlaces(d, g) /\ NoList(g)
        /\ \A t \in Sides : g.end[t].irp = d.end[t].irp
    <3>1. Without(d.end[s].list, i) = <<>>
      BY <1>1, WithoutNothing DEF NoList
    <3> QED
      BY <1>1, <3>1 DEF Shape, Aside, SamePlaces, NoList, Sides
  <2>3. ~Pending(g)
    BY <2>2 DEF Pending, Sides
  <2> HIDE DEF g
  <2>4. /\ Shape(e) /\ Aside(g, e) /\ SameStalls(g, e) /\ SamePlaces(g, e)
        /\ NoList(e) /\ e.queue = g.queue /\ e.spin = g.spin
        /\ \A t \in Sides : e.end[t].irp = g.end[t].irp
        /\ e.csr["rx"].pkt = g.csr["rx"].pkt
    BY <1>1, <2>1, <2>2, <2>3, StartNextIrpFacts
  <2>5. ~Pending(e)
    BY <2>3, <2>4 DEF Pending, Sides
  <2> QED
    BY <1>3, <2>2, <2>4, <2>5 DEF Aside, SameStalls, SamePlaces
<1> QED
  BY <1>2, <1>3

\* A halt of a pipe by the client
LEMMA SetPipeHaltFacts ==
  ASSUME NEW d, Shape(d), NEW s \in Sides, NEW e, e = SetPipeHalt(d, s, TRUE)
  PROVE  /\ Shape(e) /\ Aside(d, e) /\ SameEnds(d, e)
         /\ \A t \in Sides : /\ e.csr[t].pkt = d.csr[t].pkt
                             /\ e.csr[t].sentstall = d.csr[t].sentstall
                             /\ d.csr[t].sendstall => e.csr[t].sendstall
<1>1. /\ Shape(e) /\ Aside(d, e) /\ SameEnds(d, e)
      /\ \A t \in Sides : /\ e.csr[t].pkt = d.csr[t].pkt
                          /\ e.csr[t].sentstall = d.csr[t].sentstall
                          /\ t # s => e.csr[t].sendstall = d.csr[t].sendstall
  BY DEF Shape, SetPipeHalt, ProgramHalt, Sides, Aside, SameEnds
<1>2. e.csr[s].sendstall
  BY DEF Shape, SetPipeHalt, ProgramHalt, Sides
<1>3. ASSUME NEW t \in Sides, d.csr[t].sendstall PROVE e.csr[t].sendstall
  <2>1. CASE t = s
    BY <1>2, <2>1
  <2>2. CASE t # s
    <3>1. e.csr[t].sendstall = d.csr[t].sendstall
      BY <1>1, <2>2
    <3> QED
      BY <1>3, <3>1, Zenon
  <2> QED
    BY <2>1, <2>2
<1> QED
  BY <1>1, <1>3

-----------------------------------------------------------------------------
(* The commands of the disk *)

\* What executing a command leaves alone: everything but its statics, its IRPs' lengths, and
\* halts that are set.
Apart2(d, e) ==
  /\ e.port = d.port /\ e.ep0 = d.ep0 /\ e.intr = d.intr /\ SameEnds(d, e)
  /\ \A t \in Sides : /\ e.csr[t].pkt = d.csr[t].pkt
                      /\ e.csr[t].sentstall = d.csr[t].sentstall
                      /\ d.csr[t].sendstall => e.csr[t].sendstall
NextOk(d) == d.msd.next \in {"TxCsw", "TxData", "RxData"}

\* Steps that leave the pipes alone, one after the other
LEMMA Apart2Steps ==
  ASSUME NEW d, NEW e, NEW f, Apart2(d, e), Apart2(e, f)
  PROVE  Apart2(d, f)
  BY DEF Apart2, SameEnds

\* What a command sets of the statics of the client
LEMMA ResidueFacts ==
  ASSUME NEW d, Shape(d), NEW n, NEW e, e = Residue(d, n)
  PROVE  Shape(e) /\ Apart2(d, e) /\ (NextOk(d) => NextOk(e))
  BY DEF Shape, Residue, Apart2, SameEnds, NextOk, Sides
\* A command that is answered by its status
LEMMA StatusFacts ==
  ASSUME NEW d, Shape(d), NEW n, NEW e, e = Status(d, n)
  PROVE  Shape(e) /\ Apart2(d, e) /\ NextOk(e)
  BY DEF Shape, Status, Apart2, SameEnds, NextOk, Sides
\* A command that sends data
LEMMA ReplyFacts ==
  ASSUME NEW d, Shape(d), NEW n, NEW e, e = Reply(d, n)
  PROVE  Shape(e) /\ Apart2(d, e) /\ NextOk(e)
  BY DEF Shape, Reply, Apart2, SameEnds, NextOk, Sides
\* A command that receives data
LEMMA ReceiveFacts ==
  ASSUME NEW d, Shape(d), NEW n, NEW e, e = Receive(d, n)
  PROVE  Shape(e) /\ Apart2(d, e) /\ NextOk(e)
  BY DEF Shape, Receive, Apart2, SameEnds, NextOk, Sides

\* Whatever the command, the next IRP is the data or the status.
LEMMA ExecutedFacts ==
  ASSUME NEW d, Shape(d), NEW c, NEW e, e = Executed(d, c)
  PROVE  Shape(e) /\ Apart2(d, e) /\ NextOk(e)
<1> USE DEF Executed
<1>0. ASSUME NEW f, Shape(f), Apart2(d, f), NEW n
      PROVE  /\ Shape(Status(f, n)) /\ Apart2(d, Status(f, n)) /\ NextOk(Status(f, n))
             /\ Shape(Reply(f, n)) /\ Apart2(d, Reply(f, n)) /\ NextOk(Reply(f, n))
             /\ Shape(Receive(f, n)) /\ Apart2(d, Receive(f, n)) /\ NextOk(Receive(f, n))
  <2>1. /\ Shape(Status(f, n)) /\ Apart2(f, Status(f, n)) /\ NextOk(Status(f, n))
        /\ Shape(Reply(f, n)) /\ Apart2(f, Reply(f, n)) /\ NextOk(Reply(f, n))
        /\ Shape(Receive(f, n)) /\ Apart2(f, Receive(f, n)) /\ NextOk(Receive(f, n))
    BY <1>0, StatusFacts, ReplyFacts, ReceiveFacts
  <2> QED
    BY <1>0, <2>1, Apart2Steps
<1>1. ASSUME NEW n PROVE Shape(Residue(d, n)) /\ Apart2(d, Residue(d, n))
  BY ResidueFacts
<1>2. Apart2(d, d)
  BY DEF Apart2, SameEnds
<1>3. CASE c.op = "START_STOP_UNIT"
  <2> DEFINE f == [d EXCEPT !.msd.bIsReady = (c.page = "start")]
  <2>1. Shape(f) /\ Apart2(d, f)
    BY DEF Shape, Apart2, SameEnds
  <2>2. e = Status(f, 0)
    BY <1>3 DEF StartStopUnit
  <2> QED
    BY <1>0, <2>1, <2>2
<1>4. CASE c.op = "REQUEST_SENSE"
  BY <1>0, <1>1, <1>4 DEF RequestSense
<1>5. CASE c.op = "TEST_UNIT_READY"
  BY <1>0, <1>1, <1>5 DEF TestUnitReady
<1>6. CASE c.op = "INQUIRY"
  <2>1. e = Inquiry(d, c)
    BY <1>6
  <2> QED
    BY <1>0, <1>1, <2>1 DEF Inquiry
<1>7. CASE c.op \in {"READ_CAPACITY", "RD_FMT_CAPC"}
  <2>1. e = Capacity(d, c, 8) \/ e = Capacity(d, c, 12)
    BY <1>7
  <2> QED
    BY <1>0, <1>1, <2>1 DEF Capacity
<1>8. CASE c.op = "PREVENT_ALLOW"
  BY <1>0, <1>1, <1>8
<1>9. CASE c.op = "MODE_SENSE"
  <2> DEFINE n == Least(c.alloc, 4)
             f == Status(Residue(d, c.alloc), 1)
             g == [f EXCEPT !.irp["TxData"].dwLength = 0]
  <2>1. e = IF c.page = "known" THEN Reply(Residue(d, c.alloc - n), n) ELSE g
    BY <1>9 DEF ModeSense
  <2>2. Shape(f) /\ Apart2(d, f) /\ NextOk(f)
    BY <1>0, <1>1
  <2> HIDE DEF f
  <2>3. Shape(g) /\ Apart2(d, g) /\ NextOk(g)
    BY <2>2 DEF Shape, Apart2, SameEnds, NextOk
  <2> QED
    BY <1>0, <1>1, <2>1, <2>3
<1>10. CASE c.op = "MODE_SELECT"
  BY <1>0, <1>2, <1>10 DEF ModeSelect
<1>11. CASE c.op \in {"READ6", "READ10"}
  <2>1. e = Read(d, c)
    BY <1>11
  <2> QED
    BY <1>0, <1>1, <2>1 DEF Read
<1>12. CASE c.op \in {"WRITE6", "WRITE10"}
  <2> DEFINE r == Residue(d, 0)
             f == [r EXCEPT !.msd.dwRxCount = 0, !.irp["RxData"].dwLength = c.xfer]
             g == Status(f, 1)
  <2>1. e = IF c.page = "inside" THEN Receive(f, c.xfer) ELSE SetPipeHalt(g, "rx", TRUE)
    BY <1>12 DEF Write
  <2>2. Shape(r) /\ Apart2(d, r)
    BY <1>1
  <2> HIDE DEF r
  <2>3. Shape(f) /\ Apart2(d, f)
    BY <2>2 DEF Shape, Apart2, SameEnds
  <2> HIDE DEF f
  <2>4. Shape(g) /\ Apart2(d, g) /\ NextOk(g)
    BY <1>0, <2>3
  <2> DEFINE h == SetPipeHalt(g, "rx", TRUE)
  <2> HIDE DEF g
  <2>5. /\ Shape(h) /\ Aside(g, h) /\ SameEnds(g, h)
        /\ \A t \in Sides : /\ h.csr[t].pkt = g.csr[t].pkt
                            /\ h.csr[t].sentstall = g.csr[t].sentstall
                            /\ g.csr[t].sendstall => h.csr[t].sendstall
    BY <2>4, SetPipeHaltFacts DEF Sides
  <2> HIDE DEF h
  <2>6. Apart2(g, h) /\ NextOk(h)
    BY <2>4, <2>5 DEF Apart2, Aside, NextOk
  <2>7. Apart2(d, h)
    BY <2>4, <2>6, Apart2Steps
  <2> QED
    BY <1>0, <2>1, <2>3, <2>5, <2>6, <2>7 DEF h
<1>13. CASE c.op = "VERIFY"
  <2> DEFINE r == [d EXCEPT !.msd.dwRxCount = 0]
             f == Residue(r, 0)
  <2>1. Shape(r) /\ Apart2(d, r)
    BY DEF Shape, Apart2, SameEnds
  <2>2. e = IF c.page = "bytes" THEN Receive(f, c.xfer) ELSE Status(d, 0)
    BY <1>13 DEF Verify
  <2> HIDE DEF r
  <2>3. Shape(f) /\ Apart2(d, f)
    <3>1. Shape(f) /\ Apart2(r, f)
      BY <2>1, ResidueFacts
    <3> QED
      BY <2>1, <3>1, Apart2Steps
  <2> QED
    BY <1>0, <1>2, <2>2, <2>3
<1>14. CASE c.op = "WRITE_BUFFER"
  BY <1>0, <1>2, <1>14
<1>15. CASE c.op \notin {"START_STOP_UNIT", "REQUEST_SENSE", "TEST_UNIT_READY", "INQUIRY",
                         "READ_CAPACITY", "RD_FMT_CAPC", "PREVENT_ALLOW", "MODE_SENSE",
                         "MODE_SELECT", "READ6", "READ10", "WRITE6", "WRITE10", "VERIFY",
                         "WRITE_BUFFER"}
  <2>1. e = Status(d, 1)
    BY <1>15
  <2> QED
    BY <1>0, <1>2, <2>1
<1> QED
  BY <1>3, <1>4, <1>5, <1>6, <1>7, <1>8, <1>9, <1>10, <1>11, <1>12, <1>13, <1>14, <1>15

\* What a callback does: whatever has come, one IRP is begun.
Begins(d, e) ==
  /\ Shape(e) /\ e.port = d.port /\ e.ep0 = d.ep0 /\ e.intr = d.intr /\ SamePlaces(d, e)
  /\ One(e) /\ NoList(e) /\ NextOk(e) /\ ~Pending(e) /\ (Loads(d) => Loads(e))
  /\ \A t \in Sides : /\ e.csr[t].sentstall = d.csr[t].sentstall
                      /\ d.csr[t].sendstall => e.csr[t].sendstall

\* The client begins a transfer when nothing is outstanding.
LEMMA BeginFacts ==
  ASSUME NEW d, NEW f, Shape(d), Shape(f), Apart2(d, f), Idle(d), NoList(d), NextOk(f),
         NEW i \in Irps, NEW e, e = Begin(f, i)
  PROVE  Begins(d, e)
<1> DEFINE g == [f EXCEPT !.irp[i].dwActualLength = 0, !.irp[i].sent = 0]
<1>1. /\ Shape(g) /\ Apart2(d, g) /\ NextOk(g)
  BY DEF Shape, Apart2, SameEnds, NextOk
<1>2. e = StartTransfer(g, i)
  BY DEF Begin
<1> HIDE DEF g
<1>3. Idle(g) /\ NoList(g) /\ SamePlaces(d, g) /\ (Loads(d) => Loads(g))
  BY <1>1 DEF Apart2, SameEnds, Idle, Rested, NoList, SamePlaces, Loads, Sides
<1>4. /\ Shape(e) /\ Aside(g, e) /\ SameStalls(g, e) /\ SamePlaces(g, e)
      /\ One(e) /\ NoList(e) /\ ~Pending(e) /\ (Loads(g) => Loads(e))
  BY <1>1, <1>2, <1>3, StartTransferFacts
<1>5. \A t \in Sides : /\ e.csr[t].sentstall = d.csr[t].sentstall
                       /\ e.csr[t].sendstall = g.csr[t].sendstall
  BY <1>1, <1>4 DEF Apart2, SameStalls
<1>6. \A t \in Sides : d.csr[t].sendstall => e.csr[t].sendstall
  BY <1>1, <1>5, Zenon DEF Apart2
<1> QED
  BY <1>1, <1>3, <1>4, <1>5, <1>6 DEF Begins, Apart2, Aside, SamePlaces, NextOk

\* Every callback begins exactly one transfer.
LEMMA IrpCompleteFacts ==
  ASSUME NEW d, Shape(d), Idle(d), NoList(d), NextOk(d), NEW i \in Irps,
         NEW e, e = IrpComplete(d, i)
  PROVE  Begins(d, e)
<1>0. Apart2(d, d)
  BY DEF Apart2, SameEnds
<1>1. CASE i = "RxCbw"
  <2>1. CASE d.cbw.kind = "cbw" /\ d.irp["RxCbw"].dwActualLength = CbwSize
    <3> DEFINE c == d.cbw.cmd
               tag == d.cbw.tag
               x == Executed(d, c)
               h == IF x.msd.bCswStatus # 0 /\ c.dirIn THEN SetPipeHalt(x, "tx", TRUE) ELSE x
               t == [h EXCEPT !.irp["TxCsw"].tag = tag, !.irp["TxData"].tag = tag]
    <3>1. Shape(x) /\ Apart2(d, x) /\ NextOk(x)
      BY ExecutedFacts
    <3>2. e = Begin(t, h.msd.next)
      BY <1>1, <2>1 DEF IrpComplete, RxCbwComplete, MsdCommand
    <3> HIDE DEF x
    <3>3. Shape(h) /\ Apart2(d, h) /\ NextOk(h)
      <4> DEFINE y == SetPipeHalt(x, "tx", TRUE)
      <4>1. /\ Shape(y) /\ Aside(x, y) /\ SameEnds(x, y)
            /\ \A u \in Sides : /\ y.csr[u].pkt = x.csr[u].pkt
                                /\ y.csr[u].sentstall = x.csr[u].sentstall
                                /\ x.csr[u].sendstall => y.csr[u].sendstall
        BY <3>1, SetPipeHaltFacts DEF Sides
      <4>2. h = y \/ h = x
        OBVIOUS
      <4> HIDE DEF y, h
      <4>3. Apart2(x, y) /\ NextOk(y)
        BY <3>1, <4>1 DEF Apart2, Aside, NextOk
      <4> QED
        BY <3>1, <4>1, <4>2, <4>3, Apart2Steps
    <3> HIDE DEF h
    <3>4. Shape(t) /\ Apart2(d, t) /\ NextOk(t)
      BY <3>3 DEF Shape, Apart2, SameEnds, NextOk
    <3>5. h.msd.next \in Irps
      BY <3>3 DEF NextOk, Irps, TxIrps, RxIrps
    <3> HIDE DEF t
    <3> QED
      BY <3>2, <3>4, <3>5, BeginFacts
  <2>2. CASE ~(d.cbw.kind = "cbw" /\ d.irp["RxCbw"].dwActualLength = CbwSize)
    <3> DEFINE x == SetPipeHalt(d, "rx", TRUE)
               y == SetPipeHalt(x, "tx", TRUE)
    <3>1. e = Begin(y, "RxCbw")
      BY <1>1, <2>2 DEF IrpComplete, RxCbwComplete
    <3>2. /\ Shape(x) /\ Aside(d, x) /\ SameEnds(d, x)
          /\ \A u \in Sides : /\ x.csr[u].pkt = d.csr[u].pkt
                              /\ x.csr[u].sentstall = d.csr[u].sentstall
                              /\ d.csr[u].sendstall => x.csr[u].sendstall
      BY SetPipeHaltFacts DEF Sides
    <3> HIDE DEF x
    <3>3. /\ Shape(y) /\ Aside(x, y) /\ SameEnds(x, y)
          /\ \A u \in Sides : /\ y.csr[u].pkt = x.csr[u].pkt
                              /\ y.csr[u].sentstall = x.csr[u].sentstall
                              /\ x.csr[u].sendstall => y.csr[u].sendstall
      BY <3>2, SetPipeHaltFacts DEF Sides
    <3> HIDE DEF y
    <3>4. Apart2(d, x) /\ Apart2(x, y) /\ NextOk(y)
      BY <3>2, <3>3 DEF Apart2, Aside, NextOk
    <3>5. Apart2(d, y)
      BY <3>4, Apart2Steps
    <3>6. "RxCbw" \in Irps
      BY DEF Irps, TxIrps, RxIrps
    <3> QED
      BY <3>1, <3>3, <3>4, <3>5, <3>6, BeginFacts
  <2> QED
    BY <2>1, <2>2
<1>2. CASE i = "RxData"
  <2> DEFINE n == d.msd.dwRxCount + d.irp["RxData"].dwActualLength
             x == [d EXCEPT !.msd.dwRxCount = n]
             y == Residue(x, d.cbw.cmd.xfer - n)
  <2>1. e = Begin(y, "TxCsw")
    BY <1>2 DEF IrpComplete, RxDataComplete
  <2> HIDE DEF n
  <2>2. Shape(x) /\ Apart2(d, x) /\ NextOk(x)
    BY DEF Shape, Apart2, SameEnds, NextOk
  <2> HIDE DEF x
  <2>3. Shape(y) /\ Apart2(d, y) /\ NextOk(y)
    <3>1. Shape(y) /\ Apart2(x, y) /\ NextOk(y)
      BY <2>2, ResidueFacts
    <3> QED
      BY <2>2, <3>1, Apart2Steps
  <2>4. "TxCsw" \in Irps
    BY DEF Irps, TxIrps
  <2> QED
    BY <2>1, <2>3, <2>4, BeginFacts
<1>3. CASE i \in TxIrps
  <2>1. e = Begin(d, "TxCsw") \/ e = Begin(d, "RxCbw")
    BY <1>3 DEF IrpComplete, TxDataComplete, TxCswComplete, TxIrps
  <2>2. "TxCsw" \in Irps /\ "RxCbw" \in Irps
    BY DEF Irps, TxIrps, RxIrps
  <2> QED
    BY <1>0, <2>1, <2>2, BeginFacts
<1> QED
  BY <1>1, <1>2, <1>3 DEF Irps, RxIrps

-----------------------------------------------------------------------------
(* The driver's part of the invariant *)

Layout(d) ==
  /\ \A s \in Sides : d.end[s].claimed /\ d.end[s].wMax = wPacketSize
  /\ d.end["tx"].base = 64 /\ d.end["rx"].base = 128

\* A configured device has its FIFOs, and exactly one IRP is outstanding.
Configured(d) ==
  d.port.bUsbState = "CONFIGURED" => TotalSize >= 200 /\ Layout(d) /\ One(d)
Client(d) ==
  /\ d.port.bUsbState = "CONFIGURED" => d.port.pFunctionClient
  /\ d.port.apConfigDescriptors => d.port.pFunctionClient
AtMostOne(d) == (Idle(d) \/ One(d)) /\ NoList(d) /\ NextOk(d) /\ Loads(d)
DriverOk(d) == Shape(d) /\ AtMostOne(d) /\ Configured(d) /\ Client(d)

SameState(d, e) ==
  /\ e.port.bUsbState = d.port.bUsbState
  /\ e.port.pFunctionClient = d.port.pFunctionClient
  /\ e.port.apConfigDescriptors = d.port.apConfigDescriptors

\* A transmit interrupt finds no packet that its IRP still has to send.
NoTxWork(d) ==
  d.end["tx"].irp = NoIrp \/ d.csr["tx"].sentstall \/ d.csr["tx"].pkt = NoPacket

\* The FIFOs stay as they are bound.
LEMMA LayoutKept ==
  ASSUME NEW d, NEW e, SamePlaces(d, e), Layout(d)
  PROVE  Layout(e)
  BY DEF SamePlaces, Layout, Sides

\* The transmit interrupt
LEMMA TransmitFacts ==
  ASSUME NEW d, DriverOk(d), Rested(d), NoTxWork(d), NEW e, e = ServiceTransmitAvail(d)
  PROVE  /\ DriverOk(e) /\ e.spin = NoIrp /\ e.ep0 = d.ep0 /\ e.intr = d.intr /\ e.port = d.port
         /\ e.end["rx"].irp = d.end["rx"].irp /\ e.csr["rx"] = d.csr["rx"]
         /\ e.csr["tx"].sentstall = FALSE
         /\ d.end["tx"].irp = NoIrp => e.end["tx"].irp = NoIrp /\ e.queue = <<>>
<1>0. Shape(d)
  BY DEF DriverOk
<1>1. CASE d.csr["tx"].sentstall
  <2>1. e = [d EXCEPT !.csr["tx"].sentstall = FALSE]
    BY <1>1 DEF ServiceTransmitAvail
  <2>2. /\ Shape(e) /\ SameEnds(d, e) /\ e.port = d.port /\ e.ep0 = d.ep0 /\ e.intr = d.intr
        /\ e.msd = d.msd /\ \A t \in Sides : e.csr[t].pkt = d.csr[t].pkt
        /\ e.csr["rx"] = d.csr["rx"] /\ e.csr["tx"].sentstall = FALSE
    BY <1>0, <2>1 DEF Shape, SameEnds, Sides
  <2> QED
    BY <2>2 DEF DriverOk, AtMostOne, Configured, Client, SameEnds, Idle, One, Sends1, Waits1,
                Called1, Spins1, Rested, NoList, NextOk, Loads, Layout, Sides
<1>2. CASE ~d.csr["tx"].sentstall /\ d.end["tx"].irp = NoIrp
  <2>1. e = [d EXCEPT !.end["tx"].offset = @ + d.dwTxSize]
    BY <1>2 DEF ServiceTransmitAvail
  <2>2. /\ Shape(e) /\ e.port = d.port /\ e.ep0 = d.ep0 /\ e.intr = d.intr /\ e.msd = d.msd
        /\ e.csr = d.csr /\ e.queue = d.queue /\ e.spin = d.spin /\ SamePlaces(d, e)
        /\ \A t \in Sides : e.end[t].irp = d.end[t].irp /\ e.end[t].list = d.end[t].list
    BY <1>0, <2>1 DEF Shape, SamePlaces, Sides
  <2>3. e.csr["tx"].sentstall = FALSE
    BY <1>2, <2>2, SMTT(40)
  <2> QED
    BY <2>2, <2>3, LayoutKept
       DEF DriverOk, AtMostOne, Configured, Client, Idle, One, Sends1, Waits1,
           Called1, Spins1, Rested, NoList, NextOk, Loads, Sides
<1>3. CASE ~d.csr["tx"].sentstall /\ d.end["tx"].irp # NoIrp
  <2> DEFINE i == d.end["tx"].irp
             f == [d EXCEPT !.end["tx"].offset = @ + d.dwTxSize]
             n == f.irp[i].dwLength - f.end["tx"].offset
  <2>1. e = IF n <= 0 THEN CompleteIrp(f, "tx", i) ELSE StartTx(f, i, f.end["tx"].offset, n)
    BY <1>3 DEF ServiceTransmitAvail, TransmitReady
  <2>2. /\ Shape(f) /\ f.port = d.port /\ f.ep0 = d.ep0 /\ f.intr = d.intr /\ f.msd = d.msd
        /\ f.csr = d.csr /\ f.queue = d.queue /\ f.spin = d.spin /\ SamePlaces(d, f)
        /\ \A t \in Sides : f.end[t].irp = d.end[t].irp /\ f.end[t].list = d.end[t].list
    BY <1>0 DEF Shape, SamePlaces, Sides
  <2>3. d.csr["tx"].pkt = NoPacket
    BY <1>3 DEF NoTxWork
  <2>4. Sends1(d)
    BY <1>3 DEF DriverOk, AtMostOne, Idle, One, Waits1, Called1, Spins1
  <2>5. i \in Irps
    BY <2>4 DEF Sends1, Irps
  <2> HIDE DEF f, n
  <2>6. CASE e = CompleteIrp(f, "tx", i)
    <3>1. /\ Shape(e) /\ Aside(f, e) /\ SameStalls(f, e) /\ SamePlaces(f, e)
          /\ e.queue = Append(f.queue, i) /\ e.spin = f.spin
          /\ \A t \in Sides : /\ e.end[t].irp = IF t = "tx" THEN NoIrp ELSE f.end[t].irp
                              /\ e.end[t].list = f.end[t].list
                              /\ e.csr[t].pkt = f.csr[t].pkt
      BY <2>2, <2>6, CompleteIrpFacts DEF Sides
    <3>2. e.csr["rx"] = f.csr["rx"]
      BY <2>2, <2>6 DEF CompleteIrp, Shape, Sides
    <3>3. e.queue = <<i>>
      BY <2>2, <2>4, <3>1 DEF Sends1, Rested
    <3>4. Called1(e)
      BY <2>2, <2>4, <2>5, <3>1, <3>3 DEF Called1, Sends1, Rested, Sides
    <3>5. e.csr["tx"].sentstall = FALSE
      <4>1. e.csr["tx"].sentstall = d.csr["tx"].sentstall
        BY <2>2, <3>1 DEF SameStalls, Sides
      <4> QED
        BY <1>3, <4>1
    <3>6. SamePlaces(d, e)
      BY <2>2, <3>1 DEF SamePlaces
    <3>7. Configured(e) /\ Client(e)
      BY <2>2, <3>1, <3>4, <3>6, LayoutKept DEF DriverOk, Configured, Client, One, Aside
    <3>8. AtMostOne(e)
      BY <2>2, <2>3, <3>1, <3>4 DEF DriverOk, AtMostOne, One, NoList, NextOk, Loads, Aside, Sides
    <3> QED
      BY <1>3, <2>2, <2>4, <3>1, <3>2, <3>5, <3>7, <3>8
         DEF DriverOk, Aside, Sends1, Rested, Sides
  <2>7. CASE e = StartTx(f, i, f.end["tx"].offset, n)
    <3>1. /\ Shape(e) /\ Aside(f, e) /\ SameStalls(f, e) /\ SamePlaces(f, e)
          /\ e.queue = f.queue /\ e.spin = f.spin
          /\ e.end["tx"].irp = i /\ e.end["rx"].irp = f.end["rx"].irp
          /\ \A t \in Sides : e.end[t].list = f.end[t].list
          /\ e.csr["rx"].pkt = f.csr["rx"].pkt
      BY <2>2, <2>7, StartTxFacts
    <3>2. e.csr["rx"] = f.csr["rx"]
      BY <2>2, <2>7 DEF StartTx, Shape, Sides
    <3>4. Sends1(e)
      BY <2>2, <2>4, <3>1 DEF Sends1, Rested, Sides
    <3>5. e.csr["tx"].sentstall = FALSE
      <4>1. e.csr["tx"].sentstall = d.csr["tx"].sentstall
        BY <2>2, <3>1 DEF SameStalls, Sides
      <4> QED
        BY <1>3, <4>1
    <3>6. SamePlaces(d, e)
      BY <2>2, <3>1 DEF SamePlaces
    <3>7. Configured(e) /\ Client(e)
      BY <2>2, <3>1, <3>4, <3>6, LayoutKept DEF DriverOk, Configured, Client, One, Aside
    <3>8. AtMostOne(e)
      BY <1>3, <2>2, <3>1, <3>4 DEF DriverOk, AtMostOne, One, NoList, NextOk, Loads, Aside, Sides
    <3> QED
      BY <1>3, <2>2, <2>4, <3>1, <3>2, <3>5, <3>7, <3>8
         DEF DriverOk, Aside, Sends1, Rested, Sides
  <2> QED
    BY <2>1, <2>6, <2>7
<1> QED
  BY <1>1, <1>2, <1>3

\* A packet for a halted endpoint is dropped.
LEMMA DroppedFacts ==
  ASSUME NEW d, Shape(d), NEW s \in Sides, NEW e, e = Dropped(d, s)
  PROVE  /\ Shape(e) /\ SameEnds(d, e) /\ Aside(d, e) /\ e.csr[s].pkt = NoPacket
         /\ e.csr[s].sentstall = d.csr[s].sentstall
         /\ \A t \in Sides \ {s} : e.csr[t] = d.csr[t]
  BY DEF Shape, Sides, Aside, SameEnds, Dropped

\* The receive interrupt
LEMMA ReceiveReadyFacts ==
  ASSUME NEW d, DriverOk(d), d.spin = NoIrp, Pending(d) => ~d.csr["rx"].sentstall,
         NEW e, e = ServiceReceiveReady(d)
  PROVE  /\ DriverOk(e) /\ e.spin = NoIrp /\ ~Pending(e) /\ e.ep0 = d.ep0 /\ e.intr = d.intr
         /\ e.port = d.port
         /\ e.end["tx"].irp = d.end["tx"].irp /\ e.csr["tx"].pkt = d.csr["tx"].pkt
         /\ e.csr["tx"].sentstall = d.csr["tx"].sentstall
         /\ e.csr["rx"].sentstall = FALSE
         /\ d.csr["rx"].pkt = NoPacket => e.csr["rx"].pkt = NoPacket /\ e.queue = d.queue
<1>0. Shape(d)
  BY DEF DriverOk
<1>1. ASSUME Shape(e), SameEnds(d, e), e.port = d.port, e.ep0 = d.ep0, e.intr = d.intr,
             e.msd = d.msd, e.csr["tx"] = d.csr["tx"],
             e.csr["rx"].pkt \in {NoPacket, d.csr["rx"].pkt},
             e.csr["rx"].sentstall = FALSE, ~Pending(e)
      PROVE  DriverOk(e)
  <2>1. AtMostOne(e)
    BY <1>1 DEF DriverOk, AtMostOne, SameEnds, Idle, One, Sends1, Waits1,
                Called1, Spins1, Rested, NoList, NextOk, Loads, Sides
  <2>2. Configured(e) /\ Client(e)
    BY <1>1 DEF DriverOk, Configured, Client, SameEnds, One, Sends1, Waits1,
                Called1, Spins1, Rested, Layout, Sides
  <2> QED
    BY <1>1, <2>1, <2>2 DEF DriverOk
<1>4. CASE d.csr["rx"].sentstall
  <2>1. e = [d EXCEPT !.csr["rx"].sentstall = FALSE]
    BY <1>4 DEF ServiceReceiveReady
  <2>2. /\ Shape(e) /\ SameEnds(d, e) /\ e.port = d.port /\ e.ep0 = d.ep0 /\ e.intr = d.intr
        /\ e.msd = d.msd /\ e.csr["tx"] = d.csr["tx"]
        /\ e.csr["rx"].pkt = d.csr["rx"].pkt
        /\ e.csr["rx"].sentstall = FALSE
    BY <1>0, <2>1 DEF Shape, SameEnds, Sides
  <2>3. ~Pending(d)
    BY <1>4
  <2>4. ~Pending(e)
    BY <2>2, <2>3 DEF Pending, SameEnds
  <2> QED
    BY <1>1, <2>2, <2>4 DEF SameEnds
<1>5. CASE ~d.csr["rx"].sentstall /\ d.bIsHalted
  <2>1. e = Dropped(d, "rx")
    BY <1>5 DEF ServiceReceiveReady
  <2>2. /\ Shape(e) /\ SameEnds(d, e) /\ Aside(d, e) /\ e.csr["tx"] = d.csr["tx"]
        /\ e.csr["rx"].pkt = NoPacket /\ e.csr["rx"].sentstall = d.csr["rx"].sentstall
    BY <1>0, <2>1, DroppedFacts DEF Sides
  <2>3. e.csr["rx"].sentstall = FALSE
    BY <1>5, <2>2
  <2>4. ~Pending(e)
    BY <2>2 DEF Pending
  <2> QED
    BY <1>1, <2>2, <2>3, <2>4 DEF SameEnds, Aside
<1>2. CASE ~d.csr["rx"].sentstall /\ ~d.bIsHalted /\ ~Pending(d)
  <2>1. e = d
    BY <1>2 DEF ServiceReceiveReady, Pending
  <2> QED
    BY <1>2, <2>1
<1>3. CASE ~d.csr["rx"].sentstall /\ ~d.bIsHalted /\ Pending(d)
  <2> DEFINE i == d.end["rx"].irp
  <2>1. e = PacketReceived(d, i)
    BY <1>3 DEF ServiceReceiveReady, Pending
  <2>2. Waits1(d)
    BY <1>3 DEF DriverOk, AtMostOne, Idle, One, Sends1, Called1, Spins1, Pending
  <2>3. i \in Irps
    BY <2>2 DEF Waits1, Irps
  <2>4. /\ Shape(e) /\ Aside(d, e) /\ SameStalls(d, e) /\ SamePlaces(d, e) /\ e.spin = d.spin
        /\ \A t \in Sides : e.end[t].list = d.end[t].list
        /\ e.csr["rx"].pkt = NoPacket /\ e.csr["tx"].pkt = d.csr["tx"].pkt
        /\ e.end["tx"].irp = d.end["tx"].irp
        /\ IsLast(d, i) => e.end["rx"].irp = NoIrp /\ e.queue = Append(d.queue, i)
        /\ ~IsLast(d, i) => e.end["rx"].irp = d.end["rx"].irp /\ e.queue = d.queue
    BY <1>0, <2>1, PacketReceivedFacts
  <2>5. e.csr["tx"].sentstall = d.csr["tx"].sentstall
    BY <2>4 DEF SameStalls, Sides
  <2>6. e.csr["rx"].sentstall = FALSE
    <3>1. e.csr["rx"].sentstall = d.csr["rx"].sentstall
      BY <2>4 DEF SameStalls, Sides
    <3> QED
      BY <1>3, <3>1
  <2>7. One(e)
    <3>1. CASE IsLast(d, i)
      <4>1. e.queue = <<i>>
        BY <2>2, <2>4, <3>1 DEF Waits1, Rested
      <4> QED
        BY <2>2, <2>3, <2>4, <3>1, <4>1 DEF One, Called1, Waits1, Rested
    <3>2. CASE ~IsLast(d, i)
      BY <2>2, <2>4, <3>2 DEF One, Waits1, Rested
    <3> QED
      BY <3>1, <3>2
  <2>8. AtMostOne(e)
    BY <2>4, <2>7 DEF DriverOk, AtMostOne, NoList, NextOk, Loads, Aside
  <2>9. Configured(e) /\ Client(e)
    BY <2>4, <2>7, LayoutKept DEF DriverOk, Configured, Client, Aside
  <2> QED
    BY <1>3, <2>4, <2>5, <2>6, <2>8, <2>9 DEF DriverOk, Aside, Pending, Waits1
<1> QED
  BY <1>2, <1>3, <1>4, <1>5

-----------------------------------------------------------------------------
(* Bus reset, configurations and the reset of the transport *)

\* What serving endpoint 0 keeps, while no IRP is with the background.
Serves(d, e) ==
  /\ DriverOk(e) /\ Rested(e) /\ e.intr = d.intr
  /\ e.port.pFunctionClient = d.port.pFunctionClient
  /\ Pending(e) => Pending(d)
  /\ \A t \in Sides : e.csr[t].sentstall => d.csr[t].sentstall
  /\ d.end["tx"].irp = NoIrp => e.end["tx"].irp = NoIrp
  /\ d.csr["rx"].pkt = NoPacket => e.csr["rx"].pkt = NoPacket

\* Services, one after the other
LEMMA ServesSteps ==
  ASSUME NEW d, NEW e, NEW f, Serves(d, e), Serves(e, f)
  PROVE  Serves(d, f)
  BY DEF Serves

\* The FIFOs are given back.
LEMMA UnboundFacts ==
  ASSUME NEW d, Shape(d), NEW e, e = Unbound(d)
  PROVE  /\ Shape(e) /\ Aside(d, e) /\ e.csr = d.csr /\ e.queue = d.queue /\ e.spin = d.spin
         /\ \A t \in Sides : /\ e.end[t].irp = d.end[t].irp /\ e.end[t].list = d.end[t].list
                             /\ e.end[t].claimed = FALSE /\ e.end[t].wMax = 0
  BY DEF Shape, Unbound, Aside, Sides

\* A pipe is prepared.
LEMMA PreparedFacts ==
  ASSUME NEW d, Shape(d), NEW s \in Sides, NEW e, e = Prepared(d, s)
  PROVE  /\ Shape(e) /\ Aside(d, e) /\ e.queue = d.queue /\ e.spin = d.spin /\ e.csr = d.csr
         /\ \A t \in Sides : /\ e.end[t].list = d.end[t].list
                             /\ e.end[t].claimed = d.end[t].claimed
                             /\ e.end[t].wMax = d.end[t].wMax /\ e.end[t].base = d.end[t].base
                             /\ t # s => e.end[t] = d.end[t]
         /\ e.end[s].irp = NoIrp
  BY DEF Shape, Prepared, Aside, Sides

\* The side is bound, without an IRP and a packet; or nothing happens.
LEMMA BoundFacts ==
  ASSUME NEW d, Shape(d), NEW s \in Sides, NEW e, e = Bound(d, s, TotalSize)
  PROVE  /\ Shape(e) /\ Aside(d, e) /\ e.queue = d.queue /\ e.spin = d.spin
         /\ \A t \in Sides : /\ e.end[t].list = d.end[t].list
                             /\ t # s => e.end[t] = d.end[t] /\ e.csr[t] = d.csr[t]
         /\ Fits(d, TotalSize) =>
              /\ e.end[s].irp = NoIrp /\ e.csr[s] = NewCsr /\ e.end[s].claimed
              /\ e.end[s].wMax = wPacketSize /\ e.end[s].base = UsedSize(d)
         /\ ~Fits(d, TotalSize) => e = d
<1>1. CASE Fits(d, TotalSize)
  <2> DEFINE p == Placed(d, s)
             q == [p EXCEPT !.csr[s] = NewCsr]
             u == UsedSize(d)
  <2>1. e = Prepared(q, s)
    BY <1>1 DEF Bound
  <2>2. /\ Shape(p) /\ Aside(d, p) /\ p.queue = d.queue /\ p.spin = d.spin /\ p.csr = d.csr
        /\ \A t \in Sides : /\ p.end[t].list = d.end[t].list
                            /\ t # s => p.end[t] = d.end[t]
        /\ p.end[s].claimed /\ p.end[s].wMax = wPacketSize /\ p.end[s].base = u
    <3> HIDE DEF u
    <3> QED
      BY DEF Shape, Placed, Aside, Sides, u
  <2> HIDE DEF p
  <2>3. /\ Shape(q) /\ Aside(d, q) /\ q.queue = d.queue /\ q.spin = d.spin /\ q.end = p.end
        /\ q.csr[s] = NewCsr /\ \A t \in Sides : t # s => q.csr[t] = d.csr[t]
    BY <2>2 DEF Shape, Aside, Sides, NewCsr
  <2> HIDE DEF q
  <2>4. /\ Shape(e) /\ Aside(q, e) /\ e.queue = q.queue /\ e.spin = q.spin /\ e.csr = q.csr
        /\ \A t \in Sides : /\ e.end[t].list = q.end[t].list
                            /\ e.end[t].claimed = q.end[t].claimed
                            /\ e.end[t].wMax = q.end[t].wMax /\ e.end[t].base = q.end[t].base
                            /\ t # s => e.end[t] = q.end[t]
        /\ e.end[s].irp = NoIrp
    <3>1. Shape(q)
      BY <2>3
    <3> QED
      BY <2>1, <3>1, PreparedFacts, SMTT(30)
  <2>5. e.end[s].claimed
    BY <2>2, <2>3, <2>4, Zenon
  <2> QED
    BY <1>1, <2>2, <2>3, <2>4, <2>5 DEF Aside
<1>2. CASE ~Fits(d, TotalSize)
  BY <1>2 DEF Bound, Aside
<1> QED
  BY <1>1, <1>2

\* Either both endpoints are bound, or the room does not suffice.
LEMMA BindConfigFacts ==
  ASSUME NEW d, Shape(d), NEW e, e = BindConfig(d)
  PROVE  /\ Shape(e) /\ Aside(d, e) /\ e.queue = d.queue /\ e.spin = d.spin
         /\ \A t \in Sides :
              /\ e.end[t].list = d.end[t].list
              /\ \/ e.end[t].irp = NoIrp /\ e.csr[t] = NewCsr
                 \/ e.end[t].irp = d.end[t].irp /\ e.csr[t] = d.csr[t]
         /\ TotalSize >= 200 =>
              /\ Layout(e)
              /\ \A t \in Sides : e.end[t].irp = NoIrp /\ e.csr[t] = NewCsr
         /\ e.end["tx"].claimed /\ e.end["rx"].claimed => TotalSize >= 200
<1> DEFINE u == Unbound(d)
           b == Bound(u, "tx", TotalSize)
<1>0. TotalSize \in Nat
  BY Chapter9Assumption
<1>1. /\ Shape(u) /\ Aside(d, u) /\ u.csr = d.csr /\ u.queue = d.queue /\ u.spin = d.spin
      /\ \A t \in Sides : /\ u.end[t].irp = d.end[t].irp /\ u.end[t].list = d.end[t].list
                          /\ u.end[t].claimed = FALSE /\ u.end[t].wMax = 0
  BY UnboundFacts
<1>2. UsedSize(u) = 64 /\ (Fits(u, TotalSize) <=> TotalSize >= 136)
  BY <1>0, <1>1 DEF UsedSize, Fits, wPacketSize, Sides
<1> HIDE DEF u
<1>3. /\ Shape(b) /\ Aside(u, b) /\ b.queue = u.queue /\ b.spin = u.spin
      /\ \A t \in Sides : /\ b.end[t].list = u.end[t].list
                          /\ t # "tx" => b.end[t] = u.end[t] /\ b.csr[t] = u.csr[t]
      /\ Fits(u, TotalSize) =>
           /\ b.end["tx"].irp = NoIrp /\ b.csr["tx"] = NewCsr /\ b.end["tx"].claimed
           /\ b.end["tx"].wMax = wPacketSize /\ b.end["tx"].base = UsedSize(u)
      /\ ~Fits(u, TotalSize) => b = u
  BY <1>1, BoundFacts DEF Sides
<1>4. e = Bound(b, "rx", TotalSize)
  BY DEF BindConfig, u
<1> HIDE DEF b
<1>5. /\ Shape(e) /\ Aside(b, e) /\ e.queue = b.queue /\ e.spin = b.spin
      /\ \A t \in Sides : /\ e.end[t].list = b.end[t].list
                          /\ t # "rx" => e.end[t] = b.end[t] /\ e.csr[t] = b.csr[t]
      /\ Fits(b, TotalSize) =>
           /\ e.end["rx"].irp = NoIrp /\ e.csr["rx"] = NewCsr /\ e.end["rx"].claimed
           /\ e.end["rx"].wMax = wPacketSize /\ e.end["rx"].base = UsedSize(b)
      /\ ~Fits(b, TotalSize) => e = b
  BY <1>3, <1>4, BoundFacts DEF Sides
<1>6. b.end["rx"] = u.end["rx"] /\ b.csr["rx"] = d.csr["rx"]
  BY <1>1, <1>3 DEF Sides
<1>7. e.end["tx"] = b.end["tx"] /\ e.csr["tx"] = b.csr["tx"]
  BY <1>5 DEF Sides
<1>8. CASE ~Fits(u, TotalSize)
  <2>1. b = u /\ ~Fits(b, TotalSize) /\ e = b
    BY <1>3, <1>5, <1>8
  <2>2. e.end["tx"].claimed = FALSE
    BY <1>1, <2>1 DEF Sides
  <2>3. ~e.end["tx"].claimed
    BY <2>2
  <2>4. ~(TotalSize >= 200)
    BY <1>0, <1>2, <1>8
  <2> QED
    BY <1>1, <2>1, <2>3, <2>4 DEF Aside
<1>9. CASE Fits(u, TotalSize)
  <2>1. UsedSize(b) = 128 /\ (Fits(b, TotalSize) <=> TotalSize >= 200)
    BY <1>0, <1>1, <1>2, <1>3, <1>6, <1>9 DEF UsedSize, Fits, wPacketSize, Sides
  <2>2. CASE Fits(b, TotalSize)
    <3>1. /\ e.end["tx"].irp = NoIrp /\ e.csr["tx"] = NewCsr
          /\ e.end["rx"].irp = NoIrp /\ e.csr["rx"] = NewCsr
      BY <1>3, <1>5, <1>7, <1>9, <2>2
    <3>2. e.end["tx"].claimed /\ e.end["rx"].claimed
      BY <1>3, <1>5, <1>7, <1>9, <2>2, Zenon
    <3>3. Layout(e)
      BY <1>2, <1>3, <1>5, <1>7, <1>9, <2>1, <2>2, <3>2 DEF Layout, Sides
    <3> QED
      BY <1>1, <1>3, <1>5, <2>1, <2>2, <3>1, <3>3 DEF Aside, Sides
  <2>3. CASE ~Fits(b, TotalSize)
    <3>1. e = b
      BY <1>5, <2>3
    <3>2. e.end["rx"].claimed = FALSE
      BY <1>1, <1>6, <3>1 DEF Sides
    <3>3. ~e.end["rx"].claimed
      BY <3>2
    <3> QED
      BY <1>1, <1>3, <1>6, <1>9, <2>1, <2>3, <3>1, <3>3 DEF Aside, Sides
  <2> QED
    BY <2>2, <2>3
<1> QED
  BY <1>8, <1>9

\* The IRPs of both sides are dropped.
LEMMA WithoutIrpsFacts ==
  ASSUME NEW d, Shape(d), NEW e, e = WithoutIrps(d)
  PROVE  /\ Shape(e) /\ Aside(d, e) /\ e.csr = d.csr /\ e.queue = d.queue /\ e.spin = d.spin
         /\ \A t \in Sides : e.end[t].irp = NoIrp /\ e.end[t].list = <<>>
<1> DEFINE f == [d EXCEPT !.bIsHalted = FALSE]
           g == [f EXCEPT !.end["tx"].irp = NoIrp, !.end["rx"].irp = NoIrp]
           h == [g EXCEPT !.end["tx"].list = <<>>, !.end["rx"].list = <<>>]
<1>1. Shape(f) /\ Aside(d, f) /\ f.csr = d.csr /\ f.queue = d.queue /\ f.spin = d.spin
  BY DEF Shape, Aside
<1> HIDE DEF f
<1>2. /\ Shape(g) /\ Aside(f, g) /\ g.csr = f.csr /\ g.queue = f.queue /\ g.spin = f.spin
      /\ \A t \in Sides : g.end[t].irp = NoIrp
  BY <1>1 DEF Shape, Aside, Sides
<1> HIDE DEF g
<1>3. /\ Shape(h) /\ Aside(g, h) /\ h.csr = g.csr /\ h.queue = g.queue /\ h.spin = g.spin
      /\ \A t \in Sides : h.end[t].irp = g.end[t].irp /\ h.end[t].list = <<>>
  BY <1>2 DEF Shape, Aside, Sides
<1>4. e = h
  BY DEF WithoutIrps, f, g
<1> HIDE DEF h
<1> QED
  BY <1>1, <1>2, <1>3, <1>4 DEF Aside

\* All IRPs are forgotten.
LEMMA FlushAllFacts ==
  ASSUME NEW d, Shape(d), NEW e, e = FlushAll(d)
  PROVE  /\ Shape(e) /\ Aside(d, e) /\ SameStalls(d, e) /\ e.queue = d.queue /\ e.spin = d.spin
         /\ \A t \in Sides : /\ e.end[t].irp = NoIrp /\ e.end[t].list = <<>>
                             /\ e.csr[t].pkt = NoPacket
<1> DEFINE u == Unbound(d)
           f == Flush(u, "tx")
           g == Flush(f, "rx")
<1>1. Shape(u) /\ Aside(d, u) /\ u.csr = d.csr /\ u.queue = d.queue /\ u.spin = d.spin
  BY UnboundFacts
<1> HIDE DEF u
<1>2. /\ Shape(f) /\ Aside(u, f) /\ SameEnds(u, f) /\ SameStalls(u, f)
      /\ \A t \in Sides : f.csr[t].pkt = IF t = "tx" THEN NoPacket ELSE u.csr[t].pkt
  BY <1>1, FlushFacts DEF Sides
<1> HIDE DEF f
<1>3. /\ Shape(g) /\ Aside(f, g) /\ SameEnds(f, g) /\ SameStalls(f, g)
      /\ \A t \in Sides : g.csr[t].pkt = IF t = "rx" THEN NoPacket ELSE f.csr[t].pkt
  BY <1>2, FlushFacts DEF Sides
<1> HIDE DEF g
<1>4. e = WithoutIrps(g)
  BY DEF FlushAll, u, f, g
<1>5. /\ Shape(e) /\ Aside(g, e) /\ e.csr = g.csr /\ e.queue = g.queue /\ e.spin = g.spin
      /\ \A t \in Sides : e.end[t].irp = NoIrp /\ e.end[t].list = <<>>
  BY <1>3, <1>4, WithoutIrpsFacts
<1>6. \A t \in Sides : e.csr[t].pkt = NoPacket
  BY <1>2, <1>3, <1>5 DEF Sides
<1> QED
  BY <1>1, <1>2, <1>3, <1>5, <1>6 DEF Aside, SameEnds, SameStalls

\* What is left of an answer fits into one packet.
Short(d) == d.port.wSetupDataIndex = 0 /\ d.port.wSetupDataSize \in 0 .. SmallFifo

\* What was left to be said is forgotten.
LEMMA NoSetupDataFacts ==
  ASSUME NEW d, Shape(d), NEW e, e = NoSetupData(d)
  PROVE  /\ Shape(e) /\ SameEnds(d, e) /\ e.csr = d.csr /\ e.msd = d.msd /\ e.intr = d.intr
         /\ e.ep0 = d.ep0 /\ SameState(d, e) /\ e.port.request = d.port.request
         /\ e.port.wSetupDataIndex = 0 /\ e.port.wSetupDataSize = 0
  BY DEF Shape, NoSetupData, SameEnds, SameState

\* After a bus reset nothing is outstanding.
LEMMA BusResetFacts ==
  ASSUME NEW d, DriverOk(d), Rested(d), NEW e, e = BusReset(d)
  PROVE  /\ Serves(d, e) /\ Idle(e) /\ e.ep0 = d.ep0 /\ e.port.request = d.port.request
         /\ Short(e)
<1> DEFINE a == [d EXCEPT !.port.bFuncAddr = 0]
           b == NoSetupData(a)
           c == FlushAll(b)
           f == ChangeState(c, "DEFAULT")
<1>1. /\ Shape(a) /\ SameEnds(d, a) /\ a.csr = d.csr /\ a.msd = d.msd /\ a.intr = d.intr
      /\ a.ep0 = d.ep0 /\ SameState(d, a) /\ a.port.request = d.port.request
  BY DEF DriverOk, Shape, SameEnds, SameState
<1> HIDE DEF a
<1>2. /\ Shape(b) /\ SameEnds(a, b) /\ b.csr = a.csr /\ b.msd = a.msd /\ b.intr = a.intr
      /\ b.ep0 = a.ep0 /\ SameState(a, b) /\ b.port.request = a.port.request
      /\ b.port.wSetupDataIndex = 0 /\ b.port.wSetupDataSize = 0
  BY <1>1, NoSetupDataFacts
<1> HIDE DEF b
<1>3. /\ Shape(c) /\ Aside(b, c) /\ SameStalls(b, c) /\ c.queue = b.queue /\ c.spin = b.spin
      /\ \A t \in Sides : /\ c.end[t].irp = NoIrp /\ c.end[t].list = <<>>
                          /\ c.csr[t].pkt = NoPacket
  BY <1>2, FlushAllFacts
<1> HIDE DEF c
<1>4. /\ Shape(f) /\ SameEnds(c, f) /\ f.csr = c.csr /\ f.msd = c.msd /\ f.intr = c.intr
      /\ f.ep0 = c.ep0 /\ f.port.request = c.port.request
      /\ f.port.wSetupDataIndex = c.port.wSetupDataIndex
      /\ f.port.wSetupDataSize = c.port.wSetupDataSize
      /\ f.port.bUsbState = "DEFAULT" /\ f.port.pFunctionClient = c.port.pFunctionClient
  BY <1>3 DEF Shape, ChangeState, SameEnds
<1>5. e = SpeedSet(f)
  BY DEF BusReset, a, b, c
<1> HIDE DEF f
<1>6. /\ Shape(e) /\ SameEnds(f, e) /\ e.csr = f.csr /\ e.msd = f.msd /\ e.intr = f.intr
      /\ e.ep0 = f.ep0 /\ e.port.request = f.port.request
      /\ e.port.wSetupDataIndex = f.port.wSetupDataIndex
      /\ e.port.wSetupDataSize = f.port.wSetupDataSize
      /\ e.port.bUsbState = f.port.bUsbState
      /\ e.port.pFunctionClient = f.port.pFunctionClient
  BY <1>4, <1>5 DEF Shape, SpeedSet, SameEnds
<1>7. e.port.apConfigDescriptors = e.port.pFunctionClient
  BY <1>4, <1>5 DEF Shape, SpeedSet
<1>8. Client(e)
  <2>1. e.port.bUsbState # "CONFIGURED"
    BY <1>4, <1>6
  <2>2. e.port.apConfigDescriptors => e.port.pFunctionClient
    BY <1>7, Zenon
  <2> QED
    BY <2>1, <2>2 DEF Client
<1>9. Idle(e) /\ AtMostOne(e) /\ Configured(e) /\ ~Pending(e)
  BY <1>1, <1>2, <1>3, <1>4, <1>6
     DEF DriverOk, AtMostOne, Configured, Idle, NoList, NextOk, Loads, Pending, Rested,
         SameEnds, Aside, Sides
<1>10. \A t \in Sides : e.csr[t].sentstall = d.csr[t].sentstall /\ e.csr[t].pkt = NoPacket
  BY <1>1, <1>2, <1>3, <1>4, <1>6 DEF SameStalls
<1>11. \A t \in Sides : e.csr[t].sentstall => d.csr[t].sentstall
  BY <1>10, Zenon
<1>12. Serves(d, e)
  <2>1. e.port.pFunctionClient = d.port.pFunctionClient
    BY <1>1, <1>2, <1>3, <1>4, <1>6 DEF Aside, SameState
  <2> QED
    BY <1>1, <1>2, <1>3, <1>4, <1>6, <1>8, <1>9, <1>10, <1>11, <2>1
       DEF Serves, DriverOk, Idle, Aside, Sides
<1>13. Short(e)
  BY <1>2, <1>3, <1>4, <1>6 DEF Short, SmallFifo, Aside
<1> QED
  BY <1>1, <1>2, <1>3, <1>4, <1>6, <1>9, <1>12, <1>13 DEF Aside

-----------------------------------------------------------------------------
(* The requests that move IRPs *)

\* Nothing but the sides of endpoint 1, what lies in their FIFOs, the queue and what is
\* polled for bears upon the number of IRPs.
LEMMA SameCount ==
  ASSUME NEW d, NEW e, SameEnds(d, e)
  PROVE  /\ Idle(d) <=> Idle(e)
         /\ One(d) <=> One(e)
         /\ Rested(d) <=> Rested(e)
         /\ Layout(d) <=> Layout(e)
         /\ NoList(d) <=> NoList(e)
  BY DEF SameEnds, Idle, One, Sends1, Waits1, Called1, Spins1, Rested, Layout, NoList, Sides

\* BOT_RESET: whatever was outstanding, the disk waits for a command.
LEMMA BotResetFacts ==
  ASSUME NEW d, DriverOk(d), Rested(d), ~Pending(d), NEW e, e = BotReset(d)
  PROVE  /\ Serves(d, e) /\ Waits1(e) /\ Shape(e) /\ Aside(d, e)
<1> DEFINE a == CancelTransfer(d, "TxCsw")
           b == CancelTransfer(a, "TxData")
           c == CancelTransfer(b, "RxData")
           f == CancelTransfer(c, "RxCbw")
           g == Flush(f, "tx")
           h == Flush(g, "rx")
<1>0. {"TxCsw", "TxData", "RxData", "RxCbw"} \subseteq Irps
  BY DEF Irps, TxIrps, RxIrps
<1>1. /\ Shape(a) /\ Aside(d, a) /\ SameStalls(d, a) /\ SamePlaces(d, a)
      /\ NoList(a) /\ ~Pending(a) /\ a.queue = d.queue /\ a.spin = d.spin
      /\ \A t \in Sides : a.end[t].irp =
             IF t = Dir["TxCsw"] /\ d.end[t].irp = "TxCsw" THEN NoIrp ELSE d.end[t].irp
  BY <1>0, CancelTransferFacts DEF DriverOk, AtMostOne
<1> HIDE DEF a
<1>2. /\ Shape(b) /\ Aside(a, b) /\ SameStalls(a, b) /\ SamePlaces(a, b)
      /\ NoList(b) /\ ~Pending(b) /\ b.queue = a.queue /\ b.spin = a.spin
      /\ \A t \in Sides : b.end[t].irp =
             IF t = Dir["TxData"] /\ a.end[t].irp = "TxData" THEN NoIrp ELSE a.end[t].irp
  BY <1>0, <1>1, CancelTransferFacts
<1> HIDE DEF b
<1>3. /\ Shape(c) /\ Aside(b, c) /\ SameStalls(b, c) /\ SamePlaces(b, c)
      /\ NoList(c) /\ ~Pending(c) /\ c.queue = b.queue /\ c.spin = b.spin
      /\ \A t \in Sides : c.end[t].irp =
             IF t = Dir["RxData"] /\ b.end[t].irp = "RxData" THEN NoIrp ELSE b.end[t].irp
  BY <1>0, <1>2, CancelTransferFacts
<1> HIDE DEF c
<1>4. /\ Shape(f) /\ Aside(c, f) /\ SameStalls(c, f) /\ SamePlaces(c, f)
      /\ NoList(f) /\ ~Pending(f) /\ f.queue = c.queue /\ f.spin = c.spin
      /\ \A t \in Sides : f.end[t].irp =
             IF t = Dir["RxCbw"] /\ c.end[t].irp = "RxCbw" THEN NoIrp ELSE c.end[t].irp
  BY <1>0, <1>3, CancelTransferFacts
<1> HIDE DEF f
<1>5. d.end["tx"].irp \in TxIrps \cup {NoIrp} /\ d.end["rx"].irp \in RxIrps \cup {NoIrp}
  BY DEF DriverOk, AtMostOne, Idle, One, Sends1, Waits1, Called1, Spins1
<1>6. /\ Dir["TxCsw"] = "tx" /\ Dir["TxData"] = "tx" /\ Dir["RxData"] = "rx" /\ Dir["RxCbw"] = "rx"
  BY DEF Dir, Irps, TxIrps, RxIrps
<1>7. f.end["tx"].irp = NoIrp
  BY <1>1, <1>2, <1>3, <1>4, <1>5, <1>6 DEF TxIrps, Sides
<1>8. f.end["rx"].irp = NoIrp
  BY <1>1, <1>2, <1>3, <1>4, <1>5, <1>6 DEF RxIrps, Sides
<1>9. /\ Shape(g) /\ Aside(f, g) /\ SameEnds(f, g) /\ SameStalls(f, g)
      /\ \A t \in Sides : g.csr[t].pkt = IF t = "tx" THEN NoPacket ELSE f.csr[t].pkt
  BY <1>4, FlushFacts DEF Sides
<1> HIDE DEF g
<1>10. /\ Shape(h) /\ Aside(g, h) /\ SameEnds(g, h) /\ SameStalls(g, h)
       /\ \A t \in Sides : h.csr[t].pkt = IF t = "rx" THEN NoPacket ELSE g.csr[t].pkt
  BY <1>9, FlushFacts DEF Sides
<1> HIDE DEF h
<1>11. Idle(h) /\ NoList(h) /\ Loads(h) /\ h.csr["rx"].pkt = NoPacket
  BY <1>1, <1>2, <1>3, <1>4, <1>7, <1>8, <1>9, <1>10
     DEF Idle, Rested, NoList, SameEnds, Loads, Sides
<1>12. e = StartTransfer(h, "RxCbw")
  BY DEF BotReset, Restarted, FlushPipe, a, b, c, f, g, h
<1>13. /\ Shape(e) /\ Aside(h, e) /\ SameStalls(h, e) /\ SamePlaces(h, e)
       /\ One(e) /\ NoList(e) /\ ~Pending(e) /\ Loads(e)
       /\ e.end["tx"].irp = NoIrp /\ e.csr["rx"].pkt = NoPacket /\ Waits1(e)
  BY <1>0, <1>10, <1>11, <1>12, StartTransferFacts DEF RxIrps
<1>14. Aside(d, e)
  BY <1>1, <1>2, <1>3, <1>4, <1>9, <1>10, <1>13 DEF Aside
<1>15. SamePlaces(d, e)
  BY <1>1, <1>2, <1>3, <1>4, <1>9, <1>10, <1>13 DEF SamePlaces, SameEnds
<1>16. SameStalls(d, e)
  BY <1>1, <1>2, <1>3, <1>4, <1>9, <1>10, <1>13 DEF SameStalls
<1>17. \A t \in Sides : e.csr[t].sentstall => d.csr[t].sentstall
  BY <1>16, Zenon DEF SameStalls
<1>18. DriverOk(e)
  BY <1>13, <1>14, <1>15, LayoutKept DEF DriverOk, AtMostOne, Configured, Client, NextOk, Aside
<1> QED
  BY <1>13, <1>14, <1>17, <1>18 DEF Serves, Waits1, Aside

\* What does not touch endpoint 1 nor configures serves.
Calm(d, e) ==
  /\ Shape(e) /\ SameEnds(d, e) /\ e.intr = d.intr /\ e.msd = d.msd
  /\ \A t \in Sides : /\ e.csr[t].pkt = d.csr[t].pkt
                      /\ e.csr[t].sentstall = d.csr[t].sentstall
  /\ e.port.bUsbState \in {d.port.bUsbState, "ADDRESS"}
  /\ e.port.pFunctionClient = d.port.pFunctionClient
  /\ e.port.apConfigDescriptors = d.port.apConfigDescriptors

\* Halts that are kept leave the work of the transmit interrupt as it was.
Keeps(d, e) ==
  /\ Serves(d, e) /\ (NoTxWork(d) => NoTxWork(e))

\* What is calm keeps the invariant.
LEMMA CalmFacts ==
  ASSUME NEW d, DriverOk(d), Rested(d), NEW e, Calm(d, e)
  PROVE  Keeps(d, e)
<1>1. /\ Idle(d) <=> Idle(e)
      /\ One(d) <=> One(e)
      /\ Rested(d) <=> Rested(e)
      /\ Layout(d) <=> Layout(e)
      /\ NoList(d) <=> NoList(e)
  BY SameCount DEF Calm
<1>2. Client(e)
  <2>1. e.port.apConfigDescriptors => e.port.pFunctionClient
    BY Zenon DEF Calm, DriverOk, Client
  <2>2. ASSUME e.port.bUsbState = "CONFIGURED" PROVE e.port.pFunctionClient
    <3>1. d.port.bUsbState = "CONFIGURED"
      BY <2>2 DEF Calm
    <3> QED
      BY <3>1, Zenon DEF Calm, DriverOk, Client
  <2> QED
    BY <2>1, <2>2 DEF Client
<1>3. Configured(e)
  BY <1>1 DEF Calm, DriverOk, Configured
<1>4. AtMostOne(e)
  BY <1>1 DEF Calm, DriverOk, AtMostOne, NextOk, Loads, SameEnds, Sides
<1>5. \A t \in Sides : e.csr[t].sentstall => d.csr[t].sentstall
  BY Zenon DEF Calm
<1>6. Serves(d, e)
  BY <1>1, <1>2, <1>3, <1>4, <1>5 DEF Serves, DriverOk, Calm, Pending, SameEnds, Sides
<1>7. NoTxWork(d) => NoTxWork(e)
  <2>1. e.csr["tx"].sentstall = d.csr["tx"].sentstall /\ e.csr["tx"].pkt = d.csr["tx"].pkt
        /\ e.end["tx"].irp = d.end["tx"].irp
    BY DEF Calm, SameEnds, Sides
  <2> QED
    BY <2>1, Zenon DEF NoTxWork
<1> QED
  BY <1>6, <1>7 DEF Keeps

\* Calm steps, one after the other
LEMMA CalmSteps ==
  ASSUME NEW d, NEW e, NEW f, Calm(d, e), Calm(e, f)
  PROVE  Calm(d, f)
  BY DEF Calm, SameEnds

\* The IRP that the halt kept back is loaded.
LEMMA ClearHaltFacts ==
  ASSUME NEW d, DriverOk(d), Rested(d), NEW s \in Sides, NEW e, e = ClearHalt(d, s)
  PROVE  /\ Serves(d, e) /\ e.port = d.port /\ e.ep0 = d.ep0
         /\ e.csr["tx"].sentstall = d.csr["tx"].sentstall
         /\ d.end["tx"].irp = NoIrp /\ NoTxWork(d) => NoTxWork(e)
<1> DEFINE g == [d EXCEPT !.bIsHalted = FALSE]
           h == ProgramHalt(g, s, FALSE)
           i == h.end["tx"].irp
           n == h.irp[i].dwLength
<1>1. Shape(g) /\ Aside(d, g) /\ SameEnds(d, g) /\ g.csr = d.csr
  BY DEF DriverOk, Shape, Aside, SameEnds
<1> HIDE DEF g
<1>2. /\ Shape(h) /\ Aside(g, h) /\ SameEnds(g, h)
      /\ \A t \in Sides : /\ h.csr[t].pkt = g.csr[t].pkt
                          /\ h.csr[t].sentstall = g.csr[t].sentstall
  BY <1>1, ProgramHaltFacts, ZenonT(90)
<1>3. e = IF i = NoIrp THEN h ELSE StartTx(h, i, 0, n)
  BY DEF ClearHalt, g
<1> HIDE DEF h, n
<1>4. CASE i = NoIrp
  <2>1. e = h
    BY <1>3, <1>4
  <2>2. Calm(d, e)
    BY <1>1, <1>2, <2>1 DEF Calm, Aside, SameEnds
  <2>3. e.csr["tx"].sentstall = d.csr["tx"].sentstall
    BY <2>2 DEF Calm, Sides
  <2> QED
    BY <1>1, <1>2, <2>1, <2>2, <2>3, CalmFacts DEF Aside, Keeps
<1>5. CASE i # NoIrp
  <2>1. e = StartTx(h, i, 0, n)
    BY <1>3, <1>5
  <2>2. /\ Shape(e) /\ Aside(h, e) /\ SameStalls(h, e) /\ SamePlaces(h, e)
        /\ e.queue = h.queue /\ e.spin = h.spin
        /\ e.end["tx"].irp = i /\ e.end["rx"].irp = h.end["rx"].irp
        /\ \A t \in Sides : e.end[t].list = h.end[t].list
        /\ e.csr["rx"].pkt = h.csr["rx"].pkt
    BY <1>2, <2>1, StartTxFacts
  <2>3. d.end["tx"].irp = i /\ Sends1(d)
    BY <1>1, <1>2, <1>5
       DEF DriverOk, AtMostOne, SameEnds, Idle, One, Waits1, Called1, Spins1
  <2>4. Sends1(e)
    BY <1>1, <1>2, <2>2, <2>3 DEF Sends1, Rested, SameEnds
  <2>5. Aside(d, e) /\ SamePlaces(d, e)
    BY <1>1, <1>2, <2>2 DEF Aside, SamePlaces, SameEnds
  <2>6. AtMostOne(e)
    BY <1>1, <1>2, <1>5, <2>2, <2>4, <2>5
       DEF DriverOk, AtMostOne, One, NoList, NextOk, Loads, SameEnds, Aside
  <2>7. Configured(e) /\ Client(e)
    BY <2>4, <2>5, LayoutKept DEF DriverOk, Configured, Client, One, Aside
  <2>8. \A t \in Sides : e.csr[t].sentstall = d.csr[t].sentstall
    BY <1>1, <1>2, <2>2 DEF SameStalls
  <2>9. \A t \in Sides : e.csr[t].sentstall => d.csr[t].sentstall
    BY <2>8, Zenon
  <2>10. e.csr["rx"].pkt = d.csr["rx"].pkt /\ e.end["rx"].irp = NoIrp
    BY <1>1, <1>2, <2>2, <2>4 DEF Sends1, Sides
  <2>11. Serves(d, e)
    BY <1>5, <2>2, <2>3, <2>4, <2>5, <2>6, <2>7, <2>9, <2>10
       DEF Serves, DriverOk, Sends1, Rested, Aside, Pending
  <2> QED
    BY <1>5, <2>3, <2>5, <2>8, <2>11 DEF Aside, Sides
<1> QED
  BY <1>4, <1>5

\* SET_CONFIGURATION
LEMMA ConfigSelectedFacts ==
  ASSUME NEW d, DriverOk(d), Rested(d), NEW v, NEW e, e = ConfigSelected(d, v).d
  PROVE  /\ Keeps(d, e) /\ e.ep0 = d.ep0 /\ e.port.request = d.port.request
<1> DEFINE a == [d EXCEPT !.port.pCurrentConfig = v]
           b == BindConfig(a)
           ok == b.end["tx"].claimed /\ b.end["rx"].claimed
           none == [d EXCEPT !.port.pCurrentConfig = 0]
           found == d.port.apConfigDescriptors /\ v \in ConfigValues
           c == [b EXCEPT !.port.bConfigValue = v]
           f == [c EXCEPT !.msd.bIsReady = TRUE]
           g == StartTransfer(f, "RxCbw")
           h == ChangeState(g, "CONFIGURED")
<1>1. \/ ~found /\ e = none
      \/ found /\ ~ok /\ e = b
      \/ found /\ ok /\ e = h
  BY DEF ConfigSelected, MsdDeviceConfigSelected
<1>2. CASE ~found /\ e = none
  <2>1. Calm(d, e) /\ e.ep0 = d.ep0 /\ e.port.request = d.port.request
    BY <1>2 DEF DriverOk, Calm, Shape, SameEnds
  <2> QED
    BY <2>1, CalmFacts
<1>3. /\ Shape(a) /\ SameEnds(d, a) /\ a.csr = d.csr /\ a.msd = d.msd /\ a.intr = d.intr
      /\ a.ep0 = d.ep0 /\ SameState(d, a) /\ a.port.request = d.port.request
  BY DEF DriverOk, Shape, SameEnds, SameState
<1> HIDE DEF a
<1>4. /\ Shape(b) /\ Aside(a, b) /\ b.queue = a.queue /\ b.spin = a.spin
      /\ \A t \in Sides :
           /\ b.end[t].list = a.end[t].list
           /\ \/ b.end[t].irp = NoIrp /\ b.csr[t] = NewCsr
              \/ b.end[t].irp = a.end[t].irp /\ b.csr[t] = a.csr[t]
      /\ TotalSize >= 200 =>
           /\ Layout(b)
           /\ \A t \in Sides : b.end[t].irp = NoIrp /\ b.csr[t] = NewCsr
      /\ ok => TotalSize >= 200
  BY <1>3, BindConfigFacts
<1> HIDE DEF b
<1>5. NewCsr.pkt = NoPacket /\ NewCsr.sentstall = FALSE
  BY DEF NewCsr
<1>6. Idle(d) \/ Sends1(d) \/ Waits1(d)
  <2>1. \A i : <<i>> # <<>>
    OBVIOUS
  <2> QED
    BY <2>1 DEF DriverOk, AtMostOne, One, Called1, Spins1, Rested, RxIrps, NoIrp
<1>7. \A t \in Sides : b.csr[t].sentstall => d.csr[t].sentstall
  <2> SUFFICES ASSUME NEW t \in Sides, b.csr[t].sentstall PROVE d.csr[t].sentstall
    OBVIOUS
  <2>1. b.csr[t] # NewCsr
    BY <1>5
  <2> QED
    BY <1>3, <1>4, <2>1
<1>8. /\ \A t \in Sides : /\ d.end[t].irp = NoIrp => b.end[t].irp = NoIrp
                          /\ d.csr[t].pkt = NoPacket => b.csr[t].pkt = NoPacket
      /\ Pending(b) => Pending(d)
  BY <1>3, <1>4, <1>5 DEF SameEnds, Pending, Sides
<1>9. NoTxWork(d) => NoTxWork(b)
  <2>1. \/ b.csr["tx"] = NewCsr
        \/ b.csr["tx"] = d.csr["tx"] /\ b.end["tx"].irp = d.end["tx"].irp
    BY <1>3, <1>4 DEF SameEnds, Sides
  <2>2. b.csr["tx"] = NewCsr => b.csr["tx"].pkt = NoPacket
    BY <1>5
  <2> QED
    BY <2>1, <2>2, Zenon DEF NoTxWork
<1>10. CASE found /\ ~ok /\ e = b
  <2>1. d.port.bUsbState # "CONFIGURED"
    <3>1. TotalSize >= 200 => b.end["tx"].claimed /\ b.end["rx"].claimed
      BY <1>4 DEF Layout, Sides
    <3>2. ~(TotalSize >= 200)
      BY <1>10, <3>1
    <3> QED
      BY <3>2 DEF DriverOk, Configured
  <2>2. Idle(b) \/ Sends1(b) \/ Waits1(b)
    BY <1>3, <1>4, <1>6 DEF Idle, Sends1, Waits1, Rested, SameEnds, Sides
  <2>3. AtMostOne(b)
    BY <1>3, <1>4, <1>5, <2>2 DEF DriverOk, AtMostOne, One, NoList, NextOk, Loads, SameEnds, Aside, Sides
  <2>4. Configured(b)
    BY <1>3, <1>4, <2>1 DEF Configured, Aside, SameState
  <2>5. Client(b)
    <3>1. b.port.apConfigDescriptors => b.port.pFunctionClient
      BY <1>3, <1>4, Zenon DEF DriverOk, Client, Aside, SameState
    <3>2. b.port.bUsbState # "CONFIGURED"
      BY <1>3, <1>4, <2>1 DEF Aside, SameState
    <3> QED
      BY <3>1, <3>2 DEF Client
  <2>6. Serves(d, b)
    <3>1. b.port.pFunctionClient = d.port.pFunctionClient
      BY <1>3, <1>4 DEF Aside, SameState
    <3> QED
      BY <1>3, <1>4, <1>6, <1>7, <1>8, <2>3, <2>4, <2>5, <3>1
         DEF Serves, DriverOk, Rested, Aside, SameEnds, Sides
  <2> QED
    BY <1>3, <1>4, <1>9, <1>10, <2>6 DEF Keeps, Aside
<1>11. CASE found /\ ok /\ e = h
  <2>1. /\ TotalSize >= 200 /\ Layout(b)
        /\ \A t \in Sides : b.end[t].irp = NoIrp /\ b.csr[t] = NewCsr
    BY <1>4, <1>11
  <2>2. /\ Shape(c) /\ SameEnds(b, c) /\ c.csr = b.csr /\ c.intr = b.intr /\ c.ep0 = b.ep0
        /\ c.msd = b.msd /\ SameState(b, c) /\ c.port.request = b.port.request
    BY <1>4 DEF Shape, SameEnds, SameState
  <2> HIDE DEF c
  <2>3. /\ Shape(f) /\ SameEnds(c, f) /\ f.csr = c.csr /\ f.intr = c.intr /\ f.ep0 = c.ep0
        /\ f.port = c.port /\ f.msd.next = c.msd.next
    BY <2>2 DEF Shape, SameEnds
  <2> HIDE DEF f
  <2>4. Idle(f) /\ NoList(f) /\ NextOk(f) /\ Loads(f) /\ f.csr["rx"].pkt = NoPacket
    BY <1>3, <1>4, <1>5, <1>6, <2>1, <2>2, <2>3
       DEF DriverOk, AtMostOne, Idle, Rested, NoList, NextOk, Loads, SameEnds, Aside, Sides
  <2>5. "RxCbw" \in Irps /\ "RxCbw" \in RxIrps
    BY DEF Irps, RxIrps
  <2>6. /\ Shape(g) /\ Aside(f, g) /\ SameStalls(f, g) /\ SamePlaces(f, g)
        /\ One(g) /\ NoList(g) /\ ~Pending(g) /\ Loads(g)
        /\ g.end["tx"].irp = NoIrp /\ g.csr["rx"].pkt = NoPacket /\ Waits1(g)
    BY <2>3, <2>4, <2>5, StartTransferFacts
  <2> HIDE DEF g
  <2>7. /\ Shape(h) /\ SameEnds(g, h) /\ h.csr = g.csr /\ h.msd = g.msd /\ h.intr = g.intr
        /\ h.ep0 = g.ep0 /\ h.port.request = g.port.request
        /\ h.port.bUsbState = "CONFIGURED" /\ h.port.pFunctionClient = g.port.pFunctionClient
        /\ h.port.apConfigDescriptors = g.port.apConfigDescriptors
    BY <2>6 DEF Shape, ChangeState, SameEnds
  <2> HIDE DEF h
  <2>8. Layout(h) /\ One(h)
    <3>1. Layout(f)
      BY <2>1, <2>2, <2>3 DEF Layout, SameEnds
    <3>2. Layout(g)
      BY <2>6, <3>1, LayoutKept
    <3> QED
      BY <2>6, <2>7, <3>2, SameCount
  <2>9. AtMostOne(h)
    BY <2>3, <2>4, <2>6, <2>7 DEF AtMostOne, One, Sends1, Waits1, Called1, Spins1, Rested,
       NoList, NextOk, Loads, SameEnds, Aside
  <2>10. h.port.pFunctionClient = d.port.pFunctionClient /\ h.port.pFunctionClient
    <3>1. d.port.pFunctionClient
      BY <1>11, Zenon DEF DriverOk, Client
    <3>2. h.port.pFunctionClient = d.port.pFunctionClient
      BY <1>3, <1>4, <2>2, <2>3, <2>6, <2>7 DEF Aside, SameState
    <3> QED
      BY <3>1, <3>2, Zenon
  <2>11. Configured(h) /\ Client(h)
    BY <2>1, <2>8, <2>10 DEF Configured, Client
  <2>12. \A t \in Sides : h.csr[t].sentstall = FALSE
    BY <1>5, <2>1, <2>2, <2>3, <2>6, <2>7 DEF SameStalls
  <2>13. h.intr = d.intr /\ h.ep0 = d.ep0 /\ h.port.request = d.port.request
    BY <1>3, <1>4, <2>2, <2>3, <2>6, <2>7 DEF Aside
  <2>14. h.end = g.end /\ h.queue = g.queue /\ h.spin = g.spin
    BY <2>7 DEF SameEnds
  <2>15. Serves(d, h)
    <3>1. \A t \in Sides : ~h.csr[t].sentstall
      BY <2>12
    <3>2. h.port.pFunctionClient = d.port.pFunctionClient
      BY <2>10
    <3> QED
      BY <2>6, <2>7, <2>9, <2>11, <2>13, <2>14, <3>1, <3>2
         DEF Serves, DriverOk, Pending, Waits1, Rested
  <2>16. NoTxWork(h)
    BY <2>6, <2>14 DEF NoTxWork
  <2> QED
    BY <1>11, <2>13, <2>15, <2>16 DEF Keeps
<1> QED
  BY <1>1, <1>2, <1>10, <1>11

-----------------------------------------------------------------------------
(* The other requests *)

\* What a request does that moves no IRP.
Answers(d, e) == Calm(d, e) /\ e.ep0 = d.ep0 /\ e.port.request = d.port.request

\* Answers of several steps
LEMMA AnswersSteps ==
  ASSUME NEW d, NEW e, NEW f, Answers(d, e), Answers(e, f)
  PROVE  Answers(d, f)
  BY DEF Answers, Calm, SameEnds

\* To do nothing is an answer.
LEMMA AnswersNothing == ASSUME NEW d, Shape(d) PROVE Answers(d, d)
  BY DEF Answers, Calm, SameEnds

\* An answer is prepared.
LEMMA SendsFacts ==
  ASSUME NEW d, Shape(d), NEW what, NEW n, NEW len
  PROVE  Answers(d, Sends(d, what, n, len))
  BY DEF Sends, Shape, Answers, Calm, SameEnds, Sides

\* No answer is prepared; its place is kept.
LEMMA SendsNothingFacts ==
  ASSUME NEW d, Shape(d)
  PROVE  /\ Answers(d, SendsNothing(d))
         /\ SendsNothing(d).port.wSetupDataSize = 0
         /\ SendsNothing(d).port.wSetupDataIndex = d.port.wSetupDataIndex
  BY DEF SendsNothing, Shape, Answers, Calm, SameEnds, Sides

\* The wakeup flag, and the feature of an endpoint
LEMMA WakeupFacts ==
  ASSUME NEW d, Shape(d), NEW e,
         \/ e = [d EXCEPT !.port.bCanWakeup = FALSE]
         \/ e = [d EXCEPT !.port.bCanWakeup = TRUE]
  PROVE  /\ Answers(d, e) /\ e.port.wSetupDataSize = d.port.wSetupDataSize
         /\ e.port.wSetupDataIndex = d.port.wSetupDataIndex
<1>1. CASE e = [d EXCEPT !.port.bCanWakeup = FALSE]
  BY <1>1 DEF Shape, Answers, Calm, SameEnds, Sides
<1>2. CASE e = [d EXCEPT !.port.bCanWakeup = TRUE]
  BY <1>2 DEF Shape, Answers, Calm, SameEnds, Sides
<1> QED
  BY <1>1, <1>2

\* SET_FEATURE of an endpoint
LEMMA HaltSetFacts ==
  ASSUME NEW d, Shape(d), NEW s \in Sides, NEW e,
         e = ProgramHalt([d EXCEPT !.bIsHalted = TRUE], s, TRUE)
  PROVE  Answers(d, e)
<1> DEFINE g == [d EXCEPT !.bIsHalted = TRUE]
<1>1. Shape(g) /\ Aside(d, g) /\ SameEnds(d, g) /\ g.csr = d.csr
  BY DEF Shape, Aside, SameEnds
<1>2. e = ProgramHalt(g, s, TRUE)
  OBVIOUS
<1> HIDE DEF g
<1>3. /\ Shape(e) /\ Aside(g, e) /\ SameEnds(g, e)
      /\ \A t \in Sides : /\ e.csr[t].pkt = g.csr[t].pkt
                          /\ e.csr[t].sentstall = g.csr[t].sentstall
  BY <1>1, <1>2 DEF ProgramHalt, Shape, Aside, SameEnds, Sides
<1> QED
  BY <1>1, <1>3 DEF Answers, Calm, Aside, SameEnds

\* SET_ADDRESS, and the configuration 0
LEMMA AddressFacts ==
  ASSUME NEW d, Shape(d), NEW n
  PROVE  /\ Answers(d, ChangeState([d EXCEPT !.port.bSetAddress = TRUE, !.port.bFuncAddr = n],
                                   "ADDRESS"))
         /\ Answers(d, ChangeState([d EXCEPT !.port.bConfigValue = 0], "ADDRESS"))
<1>1. Answers(d, ChangeState([d EXCEPT !.port.bSetAddress = TRUE, !.port.bFuncAddr = n],
                             "ADDRESS"))
  <2> DEFINE b == [d EXCEPT !.port.bSetAddress = TRUE]
             a == [b EXCEPT !.port.bFuncAddr = n]
             e == ChangeState(a, "ADDRESS")
  <2>0. Answers(d, b)
    BY DEF Shape, Answers, Calm, SameEnds, Sides
  <2> HIDE DEF b
  <2>1. Answers(d, a)
    <3>1. Answers(b, a)
      BY <2>0 DEF Shape, Answers, Calm, SameEnds, Sides
    <3> QED
      BY <2>0, <3>1, AnswersSteps
  <2> HIDE DEF a
  <2>2. Answers(a, e)
    BY <2>1 DEF ChangeState, Shape, Answers, Calm, SameEnds, Sides
  <2> HIDE DEF e
  <2>3. Answers(d, e)
    BY <2>1, <2>2, AnswersSteps
  <2> QED
    BY <2>3 DEF a, b, e
<1>2. Answers(d, ChangeState([d EXCEPT !.port.bConfigValue = 0], "ADDRESS"))
  <2> DEFINE a == [d EXCEPT !.port.bConfigValue = 0]
             e == ChangeState(a, "ADDRESS")
  <2>1. Answers(d, a)
    BY DEF Shape, Answers, Calm, SameEnds, Sides
  <2> HIDE DEF a
  <2>2. Answers(a, e)
    BY <2>1 DEF ChangeState, Shape, Answers, Calm, SameEnds, Sides
  <2> HIDE DEF e
  <2>3. Answers(d, e)
    BY <2>1, <2>2, AnswersSteps
  <2> QED
    BY <2>3 DEF a, e
<1> QED
  BY <1>1, <1>2

\* What ParseSetup makes of a request r, in a driver state p.d: whatever it is, the driver
\* serves, and endpoint 0 is left to the response.
LEMMA ParsedFacts ==
  ASSUME NEW d, DriverOk(d), Rested(d), NEW r, NEW p, p = ParseSetup(d, r)
  PROVE  /\ Serves(d, p.d) /\ p.d.ep0 = d.ep0 /\ p.d.port.request = d.port.request
         /\ r.op # "CLEAR_FEATURE" \/ d.csr["tx"].sentstall => (NoTxWork(d) => NoTxWork(p.d))
         /\ r.op = "CLEAR_FEATURE" /\ Short(d) => Short(p.d)
         /\ r.op = "BOT_RESET" => p = NotOurs(d)
<1> DEFINE s == SendsNothing(d)
<1>0. Shape(d)
  BY DEF DriverOk
<1>1. Answers(d, d)
  BY <1>0, AnswersNothing
<1>2. /\ Answers(d, s) /\ s.port.wSetupDataSize = 0
      /\ s.port.wSetupDataIndex = d.port.wSetupDataIndex
  BY <1>0, SendsNothingFacts
<1>3. DriverOk(s) /\ Rested(s) /\ Shape(s)
  BY <1>2, CalmFacts DEF Answers, Keeps, Serves, DriverOk
<1>4. ASSUME Answers(d, p.d), r.op # "BOT_RESET",
             r.op = "CLEAR_FEATURE" => \/ p.d = d
                                       \/ /\ p.d.port.wSetupDataSize = 0
                                          /\ p.d.port.wSetupDataIndex = d.port.wSetupDataIndex
      PROVE  /\ Serves(d, p.d) /\ p.d.ep0 = d.ep0 /\ p.d.port.request = d.port.request
             /\ NoTxWork(d) => NoTxWork(p.d)
             /\ r.op = "CLEAR_FEATURE" /\ Short(d) => Short(p.d)
  BY <1>4, CalmFacts DEF Answers, Keeps, Short, SmallFifo
<1>5. ASSUME r.op # "BOT_RESET", r.op # "CLEAR_FEATURE", Answers(d, p.d)
      PROVE  /\ Serves(d, p.d) /\ p.d.ep0 = d.ep0 /\ p.d.port.request = d.port.request
             /\ NoTxWork(d) => NoTxWork(p.d)
  BY <1>4, <1>5
<1> HIDE DEF s
<1>6. CASE r.op = "GET_STATUS"
  <2>1. p = GetStatus(d, r)
    BY <1>6 DEF ParseSetup
  <2>2. Answers(d, p.d)
    BY <1>0, <1>1, <2>1, SendsFacts DEF GetStatus, NotOurs, Ok, Stalled
  <2> QED
    BY <1>5, <1>6, <2>2
<1>7. CASE r.op = "CLEAR_FEATURE"
  <2>1. p = ClearFeature(d, r)
    BY <1>7 DEF ParseSetup
  <2>2. CASE p.d = d \/ p.d = s
    BY <1>1, <1>2, <1>4, <1>7, <2>2
  <2>3. CASE p.d = [s EXCEPT !.port.bCanWakeup = FALSE]
    <3>1. /\ Answers(s, p.d) /\ p.d.port.wSetupDataSize = s.port.wSetupDataSize
          /\ p.d.port.wSetupDataIndex = s.port.wSetupDataIndex
      BY <1>3, <2>3, WakeupFacts
    <3>2. Answers(d, p.d)
      BY <1>2, <3>1, AnswersSteps
    <3> QED
      BY <1>2, <1>4, <1>7, <3>1, <3>2
  <2>4. CASE r.wIndex \in Sides /\ p.d = ClearHalt(s, r.wIndex)
    <3> DEFINE w == r.wIndex
               e == p.d
    <3>0. w \in Sides /\ e = ClearHalt(s, w)
      BY <2>4
    <3>1. /\ Serves(s, e) /\ e.port = s.port /\ e.ep0 = s.ep0
          /\ e.csr["tx"].sentstall = s.csr["tx"].sentstall
      <4> HIDE DEF w, e
      <4> QED
        BY <1>3, <3>0, ClearHaltFacts
    <3>2. Serves(d, s)
      BY <1>2, CalmFacts DEF Answers, Keeps
    <3>3. Serves(d, e)
      BY <3>1, <3>2, ServesSteps
    <3>4. d.csr["tx"].sentstall => NoTxWork(e)
      <4>1. e.csr["tx"].sentstall = d.csr["tx"].sentstall
        BY <1>2, <3>1 DEF Answers, Calm, Sides
      <4> QED
        BY <4>1, Zenon DEF NoTxWork
    <3>5. Short(d) => Short(e)
      BY <1>2, <3>1 DEF Short, SmallFifo
    <3> QED
      BY <1>2, <1>7, <3>1, <3>3, <3>4, <3>5 DEF Answers
  <2> QED
    BY <2>1, <2>2, <2>3, <2>4 DEF ClearFeature, NotOurs, Ok, Stalled, IsEnd, s
<1>8. CASE r.op = "SET_FEATURE"
  <2>1. p = SetFeature(d, r)
    BY <1>8 DEF ParseSetup
  <2>2. \/ p.d = d \/ p.d = s
        \/ p.d = [s EXCEPT !.port.bCanWakeup = TRUE]
        \/ r.wIndex \in Sides /\ p.d = ProgramHalt([s EXCEPT !.bIsHalted = TRUE], r.wIndex, TRUE)
    <3> DEFINE h == ProgramHalt([s EXCEPT !.bIsHalted = TRUE], r.wIndex, TRUE)
               w == [s EXCEPT !.port.bCanWakeup = TRUE]
    <3>1. \/ p = NotOurs(d) \/ p = Ok(w) \/ p = Stalled(s) \/ p = Ok(s)
          \/ r.wIndex \in Sides /\ p = Ok(h)
      BY <2>1, Zenon DEF SetFeature, IsEnd, s
    <3> HIDE DEF h, w
    <3>2. \/ p.d = d \/ p.d = w \/ p.d = s
          \/ r.wIndex \in Sides /\ p.d = h
      BY <3>1 DEF NotOurs, Ok, Stalled
    <3> QED
      BY <3>2, Zenon DEF h, w
  <2>3. p.d = d \/ p.d = s \/ Answers(s, p.d)
    <3>1. CASE p.d = [s EXCEPT !.port.bCanWakeup = TRUE]
      BY <1>3, <3>1, WakeupFacts
    <3>2. ASSUME r.wIndex \in Sides,
                 p.d = ProgramHalt([s EXCEPT !.bIsHalted = TRUE], r.wIndex, TRUE)
          PROVE  Answers(s, p.d)
      BY <1>3, <3>2, HaltSetFacts, Zenon
    <3> QED
      BY <2>2, <3>1, <3>2
  <2>4. Answers(d, p.d)
    BY <1>1, <1>2, <2>3, AnswersSteps
  <2> QED
    BY <1>5, <1>8, <2>4
<1>9. CASE r.op = "SET_ADDRESS"
  <2>1. p = SetAddress(d, r)
    BY <1>9 DEF ParseSetup
  <2>2. p.d = s \/ Answers(s, p.d)
    <3> DEFINE a == [s EXCEPT !.port.bSetAddress = TRUE, !.port.bFuncAddr = r.wValue]
    <3>1. p.d = s \/ p.d = ChangeState(a, "ADDRESS")
      BY <2>1 DEF SetAddress, Ok, Stalled, s
    <3>2. Answers(s, ChangeState(a, "ADDRESS"))
      BY <1>3, AddressFacts
    <3> QED
      BY <3>1, <3>2
  <2>3. Answers(d, p.d)
    BY <1>2, <2>2, AnswersSteps
  <2> QED
    BY <1>5, <1>9, <2>3
<1>10. CASE r.op = "GET_DESCRIPTOR"
  <2>1. p = GetDescriptorRequest(d, r)
    BY <1>10 DEF ParseSetup
  <2>2. Answers(d, p.d)
    <3>1. p = Stalled(d) \/ \E what, len : p = Ok(Sends(d, what, 0, len))
      BY <2>1, Zenon DEF GetDescriptorRequest
    <3> QED
      BY <1>0, <1>1, <3>1, SendsFacts DEF Ok, Stalled
  <2> QED
    BY <1>5, <1>10, <2>2
<1>11. CASE r.op = "GET_CONFIGURATION"
  <2>1. p = GetConfiguration(d)
    BY <1>11 DEF ParseSetup
  <2>2. Answers(d, p.d)
    BY <1>0, <2>1, SendsFacts DEF GetConfiguration, Ok
  <2> QED
    BY <1>5, <1>11, <2>2
<1>12. CASE r.op = "SET_CONFIGURATION"
  <2>1. p = SetConfiguration(d, r)
    BY <1>12 DEF ParseSetup
  <2>2. \/ p.d = s
        \/ p.d = ChangeState([s EXCEPT !.port.bConfigValue = 0], "ADDRESS")
        \/ p.d = ConfigSelected(s, r.wValue).d
    BY <2>1 DEF SetConfiguration, Ok, Stalled, s
  <2>3. CASE p.d = s \/ p.d = ChangeState([s EXCEPT !.port.bConfigValue = 0], "ADDRESS")
    <3>1. p.d = s \/ Answers(s, p.d)
      BY <1>3, <2>3, AddressFacts
    <3>2. Answers(d, p.d)
      BY <1>2, <3>1, AnswersSteps
    <3> QED
      BY <1>5, <1>12, <3>2
  <2>4. CASE p.d = ConfigSelected(s, r.wValue).d
    <3>1. Keeps(s, p.d) /\ p.d.ep0 = s.ep0 /\ p.d.port.request = s.port.request
      BY <1>3, <2>4, ConfigSelectedFacts
    <3>2. Keeps(d, s)
      BY <1>2, CalmFacts DEF Answers
    <3> QED
      BY <1>2, <1>12, <3>1, <3>2, ServesSteps DEF Keeps, Answers
  <2> QED
    BY <2>2, <2>3, <2>4
<1>13. CASE r.op = "GET_INTERFACE"
  <2>1. p = GetInterface(d)
    BY <1>13 DEF ParseSetup
  <2>2. Answers(d, p.d)
    BY <1>2, <2>1 DEF GetInterface, NotOurs, Stalled, s
  <2> QED
    BY <1>5, <1>13, <2>2
<1>14. CASE r.op \notin {"GET_STATUS", "CLEAR_FEATURE", "SET_FEATURE", "SET_ADDRESS",
                         "GET_DESCRIPTOR", "GET_CONFIGURATION", "SET_CONFIGURATION",
                         "GET_INTERFACE"}
  <2>1. p = NotOurs(d)
    BY <1>14 DEF ParseSetup
  <2>2. p.d = d
    BY <2>1 DEF NotOurs
  <2>3. Serves(d, d)
    BY <1>1, CalmFacts DEF Answers, Keeps
  <2> QED
    BY <2>1, <2>2, <2>3
<1> QED
  BY <1>6, <1>7, <1>8, <1>9, <1>10, <1>11, <1>12, <1>13, <1>14

-----------------------------------------------------------------------------
(* Responses *)

\* The smaller of two numbers
LEMMA LeastFacts ==
  ASSUME NEW a \in Int, NEW b \in Int
  PROVE  Least(a, b) = IF a <= b THEN a ELSE b
<1>1. Least(a, b) = CHOOSE x \in {a, b} : \A y \in {a, b} : x <= y
  BY DEF Least, Min
<1>2. \E x \in {a, b} : \A y \in {a, b} : x <= y
  OBVIOUS
<1>3. Least(a, b) \in {a, b} /\ \A y \in {a, b} : Least(a, b) <= y
  BY <1>1, <1>2
<1> QED
  BY <1>3

\* What endpoint 0 says, while the request stays in its FIFO.
Speaks(d, e) ==
  Calm(d, e) /\ e.ep0.rx = d.ep0.rx /\ e.port.request = d.port.request
SameData(d, e) ==
  /\ e.port.wSetupDataIndex = d.port.wSetupDataIndex
  /\ e.port.wSetupDataSize = d.port.wSetupDataSize

\* What is said in several steps
LEMMA SpeaksSteps ==
  ASSUME NEW d, NEW e, NEW f, Speaks(d, e), Speaks(e, f)
  PROVE  Speaks(d, f)
  BY DEF Speaks, Calm, SameEnds

\* A packet is loaded; a flag of endpoint 0 is set; the place moves; nothing is left to say.
LEMMA Load0Facts ==
  ASSUME NEW d, Shape(d), NEW at, NEW n, NEW e, e = Load0(d, at, n)
  PROVE  Shape(e) /\ Speaks(d, e) /\ SameData(d, e)
  BY DEF Load0, Shape, Speaks, Calm, SameEnds, SameData, Sides
\* A flag of CSR0
LEMMA Flag0Facts ==
  ASSUME NEW d, Shape(d), NEW e,
         e = [d EXCEPT !.ep0.dataend = TRUE] \/ e = [d EXCEPT !.ep0.sendstall = TRUE]
  PROVE  Shape(e) /\ Speaks(d, e) /\ SameData(d, e)
<1>1. CASE e = [d EXCEPT !.ep0.dataend = TRUE]
  BY <1>1 DEF Shape, Speaks, Calm, SameEnds, SameData, Sides
<1>2. CASE e = [d EXCEPT !.ep0.sendstall = TRUE]
  BY <1>2 DEF Shape, Speaks, Calm, SameEnds, SameData, Sides
<1> QED
  BY <1>1, <1>2
\* What was said so far
LEMMA IndexFacts ==
  ASSUME NEW d, Shape(d), NEW n, NEW e, e = [d EXCEPT !.port.wSetupDataIndex = n]
  PROVE  Shape(e) /\ Speaks(d, e)
  BY DEF Shape, Speaks, Calm, SameEnds, Sides
\* Nothing is left to be said.
LEMMA NothingToSayFacts ==
  ASSUME NEW d, Shape(d), NEW e, e = NoSetupData(d)
  PROVE  Shape(e) /\ Speaks(d, e) /\ Short(e)
  BY NoSetupDataFacts DEF Speaks, Calm, Short, SmallFifo, SameState, SameEnds

\* The request is taken out of the FIFO.
LEMMA AckedFacts ==
  ASSUME NEW d, Shape(d)
  PROVE  /\ Calm(d, Acked(d)) /\ Acked(d).ep0.rx = NoRequest
         /\ Acked(d).port = d.port
<1> DEFINE b == [d EXCEPT !.ep0.rx = NoRequest]
           e == [b EXCEPT !.ep0.setupend = FALSE]
<1>1. Calm(d, b) /\ b.ep0.rx = NoRequest /\ b.port = d.port
  BY DEF Shape, Calm, SameEnds, Sides
<1> HIDE DEF b
<1>2. Calm(b, e) /\ e.ep0.rx = NoRequest /\ e.port = b.port
  BY <1>1 DEF Shape, Calm, SameEnds, Sides
<1> HIDE DEF e
<1>3. Acked(d) = e
  BY DEF Acked, b, e
<1> QED
  BY <1>1, <1>2, <1>3, CalmSteps

\* The end of the data stage
LEMMA End0Facts ==
  ASSUME NEW d, Shape(d)
  PROVE  Speaks(d, End0(d)) /\ SameData(d, End0(d))
<1> DEFINE b == [d EXCEPT !.ep0.dataend = TRUE]
           e == [b EXCEPT !.port.bEnd0Status = TRUE]
<1>1. Shape(b) /\ Speaks(d, b) /\ SameData(d, b)
  BY Flag0Facts
<1> HIDE DEF b
<1>2. Speaks(b, e) /\ SameData(b, e)
  BY <1>1 DEF Shape, Speaks, Calm, SameEnds, SameData, Sides
<1> HIDE DEF e
<1>3. End0(d) = e
  BY DEF End0, b, e
<1> QED
  BY <1>1, <1>2, <1>3, SpeaksSteps DEF SameData

\* What answers a request, or refuses it.
Responds(d, e) ==
  Calm(d, e) /\ e.ep0.rx = NoRequest /\ e.port.request = d.port.request

\* A response clears the packet that it answers.
LEMMA ResponseFacts ==
  ASSUME NEW d, Shape(d), NEW e,
         e = DefaultEndResponse(d, TRUE) \/ e = DefaultEndResponse(d, FALSE)
  PROVE  Responds(d, e) /\ (Short(d) => Short(e))
<1> DEFINE a == Acked(d)
           n == Least(SmallFifo, d.port.wSetupDataSize)
           l == Load0(a, 0, n)
           t == [l EXCEPT !.port.wSetupDataIndex = n]
<1>1. \/ e = [a EXCEPT !.ep0.sendstall = TRUE]
      \/ e = End0(a)
      \/ n # 0 /\ n = d.port.wSetupDataSize /\ e = NoSetupData(End0(t))
      \/ n # 0 /\ n # d.port.wSetupDataSize /\ e = t
  BY Zenon DEF DefaultEndResponse
<1>2. Calm(d, a) /\ a.ep0.rx = NoRequest /\ a.port = d.port /\ Shape(a)
  BY AckedFacts DEF Calm
<1>3. Short(d) => n = d.port.wSetupDataSize
  BY LeastFacts DEF Short, SmallFifo
<1>4. Short(d) => Short(a)
  BY <1>2 DEF Short
<1> HIDE DEF a, n
<1>5. Speaks(a, l) /\ Shape(l)
  BY <1>2, Load0Facts
<1> HIDE DEF l
<1>6. Speaks(a, t) /\ Shape(t)
  BY <1>5, IndexFacts, SpeaksSteps
<1> HIDE DEF t
<1>7. ASSUME Speaks(a, e) PROVE Responds(d, e)
  BY <1>2, <1>7, CalmSteps DEF Responds, Speaks
<1>8. CASE e = [a EXCEPT !.ep0.sendstall = TRUE]
  <2>1. Speaks(a, e) /\ SameData(a, e)
    BY <1>2, <1>8, Flag0Facts
  <2> QED
    BY <1>4, <1>7, <2>1 DEF SameData, Short
<1>9. CASE e = End0(a)
  <2>1. Speaks(a, e) /\ SameData(a, e)
    BY <1>2, <1>9, End0Facts
  <2> QED
    BY <1>4, <1>7, <2>1 DEF SameData, Short
<1>10. CASE e = NoSetupData(End0(t))
  <2> DEFINE u == End0(t)
  <2>1. Speaks(t, u) /\ Shape(u)
    BY <1>6, End0Facts DEF Speaks, Calm
  <2> HIDE DEF u
  <2>2. Speaks(u, e) /\ Short(e)
    BY <1>10, <2>1, NothingToSayFacts DEF u
  <2>3. Speaks(a, e)
    BY <1>6, <2>1, <2>2, SpeaksSteps
  <2> QED
    BY <1>7, <2>2, <2>3
<1>11. CASE n # d.port.wSetupDataSize /\ e = t
  BY <1>3, <1>6, <1>7, <1>11
<1> QED
  BY <1>1, <1>8, <1>9, <1>10, <1>11

\* The next packet of an answer
LEMMA Transmit0Facts ==
  ASSUME NEW d, Shape(d), NEW e, e = Transmit0(d)
  PROVE  Speaks(d, e) /\ (Short(d) => Short(e))
<1> DEFINE at == d.port.wSetupDataIndex
           size == d.port.wSetupDataSize
           n == Least(SmallFifo, size - at)
           l == Load0(d, at, n)
           t == [l EXCEPT !.port.wSetupDataIndex = at + n]
           u == [t EXCEPT !.ep0.dataend = TRUE]
<1>1. \/ e = NoSetupData(d)
      \/ at + n >= size /\ e = NoSetupData(u)
      \/ ~(at + n >= size) /\ e = t
  BY DEF Transmit0
<1>2. Short(d) => at + n >= size
  BY LeastFacts DEF Short, SmallFifo
<1> HIDE DEF at, size, n
<1>3. Speaks(d, l) /\ Shape(l)
  BY Load0Facts
<1> HIDE DEF l
<1>4. Speaks(d, t) /\ Shape(t)
  BY <1>3, IndexFacts, SpeaksSteps
<1> HIDE DEF t
<1>5. Speaks(d, u) /\ Shape(u)
  BY <1>4, Flag0Facts, SpeaksSteps
<1> HIDE DEF u
<1>6. CASE e = NoSetupData(d)
  BY <1>6, NothingToSayFacts
<1>7. CASE e = NoSetupData(u)
  BY <1>5, <1>7, NothingToSayFacts, SpeaksSteps
<1> QED
  BY <1>1, <1>2, <1>4, <1>6, <1>7

-----------------------------------------------------------------------------
(* The interrupt of endpoint 0 *)

\* A request is answered, stalled, or left to the client.
LEMMA ParsedHow ==
  ASSUME NEW d, NEW r
  PROVE  ParseSetup(d, r).how \in {"ok", "stalled", "client"}
<1> DEFINE p == ParseSetup(d, r)
           Fair(x) == \E y : x = Ok(y) \/ x = Stalled(y) \/ x = NotOurs(y)
<1>1. ASSUME NEW x, Fair(x) PROVE x.how \in {"ok", "stalled", "client"}
  BY <1>1 DEF Ok, Stalled, NotOurs
<1>2. Fair(GetStatus(d, r)) /\ Fair(SetFeature(d, r)) /\ Fair(SetAddress(d, r))
  BY Zenon DEF GetStatus, SetFeature, SetAddress
<1>3. Fair(ClearFeature(d, r)) /\ Fair(GetDescriptorRequest(d, r))
  BY Zenon DEF ClearFeature, GetDescriptorRequest
<1>4. Fair(GetConfiguration(d)) /\ Fair(GetInterface(d)) /\ Fair(NotOurs(d))
  BY Zenon DEF GetConfiguration, GetInterface
<1>5. SetConfiguration(d, r).how \in {"ok", "stalled", "client"}
  BY DEF SetConfiguration, Ok, Stalled
<1>6. \/ Fair(p)
      \/ p = SetConfiguration(d, r)
  <2> HIDE DEF Fair
  <2> QED
    BY <1>2, <1>3, <1>4, Zenon DEF ParseSetup
<1> HIDE DEF p, Fair
<1>7. p.how \in {"ok", "stalled", "client"}
  BY <1>1, <1>5, <1>6
<1> QED
  BY <1>7 DEF p

\* The requests that move IRPs of a pipe that is in use
Late == {"BOT_RESET", "CLEAR_FEATURE"}

\* The requests of the client
LEMMA MsdDeviceRequestFacts ==
  ASSUME NEW d, DriverOk(d), Rested(d), NEW r, r.op = "BOT_RESET" => ~Pending(d),
         NEW e, e = MsdDeviceRequest(d, r)
  PROVE  /\ Keeps(d, e) /\ e.ep0.rx = NoRequest /\ e.port.request = d.port.request
         /\ r.op \in Late /\ Short(d) => Short(e)
<1>0. Shape(d)
  BY DEF DriverOk
<1>1. CASE r.op = "BOT_RESET"
  <2> DEFINE x == BotReset(d)
             y == SendsNothing(x)
  <2>1. e = DefaultEndResponse(y, FALSE)
    BY <1>1 DEF MsdDeviceRequest
  <2>2. Serves(d, x) /\ Waits1(x) /\ Shape(x) /\ Aside(d, x)
    BY <1>1, BotResetFacts
  <2> HIDE DEF x
  <2>3. /\ Answers(x, y) /\ y.port.wSetupDataSize = 0
        /\ y.port.wSetupDataIndex = x.port.wSetupDataIndex
    BY <2>2, SendsNothingFacts
  <2> HIDE DEF y
  <2>4. Responds(y, e) /\ (Short(y) => Short(e))
    BY <2>1, <2>3, ResponseFacts DEF Answers, Calm
  <2>5. Keeps(x, y) /\ DriverOk(y) /\ Rested(y)
    BY <2>2, <2>3, CalmFacts DEF Answers, Keeps, Serves
  <2>6. Keeps(y, e)
    BY <2>4, <2>5, CalmFacts DEF Responds
  <2>7. NoTxWork(x)
    BY <2>2 DEF NoTxWork, Waits1
  <2>8. Keeps(d, e)
    BY <2>2, <2>5, <2>6, <2>7, ServesSteps DEF Keeps
  <2>9. Short(d) => Short(y)
    BY <2>2, <2>3 DEF Short, Aside, SmallFifo
  <2> QED
    BY <2>2, <2>3, <2>4, <2>8, <2>9 DEF Responds, Answers, Aside
<1>2. CASE r.op \in {"GET_INTERFACE", "GET_MAXLUN"}
  <2> DEFINE y == Sends(d, "byte", 0, 1)
  <2>1. e = DefaultEndResponse(y, FALSE)
    BY <1>2 DEF MsdDeviceRequest
  <2>2. Answers(d, y)
    BY <1>0, SendsFacts
  <2> HIDE DEF y
  <2>3. Responds(y, e)
    BY <2>1, <2>2, ResponseFacts DEF Answers, Calm
  <2>4. Calm(d, e) /\ e.ep0.rx = NoRequest /\ e.port.request = d.port.request
    BY <2>2, <2>3, CalmSteps DEF Answers, Responds
  <2> QED
    BY <1>2, <2>4, CalmFacts DEF Late
<1>3. CASE r.op \notin {"GET_INTERFACE", "GET_MAXLUN", "BOT_RESET"}
  <2>1. e = DefaultEndResponse(d, TRUE)
    BY <1>3 DEF MsdDeviceRequest
  <2>2. Responds(d, e) /\ (Short(d) => Short(e))
    BY <1>0, <2>1, ResponseFacts
  <2> QED
    BY <2>2, CalmFacts DEF Responds
<1> QED
  BY <1>1, <1>2, <1>3

\* A request that is whole
LEMMA ReceivedFacts ==
  ASSUME NEW d, DriverOk(d), Rested(d), d.port.request.op = "BOT_RESET" => ~Pending(d),
         NEW e, e = Received(d)
  PROVE  /\ Serves(d, e) /\ e.ep0.rx = NoRequest /\ e.port.request = d.port.request
         /\ d.port.request.op # "CLEAR_FEATURE" \/ d.csr["tx"].sentstall =>
              (NoTxWork(d) => NoTxWork(e))
         /\ d.port.request.op \in Late /\ d.port.wSetupDataIndex \in 0 .. SmallFifo => Short(e)
<1> DEFINE r == d.port.request
           a == [d EXCEPT !.port.wSetupDataSize = d.port.wSetupDataIndex]
           b == [a EXCEPT !.port.wSetupDataIndex = 0]
           s == [b EXCEPT !.port.pSetupData = Content("request", 0)]
           p == ParseSetup(s, r)
           f == p.d
           g == NoSetupData(f)
<1>0. Shape(d)
  BY DEF DriverOk
<1>1. /\ Shape(a) /\ Answers(d, a) /\ a.port.wSetupDataSize = d.port.wSetupDataIndex
  BY <1>0 DEF Shape, Answers, Calm, SameEnds, Sides
<1>2. \/ p.how = "ok" /\ e = DefaultEndResponse(f, FALSE)
      \/ p.how = "stalled" /\ e = DefaultEndResponse(g, TRUE)
      \/ p.how = "client" /\ e = MsdDeviceRequest(f, r)
  <2>1. [d EXCEPT !.port.wSetupDataSize = d.port.wSetupDataIndex, !.port.wSetupDataIndex = 0] = b
    OBVIOUS
  <2>2. p.how \in {"ok", "stalled", "client"}
    BY ParsedHow
  <2> QED
    BY <2>1, <2>2 DEF Received
<1> HIDE DEF a
<1>3. /\ Shape(b) /\ Answers(a, b) /\ b.port.wSetupDataSize = a.port.wSetupDataSize
      /\ b.port.wSetupDataIndex = 0
  BY <1>1 DEF Shape, Answers, Calm, SameEnds, Sides
<1> HIDE DEF b
<1>4. /\ Shape(s) /\ Answers(b, s) /\ s.port.wSetupDataSize = b.port.wSetupDataSize
      /\ s.port.wSetupDataIndex = b.port.wSetupDataIndex
  BY <1>3 DEF Shape, Answers, Calm, SameEnds, Sides
<1> HIDE DEF s
<1>5. Answers(d, s)
  BY <1>1, <1>3, <1>4, AnswersSteps
<1>6. Keeps(d, s) /\ DriverOk(s) /\ Rested(s)
  BY <1>5, CalmFacts DEF Answers, Keeps, Serves
<1>7. s.port.request = r /\ s.csr["tx"].sentstall = d.csr["tx"].sentstall
  BY <1>5 DEF Answers, Calm, Sides
<1>8. d.port.wSetupDataIndex \in 0 .. SmallFifo => Short(s)
  BY <1>1, <1>3, <1>4 DEF Short
<1> HIDE DEF r
<1>9. /\ Serves(s, f) /\ f.ep0 = s.ep0 /\ f.port.request = s.port.request
      /\ r.op # "CLEAR_FEATURE" \/ s.csr["tx"].sentstall => (NoTxWork(s) => NoTxWork(f))
      /\ r.op = "CLEAR_FEATURE" /\ Short(s) => Short(f)
      /\ r.op = "BOT_RESET" => p = NotOurs(s)
  BY <1>6, ParsedFacts
<1>10. r.op \in Late /\ Short(s) => Short(f)
  BY <1>9 DEF Late, NotOurs
<1>11. DriverOk(f) /\ Rested(f) /\ Shape(f)
  BY <1>9 DEF Serves, DriverOk
<1>12. r.op = "BOT_RESET" => ~Pending(f)
  BY <1>6, <1>9 DEF Serves, Keeps, r
<1> HIDE DEF f, p
<1>13. /\ Keeps(f, e) /\ e.ep0.rx = NoRequest /\ e.port.request = f.port.request
       /\ r.op \in Late /\ Short(f) => Short(e)
  <2>1. CASE e = DefaultEndResponse(f, FALSE)
    <3>1. Responds(f, e) /\ (Short(f) => Short(e))
      BY <1>11, <2>1, ResponseFacts
    <3> QED
      BY <1>11, <3>1, CalmFacts DEF Responds
  <2>2. CASE e = DefaultEndResponse(g, TRUE)
    <3>1. Shape(g) /\ Speaks(f, g) /\ Short(g)
      BY <1>11, NothingToSayFacts
    <3> HIDE DEF g
    <3>2. Responds(g, e) /\ Short(e)
      BY <2>2, <3>1, ResponseFacts
    <3>3. Calm(f, e) /\ e.ep0.rx = NoRequest /\ e.port.request = f.port.request
      BY <3>1, <3>2, CalmSteps DEF Speaks, Responds
    <3> QED
      BY <1>11, <3>2, <3>3, CalmFacts
  <2>3. CASE e = MsdDeviceRequest(f, r)
    BY <1>11, <1>12, <2>3, MsdDeviceRequestFacts
  <2> QED
    BY <1>2, <2>1, <2>2, <2>3
<1>14. Serves(d, e)
  BY <1>6, <1>9, <1>13, ServesSteps DEF Keeps
<1> QED
  BY <1>6, <1>7, <1>8, <1>9, <1>10, <1>13, <1>14 DEF Keeps, r

\* Neither what has come nor what is half received is a request op.
NotAsked(op, d) ==
  d.ep0.rx.op # op /\ (d.port.request.op = op => d.port.wSetupDataIndex = 0)
\* When one of those was asked, nothing is left to be said or to be received.
LateIsShort(d) == d.port.request.op \in Late => Short(d)

\* What the service of endpoint 0 does.
Serves0(d, e) ==
  /\ Serves(d, e)
  /\ NotAsked("CLEAR_FEATURE", d) \/ d.csr["tx"].sentstall => (NoTxWork(d) => NoTxWork(e))
  /\ (d.ep0.rx.wLength = 0 \/ DirIn(d.ep0.rx)) /\ LateIsShort(d) => LateIsShort(e)

\* What leaves the request in the FIFO is such a service.
LEMMA SpeaksServe ==
  ASSUME NEW d, DriverOk(d), Rested(d), NEW e, Speaks(d, e), Short(d) => Short(e)
  PROVE  Serves0(d, e)
  BY CalmFacts DEF Speaks, Serves0, Keeps, LateIsShort

\* A packet of the control transfer
LEMMA Receive0Facts ==
  ASSUME NEW d, DriverOk(d), Rested(d), Pending(d) => NotAsked("BOT_RESET", d),
         NEW e, e = Receive0(d)
  PROVE  Serves0(d, e) /\ e.ep0.rx = NoRequest
<1> DEFINE rx == d.ep0.rx
           n == d.port.wSetupDataIndex + IF rx.op = "data" THEN rx.wLength ELSE SetupSize
           r == IF d.port.wSetupDataIndex = 0 THEN rx ELSE d.port.request
           a == [d EXCEPT !.port.bEnd0Status = FALSE]
           b == [a EXCEPT !.port.wSetupDataIndex = n]
           s == [b EXCEPT !.port.request = r]
           whole == DirIn(r) \/ n - SetupSize >= r.wLength
<1>1. e = IF whole THEN Received(s) ELSE [s EXCEPT !.ep0.rx = NoRequest]
  BY DEF Receive0
<1>2. /\ r.op = "BOT_RESET" => ~Pending(d)
      /\ NotAsked("CLEAR_FEATURE", d) => r.op # "CLEAR_FEATURE"
  BY DEF NotAsked
<1>3. /\ LateIsShort(d) /\ r.op \in Late =>
           r = rx /\ n = SetupSize /\ d.port.wSetupDataIndex = 0
      /\ r = rx /\ r.op \in Late /\ n = SetupSize /\ (rx.wLength = 0 \/ DirIn(rx)) => whole
  <2>1. ASSUME LateIsShort(d), r.op \in Late PROVE d.port.wSetupDataIndex = 0
    BY <2>1 DEF LateIsShort, Short
  <2>2. ASSUME r.op \in Late PROVE r.op # "data" /\ ~DirIn(r)
    BY <2>2 DEF Late, DirIn
  <2>3. ASSUME LateIsShort(d), r.op \in Late
        PROVE  r = rx /\ n = SetupSize /\ d.port.wSetupDataIndex = 0
    BY <2>1, <2>2, <2>3 DEF SetupSize
  <2>4. ASSUME r = rx, r.op \in Late, n = SetupSize, rx.wLength = 0 PROVE whole
    <3>1. n - SetupSize = 0 /\ r.wLength = 0
      BY <2>4 DEF SetupSize
    <3> QED
      BY <3>1
  <2> QED
    BY <2>2, <2>3, <2>4
<1>4. DriverOk(d) /\ Shape(d)
  BY DEF DriverOk
<1>5. Shape(a) /\ Calm(d, a) /\ a.ep0 = d.ep0
  BY <1>4 DEF Shape, Calm, SameEnds, Sides
<1> HIDE DEF a, n, r
<1>6. Shape(b) /\ Calm(a, b) /\ b.ep0 = a.ep0 /\ b.port.wSetupDataIndex = n
  BY <1>5 DEF Shape, Calm, SameEnds, Sides
<1> HIDE DEF b
<1>7. /\ Shape(s) /\ Calm(b, s) /\ s.ep0 = b.ep0 /\ s.port.request = r
      /\ s.port.wSetupDataIndex = b.port.wSetupDataIndex
  BY <1>6 DEF Shape, Calm, SameEnds, Sides
<1> HIDE DEF s
<1>8. Calm(d, s)
  BY <1>5, <1>6, <1>7, CalmSteps
<1>9. /\ Keeps(d, s) /\ DriverOk(s) /\ Rested(s) /\ (Pending(s) => Pending(d))
      /\ s.csr["tx"].sentstall = d.csr["tx"].sentstall
  BY <1>8, CalmFacts DEF Keeps, Serves, Calm, Sides
<1>10. CASE whole
  <2>1. e = Received(s)
    BY <1>1, <1>10
  <2>2. r.op = "BOT_RESET" => ~Pending(s)
    BY <1>2, <1>9
  <2>3. /\ Serves(s, e) /\ e.ep0.rx = NoRequest /\ e.port.request = r
        /\ r.op # "CLEAR_FEATURE" \/ s.csr["tx"].sentstall => (NoTxWork(s) => NoTxWork(e))
        /\ r.op \in Late /\ s.port.wSetupDataIndex \in 0 .. SmallFifo => Short(e)
    BY <1>7, <1>9, <2>1, <2>2, ReceivedFacts
  <2>4. Serves(d, e)
    BY <1>9, <2>3, ServesSteps DEF Keeps
  <2>5. NotAsked("CLEAR_FEATURE", d) \/ d.csr["tx"].sentstall => (NoTxWork(d) => NoTxWork(e))
    BY <1>2, <1>9, <2>3 DEF Keeps
  <2>6. LateIsShort(d) => LateIsShort(e)
    BY <1>3, <1>6, <1>7, <2>3 DEF LateIsShort, SetupSize, SmallFifo
  <2> QED
    BY <2>3, <2>4, <2>5, <2>6 DEF Serves0
<1>11. CASE ~whole
  <2>1. e = [s EXCEPT !.ep0.rx = NoRequest]
    BY <1>1, <1>11
  <2>2. Calm(s, e) /\ e.ep0.rx = NoRequest /\ e.port = s.port
    BY <1>7, <2>1 DEF Shape, Calm, SameEnds, Sides
  <2>3. Keeps(d, e)
    BY <1>8, <2>2, CalmFacts, CalmSteps
  <2>4. (rx.wLength = 0 \/ DirIn(rx)) /\ LateIsShort(d) => LateIsShort(e)
    BY <1>3, <1>7, <1>11, <2>2 DEF LateIsShort
  <2> QED
    BY <2>2, <2>3, <2>4 DEF Serves0, Keeps
<1> QED
  BY <1>10, <1>11

\* MGC_DrcServiceDefaultEnd
LEMMA DrcServiceFacts ==
  ASSUME NEW d, DriverOk(d), Rested(d), Pending(d) => NotAsked("BOT_RESET", d),
         NEW e, e = DrcServiceDefaultEnd(d)
  PROVE  Serves0(d, e) /\ e.ep0.rx = NoRequest
<1>0. Shape(d)
  BY DEF DriverOk
<1>1. CASE d.ep0.rx # NoRequest
  <2>1. e = Receive0(d)
    BY <1>1 DEF DrcServiceDefaultEnd
  <2> QED
    BY <2>1, Receive0Facts
<1>2. CASE d.ep0.rx = NoRequest
  <2>1. e = Transmit0(d) \/ e = d
    BY <1>2 DEF DrcServiceDefaultEnd
  <2>2. Speaks(d, e) /\ (Short(d) => Short(e))
    BY <1>0, <2>1, Transmit0Facts DEF Speaks, Calm, SameEnds
  <2> QED
    BY <1>2, <2>2, SpeaksServe DEF Speaks
<1> QED
  BY <1>1, <1>2

\* MGC_HdrcServiceDefaultEnd
LEMMA DefaultEndFacts ==
  ASSUME NEW d, DriverOk(d), Rested(d), Pending(d) => NotAsked("BOT_RESET", d),
         NEW e, e = ServiceDefaultEnd(d)
  PROVE  /\ Serves0(d, e)
         /\ ~d.ep0.sentstall \/ d.ep0.rx = NoRequest => e.ep0.rx = NoRequest
<1>0. Shape(d)
  BY DEF DriverOk
<1>1. CASE d.ep0.sentstall
  <2>1. e = [d EXCEPT !.ep0.sentstall = FALSE]
    BY <1>1 DEF ServiceDefaultEnd
  <2>2. Speaks(d, e) /\ SameData(d, e)
    BY <1>0, <2>1 DEF Shape, Speaks, Calm, SameEnds, SameData, Sides
  <2> QED
    BY <1>1, <2>2, SpeaksServe DEF Speaks, SameData, Short
<1>2. CASE ~d.ep0.sentstall /\ d.ep0.setupend
  <2> DEFINE g == NoSetupData(d)
  <2>1. e = DrcServiceDefaultEnd(g)
    BY <1>2 DEF ServiceDefaultEnd
  <2>2. Shape(g) /\ Speaks(d, g) /\ Short(g)
    BY <1>0, NothingToSayFacts
  <2> HIDE DEF g
  <2>3. /\ Serves0(d, g) /\ DriverOk(g) /\ Rested(g) /\ (Pending(g) => Pending(d))
        /\ g.csr["tx"].sentstall = d.csr["tx"].sentstall /\ g.ep0.rx = d.ep0.rx
        /\ (NoTxWork(d) => NoTxWork(g))
    BY <2>2, SpeaksServe, CalmFacts DEF Serves0, Serves, Speaks, Calm, Keeps, Sides
  <2>4. \A op : NotAsked(op, d) => NotAsked(op, g)
    BY <2>2 DEF NotAsked, Speaks, Short
  <2>5. Serves0(g, e) /\ e.ep0.rx = NoRequest
    BY <2>1, <2>3, <2>4, DrcServiceFacts
  <2>6. LateIsShort(g)
    BY <2>2 DEF LateIsShort
  <2>7. Serves0(d, e)
    BY <2>3, <2>4, <2>5, <2>6, ServesSteps DEF Serves0
  <2> QED
    BY <2>5, <2>7
<1>3. CASE ~d.ep0.sentstall /\ ~d.ep0.setupend /\ d.ep0.rx = NoRequest /\ d.port.bEnd0Status
  <2> DEFINE a == [d EXCEPT !.port.bEnd0Status = FALSE]
             b == [a EXCEPT !.port.bSetAddress = FALSE]
             n == IF d.port.bSetAddress THEN d.port.bFuncAddr ELSE d.ep0.faddr
             c == [b EXCEPT !.ep0.faddr = n]
  <2>1. e = [d EXCEPT !.port.bEnd0Status = FALSE, !.port.bSetAddress = FALSE, !.ep0.faddr = n]
    BY <1>3 DEF ServiceDefaultEnd, StatusAck
  <2>2. e = c
    BY <1>0, <2>1 DEF Shape
  <2>3. Shape(a) /\ Speaks(d, a) /\ SameData(d, a)
    BY <1>0 DEF Shape, Speaks, Calm, SameEnds, SameData, Sides
  <2> HIDE DEF a
  <2>4. Shape(b) /\ Speaks(a, b) /\ SameData(a, b)
    BY <2>3 DEF Shape, Speaks, Calm, SameEnds, SameData, Sides
  <2> HIDE DEF b, n
  <2>5. Shape(c) /\ Speaks(b, c) /\ SameData(b, c)
    BY <2>4 DEF Shape, Speaks, Calm, SameEnds, SameData, Sides
  <2> HIDE DEF c
  <2>6. Speaks(d, e) /\ (Short(d) => Short(e))
    BY <2>2, <2>3, <2>4, <2>5, SpeaksSteps DEF SameData, Short
  <2> QED
    BY <1>3, <2>6, SpeaksServe DEF Speaks
<1>4. CASE ~d.ep0.sentstall /\ ~d.ep0.setupend /\ ~(d.ep0.rx = NoRequest /\ d.port.bEnd0Status)
  <2>1. e = DrcServiceDefaultEnd(d)
    BY <1>4, Zenon DEF ServiceDefaultEnd
  <2> QED
    BY <2>1, DrcServiceFacts
<1> QED
  BY <1>1, <1>2, <1>3, <1>4

-----------------------------------------------------------------------------
(* The host's part of the invariant *)

\* What the host of a disk asks for: never to receive data on endpoint 0.
Asks ==
  { Get("DEVICE", 0, "none", 64), Simple("SET_ADDRESS", Address), Get("CONFIG", 0, "none", 255),
    Simple("SET_CONFIGURATION", 1), GetMaxLun,
    BotResetRequest, ClearHaltRequest("tx"), ClearHaltRequest("rx") }
HostShape(h) ==
  {"kind", "stage", "req", "script", "bot", "cleared", "requests"} \subseteq DOMAIN h
Plain(r) == r.wLength = 0 \/ DirIn(r)
Disk == host.kind = "disk"

\* Only a disk has bulk transfers.
PipesAreForDisks ==
  ~Disk => /\ queue = <<>> /\ spin = NoIrp /\ end["tx"].irp = NoIrp
           /\ csr["rx"].pkt = NoPacket /\ host.bot = "none" /\ host.script = <<>>
\* The control transfers of the host of a disk
AsksAreKnown ==
  /\ host.script \in Seq(Asks)
  /\ Disk => /\ host.requests = 0 /\ Plain(ep0.rx) /\ LateIsShort(Driver)
             /\ host.stage = "data" => DirIn(host.req)
\* It waits for the answer to what it has asked.
AskedIsAwaited ==
  Disk /\ ep0.rx # NoRequest =>
    /\ host.stage # "idle" /\ "ep0" \in intr
    /\ ~ep0.sentstall /\ ~ep0.dataend /\ ~ep0.sendstall
\* Before there is a client, and between a reset of the bus and its service
BusIsSilent ==
  /\ ~port.pFunctionClient => intr = {} /\ host.bot = "none" /\ host.stage = "idle"
  /\ "reset" \in intr => host.bot = "none" /\ host.stage = "idle"
\* No reset of the transport overtakes a packet that is to be received.
ResetComesAfterPackets ==
  /\ Pending(Driver) => /\ "rx" \in intr /\ ~csr["rx"].sendstall
                        /\ host.script \in Seq(Asks \ {BotResetRequest})
                        /\ ep0.rx.op # "BOT_RESET"
                        /\ host.cleared => host.script # <<>> \/ ep0.rx # NoRequest
  /\ host.bot = "out" => ~host.cleared
\* A STALL that was sent is told.
StallsAreTold == \A s \in Sides : csr[s].sentstall => csr[s].sendstall /\ s \in intr
\* A packet was taken, and that is still to be told.
Due == "tx" \in intr /\ "reset" \notin intr /\ ~csr["tx"].sentstall
\* Then no halt is cleared before.
TakenIsTold ==
  Due => /\ end["tx"].irp # NoIrp /\ csr["tx"].pkt = NoPacket
         /\ ep0.rx.op # "CLEAR_FEATURE"
         /\ \/ host.script = <<>> \/ ep0.rx # NoRequest
            \/ Head(host.script).op # "CLEAR_FEATURE"
         /\ csr["rx"].sendstall => host.bot # "out"

ListeningInv ==
  /\ DriverOk(Driver) /\ HostShape(host)
  /\ PipesAreForDisks /\ AsksAreKnown /\ AskedIsAwaited /\ BusIsSilent
  /\ ResetComesAfterPackets /\ StallsAreTold /\ TakenIsTold

\* What is asked, and the requests of the recovery
LEMMA AsksFacts ==
  /\ \A r \in Asks : Plain(r) /\ r # NoRequest
  /\ \A r \in Asks \ {BotResetRequest} : r.op # "BOT_RESET"
  /\ Enumeration \in Seq(Asks) /\ Recovery \in Seq(Asks) /\ <<>> \in Seq(Asks)
  /\ Recovery # <<>> /\ Head(Recovery).op = "BOT_RESET"
  /\ \A s \in Sides : /\ <<ClearHaltRequest(s)>> \in Seq(Asks \ {BotResetRequest})
                      /\ <<ClearHaltRequest(s)>> # <<>>
  /\ \A q \in Seq(Asks) : q # <<>> => Head(q) \in Asks /\ Tail(q) \in Seq(Asks)
  /\ \A q \in Seq(Asks \ {BotResetRequest}) :
       /\ q \in Seq(Asks)
       /\ q # <<>> => /\ Head(q) \in Asks \ {BotResetRequest}
                      /\ Tail(q) \in Seq(Asks \ {BotResetRequest})
<1> USE DEF Get, Simple, GetMaxLun, BotResetRequest, ClearHaltRequest, Request
<1>1. \A r \in Asks : Plain(r) /\ r # NoRequest
  BY DEF Asks, Plain, DirIn, NoRequest
<1>2. \A r \in Asks \ {BotResetRequest} : r.op # "BOT_RESET"
  BY DEF Asks
<1>3. Enumeration \in Seq(Asks)
  <2> HIDE DEF Get, Simple, GetMaxLun
  <2> QED
    BY DEF Asks, Enumeration
<1>4. Recovery \in Seq(Asks) /\ <<>> \in Seq(Asks)
  <2> HIDE DEF BotResetRequest, ClearHaltRequest
  <2> QED
    BY DEF Asks, Recovery
<1>5. Recovery # <<>> /\ Head(Recovery).op = "BOT_RESET"
  BY DEF Recovery
<1>6. ASSUME NEW s \in Sides
      PROVE  /\ <<ClearHaltRequest(s)>> \in Seq(Asks \ {BotResetRequest})
             /\ <<ClearHaltRequest(s)>> # <<>>
  <2>1. ClearHaltRequest(s) \in Asks
    <3> HIDE DEF ClearHaltRequest
    <3> QED
      BY DEF Asks, Sides
  <2>2. ClearHaltRequest(s) # BotResetRequest
    BY DEF Sides
  <2> HIDE DEF ClearHaltRequest, BotResetRequest
  <2> QED
    BY <2>1, <2>2
<1> HIDE DEF Get, Simple, GetMaxLun, BotResetRequest, ClearHaltRequest, Request
<1>7. \A q \in Seq(Asks) : q # <<>> => Head(q) \in Asks /\ Tail(q) \in Seq(Asks)
  OBVIOUS
<1>8. ASSUME NEW q \in Seq(Asks \ {BotResetRequest})
      PROVE  /\ q \in Seq(Asks)
             /\ q # <<>> => /\ Head(q) \in Asks \ {BotResetRequest}
                            /\ Tail(q) \in Seq(Asks \ {BotResetRequest})
  OBVIOUS
<1> QED
  BY <1>1, <1>2, <1>3, <1>4, <1>5, <1>6, <1>7, <1>8

-----------------------------------------------------------------------------
(* The steps of the driver *)

\* The reset of the bus, and then the interrupt of endpoint 0
AfterReset(d, causes) == IF "reset" \in causes THEN BusReset(d) ELSE d
AfterEnd0(d, causes) ==
  IF "ep0" \in causes THEN ServiceDefaultEnd(AfterReset(d, causes)) ELSE AfterReset(d, causes)

\* All that is pending is served: no packet is before an IRP then, and no STALL is untold.
LEMMA ServedFacts ==
  ASSUME NEW d, DriverOk(d), Rested(d), NEW causes,
         Pending(d) => /\ "rx" \in causes /\ ~d.csr["rx"].sentstall
                       /\ NotAsked("BOT_RESET", d),
         \A s \in Sides : d.csr[s].sentstall => s \in causes,
         "tx" \in causes /\ "reset" \notin causes =>
           NoTxWork(d) /\ (d.csr["tx"].sentstall \/ NotAsked("CLEAR_FEATURE", d)),
         NEW e, e = Served(d, causes)
  PROVE  /\ DriverOk(e) /\ e.spin = NoIrp /\ e.intr = d.intr /\ ~Pending(e)
         /\ e.port.pFunctionClient = d.port.pFunctionClient
         /\ \A s \in Sides : ~e.csr[s].sentstall
         /\ d.end["tx"].irp = NoIrp /\ d.csr["rx"].pkt = NoPacket =>
              e.end["tx"].irp = NoIrp /\ e.csr["rx"].pkt = NoPacket /\ e.queue = <<>>
         /\ d.ep0.rx = NoRequest \/ ("ep0" \in causes /\ ~d.ep0.sentstall) => e.ep0.rx = NoRequest
         /\ Plain(d.ep0.rx) /\ LateIsShort(d) => LateIsShort(e)
         /\ e.port = AfterEnd0(d, causes).port /\ e.ep0 = AfterEnd0(d, causes).ep0
         /\ DriverOk(AfterReset(d, causes)) /\ Rested(AfterReset(d, causes))
         /\ Pending(AfterReset(d, causes)) => NotAsked("BOT_RESET", AfterReset(d, causes))
<1> DEFINE a == IF "reset" \in causes THEN BusReset(d) ELSE d
           b == IF "ep0" \in causes THEN ServiceDefaultEnd(a) ELSE a
           c == IF "tx" \in causes THEN ServiceTransmitAvail(b) ELSE b
<1>0. Shape(d) /\ Serves(d, d)
  BY AnswersNothing, CalmFacts DEF DriverOk, Answers, Keeps
<1>1. /\ Serves(d, a) /\ a.ep0 = d.ep0 /\ a.port.request = d.port.request
      /\ "reset" \in causes => a.end["tx"].irp = NoIrp /\ Short(a)
      /\ "reset" \notin causes => a = d
  <2>1. CASE "reset" \in causes
    BY <2>1, BusResetFacts DEF Idle
  <2>2. CASE "reset" \notin causes
    BY <1>0, <2>2
  <2> QED
    BY <2>1, <2>2
<1>2. /\ e = IF "rx" \in causes THEN ServiceReceiveReady(c) ELSE c
      /\ a = AfterReset(d, causes) /\ b = AfterEnd0(d, causes)
  BY DEF Served, AfterReset, AfterEnd0
<1> HIDE DEF a
<1>3. /\ \A op : NotAsked(op, d) => NotAsked(op, a)
      /\ LateIsShort(d) => LateIsShort(a)
  BY <1>1 DEF NotAsked, LateIsShort, Short
<1>4. DriverOk(a) /\ Rested(a) /\ (Pending(a) => NotAsked("BOT_RESET", a)) /\ Serves(a, a)
  <2>1. DriverOk(a) /\ Rested(a) /\ (Pending(a) => NotAsked("BOT_RESET", a))
    BY <1>1, <1>3 DEF Serves
  <2> QED
    BY <2>1, AnswersNothing, CalmFacts DEF DriverOk, Answers, Keeps
<1>5. "tx" \in causes =>
        NoTxWork(a) /\ (a.end["tx"].irp = NoIrp \/ a.csr["tx"].sentstall
                        \/ NotAsked("CLEAR_FEATURE", a))
  BY <1>1, <1>3 DEF NoTxWork
<1>6. /\ Serves(a, b)
      /\ a.ep0.rx = NoRequest \/ ("ep0" \in causes /\ ~a.ep0.sentstall) => b.ep0.rx = NoRequest
      /\ Plain(a.ep0.rx) /\ LateIsShort(a) => LateIsShort(b)
      /\ "tx" \in causes => NoTxWork(b)
  <2>1. CASE "ep0" \in causes
    <3>1. /\ Serves0(a, b)
          /\ ~a.ep0.sentstall \/ a.ep0.rx = NoRequest => b.ep0.rx = NoRequest
      BY <1>4, <2>1, DefaultEndFacts
    <3>2. "tx" \in causes => NoTxWork(b)
      BY <1>5, <3>1 DEF Serves0, Serves, NoTxWork
    <3> QED
      BY <2>1, <3>1, <3>2 DEF Serves0, Plain
  <2>2. CASE "ep0" \notin causes
    BY <1>4, <1>5, <2>2
  <2> QED
    BY <2>1, <2>2
<1> HIDE DEF b
<1>7. Serves(d, b)
  BY <1>1, <1>6, ServesSteps
<1>8. DriverOk(b) /\ Rested(b)
  BY <1>7 DEF Serves
<1>9. /\ DriverOk(c) /\ c.spin = NoIrp /\ c.ep0 = b.ep0 /\ c.intr = b.intr /\ c.port = b.port
      /\ c.end["rx"].irp = b.end["rx"].irp /\ c.csr["rx"] = b.csr["rx"]
      /\ ~c.csr["tx"].sentstall
      /\ b.end["tx"].irp = NoIrp => c.end["tx"].irp = NoIrp /\ c.queue = <<>>
  <2>1. CASE "tx" \in causes
    <3>1. /\ DriverOk(c) /\ c.spin = NoIrp /\ c.ep0 = b.ep0 /\ c.intr = b.intr /\ c.port = b.port
          /\ c.end["rx"].irp = b.end["rx"].irp /\ c.csr["rx"] = b.csr["rx"]
          /\ c.csr["tx"].sentstall = FALSE
          /\ b.end["tx"].irp = NoIrp => c.end["tx"].irp = NoIrp /\ c.queue = <<>>
      BY <1>6, <1>8, <2>1, TransmitFacts
    <3>2. ~c.csr["tx"].sentstall
      BY <3>1
    <3> QED
      BY <3>1, <3>2
  <2>2. CASE "tx" \notin causes
    <3>1. c = b
      BY <2>2
    <3>2. ~b.csr["tx"].sentstall
      BY <1>7, <2>2 DEF Serves, Sides
    <3> QED
      BY <1>8, <3>1, <3>2 DEF Rested
  <2> QED
    BY <2>1, <2>2
<1> HIDE DEF c
<1>10. Pending(c) => Pending(d)
  BY <1>7, <1>9 DEF Serves, Pending
<1>11. c.csr["rx"].sentstall => d.csr["rx"].sentstall
  <2>1. b.csr["rx"].sentstall => d.csr["rx"].sentstall
    BY <1>7 DEF Serves, Sides
  <2> QED
    BY <1>9, <2>1
<1>12. /\ DriverOk(e) /\ e.spin = NoIrp /\ ~Pending(e) /\ e.ep0 = c.ep0 /\ e.intr = c.intr
       /\ e.port = c.port /\ e.end["tx"].irp = c.end["tx"].irp
       /\ \A s \in Sides : ~e.csr[s].sentstall
       /\ c.csr["rx"].pkt = NoPacket => e.csr["rx"].pkt = NoPacket /\ e.queue = c.queue
  <2>1. CASE "rx" \in causes
    <3>1. Pending(c) => ~c.csr["rx"].sentstall
      BY <1>10, <1>11
    <3>2. e = ServiceReceiveReady(c)
      BY <1>2, <2>1
    <3>3. /\ DriverOk(e) /\ e.spin = NoIrp /\ ~Pending(e) /\ e.ep0 = c.ep0 /\ e.intr = c.intr
          /\ e.port = c.port
          /\ e.end["tx"].irp = c.end["tx"].irp
          /\ e.csr["tx"].sentstall = c.csr["tx"].sentstall
          /\ e.csr["rx"].sentstall = FALSE
          /\ c.csr["rx"].pkt = NoPacket => e.csr["rx"].pkt = NoPacket /\ e.queue = c.queue
      BY <1>9, <3>1, <3>2, ReceiveReadyFacts, ZenonT(60)
    <3>4. ~e.csr["tx"].sentstall
      BY <1>9, <3>3, Zenon
    <3>5. ~e.csr["rx"].sentstall
      BY <3>3
    <3> QED
      BY <3>3, <3>4, <3>5 DEF Sides
  <2>2. CASE "rx" \notin causes
    <3>1. e = c
      BY <1>2, <2>2
    <3>2. ~c.csr["rx"].sentstall
      BY <1>11, <2>2 DEF Sides
    <3>3. ~Pending(c)
      BY <1>10, <2>2
    <3> QED
      BY <1>9, <3>1, <3>2, <3>3 DEF Sides
  <2> QED
    BY <2>1, <2>2
<1>13. /\ e.intr = d.intr /\ e.port.pFunctionClient = d.port.pFunctionClient
  BY <1>7, <1>9, <1>12 DEF Serves
<1>14. d.end["tx"].irp = NoIrp /\ d.csr["rx"].pkt = NoPacket =>
         e.end["tx"].irp = NoIrp /\ e.csr["rx"].pkt = NoPacket /\ e.queue = <<>>
  BY <1>7, <1>9, <1>12 DEF Serves
<1>15. d.ep0.rx = NoRequest \/ ("ep0" \in causes /\ ~d.ep0.sentstall) => e.ep0.rx = NoRequest
  BY <1>1, <1>6, <1>9, <1>12
<1>16. Plain(d.ep0.rx) /\ LateIsShort(d) => LateIsShort(e)
  <2>1. LateIsShort(b) => LateIsShort(e)
    BY <1>9, <1>12 DEF LateIsShort, Short
  <2> QED
    BY <1>1, <1>3, <1>6, <2>1
<1>17. e.port = b.port /\ e.ep0 = b.ep0
  BY <1>9, <1>12
<1> QED
  BY <1>2, <1>4, <1>12, <1>13, <1>14, <1>15, <1>16, <1>17

\* A callback: one IRP is done, another one begins.
LEMMA CompletedFacts ==
  ASSUME NEW d, DriverOk(d), d.queue # <<>>, NEW e, e = Completed(d)
  PROVE  /\ DriverOk(e) /\ e.port = d.port /\ e.ep0 = d.ep0 /\ e.intr = d.intr /\ ~Pending(e)
         /\ d.end["tx"].irp = NoIrp
         /\ \A s \in Sides : /\ e.csr[s].sentstall = d.csr[s].sentstall
                             /\ d.csr[s].sendstall => e.csr[s].sendstall
<1> DEFINE i == Head(d.queue)
           g == [d EXCEPT !.queue = Tail(@)]
           c == IrpComplete(g, i)
<1>1. Called1(d)
  BY DEF DriverOk, AtMostOne, Idle, One, Sends1, Waits1, Spins1, Rested
<1>2. i \in Irps /\ Tail(d.queue) = <<>>
  BY <1>1 DEF Called1
<1>3. /\ Shape(g) /\ g.port = d.port /\ g.ep0 = d.ep0 /\ g.intr = d.intr /\ g.msd = d.msd
      /\ g.end = d.end /\ g.csr = d.csr /\ g.spin = d.spin /\ g.queue = <<>>
  BY <1>2 DEF DriverOk, Shape
<1>4. e = IF c.end[Dir[i]].irp = NoIrp THEN StartNextIrp(c, Dir[i]) ELSE c
  BY DEF Completed
<1> HIDE DEF g, i
<1>5. Idle(g) /\ NoList(g) /\ NextOk(g) /\ Loads(g)
  BY <1>1, <1>3 DEF DriverOk, AtMostOne, Idle, Rested, Called1, NoList, NextOk, Loads
<1>6. Begins(g, c)
  BY <1>2, <1>3, <1>5, IrpCompleteFacts, SMTT(40)
<1> HIDE DEF c
<1>7. e = c
  <2>1. Dir[i] \in Sides
    BY <1>2 DEF Dir, Sides
  <2> QED
    BY <1>4, <1>6, <2>1 DEF StartNextIrp, Begins, NoList
<1>8. Layout(g) => Layout(e)
  BY <1>6, <1>7, LayoutKept DEF Begins
<1>9. Configured(e) /\ Client(e)
  BY <1>3, <1>6, <1>7, <1>8 DEF DriverOk, Configured, Client, Begins, Layout
<1>10. AtMostOne(e)
  BY <1>5, <1>6, <1>7 DEF AtMostOne, Begins
<1>11. \A s \in Sides : /\ e.csr[s].sentstall = d.csr[s].sentstall
                        /\ d.csr[s].sendstall => e.csr[s].sendstall
  BY <1>3, <1>6, <1>7 DEF Begins
<1> QED
  BY <1>1, <1>3, <1>6, <1>7, <1>9, <1>10, <1>11 DEF DriverOk, Begins, Called1

\* The packet that MGC_MhdrcStartRx polled for
Polled(d) ==
  [PacketReceived(d, d.spin) EXCEPT !.spin = IF IsLast(d, d.spin) THEN NoIrp ELSE d.spin]

\* Its IRP is complete, or waits for the next packet.
LEMMA SpinFacts ==
  ASSUME NEW d, DriverOk(d), d.spin # NoIrp, NEW e, e = Polled(d)
  PROVE  /\ DriverOk(e) /\ e.port = d.port /\ e.ep0 = d.ep0 /\ e.intr = d.intr /\ ~Pending(e)
         /\ d.end["tx"].irp = NoIrp
         /\ \A s \in Sides : /\ e.csr[s].sentstall = d.csr[s].sentstall
                             /\ e.csr[s].sendstall = d.csr[s].sendstall
<1> USE DEF Polled
<1> DEFINE i == d.spin
           r == PacketReceived(d, i)
           n == IF IsLast(d, i) THEN NoIrp ELSE i
<1>1. Spins1(d)
  BY DEF DriverOk, AtMostOne, Idle, One, Sends1, Waits1, Called1, Rested
<1>2. i \in Irps /\ i \in RxIrps
  BY <1>1 DEF Spins1, Irps
<1>3. /\ Shape(r) /\ Aside(d, r) /\ SameStalls(d, r) /\ SamePlaces(d, r) /\ r.spin = d.spin
      /\ \A t \in Sides : r.end[t].list = d.end[t].list
      /\ r.csr["rx"].pkt = NoPacket /\ r.csr["tx"].pkt = d.csr["tx"].pkt
      /\ r.end["tx"].irp = d.end["tx"].irp
      /\ IsLast(d, i) => r.end["rx"].irp = NoIrp /\ r.queue = Append(d.queue, i)
      /\ ~IsLast(d, i) => r.end["rx"].irp = d.end["rx"].irp /\ r.queue = d.queue
  BY PacketReceivedFacts DEF DriverOk
<1>4. e = [r EXCEPT !.spin = n]
  OBVIOUS
<1> HIDE DEF r
<1>5. /\ Shape(e) /\ Aside(r, e) /\ e.csr = r.csr /\ e.end = r.end /\ e.queue = r.queue
      /\ e.spin = n
  <2> HIDE DEF n
  <2> QED
    BY <1>3, <1>4 DEF Shape, Aside
<1>6. One(e)
  <2>1. CASE IsLast(d, i)
    <3>1. Append(<<>>, i) = <<i>>
      OBVIOUS
    <3> QED
      BY <1>1, <1>2, <1>3, <1>5, <2>1, <3>1 DEF Spins1, One, Called1
  <2>2. CASE ~IsLast(d, i)
    BY <1>1, <1>2, <1>3, <1>5, <2>2 DEF Spins1, One
  <2> QED
    BY <2>1, <2>2
<1>7. AtMostOne(e)
  BY <1>3, <1>5, <1>6 DEF DriverOk, AtMostOne, NoList, NextOk, Loads, Aside
<1>8. SamePlaces(d, e)
  BY <1>3, <1>5 DEF SamePlaces
<1>9. Configured(e) /\ Client(e)
  BY <1>3, <1>5, <1>6, <1>8, LayoutKept DEF DriverOk, Configured, Client, Aside
<1> QED
  BY <1>1, <1>3, <1>5, <1>7, <1>9 DEF DriverOk, Aside, Pending, Spins1, SameStalls

\* A client is registered, or the room does not suffice for it.
LEMMA RegisterFacts ==
  ASSUME NEW d, DriverOk(d), ~d.port.pFunctionClient, NEW e, e = RegisterClient(d)
  PROVE  /\ DriverOk(e) /\ e.csr = d.csr /\ e.ep0 = d.ep0 /\ e.queue = d.queue
         /\ e.spin = d.spin /\ \A t \in Sides : e.end[t].irp = d.end[t].irp
         /\ LateIsShort(d) => LateIsShort(e)
<1> DEFINE u == Unbound(d)
           ok == VerifyResources(d)
           v == [u EXCEPT !.port.pFunctionClient = ok]
<1>1. /\ Shape(u) /\ Aside(d, u) /\ u.csr = d.csr /\ u.queue = d.queue /\ u.spin = d.spin
      /\ \A t \in Sides : /\ u.end[t].irp = d.end[t].irp /\ u.end[t].list = d.end[t].list
                          /\ u.end[t].claimed = FALSE /\ u.end[t].wMax = 0
  BY UnboundFacts DEF DriverOk
<1>2. e = [v EXCEPT !.port.apConfigDescriptors = FALSE]
  BY <1>1 DEF RegisterClient, Shape
<1> HIDE DEF u, ok
<1>3. /\ Shape(v) /\ v.csr = u.csr /\ v.end = u.end /\ v.queue = u.queue /\ v.spin = u.spin
      /\ v.ep0 = u.ep0 /\ v.msd = u.msd /\ v.port.bUsbState = u.port.bUsbState
      /\ v.port.request = u.port.request /\ SameData(u, v)
  BY <1>1 DEF Shape, SameData
<1> HIDE DEF v
<1>4. /\ Shape(e) /\ e.csr = v.csr /\ e.end = v.end /\ e.queue = v.queue /\ e.spin = v.spin
      /\ e.ep0 = v.ep0 /\ e.msd = v.msd /\ e.port.bUsbState = v.port.bUsbState
      /\ e.port.request = v.port.request /\ SameData(v, e)
      /\ ~e.port.apConfigDescriptors
  BY <1>2, <1>3 DEF Shape, SameData
<1>5. e.port.bUsbState # "CONFIGURED"
  <2>1. d.port.bUsbState # "CONFIGURED"
    BY Zenon DEF DriverOk, Client
  <2> QED
    BY <1>1, <1>3, <1>4, <2>1 DEF Aside
<1>6. Configured(e) /\ Client(e)
  BY <1>4, <1>5 DEF Configured, Client
<1>7. AtMostOne(e)
  BY <1>1, <1>3, <1>4 DEF DriverOk, AtMostOne, Idle, One, Sends1, Waits1, Called1, Spins1,
     Rested, NoList, NextOk, Loads, Aside, Sides
<1>8. LateIsShort(d) => LateIsShort(e)
  BY <1>1, <1>3, <1>4 DEF LateIsShort, Short, SameData, Aside
<1> QED
  BY <1>1, <1>3, <1>4, <1>6, <1>7, <1>8 DEF DriverOk, Aside

-----------------------------------------------------------------------------
(* The steps, as they change the variables *)

\* The fields that the driver's part of the invariant reads
LEMMA SameDriver ==
  ASSUME NEW d, DriverOk(d), NEW e, e.port = d.port, e.ep0 = d.ep0, e.end = d.end,
         e.csr = d.csr, e.msd = d.msd, e.queue = d.queue, e.spin = d.spin,
         DOMAIN e = {"port", "ep0", "end", "csr", "bIsHalted", "dwTxSize", "irp", "msd",
                     "cbw", "queue", "intr", "spin"}
  PROVE  /\ DriverOk(e) /\ (Pending(e) <=> Pending(d)) /\ (LateIsShort(d) => LateIsShort(e))
<1>1. Shape(e)
  BY DEF DriverOk, Shape
<1>2. SameEnds(d, e)
  BY DEF SameEnds
<1>3. AtMostOne(e)
  BY <1>2, SameCount DEF DriverOk, AtMostOne, NextOk, Loads
<1>4. Configured(e) /\ Client(e)
  BY <1>2, SameCount DEF DriverOk, Configured, Client
<1> QED
  BY <1>1, <1>3, <1>4 DEF DriverOk, Pending, LateIsShort, Short

\* The driver becomes d.
LEMMA BecomesFacts ==
  ASSUME NEW d, DriverOk(d), Becomes(d)
  PROVE  /\ DriverOk(Driver)' /\ (Pending(Driver)' <=> Pending(d))
         /\ LateIsShort(d) => LateIsShort(Driver)'
<1>1. /\ Driver'.port = d.port /\ Driver'.ep0 = d.ep0 /\ Driver'.end = d.end
      /\ Driver'.csr = d.csr /\ Driver'.msd = d.msd
      /\ Driver'.queue = d.queue /\ Driver'.spin = d.spin
      /\ DOMAIN Driver' = {"port", "ep0", "end", "csr", "bIsHalted", "dwTxSize", "irp", "msd",
                           "cbw", "queue", "intr", "spin"}
  BY DEF Becomes, Driver
<1> QED
  BY <1>1, SameDriver

\* The driver with other interrupts
LEMMA IntrFacts ==
  ASSUME NEW d, Shape(d), NEW causes, NEW e, e = [d EXCEPT !.intr = causes]
  PROVE  /\ e.port = d.port /\ e.ep0 = d.ep0 /\ e.end = d.end /\ e.csr = d.csr
         /\ e.bIsHalted = d.bIsHalted /\ e.dwTxSize = d.dwTxSize /\ e.irp = d.irp
         /\ e.msd = d.msd /\ e.cbw = d.cbw /\ e.queue = d.queue /\ e.spin = d.spin
         /\ e.intr = causes
  BY DEF Shape

\* A step of the bus or of the host, as the driver has it.
LEMMA OutsideFacts ==
  ASSUME DriverOk(Driver), UNCHANGED <<port, end, queue, spin, msd>>,
         {"rx", "sentstall", "sendstall", "dataend"} \subseteq DOMAIN ep0',
         Sides \subseteq DOMAIN csr',
         \A s \in Sides : {"pkt", "sendstall", "sentstall", "tog"} \subseteq DOMAIN csr'[s],
         csr'["tx"].pkt \in {NoPacket, csr["tx"].pkt}
  PROVE  DriverOk(Driver)'
<1> DEFINE d == Driver
           e == Driver'
<1>1. /\ e.port = d.port /\ e.end = d.end /\ e.msd = d.msd /\ e.queue = d.queue
      /\ e.spin = d.spin /\ e.csr = csr' /\ e.ep0 = ep0' /\ d.csr = csr
      /\ DOMAIN e = {"port", "ep0", "end", "csr", "bIsHalted", "dwTxSize", "irp", "msd",
                     "cbw", "queue", "intr", "spin"}
  BY DEF Driver
<1>2. DriverOk(d)
  OBVIOUS
<1> HIDE DEF d, e
<1>3. Shape(e)
  BY <1>1, <1>2 DEF DriverOk, Shape
<1>4. SameEnds(d, e)
  BY <1>1 DEF SameEnds
<1>5. AtMostOne(e)
  BY <1>1, <1>2, <1>4, SameCount DEF DriverOk, AtMostOne, NextOk, Loads
<1>6. Configured(e) /\ Client(e)
  BY <1>1, <1>2, <1>4, SameCount DEF DriverOk, Configured, Client
<1>7. DriverOk(e)
  BY <1>3, <1>5, <1>6 DEF DriverOk
<1> QED
  BY <1>7 DEF e

\* The fields of the hardware
LEMMA FieldsFacts ==
  ASSUME DriverOk(Driver)
  PROVE  /\ {"rx", "sentstall", "sendstall", "dataend"} \subseteq DOMAIN ep0
         /\ Sides \subseteq DOMAIN csr
         /\ \A s \in Sides : {"pkt", "sendstall", "sentstall", "tog"} \subseteq DOMAIN csr[s]
         /\ csr["tx"].pkt # NoPacket => end["tx"].irp # NoIrp
         /\ end["tx"].irp # NoIrp => end["rx"].irp = NoIrp /\ queue = <<>> /\ spin = NoIrp
  BY DEF DriverOk, Shape, AtMostOne, Loads, Idle, One, Sends1, Waits1, Called1, Spins1, Rested,
         Driver

\* The host's part of the invariant, in the variables
LEMMA PendingIs == Pending(Driver) <=> csr["rx"].pkt # NoPacket /\ end["rx"].irp # NoIrp
  BY DEF Pending, Driver
\* What is left of an answer, in the variables
LEMMA LateIs ==
  LateIsShort(Driver) <=>
    (port.request.op \in Late => /\ port.wSetupDataIndex = 0
                                 /\ port.wSetupDataSize \in 0 .. SmallFifo)
  BY DEF LateIsShort, Short, Driver

\* What the host makes of a transfer
LEMMA WrongFacts ==
  ASSUME NEW h, HostShape(h), NEW bad, NEW what, NEW e, e = Wrong(h, bad, what)
  PROVE  /\ HostShape(e) /\ e.kind = h.kind /\ e.stage = h.stage /\ e.req = h.req
         /\ e.script = h.script /\ e.bot = h.bot /\ e.cleared = h.cleared
         /\ e.requests = h.requests
  BY DEF Wrong, HostShape
\* A transfer is over.
LEMMA DoneFacts ==
  ASSUME NEW h, HostShape(h), NEW e, e = Done(h)
  PROVE  /\ HostShape(e) /\ e.kind = h.kind /\ e.stage = "idle"
         /\ e.script = h.script /\ e.bot = h.bot /\ e.cleared = h.cleared
         /\ e.requests = h.requests
  BY DEF Done, HostShape
\* A status stage
LEMMA LearntFacts ==
  ASSUME NEW h, HostShape(h), NEW e, e = Learnt(h)
  PROVE  /\ HostShape(e) /\ e.kind = h.kind /\ e.stage = h.stage
         /\ e.script = h.script /\ e.cleared = h.cleared
         /\ e.requests = h.requests
         /\ e.bot = h.bot \/ (h.kind = "disk" /\ e.bot = "ready")
  BY DEF Learnt, HostShape
\* A command has failed.
LEMMA FailedFacts ==
  ASSUME NEW h, HostShape(h), NEW e, e = Failed(h)
  PROVE  /\ HostShape(e) /\ e.kind = h.kind /\ e.stage = h.stage /\ e.req = h.req
         /\ e.script = Recovery /\ e.bot = "ready" /\ ~e.cleared
         /\ e.requests = h.requests
  BY DEF Failed, HostShape
\* A request is sent.
LEMMA SentFacts ==
  ASSUME HostShape(host), NEW r, NEW e, e = Sent(r)
  PROVE  /\ HostShape(e) /\ e.kind = host.kind /\ e.req = r
         /\ e.stage = (IF r.wLength = 0 THEN "status" ELSE "data")
         /\ e.script = host.script /\ e.bot = host.bot /\ e.cleared = host.cleared
         /\ e.requests = host.requests
  BY DEF Sent, HostShape
\* A host that has reset the bus
LEMMA NewHostFacts ==
  ASSUME NEW kind, NEW e, e = NewHost(kind)
  PROVE  /\ HostShape(e) /\ e.kind = kind /\ e.stage = "idle" /\ e.req = NoRequest
         /\ e.script = (IF kind = "disk" THEN Enumeration ELSE <<>>)
         /\ e.bot = "none" /\ ~e.cleared
         /\ kind = "disk" => e.requests = 0
  BY DEF NewHost, HostShape

-----------------------------------------------------------------------------
(* The invariant: initially, and the steps of the driver *)

\* Nothing is configured at first.
LEMMA InitFacts == Init => ListeningInv
<1> SUFFICES ASSUME Init
             PROVE  ListeningInv
  OBVIOUS
<1>1. PICK kind \in Hosts : host = NewHost(kind)
  BY DEF Init
<1>2. /\ HostShape(host) /\ host.stage = "idle" /\ host.bot = "none" /\ ~host.cleared
      /\ host.script = (IF Disk THEN Enumeration ELSE <<>>)
      /\ Disk => host.requests = 0
  <2>1. /\ HostShape(host) /\ host.kind = kind /\ host.stage = "idle"
        /\ host.script = (IF kind = "disk" THEN Enumeration ELSE <<>>)
        /\ host.bot = "none" /\ ~host.cleared
        /\ kind = "disk" => host.requests = 0
    BY <1>1, NewHostFacts, ZenonT(90)
  <2> QED
    BY <2>1 DEF Disk
<1>3. host.script \in Seq(Asks)
  BY <1>2, AsksFacts
<1>4. /\ port = NewPort /\ ep0 = NewEp0 /\ end = [s \in Sides |-> NewSide]
      /\ csr = [s \in Sides |-> NewCsr] /\ msd = NewMsd /\ queue = <<>> /\ intr = {}
      /\ spin = NoIrp
  BY DEF Init
<1>5. /\ Shape(Driver) /\ Idle(Driver) /\ NoList(Driver) /\ Loads(Driver)
      /\ ~Pending(Driver) /\ LateIsShort(Driver)
  BY <1>4 DEF Driver, Shape, Idle, Rested, NoList, Loads, Pending, LateIsShort, Late,
     NewPort, NewEp0, NewSide, NewCsr, NewMsd, Sides, NoRequest, Request
<1>6. DriverOk(Driver)
  <2>1. NextOk(Driver)
    BY <1>4 DEF Driver, NewMsd, NextOk
  <2>2. Configured(Driver) /\ Client(Driver)
    BY <1>4 DEF Driver, NewPort, Configured, Client
  <2> QED
    BY <1>5, <2>1, <2>2 DEF DriverOk, AtMostOne
<1>7. PipesAreForDisks /\ AsksAreKnown /\ AskedIsAwaited
  BY <1>2, <1>3, <1>4, <1>5 DEF PipesAreForDisks, AsksAreKnown, AskedIsAwaited, NewEp0,
     NewCsr, NewSide, Sides, Plain, NoRequest, Request
<1>8. BusIsSilent /\ ResetComesAfterPackets
  BY <1>2, <1>4, <1>5 DEF BusIsSilent, ResetComesAfterPackets
<1>9. StallsAreTold /\ TakenIsTold
  BY <1>4 DEF StallsAreTold, TakenIsTold, Due, NewCsr, Sides
<1> QED
  BY <1>2, <1>6, <1>7, <1>8, <1>9 DEF ListeningInv

\* All that ServedFacts asks of the driver when it is polled
LEMMA PollServes ==
  ASSUME ListeningInv, Poll, NEW d, d = [Driver EXCEPT !.intr = {}]
  PROVE  /\ d.port = port /\ d.ep0 = ep0 /\ d.end = end /\ d.csr = csr /\ d.intr = {}
         /\ DriverOk(d) /\ Rested(d)
         /\ LateIsShort(Driver) => LateIsShort(d)
         /\ Pending(d) => /\ "rx" \in intr /\ ~d.csr["rx"].sentstall
                          /\ NotAsked("BOT_RESET", d)
         /\ \A s \in Sides : d.csr[s].sentstall => s \in intr
         /\ "tx" \in intr /\ "reset" \notin intr =>
              NoTxWork(d) /\ (d.csr["tx"].sentstall \/ NotAsked("CLEAR_FEATURE", d))
<1>1. queue = <<>> /\ spin = NoIrp
  BY DEF Poll, Ready
<1>2. /\ DriverOk(Driver) /\ Shape(Driver) /\ Driver.port = port /\ Driver.ep0 = ep0
      /\ Driver.end = end /\ Driver.csr = csr /\ Driver.queue = queue /\ Driver.spin = spin
  BY DEF ListeningInv, DriverOk, Driver
<1>3. /\ d.port = port /\ d.ep0 = ep0 /\ d.end = end /\ d.csr = csr /\ d.queue = <<>>
      /\ d.spin = NoIrp /\ d.intr = {} /\ d.msd = Driver.msd /\ d.port = Driver.port
      /\ DOMAIN d = DOMAIN Driver
  BY <1>1, <1>2, IntrFacts
<1>4. /\ DriverOk(d) /\ Rested(d) /\ (Pending(d) <=> Pending(Driver))
      /\ LateIsShort(Driver) => LateIsShort(d)
  <2>1. DOMAIN Driver = {"port", "ep0", "end", "csr", "bIsHalted", "dwTxSize", "irp", "msd",
                         "cbw", "queue", "intr", "spin"}
    BY DEF Driver
  <2> QED
    BY <1>1, <1>2, <1>3, <2>1, SameDriver DEF Rested
<1>5. Pending(d) => Disk
  BY <1>3 DEF ListeningInv, PipesAreForDisks, Pending
<1>6. ~Disk \/ (Plain(ep0.rx) /\ LateIsShort(d))
  BY <1>4 DEF ListeningInv, AsksAreKnown
<1>7. Pending(d) => /\ "rx" \in intr /\ ~d.csr["rx"].sentstall /\ NotAsked("BOT_RESET", d)
  BY <1>3, <1>4, <1>5, <1>6 DEF ListeningInv, ResetComesAfterPackets, StallsAreTold, Sides,
     NotAsked, LateIsShort, Short, Late
<1>8. \A s \in Sides : d.csr[s].sentstall => s \in intr
  BY <1>3 DEF ListeningInv, StallsAreTold
<1>9. "tx" \in intr /\ "reset" \notin intr =>
        NoTxWork(d) /\ (d.csr["tx"].sentstall \/ NotAsked("CLEAR_FEATURE", d))
  <2> SUFFICES ASSUME "tx" \in intr, "reset" \notin intr, ~csr["tx"].sentstall
               PROVE  NoTxWork(d) /\ NotAsked("CLEAR_FEATURE", d)
    BY <1>3 DEF NoTxWork
  <2>1. /\ end["tx"].irp # NoIrp /\ csr["tx"].pkt = NoPacket /\ ep0.rx.op # "CLEAR_FEATURE"
    BY DEF ListeningInv, TakenIsTold, Due
  <2>2. Disk
    BY <2>1 DEF ListeningInv, PipesAreForDisks
  <2> QED
    BY <1>3, <1>6, <2>1, <2>2 DEF NoTxWork, NotAsked, LateIsShort, Short, Late
<1> QED
  BY <1>3, <1>4, <1>7, <1>8, <1>9

\* The interrupts that are there are served in a fixed order: reset, 0, transmit, receive.
LEMMA PollKeeps == ASSUME ListeningInv, Poll PROVE ListeningInv'
<1> DEFINE d == [Driver EXCEPT !.intr = {}]
           e == Served(d, intr)
<1>1. Becomes(e) /\ host' = host
  BY DEF Poll
<1>2. /\ d.port = port /\ d.ep0 = ep0 /\ d.end = end /\ d.csr = csr /\ d.intr = {}
      /\ DriverOk(d) /\ Rested(d)
      /\ LateIsShort(Driver) => LateIsShort(d)
      /\ Pending(d) => /\ "rx" \in intr /\ ~d.csr["rx"].sentstall /\ NotAsked("BOT_RESET", d)
      /\ \A s \in Sides : d.csr[s].sentstall => s \in intr
      /\ "tx" \in intr /\ "reset" \notin intr =>
           NoTxWork(d) /\ (d.csr["tx"].sentstall \/ NotAsked("CLEAR_FEATURE", d))
  BY PollServes
<1> HIDE DEF d
<1>3. ~Disk \/ (Plain(ep0.rx) /\ LateIsShort(d))
  BY <1>2 DEF ListeningInv, AsksAreKnown
<1>4. /\ DriverOk(e) /\ e.spin = NoIrp /\ e.intr = {} /\ ~Pending(e)
      /\ e.port.pFunctionClient = port.pFunctionClient
      /\ \A s \in Sides : ~e.csr[s].sentstall
      /\ end["tx"].irp = NoIrp /\ csr["rx"].pkt = NoPacket =>
           e.end["tx"].irp = NoIrp /\ e.csr["rx"].pkt = NoPacket /\ e.queue = <<>>
      /\ ep0.rx = NoRequest \/ ("ep0" \in intr /\ ~ep0.sentstall) => e.ep0.rx = NoRequest
      /\ Plain(ep0.rx) /\ LateIsShort(d) => LateIsShort(e)
  BY <1>2, ServedFacts
<1> HIDE DEF e
<1>5. /\ port' = e.port /\ ep0' = e.ep0 /\ end' = e.end /\ csr' = e.csr /\ queue' = e.queue
      /\ intr' = {} /\ spin' = NoIrp
  BY <1>1, <1>4 DEF Becomes
<1>6. DriverOk(Driver)' /\ ~Pending(Driver)' /\ (LateIsShort(e) => LateIsShort(Driver)')
  BY <1>1, <1>4, BecomesFacts
<1>7. Disk => e.ep0.rx = NoRequest
  BY <1>4 DEF ListeningInv, AskedIsAwaited
<1>8. PipesAreForDisks'
  BY <1>1, <1>4, <1>5 DEF ListeningInv, PipesAreForDisks, Disk
<1>9. AsksAreKnown' /\ AskedIsAwaited'
  BY <1>1, <1>3, <1>4, <1>5, <1>6, <1>7 DEF ListeningInv, AsksAreKnown, AskedIsAwaited,
     Disk, Plain, NoRequest, Request
<1>10. BusIsSilent' /\ ResetComesAfterPackets'
  BY <1>1, <1>4, <1>5, <1>6 DEF ListeningInv, BusIsSilent, ResetComesAfterPackets
<1>11. StallsAreTold' /\ TakenIsTold'
  BY <1>4, <1>5 DEF StallsAreTold, TakenIsTold, Due
<1> QED
  BY <1>1, <1>6, <1>8, <1>9, <1>10, <1>11 DEF ListeningInv

\* The background calls the client back.
LEMMA BsrKeeps == ASSUME ListeningInv, Bsr PROVE ListeningInv'
<1> DEFINE d == Driver
           e == Completed(d)
<1>1. /\ d.port = port /\ d.ep0 = ep0 /\ d.csr = csr /\ d.queue = queue /\ d.intr = intr
      /\ d.end = end
  BY DEF Driver
<1>2. Becomes(e) /\ host' = host /\ queue # <<>> /\ DriverOk(d)
  BY DEF Bsr, ListeningInv
<1>3. LateIsShort(d) <=> LateIsShort(Driver)
  OBVIOUS
<1> HIDE DEF d
<1>4. /\ DriverOk(e) /\ e.port = port /\ e.ep0 = ep0 /\ e.intr = intr /\ ~Pending(e)
      /\ end["tx"].irp = NoIrp
      /\ \A s \in Sides : /\ e.csr[s].sentstall = csr[s].sentstall
                          /\ csr[s].sendstall => e.csr[s].sendstall
  BY <1>1, <1>2, CompletedFacts
<1>5. LateIsShort(d) => LateIsShort(e)
  BY <1>1, <1>4 DEF LateIsShort, Short
<1> HIDE DEF e
<1>6. /\ port' = port /\ ep0' = ep0 /\ intr' = intr /\ csr' = e.csr
  BY <1>2, <1>4 DEF Becomes
<1>7. DriverOk(Driver)' /\ ~Pending(Driver)' /\ (LateIsShort(Driver) => LateIsShort(Driver)')
  BY <1>2, <1>3, <1>4, <1>5, BecomesFacts
<1>8. Disk
  BY <1>2 DEF ListeningInv, PipesAreForDisks
<1>9. ~Due
  BY <1>4 DEF ListeningInv, TakenIsTold
<1>10. ~Due'
  BY <1>4, <1>6, <1>9, Zenon DEF Due, Sides
<1>11. PipesAreForDisks' /\ AsksAreKnown' /\ AskedIsAwaited' /\ BusIsSilent'
  BY <1>2, <1>6, <1>7, <1>8 DEF ListeningInv, PipesAreForDisks, AsksAreKnown,
     AskedIsAwaited, BusIsSilent, Disk
<1>12. ResetComesAfterPackets'
  BY <1>2, <1>7 DEF ListeningInv, ResetComesAfterPackets
<1>13. StallsAreTold'
  <2> SUFFICES ASSUME NEW s \in Sides, e.csr[s].sentstall
               PROVE  e.csr[s].sendstall /\ s \in intr
    BY <1>6 DEF StallsAreTold
  <2>1. csr[s].sentstall
    BY <1>4, Zenon
  <2>2. csr[s].sendstall /\ s \in intr
    BY <2>1 DEF ListeningInv, StallsAreTold
  <2> QED
    BY <1>4, <2>2, Zenon
<1> QED
  BY <1>2, <1>7, <1>10, <1>11, <1>12, <1>13 DEF ListeningInv, TakenIsTold

\* The packet that MGC_MhdrcStartRx polls for has come.
LEMMA SpinKeeps == ASSUME ListeningInv, Spin PROVE ListeningInv'
<1> DEFINE d == Driver
           e == Polled(d)
<1>1. /\ d.port = port /\ d.ep0 = ep0 /\ d.csr = csr /\ d.spin = spin /\ d.intr = intr
      /\ d.end = end
  BY DEF Driver
<1>2. Becomes(e) /\ host' = host /\ d.spin # NoIrp /\ DriverOk(d)
  BY <1>1 DEF Spin, Polled, ListeningInv
<1>3. LateIsShort(d) <=> LateIsShort(Driver)
  OBVIOUS
<1> HIDE DEF d
<1>4. /\ DriverOk(e) /\ e.port = port /\ e.ep0 = ep0 /\ e.intr = intr /\ ~Pending(e)
      /\ end["tx"].irp = NoIrp
      /\ \A s \in Sides : /\ e.csr[s].sentstall = csr[s].sentstall
                          /\ e.csr[s].sendstall = csr[s].sendstall
  BY <1>1, <1>2, SpinFacts
<1>5. LateIsShort(d) => LateIsShort(e)
  BY <1>1, <1>4 DEF LateIsShort, Short
<1> HIDE DEF e
<1>6. /\ port' = port /\ ep0' = ep0 /\ intr' = intr /\ csr' = e.csr
  BY <1>2, <1>4 DEF Becomes
<1>7. DriverOk(Driver)' /\ ~Pending(Driver)' /\ (LateIsShort(Driver) => LateIsShort(Driver)')
  BY <1>2, <1>3, <1>4, <1>5, BecomesFacts
<1>8. Disk
  BY <1>1, <1>2 DEF ListeningInv, PipesAreForDisks
<1>9. ~Due
  BY <1>4 DEF ListeningInv, TakenIsTold
<1>10. ~Due'
  BY <1>4, <1>6, <1>9, Zenon DEF Due, Sides
<1>11. PipesAreForDisks' /\ AsksAreKnown' /\ AskedIsAwaited' /\ BusIsSilent'
  BY <1>2, <1>6, <1>7, <1>8 DEF ListeningInv, PipesAreForDisks, AsksAreKnown,
     AskedIsAwaited, BusIsSilent, Disk
<1>12. ResetComesAfterPackets'
  BY <1>2, <1>7 DEF ListeningInv, ResetComesAfterPackets
<1>13. StallsAreTold'
  <2> SUFFICES ASSUME NEW s \in Sides, e.csr[s].sentstall
               PROVE  e.csr[s].sendstall /\ s \in intr
    BY <1>6 DEF StallsAreTold
  <2>1. csr[s].sentstall
    BY <1>4, Zenon
  <2>2. csr[s].sendstall /\ s \in intr
    BY <2>1 DEF ListeningInv, StallsAreTold
  <2> QED
    BY <1>4, <2>2, Zenon
<1> QED
  BY <1>2, <1>7, <1>10, <1>11, <1>12, <1>13 DEF ListeningInv, TakenIsTold

\* Before there is a client nothing has happened on the bus.
LEMMA RegisterKeeps == ASSUME ListeningInv, Register PROVE ListeningInv'
<1> DEFINE d == Driver
           r == RegisterClient(d)
           causes == IF r.port.pFunctionClient THEN {"reset"} ELSE {}
           e == [r EXCEPT !.intr = causes]
<1>1. /\ d.port = port /\ d.ep0 = ep0 /\ d.csr = csr /\ d.spin = spin /\ d.queue = queue
      /\ d.end = end
      /\ LateIsShort(d) <=> LateIsShort(Driver)
      /\ Pending(d) <=> Pending(Driver)
  BY DEF Driver
<1>2. Becomes(e) /\ host' = host /\ DriverOk(d) /\ ~d.port.pFunctionClient
  BY <1>1 DEF Register, ListeningInv
<1> HIDE DEF d
<1>3. /\ DriverOk(r) /\ r.csr = csr /\ r.ep0 = ep0 /\ r.queue = queue /\ r.spin = spin
      /\ \A t \in Sides : r.end[t].irp = end[t].irp
      /\ LateIsShort(d) => LateIsShort(r)
  BY <1>1, <1>2, RegisterFacts
<1> HIDE DEF r
<1>4. /\ e.port = r.port /\ e.ep0 = r.ep0 /\ e.end = r.end /\ e.csr = r.csr
      /\ e.bIsHalted = r.bIsHalted /\ e.dwTxSize = r.dwTxSize /\ e.irp = r.irp
      /\ e.msd = r.msd /\ e.cbw = r.cbw /\ e.queue = r.queue /\ e.spin = r.spin
      /\ e.intr = causes
  BY <1>3, IntrFacts DEF DriverOk
<1> HIDE DEF e, causes
<1>5. /\ port' = r.port /\ ep0' = ep0 /\ end' = r.end /\ csr' = csr /\ queue' = queue
      /\ spin' = spin /\ intr' = causes
  BY <1>2, <1>3, <1>4 DEF Becomes
<1>6. Becomes([r EXCEPT !.intr = causes])
  BY <1>2 DEF e
<1>7. DriverOk(Driver)' /\ (LateIsShort(Driver) => LateIsShort(Driver)')
  <2>1. /\ Driver'.port = r.port /\ Driver'.ep0 = r.ep0 /\ Driver'.end = r.end
        /\ Driver'.csr = r.csr /\ Driver'.msd = r.msd
        /\ Driver'.queue = r.queue /\ Driver'.spin = r.spin
        /\ DOMAIN Driver' = {"port", "ep0", "end", "csr", "bIsHalted", "dwTxSize", "irp",
                             "msd", "cbw", "queue", "intr", "spin"}
    BY <1>2, <1>4 DEF Becomes, Driver
  <2> QED
    BY <1>1, <1>3, <2>1, SameDriver
<1>8. /\ intr = {} /\ host.bot = "none" /\ host.stage = "idle"
  BY <1>1, <1>2 DEF ListeningInv, BusIsSilent
<1>9. ~Pending(Driver) /\ (Pending(Driver)' <=> Pending(Driver)) /\ \A s \in Sides : ~csr[s].sentstall
  <2>1. ~Pending(Driver) /\ \A s \in Sides : ~csr[s].sentstall
    BY <1>8 DEF ListeningInv, ResetComesAfterPackets, StallsAreTold
  <2>2. Pending(Driver)' <=> Pending(Driver)
    BY <1>3, <1>5 DEF Pending, Driver, Sides
  <2> QED
    BY <2>1, <2>2
<1>10. Disk => ep0.rx = NoRequest
  BY <1>8 DEF ListeningInv, AskedIsAwaited
<1>11. PipesAreForDisks' /\ AsksAreKnown' /\ AskedIsAwaited'
  BY <1>2, <1>3, <1>5, <1>7, <1>10 DEF ListeningInv, PipesAreForDisks, AsksAreKnown,
     AskedIsAwaited, Disk, Sides
<1>12. BusIsSilent'
  BY <1>2, <1>5, <1>8 DEF BusIsSilent, causes
<1>13. ResetComesAfterPackets'
  BY <1>2, <1>8, <1>9 DEF ResetComesAfterPackets
<1>14. StallsAreTold' /\ TakenIsTold'
  BY <1>5, <1>9 DEF StallsAreTold, TakenIsTold, Due, causes
<1> QED
  BY <1>2, <1>7, <1>11, <1>12, <1>13, <1>14 DEF ListeningInv

-----------------------------------------------------------------------------
(* The invariant: the bus and the control transfers *)

\* A reset of the bus empties the FIFOs.
LEMMA ResetBusKeeps == ASSUME ListeningInv, ResetBus PROVE ListeningInv'
<1> DEFINE n == NewHost(host.kind)
<1>1. /\ port.pFunctionClient /\ ep0' = NewEp0 /\ csr' = [s \in Sides |-> NewCsr]
      /\ intr' = intr \cup {"reset"}
      /\ UNCHANGED <<port, end, bIsHalted, dwTxSize, irp, msd, cbw, queue, spin>>
      /\ host' = [n EXCEPT !.requests = host.requests, !.commands = host.commands,
                           !.tag = host.tag, !.abandons = host.abandons,
                           !.resets = host.resets - 1, !.wrong = host.wrong]
  BY DEF ResetBus
<1>2. /\ HostShape(n) /\ n.kind = host.kind /\ n.stage = "idle" /\ n.bot = "none" /\ ~n.cleared
      /\ n.script = (IF Disk THEN Enumeration ELSE <<>>)
  BY NewHostFacts DEF Disk
<1> HIDE DEF n
<1>3. /\ HostShape(host') /\ host'.kind = host.kind /\ host'.stage = "idle"
      /\ host'.bot = "none" /\ ~host'.cleared /\ host'.requests = host.requests
      /\ host'.script = n.script
  BY <1>1, <1>2 DEF HostShape
<1>4. host'.script \in Seq(Asks)
  BY <1>2, <1>3, AsksFacts
<1>5. DriverOk(Driver)'
  BY <1>1, OutsideFacts DEF ListeningInv, NewEp0, NewCsr, Sides
<1>6. ~Pending(Driver)' /\ (LateIsShort(Driver) => LateIsShort(Driver)')
  BY <1>1 DEF Pending, LateIsShort, Short, Driver, NewCsr, Sides
<1>7. PipesAreForDisks' /\ AsksAreKnown' /\ AskedIsAwaited'
  BY <1>1, <1>2, <1>3, <1>4, <1>6 DEF ListeningInv, PipesAreForDisks, AsksAreKnown,
     AskedIsAwaited, NewEp0, NewCsr, Sides, Plain, NoRequest, Request, Disk
<1>8. BusIsSilent' /\ ResetComesAfterPackets'
  BY <1>1, <1>3, <1>6 DEF BusIsSilent, ResetComesAfterPackets
<1>9. StallsAreTold' /\ TakenIsTold'
  BY <1>1 DEF StallsAreTold, TakenIsTold, Due, NewCsr, Sides
<1> QED
  BY <1>3, <1>5, <1>7, <1>8, <1>9 DEF ListeningInv

\* A SETUP packet
LEMMA SetupKeeps ==
  ASSUME ListeningInv, NEW r, Setup(r), HostShape(host'), host'.kind = host.kind,
         host'.req = r, host'.stage = (IF r.wLength = 0 THEN "status" ELSE "data"),
         host'.bot = host.bot, host'.cleared = host.cleared,
         host'.script \in Seq(Asks), ~Disk => host'.script = <<>>,
         Disk => Plain(r) /\ r # NoRequest /\ host'.requests = 0,
         Pending(Driver) => /\ r.op # "BOT_RESET"
                            /\ host'.script \in Seq(Asks \ {BotResetRequest}),
         Due => r.op # "CLEAR_FEATURE"
  PROVE  ListeningInv'
<1>1. /\ Is(host, "idle") /\ "reset" \notin intr /\ port.pFunctionClient
      /\ host.kind = "hasty" \/ ~ep0.sentstall
      /\ ep0' = [ep0 EXCEPT !.rx = r, !.tx = NoReply, !.dataend = FALSE, !.sendstall = FALSE,
                            !.setupend = @ \/ (ep0.busy /\ ~ep0.dataend), !.busy = TRUE]
      /\ intr' = intr \cup {"ep0"}
      /\ UNCHANGED <<port, end, csr, bIsHalted, dwTxSize, irp, msd, cbw, queue, spin>>
  BY DEF Setup
<1>2. /\ {"rx", "sentstall", "sendstall", "dataend"} \subseteq DOMAIN ep0
      /\ Sides \subseteq DOMAIN csr
      /\ \A s \in Sides : {"pkt", "sendstall", "sentstall", "tog"} \subseteq DOMAIN csr[s]
  BY FieldsFacts DEF ListeningInv
<1>3. /\ ep0'.rx = r /\ ~ep0'.sendstall /\ ~ep0'.dataend
      /\ DOMAIN ep0' = DOMAIN ep0
  BY <1>1, <1>2
<1>4. ~ep0.sentstall => ~ep0'.sentstall
  BY <1>1, <1>2
<1>5. DriverOk(Driver)'
  BY <1>1, <1>2, <1>3, OutsideFacts DEF ListeningInv
<1>6. (Pending(Driver)' <=> Pending(Driver)) /\ (LateIsShort(Driver) => LateIsShort(Driver)')
  BY <1>1 DEF Pending, LateIsShort, Short, Driver
<1>7. Due' <=> Due
  BY <1>1 DEF Due
<1>8. PipesAreForDisks' /\ BusIsSilent'
  BY <1>1 DEF ListeningInv, PipesAreForDisks, BusIsSilent, Disk
<1>9. AsksAreKnown'
  BY <1>1, <1>3, <1>6 DEF ListeningInv, AsksAreKnown, Disk, Plain
<1>10. AskedIsAwaited'
  BY <1>1, <1>3, <1>4 DEF AskedIsAwaited, Disk
<1>11. (Pending(Driver) => Disk) /\ (Due => Disk)
  BY PendingIs DEF ListeningInv, PipesAreForDisks, TakenIsTold
<1>12. ResetComesAfterPackets'
  BY <1>1, <1>3, <1>6, <1>11 DEF ListeningInv, ResetComesAfterPackets
<1>13. StallsAreTold'
  BY <1>1 DEF ListeningInv, StallsAreTold
<1>14. TakenIsTold'
  BY <1>1, <1>3, <1>7, <1>11 DEF ListeningInv, TakenIsTold
<1> QED
  BY <1>5, <1>8, <1>9, <1>10, <1>12, <1>13, <1>14 DEF ListeningInv

\* An explorer has no bulk transfers.
LEMMA ExploreKeeps == ASSUME ListeningInv, Explore PROVE ListeningInv'
<1>1. PICK r \in Requests : Setup(r) /\ host' = [Sent(r) EXCEPT !.requests = @ - 1]
  BY DEF Explore
<1>2. ~Disk
  BY DEF Explore, ListeningInv, AsksAreKnown
<1> DEFINE e == Sent(r)
<1>3. /\ HostShape(e) /\ e.kind = host.kind /\ e.req = r
      /\ e.stage = (IF r.wLength = 0 THEN "status" ELSE "data")
      /\ e.script = host.script /\ e.bot = host.bot /\ e.cleared = host.cleared
  BY SentFacts DEF ListeningInv
<1>4. host' = [e EXCEPT !.requests = @ - 1]
  BY <1>1
<1> HIDE DEF e
<1>5. /\ HostShape(host') /\ host'.kind = host.kind /\ host'.req = r
      /\ host'.stage = (IF r.wLength = 0 THEN "status" ELSE "data")
      /\ host'.script = host.script /\ host'.bot = host.bot /\ host'.cleared = host.cleared
  BY <1>3, <1>4 DEF HostShape
<1>6. ~Pending(Driver) /\ ~Due /\ host.script = <<>>
  BY <1>2, PendingIs DEF ListeningInv, PipesAreForDisks, TakenIsTold
<1>7. host'.script \in Seq(Asks)
  BY <1>5, <1>6
<1> QED
  BY <1>1, <1>2, <1>5, <1>6, <1>7, SetupKeeps

\* What is next in the script of a disk's host
LEMMA NextOfScriptKeeps == ASSUME ListeningInv, NextOfScript PROVE ListeningInv'
<1> DEFINE r == Head(host.script)
           e == Sent(r)
<1>1. Setup(r) /\ host' = [e EXCEPT !.script = Tail(@)] /\ host.script # <<>>
  BY DEF NextOfScript
<1>2. Disk /\ host.script \in Seq(Asks) /\ host.requests = 0
  BY <1>1 DEF ListeningInv, PipesAreForDisks, AsksAreKnown
<1>3. r \in Asks /\ Tail(host.script) \in Seq(Asks)
  BY <1>1, <1>2, AsksFacts
<1>4. /\ HostShape(e) /\ e.kind = host.kind /\ e.req = r
      /\ e.stage = (IF r.wLength = 0 THEN "status" ELSE "data")
      /\ e.script = host.script /\ e.bot = host.bot /\ e.cleared = host.cleared
      /\ e.requests = host.requests
  BY SentFacts DEF ListeningInv
<1> HIDE DEF e, r
<1>5. /\ HostShape(host') /\ host'.kind = host.kind /\ host'.req = r
      /\ host'.stage = (IF r.wLength = 0 THEN "status" ELSE "data")
      /\ host'.script = Tail(host.script) /\ host'.bot = host.bot
      /\ host'.cleared = host.cleared /\ host'.requests = 0
  BY <1>1, <1>2, <1>4 DEF HostShape
<1>6. Plain(r) /\ r # NoRequest
  BY <1>3, AsksFacts
<1>7. ep0.rx = NoRequest
  BY <1>1, <1>2 DEF ListeningInv, AskedIsAwaited, Setup, Is
<1>8. Pending(Driver) => /\ r.op # "BOT_RESET"
                         /\ Tail(host.script) \in Seq(Asks \ {BotResetRequest})
  <2> SUFFICES ASSUME Pending(Driver)
               PROVE  /\ r.op # "BOT_RESET"
                      /\ Tail(host.script) \in Seq(Asks \ {BotResetRequest})
    OBVIOUS
  <2>1. host.script \in Seq(Asks \ {BotResetRequest})
    BY DEF ListeningInv, ResetComesAfterPackets
  <2>2. /\ r \in Asks \ {BotResetRequest}
        /\ Tail(host.script) \in Seq(Asks \ {BotResetRequest})
    BY <1>1, <2>1, AsksFacts DEF r
  <2> QED
    BY <2>2, AsksFacts
<1>9. Due => r.op # "CLEAR_FEATURE"
  BY <1>1, <1>7 DEF ListeningInv, TakenIsTold, r
<1> QED
  BY <1>1, <1>2, <1>3, <1>5, <1>6, <1>8, <1>9, SetupKeeps

\* A packet of a control transfer, and its end
LEMMA ControlKeeps ==
  ASSUME ListeningInv, NEW f, NEW causes, causes \subseteq {"ep0"}, Bus0(f, causes, host'),
         {"rx", "sentstall", "sendstall", "dataend"} \subseteq DOMAIN f,
         f.rx = ep0.rx \/ ~Disk,
         HostShape(host'), host'.kind = host.kind, host'.requests = host.requests,
         host'.script = host.script, host'.cleared = host.cleared,
         host'.bot = host.bot \/ (Disk /\ host'.bot = "ready"),
         Disk => (host'.stage = "data" => DirIn(host'.req)),
         Disk /\ ep0.rx # NoRequest => /\ host'.stage # "idle"
                                       /\ ~f.sentstall /\ ~f.dataend /\ ~f.sendstall,
         host.stage # "idle"
  PROVE  ListeningInv'
<1>1. /\ ep0' = f /\ intr' = intr \cup causes
      /\ UNCHANGED <<port, end, csr, bIsHalted, dwTxSize, irp, msd, cbw, queue, spin>>
  BY DEF Bus0
<1>2. port.pFunctionClient /\ "reset" \notin intr
  BY DEF ListeningInv, BusIsSilent
<1>3. DriverOk(Driver)'
  BY <1>1, FieldsFacts, OutsideFacts DEF ListeningInv
<1>4. (Pending(Driver)' <=> Pending(Driver)) /\ (LateIsShort(Driver) => LateIsShort(Driver)')
  BY <1>1 DEF Pending, LateIsShort, Short, Driver
<1>5. Due' <=> Due
  BY <1>1 DEF Due
<1>6. (Pending(Driver) => Disk) /\ (Due => Disk)
  BY PendingIs DEF ListeningInv, PipesAreForDisks, TakenIsTold
<1>7. PipesAreForDisks' /\ BusIsSilent'
  BY <1>1, <1>2 DEF ListeningInv, PipesAreForDisks, BusIsSilent, Disk
<1>8. AsksAreKnown'
  BY <1>1, <1>4 DEF ListeningInv, AsksAreKnown, Disk
<1>9. AskedIsAwaited'
  BY <1>1 DEF ListeningInv, AskedIsAwaited, Disk
<1>10. ResetComesAfterPackets'
  BY <1>1, <1>4, <1>6 DEF ListeningInv, ResetComesAfterPackets
<1>11. StallsAreTold'
  BY <1>1 DEF ListeningInv, StallsAreTold
<1>12. TakenIsTold'
  BY <1>1, <1>5, <1>6 DEF ListeningInv, TakenIsTold
<1> QED
  BY <1>3, <1>7, <1>8, <1>9, <1>10, <1>11, <1>12 DEF ListeningInv

\* A packet of the data stage
LEMMA TakeReplyKeeps == ASSUME ListeningInv, TakeReply PROVE ListeningInv'
<1> DEFINE f == [ep0 EXCEPT !.tx = NoReply]
           causes == IF ep0.dataend THEN {} ELSE {"ep0"}
<1>1. PICK total, stage, bad :
        LET g == [host EXCEPT !.got = total, !.stage = stage]
        IN  /\ Bus0(f, causes, host') /\ host' = Wrong(g, bad, "reply")
            /\ stage \in {"status", host.stage}
  BY DEF TakeReply, Bus0
<1> DEFINE g == [host EXCEPT !.got = total, !.stage = stage]
<1>2. Is(host, "data") /\ DirIn(host.req) /\ ~ep0.sendstall /\ HostShape(host)
  BY DEF TakeReply, ListeningInv
<1>3. /\ HostShape(g) /\ g.kind = host.kind /\ g.req = host.req /\ g.script = host.script
      /\ g.bot = host.bot /\ g.cleared = host.cleared /\ g.requests = host.requests
      /\ g.stage \in {"data", "status"}
  BY <1>1, <1>2 DEF HostShape, Is
<1>4. Bus0(f, causes, host') /\ host' = Wrong(g, bad, "reply")
  BY <1>1
<1> HIDE DEF g
<1>5. /\ HostShape(host') /\ host'.kind = host.kind /\ host'.req = host.req
      /\ host'.script = host.script /\ host'.bot = host.bot /\ host'.cleared = host.cleared
      /\ host'.requests = host.requests /\ host'.stage = g.stage
  <2>1. \A h : h = Wrong(g, bad, "reply") =>
          /\ HostShape(h) /\ h.kind = g.kind /\ h.stage = g.stage /\ h.req = g.req
          /\ h.script = g.script /\ h.bot = g.bot /\ h.cleared = g.cleared
          /\ h.requests = g.requests
    BY <1>3, WrongFacts
  <2> QED
    BY <1>3, <1>4, <2>1
<1>6. /\ f.rx = ep0.rx /\ (f.sentstall <=> ep0.sentstall) /\ (f.dataend <=> ep0.dataend)
      /\ (f.sendstall <=> ep0.sendstall) /\ DOMAIN f = DOMAIN ep0 /\ causes \subseteq {"ep0"}
  OBVIOUS
<1> HIDE DEF f, causes
<1>7. {"rx", "sentstall", "sendstall", "dataend"} \subseteq DOMAIN f
  BY <1>6, FieldsFacts DEF ListeningInv
<1>8. Disk /\ ep0.rx # NoRequest => ~f.sentstall /\ ~f.dataend /\ ~f.sendstall
  BY <1>6 DEF ListeningInv, AskedIsAwaited
<1> QED
  BY <1>2, <1>3, <1>4, <1>5, <1>6, <1>7, <1>8, ControlKeeps DEF Is

\* The host of a disk sends no data on endpoint 0.
LEMMA SendData0Keeps == ASSUME ListeningInv, SendData0 PROVE ListeningInv'
<1>1. PICK n, got, stage :
        /\ Bus0([ep0 EXCEPT !.rx = DataPacket(n)], {"ep0"}, host')
        /\ host' = [host EXCEPT !.got = got, !.stage = stage]
        /\ stage \in {"status", host.stage}
  BY DEF SendData0, Bus0
<1>2. Is(host, "data") /\ ~DirIn(host.req) /\ HostShape(host)
  BY DEF SendData0, ListeningInv
<1>3. ~Disk
  BY <1>2 DEF ListeningInv, AsksAreKnown, Is
<1> DEFINE f == [ep0 EXCEPT !.rx = DataPacket(n)]
<1>4. {"rx", "sentstall", "sendstall", "dataend"} \subseteq DOMAIN f
  BY FieldsFacts DEF ListeningInv
<1>5. Bus0(f, {"ep0"}, host')
  BY <1>1
<1> HIDE DEF f
<1>6. /\ HostShape(host') /\ host'.kind = host.kind /\ host'.script = host.script
      /\ host'.bot = host.bot /\ host'.cleared = host.cleared
      /\ host'.requests = host.requests
  BY <1>1, <1>2 DEF HostShape
<1> QED
  BY <1>2, <1>3, <1>4, <1>5, <1>6, ControlKeeps DEF Is

\* The status stage comes after the request was parsed.
LEMMA StatusStageKeeps == ASSUME ListeningInv, StatusStage PROVE ListeningInv'
<1> DEFINE f == [ep0 EXCEPT !.dataend = FALSE, !.busy = FALSE]
           l == Learnt(host)
<1>1. Is(host, "status") /\ ep0.dataend /\ Bus0(f, {"ep0"}, host') /\ host' = Done(l)
  BY DEF StatusStage, Bus0
<1>2. /\ HostShape(l) /\ l.kind = host.kind /\ l.stage = host.stage
      /\ l.script = host.script /\ l.cleared = host.cleared /\ l.requests = host.requests
      /\ l.bot = host.bot \/ (Disk /\ l.bot = "ready")
  BY LearntFacts DEF ListeningInv, Disk
<1> HIDE DEF l
<1>3. /\ HostShape(host') /\ host'.kind = l.kind /\ host'.stage = "idle"
      /\ host'.script = l.script /\ host'.bot = l.bot /\ host'.cleared = l.cleared
      /\ host'.requests = l.requests
  BY <1>1, <1>2, DoneFacts
<1>4. Disk => ep0.rx = NoRequest
  BY <1>1 DEF ListeningInv, AskedIsAwaited
<1>5. /\ f.rx = ep0.rx /\ {"rx", "sentstall", "sendstall", "dataend"} \subseteq DOMAIN f
  BY FieldsFacts DEF ListeningInv
<1> HIDE DEF f
<1> QED
  BY <1>1, <1>2, <1>3, <1>4, <1>5, ControlKeeps DEF Is

\* An explorer ends the data stage.
LEMMA EndEarlyKeeps == ASSUME ListeningInv, EndEarly PROVE ListeningInv'
<1> DEFINE f == [ep0 EXCEPT !.tx = NoReply, !.setupend = TRUE, !.busy = FALSE]
<1>1. Is(host, "data") /\ Bus0(f, {"ep0"}, host') /\ host' = Done(host) /\ ~Disk
  BY DEF EndEarly, Bus0, Disk
<1>2. /\ HostShape(host') /\ host'.kind = host.kind /\ host'.stage = "idle"
      /\ host'.script = host.script /\ host'.bot = host.bot /\ host'.cleared = host.cleared
      /\ host'.requests = host.requests
  BY <1>1, DoneFacts DEF ListeningInv
<1>3. /\ f.rx = ep0.rx /\ {"rx", "sentstall", "sendstall", "dataend"} \subseteq DOMAIN f
  BY FieldsFacts DEF ListeningInv
<1> HIDE DEF f
<1> QED
  BY <1>1, <1>2, <1>3, ControlKeeps DEF Is

\* A request is refused.
LEMMA TakeStall0Keeps == ASSUME ListeningInv, TakeStall0 PROVE ListeningInv'
<1> DEFINE f == [ep0 EXCEPT !.sendstall = FALSE, !.sentstall = TRUE, !.busy = FALSE]
           l == Done(host)
           bad == host.kind = "disk"
<1>1. /\ host.stage # "idle" /\ ep0.sendstall
      /\ Bus0(f, {"ep0"}, host') /\ host' = Wrong(l, bad, "refused")
  BY DEF TakeStall0, Bus0
<1>2. /\ HostShape(l) /\ l.kind = host.kind /\ l.stage = "idle"
      /\ l.script = host.script /\ l.bot = host.bot /\ l.cleared = host.cleared
      /\ l.requests = host.requests
  BY DoneFacts DEF ListeningInv
<1> HIDE DEF l, bad
<1>3. /\ HostShape(host') /\ host'.kind = l.kind /\ host'.stage = "idle"
      /\ host'.script = l.script /\ host'.bot = l.bot /\ host'.cleared = l.cleared
      /\ host'.requests = l.requests
  BY <1>1, <1>2, WrongFacts
<1>4. Disk => ep0.rx = NoRequest
  BY <1>1 DEF ListeningInv, AskedIsAwaited
<1>5. /\ f.rx = ep0.rx /\ {"rx", "sentstall", "sendstall", "dataend"} \subseteq DOMAIN f
  BY FieldsFacts DEF ListeningInv
<1> HIDE DEF f
<1> QED
  BY <1>1, <1>2, <1>3, <1>4, <1>5, ControlKeeps

-----------------------------------------------------------------------------
(* The invariant: the bulk transfers, and what the host does alone *)

\* Between control transfers the host of a disk uses the pipes.
LEMMA AtBotFacts ==
  ASSUME ListeningInv, NEW phases, AtBot(phases), "none" \notin phases
  PROVE  /\ host.bot \in phases /\ host.stage = "idle" /\ host.script = <<>> /\ Disk
         /\ port.pFunctionClient /\ "reset" \notin intr /\ ep0.rx = NoRequest
         /\ host.requests = 0
  BY DEF AtBot, Is, ListeningInv, PipesAreForDisks, BusIsSilent, AskedIsAwaited, AsksAreKnown

\* Where only the host changes
LEMMA HostKeeps ==
  ASSUME ListeningInv, UNCHANGED driver, HostShape(host'), host'.kind = host.kind,
         Disk => host'.requests = 0 /\ ep0.rx = NoRequest,
         host'.script \in Seq(Asks), host'.stage = "idle",
         ~Disk => host'.bot = "none" /\ host'.script = <<>>,
         host'.bot # "none" => port.pFunctionClient /\ "reset" \notin intr,
         ~Pending(Driver),
         Due => host'.script = <<>> \/ Head(host'.script).op # "CLEAR_FEATURE",
         host'.bot = "out" => ~host'.cleared /\ ~csr["rx"].sendstall
  PROVE  ListeningInv'
<1>1. UNCHANGED <<port, ep0, end, csr, bIsHalted, dwTxSize, irp, msd, cbw, queue, intr, spin>>
  BY DEF driver
<1>2. /\ DriverOk(Driver)' /\ ~Pending(Driver)' /\ (LateIsShort(Driver) => LateIsShort(Driver)')
  <2>1. Driver' = Driver
    BY <1>1 DEF Driver
  <2> QED
    BY <2>1 DEF ListeningInv
<1>3. PipesAreForDisks' /\ BusIsSilent'
  BY <1>1 DEF ListeningInv, PipesAreForDisks, BusIsSilent, Disk
<1>4. AsksAreKnown' /\ AskedIsAwaited'
  BY <1>1, <1>2 DEF ListeningInv, AsksAreKnown, AskedIsAwaited, Disk
<1>5. ResetComesAfterPackets' /\ StallsAreTold'
  BY <1>1, <1>2 DEF ListeningInv, ResetComesAfterPackets, StallsAreTold
<1>6. TakenIsTold'
  BY <1>1 DEF ListeningInv, TakenIsTold, Due
<1> QED
  BY <1>2, <1>3, <1>4, <1>5, <1>6 DEF ListeningInv

\* A packet of the host that is kept, or dropped because it is a repetition
LEMMA PutKeeps ==
  ASSUME ListeningInv, NEW p, NEW h, Put(p, h), AtBot({"ready", "out"}),
         HostShape(h), h.kind = host.kind, h.stage = host.stage, h.script = host.script,
         h.requests = host.requests, ~h.cleared
  PROVE  ListeningInv'
<1> DEFINE c == csr["rx"]
           k == [c EXCEPT !.pkt = p, !.tog = 1 - @]
           g == [h EXCEPT !.tog["rx"] = 1 - @]
<1>1. /\ csr["rx"].pkt = NoPacket /\ ~csr["rx"].sendstall /\ host' = g
      /\ Bulk("rx", k, g) \/ UNCHANGED driver
  BY DEF Put, Bulk
<1>2. /\ host.stage = "idle" /\ host.script = <<>> /\ Disk /\ port.pFunctionClient
      /\ "reset" \notin intr /\ ep0.rx = NoRequest /\ host.requests = 0
  BY AtBotFacts
<1>3. /\ HostShape(g) /\ g.kind = host.kind /\ g.stage = "idle" /\ g.script = <<>>
      /\ g.requests = 0 /\ ~g.cleared
  BY <1>2 DEF HostShape
<1> HIDE DEF g
<1>4. ~Pending(Driver) /\ <<>> \in Seq(Asks)
  BY <1>1, PendingIs
<1>5. CASE UNCHANGED driver
  BY <1>1, <1>2, <1>3, <1>4, <1>5, HostKeeps
<1>6. CASE Bulk("rx", k, g)
  <2>1. /\ csr' = [csr EXCEPT !["rx"] = k] /\ intr' = intr \cup {"rx"}
        /\ UNCHANGED <<port, ep0, end, bIsHalted, dwTxSize, irp, msd, cbw, queue, spin>>
    BY <1>6 DEF Bulk
  <2>2. /\ {"rx", "sentstall", "sendstall", "dataend"} \subseteq DOMAIN ep0
        /\ Sides \subseteq DOMAIN csr
        /\ \A s \in Sides : {"pkt", "sendstall", "sentstall", "tog"} \subseteq DOMAIN csr[s]
    BY FieldsFacts DEF ListeningInv
  <2>3. /\ csr'["tx"] = csr["tx"] /\ csr'["rx"] = k /\ DOMAIN csr' = DOMAIN csr
        /\ DOMAIN k = DOMAIN c
    BY <2>1, <2>2 DEF Sides
  <2>4. (k.sentstall <=> c.sentstall) /\ (k.sendstall <=> c.sendstall)
    OBVIOUS
  <2> HIDE DEF k
  <2>5. DriverOk(Driver)'
    BY <2>1, <2>2, <2>3, OutsideFacts DEF ListeningInv, Sides
  <2>6. LateIsShort(Driver) => LateIsShort(Driver)'
    BY <2>1 DEF LateIsShort, Short, Driver
  <2>7. Due' <=> Due
    BY <2>1, <2>3 DEF Due
  <2>8. PipesAreForDisks' /\ BusIsSilent'
    BY <1>1, <1>2, <1>3, <2>1 DEF PipesAreForDisks, BusIsSilent, Disk
  <2>9. AsksAreKnown' /\ AskedIsAwaited'
    BY <1>1, <1>2, <1>3, <1>4, <2>1, <2>6 DEF ListeningInv, AsksAreKnown, AskedIsAwaited, Disk
  <2>10. ResetComesAfterPackets'
    BY <1>1, <1>2, <1>3, <2>1, <2>3, <2>4 DEF ResetComesAfterPackets, NoRequest, Request
  <2>11. StallsAreTold'
    BY <2>1, <2>3, <2>4 DEF ListeningInv, StallsAreTold, Sides
  <2>12. TakenIsTold'
    BY <1>1, <1>3, <2>1, <2>3, <2>4, <2>7 DEF ListeningInv, TakenIsTold
  <2> QED
    BY <1>1, <1>3, <2>5, <2>8, <2>9, <2>10, <2>11, <2>12 DEF ListeningInv
<1> QED
  BY <1>1, <1>5, <1>6

\* A command
LEMMA SendCbwKeeps == ASSUME ListeningInv, SendCbw PROVE ListeningInv'
<1>1. PICK c, next, p, h :
        /\ Put(p, h)
        /\ h = [host EXCEPT !.bot = next, !.cmd = c, !.tag = @ + 1, !.taken = 0,
                            !.cleared = FALSE, !.commands = @ - 1]
  BY DEF SendCbw
<1>2. AtBot({"ready", "out"})
  BY DEF SendCbw, AtBot
<1>3. /\ HostShape(h) /\ h.kind = host.kind /\ h.stage = host.stage /\ h.script = host.script
      /\ h.requests = host.requests /\ ~h.cleared
  BY <1>1 DEF ListeningInv, HostShape
<1> QED
  BY <1>1, <1>2, <1>3, PutKeeps

\* The data of a command
LEMMA SendDataOutKeeps == ASSUME ListeningInv, SendDataOut PROVE ListeningInv'
<1>1. PICK n, bot, p, h :
        Put(p, h) /\ h = [host EXCEPT !.taken = @ + n, !.bot = bot]
  BY DEF SendDataOut
<1>2. AtBot({"ready", "out"}) /\ host.bot = "out"
  BY DEF SendDataOut, AtBot
<1>3. /\ HostShape(h) /\ h.kind = host.kind /\ h.stage = host.stage /\ h.script = host.script
      /\ h.requests = host.requests /\ ~h.cleared
  BY <1>1, <1>2 DEF ListeningInv, HostShape, ResetComesAfterPackets
<1> QED
  BY <1>1, <1>2, <1>3, PutKeeps

\* A packet that the host takes
LEMMA TakeKeeps ==
  ASSUME ListeningInv, NEW h, Take(h), AtBot({"in", "csw"}),
         HostShape(h), h.kind = host.kind, h.stage = host.stage, h.requests = host.requests,
         h.bot # "out", h.script = <<>> \/ h.script = Recovery
  PROVE  ListeningInv'
<1> DEFINE c == csr["tx"]
           g == [h EXCEPT !.tog["tx"] = 1 - @]
<1>1. /\ c.pkt # NoPacket /\ ~c.sendstall
      /\ csr' = [csr EXCEPT !["tx"].pkt = NoPacket, !["tx"].tog = 1 - @]
      /\ intr' = intr \cup {"tx"} /\ host' \in {g, host}
      /\ UNCHANGED <<port, ep0, end, bIsHalted, dwTxSize, msd, cbw, queue, spin>>
  BY DEF Take
<1>2. /\ host.stage = "idle" /\ host.script = <<>> /\ Disk /\ port.pFunctionClient
      /\ "reset" \notin intr /\ ep0.rx = NoRequest /\ host.requests = 0
      /\ host.bot # "out"
  BY AtBotFacts
<1>3. /\ HostShape(g) /\ g.kind = host.kind /\ g.stage = "idle" /\ g.script = h.script
      /\ g.requests = 0 /\ g.bot # "out"
  BY <1>2 DEF HostShape
<1> HIDE DEF g
<1>4. /\ HostShape(host') /\ host'.kind = host.kind /\ host'.stage = "idle"
      /\ host'.script = <<>> \/ host'.script = Recovery
      /\ host'.requests = 0 /\ host'.bot # "out"
  BY <1>1, <1>2, <1>3 DEF ListeningInv
<1>5. /\ host'.script \in Seq(Asks)
      /\ host'.script = <<>> \/ Head(host'.script).op # "CLEAR_FEATURE"
  BY <1>4, AsksFacts
<1>6. /\ {"rx", "sentstall", "sendstall", "dataend"} \subseteq DOMAIN ep0
      /\ Sides \subseteq DOMAIN csr
      /\ \A s \in Sides : {"pkt", "sendstall", "sentstall", "tog"} \subseteq DOMAIN csr[s]
      /\ end["tx"].irp # NoIrp /\ end["rx"].irp = NoIrp
  BY <1>1, FieldsFacts DEF ListeningInv
<1>7. /\ csr'["rx"] = csr["rx"] /\ csr'["tx"].pkt = NoPacket
      /\ csr'["tx"].sentstall = c.sentstall /\ csr'["tx"].sendstall = c.sendstall
      /\ DOMAIN csr' = DOMAIN csr /\ DOMAIN csr'["tx"] = DOMAIN c
  BY <1>1, <1>6 DEF Sides
<1>8. DriverOk(Driver)'
  BY <1>1, <1>6, <1>7, OutsideFacts DEF ListeningInv, Sides
<1>9. (LateIsShort(Driver) => LateIsShort(Driver)') /\ ~Pending(Driver)'
  BY <1>1, <1>6 DEF LateIsShort, Short, Driver, Pending
<1>10. PipesAreForDisks' /\ BusIsSilent'
  BY <1>1, <1>2, <1>4 DEF PipesAreForDisks, BusIsSilent, Disk
<1>11. AsksAreKnown' /\ AskedIsAwaited'
  BY <1>1, <1>2, <1>4, <1>5, <1>9 DEF ListeningInv, AsksAreKnown, AskedIsAwaited, Disk
<1>12. ResetComesAfterPackets'
  BY <1>4, <1>9 DEF ResetComesAfterPackets
<1>13. StallsAreTold'
  <2>1. csr["rx"].sentstall => csr["rx"].sendstall /\ "rx" \in intr
    BY DEF ListeningInv, StallsAreTold, Sides
  <2>2. ~c.sentstall
    BY <1>1 DEF ListeningInv, StallsAreTold, Sides
  <2>3. ~csr'["tx"].sentstall
    BY <1>7, <2>2, Zenon
  <2> QED
    BY <1>1, <1>7, <2>1, <2>3 DEF StallsAreTold, Sides
<1>14. TakenIsTold'
  BY <1>1, <1>2, <1>4, <1>5, <1>6, <1>7 DEF TakenIsTold, NoRequest, Request
<1> QED
  BY <1>4, <1>8, <1>10, <1>11, <1>12, <1>13, <1>14 DEF ListeningInv

\* The answer to a command
LEMMA TakeDataInKeeps == ASSUME ListeningInv, TakeDataIn PROVE ListeningInv'
<1> DEFINE p == csr["tx"].pkt
           total == host.taken + p.len
           good == p.kind = "data" /\ p.tag = host.tag /\ p.at = host.taken
           over == p.len < wPacketSize \/ total >= host.cmd.xfer
           g == [host EXCEPT !.taken = total, !.bot = IF over THEN "csw" ELSE @]
           h == Wrong(g, ~good, "data")
<1>1. Take(h)
  BY DEF TakeDataIn
<1>2. host.bot = "in" /\ host.script = <<>> /\ AtBot({"in", "csw"}) /\ HostShape(host)
  BY DEF TakeDataIn, AtBot, ListeningInv
<1> HIDE DEF total, over
<1>3. /\ HostShape(g) /\ g.kind = host.kind /\ g.stage = host.stage /\ g.script = <<>>
      /\ g.requests = host.requests /\ g.bot # "out"
  BY <1>2 DEF HostShape
<1> HIDE DEF g, good
<1>4. /\ HostShape(h) /\ h.kind = g.kind /\ h.stage = g.stage /\ h.script = g.script
      /\ h.requests = g.requests /\ h.bot = g.bot
  BY <1>3, WrongFacts
<1> HIDE DEF h
<1> QED
  BY <1>1, <1>2, <1>3, <1>4, TakeKeeps

\* The status of a command
LEMMA TakeCswKeeps == ASSUME ListeningInv, TakeCsw PROVE ListeningInv'
<1>1. PICK ready, mine, bad :
        LET h == [host EXCEPT !.bot = "ready", !.cmd = NoCommand, !.taken = 0,
                              !.cleared = FALSE, !.ready = ready]
        IN  Take(IF mine THEN Wrong(h, bad, "status")
                 ELSE [h EXCEPT !.script = Recovery, !.wrong = @ \cup {"csw"}])
  BY DEF TakeCsw
<1> DEFINE g == [host EXCEPT !.bot = "ready", !.cmd = NoCommand, !.taken = 0,
                             !.cleared = FALSE, !.ready = ready]
           h == IF mine THEN Wrong(g, bad, "status")
                ELSE [g EXCEPT !.script = Recovery, !.wrong = @ \cup {"csw"}]
<1>2. host.script = <<>> /\ AtBot({"in", "csw"}) /\ HostShape(host)
  BY DEF TakeCsw, AtBot, ListeningInv
<1>3. /\ HostShape(g) /\ g.kind = host.kind /\ g.stage = host.stage /\ g.script = <<>>
      /\ g.requests = host.requests /\ g.bot = "ready"
  BY <1>2 DEF HostShape
<1>4. Take(h)
  BY <1>1
<1> HIDE DEF g
<1>5. /\ HostShape(h) /\ h.kind = g.kind /\ h.stage = g.stage
      /\ h.script = g.script \/ h.script = Recovery
      /\ h.requests = g.requests /\ h.bot = g.bot
  <2>1. CASE mine
    BY <1>3, <2>1, WrongFacts
  <2>2. CASE ~mine
    BY <1>3, <2>2 DEF HostShape
  <2> QED
    BY <2>1, <2>2
<1> HIDE DEF h
<1> QED
  BY <1>2, <1>3, <1>4, <1>5, TakeKeeps, SMTT(40)

\* A STALL of the IN endpoint is cleared once; of the OUT endpoint, where the data is refused.
LEMMA TakeStallKeeps ==
  ASSUME ListeningInv, NEW s \in Sides, TakeStall(s)
  PROVE  ListeningInv'
<1> DEFINE phases == IF s = "tx" THEN {"in", "csw"} ELSE {"ready", "out"}
           clears == host.bot \in {"in", "out"} \/ (host.bot = "csw" /\ ~host.cleared)
           h == [host EXCEPT !.bot = "csw", !.script = <<ClearHaltRequest(s)>>,
                             !.cleared = (host.bot = "csw")]
           k == [csr[s] EXCEPT !.sentstall = TRUE]
<1>1. /\ AtBot(phases) /\ csr[s].sendstall
      /\ csr' = [csr EXCEPT ![s] = k] /\ intr' = intr \cup {s}
      /\ host' = IF clears THEN h ELSE Failed(host)
      /\ UNCHANGED <<port, ep0, end, bIsHalted, dwTxSize, irp, msd, cbw, queue, spin>>
  BY DEF TakeStall, Bulk
<1>2. /\ host.bot \in phases
      /\ host.stage = "idle" /\ host.script = <<>> /\ Disk /\ port.pFunctionClient
      /\ "reset" \notin intr /\ ep0.rx = NoRequest /\ host.requests = 0
  BY <1>1, AtBotFacts
<1>3. HostShape(host)
  BY DEF ListeningInv
<1> DEFINE lifts == host'.bot = "csw" /\ host'.script = <<ClearHaltRequest(s)>>
           fails == host'.bot = "ready" /\ host'.script = Recovery /\ ~host'.cleared
<1>4. /\ HostShape(host') /\ host'.kind = host.kind /\ host'.stage = "idle"
      /\ host'.requests = 0 /\ (clears => lifts) /\ (~clears => fails)
  <2>1. CASE clears
    <3>1. /\ HostShape(h) /\ h.kind = host.kind /\ h.stage = "idle" /\ h.requests = 0
          /\ h.bot = "csw" /\ h.script = <<ClearHaltRequest(s)>>
      BY <1>2, <1>3 DEF HostShape
    <3> QED
      BY <1>1, <2>1, <3>1
  <2>2. CASE ~clears
    <3>1. host' = Failed(host)
      BY <1>1, <2>2
    <3> HIDE DEF clears
    <3> QED
      BY <1>2, <1>3, <2>2, <3>1, FailedFacts
  <2> QED
    BY <2>1, <2>2
<1> HIDE DEF h
<1>5. /\ host'.script \in Seq(Asks)
      /\ clears => host'.script # <<>> /\ host'.script \in Seq(Asks \ {BotResetRequest})
      /\ ~clears => Head(host'.script).op # "CLEAR_FEATURE"
  BY <1>4, AsksFacts
<1>6. /\ {"rx", "sentstall", "sendstall", "dataend"} \subseteq DOMAIN ep0
      /\ Sides \subseteq DOMAIN csr
      /\ \A t \in Sides : {"pkt", "sendstall", "sentstall", "tog"} \subseteq DOMAIN csr[t]
  BY FieldsFacts DEF ListeningInv
<1>7. /\ DOMAIN csr' = DOMAIN csr /\ csr'[s] = k /\ \A t \in Sides \ {s} : csr'[t] = csr[t]
      /\ DOMAIN k = DOMAIN csr[s] /\ k.pkt = csr[s].pkt
  BY <1>1, <1>6
<1>8. k.sentstall /\ (k.sendstall <=> csr[s].sendstall)
  BY <1>6
<1> HIDE DEF k
<1>9. \A t \in Sides : csr'[t].pkt = csr[t].pkt
  BY <1>7
<1>10. DriverOk(Driver)'
  BY <1>1, <1>6, <1>7, <1>9, OutsideFacts DEF ListeningInv, Sides
<1>11. (LateIsShort(Driver) => LateIsShort(Driver)') /\ (Pending(Driver)' <=> Pending(Driver))
  BY <1>1, <1>9 DEF LateIsShort, Short, Driver, Pending, Sides
<1>12. PipesAreForDisks' /\ BusIsSilent'
  BY <1>1, <1>2, <1>4 DEF PipesAreForDisks, BusIsSilent, Disk, Sides
<1>13. AsksAreKnown' /\ AskedIsAwaited'
  BY <1>1, <1>2, <1>4, <1>5, <1>11 DEF ListeningInv, AsksAreKnown, AskedIsAwaited, Disk
<1>14. Pending(Driver) => s = "tx" /\ clears
  BY <1>1, <1>2 DEF ListeningInv, ResetComesAfterPackets, Sides
<1>15. ResetComesAfterPackets'
  <2>1. Pending(Driver) => "rx" \in intr' /\ ~csr'["rx"].sendstall
    BY <1>1, <1>7, <1>14 DEF ListeningInv, ResetComesAfterPackets, Sides
  <2> HIDE DEF clears
  <2> QED
    BY <1>1, <1>2, <1>4, <1>5, <1>11, <1>14, <2>1 DEF ResetComesAfterPackets, NoRequest, Request
<1>16. StallsAreTold'
  <2> SUFFICES ASSUME NEW t \in Sides, csr'[t].sentstall
               PROVE  csr'[t].sendstall /\ t \in intr'
    BY DEF StallsAreTold
  <2>1. CASE t = s
    BY <1>1, <1>7, <1>8, <2>1
  <2>2. CASE t # s
    BY <1>1, <1>7, <2>2 DEF ListeningInv, StallsAreTold
  <2> QED
    BY <2>1, <2>2
<1>17. TakenIsTold'
  <2>1. CASE s = "tx"
    BY <1>7, <1>8, <2>1 DEF TakenIsTold, Due
  <2>2. CASE s = "rx"
    <3>1. Due' <=> Due
      BY <1>1, <1>7, <2>2 DEF Due, Sides
    <3>2. Due => ~clears
      BY <1>1, <1>2, <2>2 DEF ListeningInv, TakenIsTold
    <3>3. Due => end["tx"].irp # NoIrp /\ csr["tx"].pkt = NoPacket
      BY DEF ListeningInv, TakenIsTold
    <3> HIDE DEF clears
    <3> QED
      BY <1>1, <1>2, <1>4, <1>5, <1>9, <3>1, <3>2, <3>3 DEF TakenIsTold, NoRequest, Request, Sides
  <2> QED
    BY <2>1, <2>2 DEF Sides
<1> QED
  BY <1>4, <1>10, <1>12, <1>13, <1>15, <1>16, <1>17 DEF ListeningInv

\* An explorer gives a transfer up.
LEMMA AbandonKeeps == ASSUME ListeningInv, Abandon PROVE ListeningInv'
<1> DEFINE e == Done(host)
<1>1. UNCHANGED driver /\ host' = [e EXCEPT !.abandons = @ - 1] /\ ~Disk
  BY DEF Abandon, Disk
<1>2. /\ HostShape(e) /\ e.kind = host.kind /\ e.stage = "idle" /\ e.script = host.script
      /\ e.bot = host.bot
  BY DoneFacts DEF ListeningInv
<1> HIDE DEF e
<1>3. /\ HostShape(host') /\ host'.kind = host.kind /\ host'.stage = "idle"
      /\ host'.script = host.script /\ host'.bot = host.bot
  BY <1>1, <1>2 DEF HostShape
<1>4. host.bot = "none" /\ host.script = <<>> /\ ~Pending(Driver)
  BY <1>1, PendingIs DEF ListeningInv, PipesAreForDisks
<1>5. host'.script \in Seq(Asks)
  BY <1>3, <1>4
<1> QED
  BY <1>1, <1>3, <1>4, <1>5, HostKeeps

\* No reset of the transport is asked while a packet waits for its service.
LEMMA RecoverKeeps == ASSUME ListeningInv, Recover PROVE ListeningInv'
<1> DEFINE e == Failed(host)
<1>1. /\ AtBot({"in", "out", "csw"}) /\ "rx" \notin intr /\ UNCHANGED driver
      /\ host' = [e EXCEPT !.abandons = @ - 1]
  BY DEF Recover
<1>2. /\ host.stage = "idle" /\ Disk /\ port.pFunctionClient /\ "reset" \notin intr
      /\ ep0.rx = NoRequest /\ host.requests = 0
  BY <1>1, AtBotFacts
<1>3. /\ HostShape(e) /\ e.kind = host.kind /\ e.stage = "idle" /\ e.requests = 0
      /\ e.script = Recovery /\ e.bot = "ready"
  BY <1>2, FailedFacts DEF ListeningInv
<1> HIDE DEF e
<1>4. /\ HostShape(host') /\ host'.kind = host.kind /\ host'.stage = "idle"
      /\ host'.requests = 0 /\ host'.script = Recovery /\ host'.bot = "ready"
  BY <1>1, <1>3 DEF HostShape
<1>5. ~Pending(Driver)
  BY <1>1 DEF ListeningInv, ResetComesAfterPackets
<1>6. host'.script \in Seq(Asks) /\ Head(host'.script).op # "CLEAR_FEATURE"
  BY <1>4, AsksFacts
<1> QED
  BY <1>1, <1>2, <1>4, <1>5, <1>6, HostKeeps

\* A host that waits in vain has nothing left to be served.
LEMMA GiveUpKeeps == ASSUME ListeningInv, GiveUp PROVE ListeningInv'
<1> DEFINE fails == Is(host, "idle") /\ host.bot \in {"in", "out", "csw"}
           e == Failed(host)
           o == Done(host)
           l == [o EXCEPT !.requests = 0, !.commands = 0, !.script = <<>>, !.bot = "none"]
<1>1. UNCHANGED driver /\ intr = {} /\ host' = IF fails THEN e ELSE l
  BY DEF GiveUp, Stuck, Quiet
<1>2. Disk => ep0.rx = NoRequest /\ host.requests = 0
  BY <1>1 DEF ListeningInv, AskedIsAwaited, AsksAreKnown
<1>3. ~Pending(Driver) /\ ~Due
  BY <1>1 DEF ListeningInv, ResetComesAfterPackets, Due
<1>4. CASE fails
  <2>1. /\ HostShape(e) /\ e.kind = host.kind /\ e.stage = host.stage
        /\ e.requests = host.requests /\ e.script = Recovery /\ e.bot = "ready"
    BY FailedFacts DEF ListeningInv
  <2>2. Disk /\ port.pFunctionClient /\ host.stage = "idle"
    BY <1>4 DEF ListeningInv, PipesAreForDisks, BusIsSilent, Is
  <2> HIDE DEF e
  <2>3. host'.script \in Seq(Asks)
    BY <1>1, <1>4, <2>1, AsksFacts
  <2> QED
    BY <1>1, <1>2, <1>3, <1>4, <2>1, <2>2, <2>3, HostKeeps
<1>5. CASE ~fails
  <2>1. /\ HostShape(o) /\ o.kind = host.kind /\ o.stage = "idle"
    BY DoneFacts DEF ListeningInv
  <2> HIDE DEF o
  <2>2. /\ HostShape(l) /\ l.kind = host.kind /\ l.stage = "idle" /\ l.requests = 0
        /\ l.script = <<>> /\ l.bot = "none"
    BY <2>1 DEF HostShape
  <2> HIDE DEF l
  <2>3. host' = l
    BY <1>1, <1>5
  <2>4. host'.script \in Seq(Asks)
    BY <2>2, <2>3, AsksFacts
  <2> QED
    BY <1>1, <1>2, <1>3, <2>2, <2>3, <2>4, HostKeeps
<1> QED
  BY <1>4, <1>5

-----------------------------------------------------------------------------
(* The theorem *)

\* Every step keeps the invariant.
LEMMA NextKeeps == ASSUME ListeningInv, [Next]_vars PROVE ListeningInv'
<1>1. CASE Next
  BY <1>1, RegisterKeeps, PollKeeps, BsrKeeps, SpinKeeps, ExploreKeeps, NextOfScriptKeeps,
     TakeReplyKeeps, SendData0Keeps, StatusStageKeeps, TakeStall0Keeps, SendCbwKeeps,
     SendDataOutKeeps, TakeDataInKeeps, TakeCswKeeps, TakeStallKeeps, EndEarlyKeeps,
     AbandonKeeps, RecoverKeeps, GiveUpKeeps, ResetBusKeeps DEF Next, HostStep, Sides
<1>2. CASE UNCHANGED vars
  <2>1. UNCHANGED <<port, ep0, end, csr, bIsHalted, dwTxSize, irp, msd, cbw, queue, intr,
                    spin, host>>
    BY <1>2 DEF vars, driver
  <2>2. Driver' = Driver
    BY <2>1 DEF Driver
  <2> QED
    BY <2>1, <2>2 DEF ListeningInv, PipesAreForDisks, AsksAreKnown, AskedIsAwaited,
       BusIsSilent, ResetComesAfterPackets, StallsAreTold, TakenIsTold, Due, Disk
<1> QED
  BY <1>1, <1>2

\* When nothing is left to be served, the one IRP is with the pipes.
LEMMA InvListens == ListeningInv => AlwaysListening
<1> SUFFICES ASSUME ListeningInv, Quiet, port.bUsbState = "CONFIGURED"
             PROVE  /\ (end["tx"].irp = NoIrp) # (end["rx"].irp = NoIrp)
                    /\ \A s \in Sides : end[s].list = <<>> /\ end[s].claimed
                    /\ SmallFifo <= end["tx"].base
                    /\ end["tx"].base + end["tx"].wMax <= end["rx"].base
  BY DEF AlwaysListening
<1> DEFINE d == Driver
<1>1. /\ d.end = end /\ d.port = port /\ d.queue = <<>> /\ d.spin = NoIrp /\ DriverOk(d)
  BY DEF ListeningInv, Driver, Quiet, Ready
<1> HIDE DEF d
<1>2. Layout(d) /\ One(d) /\ NoList(d)
  BY <1>1 DEF DriverOk, Configured, AtMostOne
<1>3. Sends1(d) \/ Waits1(d)
  BY <1>1, <1>2 DEF One, Called1, Spins1, RxIrps, NoIrp
<1>4. (end["tx"].irp = NoIrp) # (end["rx"].irp = NoIrp)
  BY <1>1, <1>3 DEF Sends1, Waits1, TxIrps, RxIrps, NoIrp
<1>5. \A s \in Sides : end[s].list = <<>> /\ end[s].claimed
  BY <1>1, <1>2 DEF NoList, Layout
<1>6. /\ SmallFifo <= end["tx"].base
      /\ end["tx"].base + end["tx"].wMax <= end["rx"].base
  BY <1>1, <1>2 DEF Layout, Sides, SmallFifo, wPacketSize
<1> QED
  BY <1>4, <1>5, <1>6

\* Whatever the host asks for, gives up or resets, and whatever commands it sends: once all
\* is served, a configured disk waits for exactly one thing.
THEOREM Listening == Spec => []AlwaysListening
<1>1. Init => ListeningInv
  BY InitFacts
<1>2. ListeningInv /\ [Next]_vars => ListeningInv'
  BY NextKeeps
<1>3. ListeningInv => AlwaysListening
  BY InvListens
<1> QED
  BY <1>1, <1>2, <1>3, PTL DEF Spec

-----------------------------------------------------------------------------
(* What endpoint 0 does to the address and the configuration *)

\* More fields of a driver state
Full(d) ==
  /\ Shape(d)
  /\ {"bSetAddress", "bFuncAddr", "bConfigValue", "bEnd0Status"} \subseteq DOMAIN d.port
  /\ {"tx", "setupend", "busy", "faddr"} \subseteq DOMAIN d.ep0

\* The device is used as before; what is asked, and what was said of the answer, is as before.
SameUse(d, e) ==
  /\ e.port.bUsbState = d.port.bUsbState /\ e.port.bSetAddress = d.port.bSetAddress
  /\ e.port.bFuncAddr = d.port.bFuncAddr /\ e.port.bConfigValue = d.port.bConfigValue
SameTalk(d, e) ==
  /\ e.port.request = d.port.request /\ e.port.wSetupDataIndex = d.port.wSetupDataIndex
  /\ e.port.bEnd0Status = d.port.bEnd0Status
Prepares(d, e) == Full(e) /\ e.ep0 = d.ep0 /\ SameUse(d, e) /\ SameTalk(d, e)

\* Preparations, one after the other
LEMMA PreparesSteps ==
  ASSUME NEW d, NEW e, NEW f, Prepares(d, e), Prepares(e, f)
  PROVE  Prepares(d, f)
  BY DEF Prepares, SameUse, SameTalk

\* What moves IRPs prepares nothing.
LEMMA AsidePrepares ==
  ASSUME NEW d, Full(d), NEW e, Shape(e), e.port = d.port, e.ep0 = d.ep0
  PROVE  Prepares(d, e)
  BY DEF Full, Prepares, SameUse, SameTalk

\* What pSetupData points at, its length, the wakeup flag, and the configuration's number
LEMMA PreparesFacts ==
  ASSUME NEW d, Full(d)
  PROVE  /\ Prepares(d, d) /\ Prepares(d, SendsNothing(d))
         /\ SendsNothing(d).port.wSetupDataSize = 0
         /\ \A what, n, len : Prepares(d, Sends(d, what, n, len))
         /\ \A b : Prepares(d, [d EXCEPT !.port.bCanWakeup = b])
         /\ \A n : Prepares(d, [d EXCEPT !.port.pCurrentConfig = n])
<1>1. Prepares(d, d)
  BY DEF Prepares, SameUse, SameTalk
<1>2. Prepares(d, SendsNothing(d)) /\ SendsNothing(d).port.wSetupDataSize = 0
  BY DEF SendsNothing, Full, Shape, Sides, Prepares, SameUse, SameTalk
<1>3. ASSUME NEW what, NEW n, NEW len PROVE Prepares(d, Sends(d, what, n, len))
  BY DEF Sends, Full, Shape, Sides, Prepares, SameUse, SameTalk
<1>4. ASSUME NEW b PROVE Prepares(d, [d EXCEPT !.port.bCanWakeup = b])
  BY DEF Full, Shape, Sides, Prepares, SameUse, SameTalk
<1>5. ASSUME NEW n PROVE Prepares(d, [d EXCEPT !.port.pCurrentConfig = n])
  BY DEF Full, Shape, Sides, Prepares, SameUse, SameTalk
<1> QED
  BY <1>1, <1>2, <1>3, <1>4, <1>5

\* The requests that set the address and the configuration
Sets == {"SET_ADDRESS", "SET_CONFIGURATION"}

\* What request r does to the use of the device when it is granted
Takes(d, e, r) ==
  /\ r.op \notin Sets => SameUse(d, e)
  /\ r.op = "SET_ADDRESS" =>
       /\ ~Addressed(d) \/ d.port.bSetAddress
       /\ e.port.bUsbState = "ADDRESS" /\ e.port.bSetAddress = TRUE
       /\ e.port.bFuncAddr = r.wValue /\ e.port.bConfigValue = d.port.bConfigValue
  /\ r.op = "SET_CONFIGURATION" =>
       /\ Addressed(d)
       /\ e.port.bSetAddress = d.port.bSetAddress /\ e.port.bFuncAddr = d.port.bFuncAddr
       /\ IF r.wValue = 0 THEN e.port.bUsbState = "ADDRESS"
          ELSE e.port.bUsbState = "CONFIGURED" /\ e.port.bConfigValue = r.wValue

\* How a request is parsed: only one that asks for data is answered with data, and what is set
\* is no business of the client.
Parsed(d, r, p) ==
  /\ Full(p.d) /\ p.d.ep0 = d.ep0 /\ SameTalk(d, p.d)
  /\ p.how = "ok" => Takes(d, p.d, r) /\ (~DirIn(r) => p.d.port.wSetupDataSize = 0)
  /\ p.how # "ok" => SameUse(d, p.d)
  /\ r.op \in Sets => p.how # "client"

\* A preparation is all that the other requests do.
LEMMA PreparesParsed ==
  ASSUME NEW d, NEW r, r.op \notin Sets, NEW p, Prepares(d, p.d),
         DirIn(r) \/ p.how # "ok" \/ p.d.port.wSetupDataSize = 0
  PROVE  Parsed(d, r, p)
  BY DEF Prepares, Parsed, Takes, Sets

\* The state changes.
LEMMA ChangeFacts ==
  ASSUME NEW d, Full(d), NEW s, NEW e, e = ChangeState(d, s)
  PROVE  /\ Full(e) /\ e.ep0 = d.ep0 /\ SameTalk(d, e) /\ e.port.bUsbState = s
         /\ e.port.bSetAddress = d.port.bSetAddress /\ e.port.bFuncAddr = d.port.bFuncAddr
         /\ e.port.bConfigValue = d.port.bConfigValue
         /\ e.port.wSetupDataSize = d.port.wSetupDataSize
  BY DEF ChangeState, Full, Shape, Sides, SameTalk

\* SET_ADDRESS
LEMMA SetAddressUse ==
  ASSUME NEW d, Full(d), NEW r, r.op = "SET_ADDRESS"
  PROVE  Parsed(d, r, SetAddress(d, r))
<1> DEFINE s == SendsNothing(d)
           b == [s EXCEPT !.port.bSetAddress = TRUE]
           a == [b EXCEPT !.port.bFuncAddr = r.wValue]
           e == ChangeState(a, "ADDRESS")
           free == ~Addressed(d) \/ d.port.bSetAddress
<1>1. SetAddress(d, r) = IF free THEN Ok(e) ELSE Stalled(s)
  BY DEF SetAddress
<1>2. Prepares(d, s) /\ s.port.wSetupDataSize = 0 /\ Full(s)
  BY PreparesFacts DEF Prepares
<1> HIDE DEF s
<1>3. /\ Full(b) /\ b.ep0 = s.ep0 /\ SameTalk(s, b) /\ b.port.bSetAddress = TRUE
      /\ b.port.bConfigValue = s.port.bConfigValue /\ b.port.wSetupDataSize = 0
  BY <1>2 DEF Full, Shape, Sides, SameTalk
<1> HIDE DEF b
<1>4. /\ Full(a) /\ a.ep0 = b.ep0 /\ SameTalk(b, a) /\ a.port.bSetAddress = TRUE
      /\ a.port.bConfigValue = b.port.bConfigValue /\ a.port.wSetupDataSize = 0
      /\ a.port.bFuncAddr = r.wValue
  BY <1>3 DEF Full, Shape, Sides, SameTalk
<1> HIDE DEF a
<1>5. /\ Full(e) /\ e.ep0 = a.ep0 /\ SameTalk(a, e) /\ e.port.bUsbState = "ADDRESS"
      /\ e.port.bSetAddress = a.port.bSetAddress /\ e.port.bFuncAddr = a.port.bFuncAddr
      /\ e.port.bConfigValue = a.port.bConfigValue
      /\ e.port.wSetupDataSize = a.port.wSetupDataSize
  BY <1>4, ChangeFacts
<1> HIDE DEF e
<1>6. e.ep0 = d.ep0 /\ SameTalk(d, e) /\ e.port.bConfigValue = d.port.bConfigValue
  BY <1>2, <1>3, <1>4, <1>5 DEF Prepares, SameUse, SameTalk
<1>7. CASE free
  <2>1. SetAddress(d, r) = [how |-> "ok", d |-> e]
    BY <1>1, <1>7 DEF Ok
  <2>2. Takes(d, e, r)
    BY <1>4, <1>5, <1>6, <1>7 DEF Takes, Sets
  <2>3. e.port.wSetupDataSize = 0
    BY <1>4, <1>5
  <2> QED
    BY <1>5, <1>6, <2>1, <2>2, <2>3 DEF Parsed
<1>8. CASE ~free
  <2>1. SetAddress(d, r) = [how |-> "stalled", d |-> s]
    BY <1>1, <1>8 DEF Stalled
  <2> QED
    BY <1>2, <2>1 DEF Parsed, Prepares
<1> QED
  BY <1>7, <1>8

\* SET_CONFIGURATION to a configuration: it is selected, or nothing has changed.
LEMMA ConfigSelectedUse ==
  ASSUME NEW d, DriverOk(d), Rested(d), Full(d), NEW v, NEW c, c = ConfigSelected(d, v)
  PROVE  /\ Full(c.d) /\ c.d.ep0 = d.ep0 /\ SameTalk(d, c.d) /\ c.ok \in BOOLEAN
         /\ ~c.ok => SameUse(d, c.d)
         /\ c.ok => /\ c.d.port.bUsbState = "CONFIGURED" /\ c.d.port.bConfigValue = v
                    /\ c.d.port.bSetAddress = d.port.bSetAddress
                    /\ c.d.port.bFuncAddr = d.port.bFuncAddr
                    /\ c.d.port.wSetupDataSize = d.port.wSetupDataSize
<1> DEFINE a == [d EXCEPT !.port.pCurrentConfig = v]
           b == BindConfig(a)
           ok == b.end["tx"].claimed /\ b.end["rx"].claimed
           none == [d EXCEPT !.port.pCurrentConfig = 0]
           found == d.port.apConfigDescriptors /\ v \in ConfigValues
           x == [b EXCEPT !.port.bConfigValue = v]
           f == [x EXCEPT !.msd.bIsReady = TRUE]
           g == StartTransfer(f, "RxCbw")
           h == ChangeState(g, "CONFIGURED")
<1>1. \/ ~found /\ c = [ok |-> FALSE, d |-> none]
      \/ found /\ ~ok /\ c = [ok |-> FALSE, d |-> b]
      \/ found /\ ok /\ c = [ok |-> TRUE, d |-> h]
  BY DEF ConfigSelected, MsdDeviceConfigSelected
<1>2. Prepares(d, none) /\ Prepares(d, a) /\ SameEnds(d, a) /\ a.csr = d.csr /\ a.msd = d.msd
      /\ a.port.wSetupDataSize = d.port.wSetupDataSize /\ Shape(a)
  <2>1. Prepares(d, none) /\ Prepares(d, a)
    BY PreparesFacts
  <2>2. SameEnds(d, a) /\ a.csr = d.csr /\ a.msd = d.msd
        /\ a.port.wSetupDataSize = d.port.wSetupDataSize
    BY DEF Full, Shape, SameEnds
  <2> QED
    BY <2>1, <2>2 DEF Prepares, Full
<1> HIDE DEF a, none
<1>3. CASE ~found /\ c = [ok |-> FALSE, d |-> none]
  <2>1. c.ok = FALSE /\ c.d = none
    BY <1>3
  <2> QED
    BY <1>2, <2>1 DEF Prepares
<1>4. /\ Shape(b) /\ Aside(a, b) /\ b.queue = a.queue /\ b.spin = a.spin
      /\ \A t \in Sides :
           /\ b.end[t].list = a.end[t].list
           /\ \/ b.end[t].irp = NoIrp /\ b.csr[t] = NewCsr
              \/ b.end[t].irp = a.end[t].irp /\ b.csr[t] = a.csr[t]
      /\ TotalSize >= 200 =>
           /\ Layout(b)
           /\ \A t \in Sides : b.end[t].irp = NoIrp /\ b.csr[t] = NewCsr
      /\ ok => TotalSize >= 200
  BY <1>2, BindConfigFacts
<1> HIDE DEF b
<1>5. Prepares(a, b) /\ Prepares(d, b) /\ Full(b)
  <2>1. Prepares(a, b)
    BY <1>2, <1>4, AsidePrepares DEF Prepares, Aside
  <2> QED
    BY <1>2, <2>1, PreparesSteps DEF Prepares
<1>6. CASE found /\ ~ok /\ c = [ok |-> FALSE, d |-> b]
  BY <1>5, <1>6 DEF Prepares
<1>7. CASE found /\ ok /\ c = [ok |-> TRUE, d |-> h]
  <2>1. TotalSize >= 200 /\ \A t \in Sides : b.end[t].irp = NoIrp /\ b.csr[t] = NewCsr
    BY <1>4, <1>7
  <2>2. /\ Full(x) /\ SameEnds(b, x) /\ x.csr = b.csr /\ x.ep0 = b.ep0 /\ SameTalk(b, x)
        /\ x.port.bConfigValue = v /\ x.port.bSetAddress = b.port.bSetAddress
        /\ x.port.bFuncAddr = b.port.bFuncAddr
        /\ x.port.wSetupDataSize = b.port.wSetupDataSize
    BY <1>5 DEF Full, Shape, SameEnds, Sides, SameTalk
  <2> HIDE DEF x
  <2>3. Full(f) /\ SameEnds(x, f) /\ f.csr = x.csr /\ f.ep0 = x.ep0 /\ f.port = x.port
    BY <2>2 DEF Full, Shape, SameEnds, Sides
  <2> HIDE DEF f
  <2>4. Idle(f) /\ NoList(f)
    BY <1>2, <1>4, <2>1, <2>2, <2>3
       DEF DriverOk, AtMostOne, Idle, Rested, NoList, SameEnds, Aside, Sides
  <2>5. "RxCbw" \in Irps
    BY DEF Irps, RxIrps
  <2>6. Shape(g) /\ Aside(f, g)
    <3>1. Shape(f)
      BY <2>3 DEF Full
    <3> QED
      BY <2>4, <2>5, <3>1, StartTransferFacts
  <2> HIDE DEF g
  <2>7. Full(g) /\ g.port = f.port /\ g.ep0 = f.ep0
    BY <2>3, <2>6 DEF Full, Aside
  <2>8. /\ Full(h) /\ h.ep0 = g.ep0 /\ SameTalk(g, h) /\ h.port.bUsbState = "CONFIGURED"
        /\ h.port.bSetAddress = g.port.bSetAddress /\ h.port.bFuncAddr = g.port.bFuncAddr
        /\ h.port.bConfigValue = g.port.bConfigValue
        /\ h.port.wSetupDataSize = g.port.wSetupDataSize
    BY <2>7, ChangeFacts
  <2> HIDE DEF h
  <2>9. h.port.wSetupDataSize = d.port.wSetupDataSize
    BY <1>2, <1>4, <2>2, <2>3, <2>7, <2>8 DEF Aside
  <2>10. c.ok = TRUE /\ c.d = h
    BY <1>7
  <2>11. h.ep0 = d.ep0 /\ SameTalk(d, h)
    BY <1>5, <2>2, <2>3, <2>7, <2>8 DEF Prepares, SameTalk
  <2>12. h.port.bSetAddress = d.port.bSetAddress /\ h.port.bFuncAddr = d.port.bFuncAddr
    BY <1>5, <2>2, <2>3, <2>7, <2>8 DEF Prepares, SameUse
  <2> QED
    BY <2>2, <2>3, <2>7, <2>8, <2>9, <2>10, <2>11, <2>12
<1> QED
  BY <1>1, <1>3, <1>6, <1>7

\* SET_CONFIGURATION
LEMMA SetConfigurationUse ==
  ASSUME NEW d, DriverOk(d), Rested(d), Full(d), NEW r, r.op = "SET_CONFIGURATION",
         NEW p, p = SetConfiguration(d, r)
  PROVE  Parsed(d, r, p)
<1> DEFINE s == SendsNothing(d)
           z == [s EXCEPT !.port.bConfigValue = 0]
           e == ChangeState(z, "ADDRESS")
           c == ConfigSelected(s, r.wValue)
<1>0. r.op \in Sets
  BY DEF Sets
<1>1. \/ ~Addressed(d) /\ p = Stalled(s)
      \/ Addressed(d) /\ r.wValue = 0 /\ p = Ok(e)
      \/ /\ Addressed(d) /\ r.wValue # 0
         /\ p = [how |-> IF c.ok THEN "ok" ELSE "stalled", d |-> c.d]
  BY DEF SetConfiguration
<1>2. Prepares(d, s) /\ s.port.wSetupDataSize = 0 /\ Full(s)
  BY PreparesFacts DEF Prepares
<1>3. DriverOk(s) /\ Rested(s)
  <2>1. Answers(d, s)
    BY SendsNothingFacts DEF DriverOk
  <2> QED
    BY <2>1, CalmFacts DEF Answers, Keeps, Serves
<1> HIDE DEF s
<1>4. CASE p = Stalled(s)
  BY <1>0, <1>2, <1>4 DEF Parsed, Prepares, Stalled
<1>5. CASE Addressed(d) /\ r.wValue = 0 /\ p = Ok(e)
  <2>1. /\ Full(z) /\ z.ep0 = s.ep0 /\ SameTalk(s, z) /\ z.port.bSetAddress = s.port.bSetAddress
        /\ z.port.bFuncAddr = s.port.bFuncAddr /\ z.port.wSetupDataSize = 0
    BY <1>2 DEF Full, Shape, Sides, SameTalk
  <2> HIDE DEF z
  <2>2. /\ Full(e) /\ e.ep0 = z.ep0 /\ SameTalk(z, e) /\ e.port.bUsbState = "ADDRESS"
        /\ e.port.bSetAddress = z.port.bSetAddress /\ e.port.bFuncAddr = z.port.bFuncAddr
        /\ e.port.wSetupDataSize = z.port.wSetupDataSize
    BY <2>1, ChangeFacts
  <2> HIDE DEF e
  <2>3. p.how = "ok" /\ p.d = e
    BY <1>5 DEF Ok
  <2>4. e.ep0 = d.ep0 /\ SameTalk(d, e) /\ e.port.wSetupDataSize = 0
        /\ e.port.bSetAddress = d.port.bSetAddress /\ e.port.bFuncAddr = d.port.bFuncAddr
    BY <1>2, <2>1, <2>2 DEF Prepares, SameUse, SameTalk
  <2>5. Takes(d, e, r)
    BY <1>5, <2>2, <2>4 DEF Takes, Sets
  <2> QED
    BY <2>2, <2>3, <2>4, <2>5 DEF Parsed
<1>6. CASE /\ Addressed(d) /\ r.wValue # 0
           /\ p = [how |-> IF c.ok THEN "ok" ELSE "stalled", d |-> c.d]
  <2>1. /\ Full(c.d) /\ c.d.ep0 = s.ep0 /\ SameTalk(s, c.d) /\ c.ok \in BOOLEAN
        /\ ~c.ok => SameUse(s, c.d)
        /\ c.ok => /\ c.d.port.bUsbState = "CONFIGURED" /\ c.d.port.bConfigValue = r.wValue
                   /\ c.d.port.bSetAddress = s.port.bSetAddress
                   /\ c.d.port.bFuncAddr = s.port.bFuncAddr
                   /\ c.d.port.wSetupDataSize = s.port.wSetupDataSize
    BY <1>2, <1>3, ConfigSelectedUse
  <2> DEFINE f == c.d
  <2> HIDE DEF c
  <2>2. p.d = f
    BY <1>6
  <2>3. f.ep0 = d.ep0 /\ SameTalk(d, f) /\ Full(f)
    BY <1>2, <2>1 DEF Prepares, SameUse, SameTalk
  <2>4. CASE c.ok
    <3>1. p.how = "ok"
      BY <1>6, <2>4
    <3>2. Takes(d, f, r) /\ f.port.wSetupDataSize = 0
      BY <1>2, <1>6, <2>1, <2>4 DEF Takes, Sets, Prepares, SameUse
    <3> QED
      BY <2>2, <2>3, <3>1, <3>2 DEF Parsed
  <2>5. CASE ~c.ok
    <3>1. p.how = "stalled"
      BY <1>6, <2>5
    <3>2. SameUse(d, f)
      BY <1>2, <2>1, <2>5 DEF Prepares, SameUse
    <3> QED
      BY <2>2, <2>3, <3>1, <3>2 DEF Parsed
  <2> QED
    BY <2>4, <2>5
<1> QED
  BY <1>1, <1>4, <1>5, <1>6

\* A halt of an endpoint is set, or cleared.
LEMMA HaltUse ==
  ASSUME NEW d, DriverOk(d), Rested(d), Full(d), NEW s \in Sides, NEW e,
         e = ClearHalt(d, s) \/ e = ProgramHalt([d EXCEPT !.bIsHalted = TRUE], s, TRUE)
  PROVE  Prepares(d, e) /\ e.port = d.port
<1>1. Shape(e) /\ e.port = d.port /\ e.ep0 = d.ep0
  <2>1. CASE e = ClearHalt(d, s)
    BY <2>1, ClearHaltFacts DEF Serves, DriverOk
  <2>2. CASE e = ProgramHalt([d EXCEPT !.bIsHalted = TRUE], s, TRUE)
    <3> DEFINE g == [d EXCEPT !.bIsHalted = TRUE]
    <3>1. Shape(g) /\ g.port = d.port /\ g.ep0 = d.ep0
      BY DEF DriverOk, Shape
    <3> HIDE DEF g
    <3>2. e = ProgramHalt(g, s, TRUE)
      BY <2>2 DEF g
    <3> QED
      BY <3>1, <3>2, ProgramHaltFacts DEF Aside
  <2> QED
    BY <2>1, <2>2
<1> QED
  BY <1>1, AsidePrepares

\* Whatever the request, MGC_FunctionParseSetup uses the device as it is asked to.
LEMMA ParsedUse ==
  ASSUME NEW d, DriverOk(d), Rested(d), Full(d), NEW r, NEW p, p = ParseSetup(d, r)
  PROVE  Parsed(d, r, p)
<1> DEFINE s == SendsNothing(d)
<1>1. Prepares(d, d) /\ Prepares(d, s) /\ s.port.wSetupDataSize = 0 /\ Full(s)
  BY PreparesFacts DEF Prepares
<1>2. DriverOk(s) /\ Rested(s)
  <2>1. Answers(d, s)
    BY SendsNothingFacts DEF DriverOk
  <2> QED
    BY <2>1, CalmFacts DEF Answers, Keeps, Serves
<1> DEFINE Good(e) == Prepares(d, e) /\ e.port.wSetupDataSize = 0
<1> HIDE DEF s
<1>3. \A b : Good([s EXCEPT !.port.bCanWakeup = b])
  <2> TAKE b
  <2> DEFINE w == [s EXCEPT !.port.bCanWakeup = b]
  <2>1. Prepares(s, w)
    BY <1>1, PreparesFacts
  <2>2. w.port.wSetupDataSize = 0
    BY <1>1 DEF Full, Shape
  <2> HIDE DEF w
  <2>3. Good(w)
    BY <1>1, <2>1, <2>2, PreparesSteps
  <2> QED
    BY <2>3 DEF w
<1>4. \A t \in Sides : \A e :
        e = ClearHalt(s, t) \/ e = ProgramHalt([s EXCEPT !.bIsHalted = TRUE], t, TRUE) => Good(e)
  BY <1>1, <1>2, HaltUse, PreparesSteps
<1>5. CASE r.op = "SET_ADDRESS"
  BY <1>5, SetAddressUse DEF ParseSetup
<1>6. CASE r.op = "SET_CONFIGURATION"
  BY <1>6, SetConfigurationUse DEF ParseSetup
<1>7. CASE r.op = "CLEAR_FEATURE"
  <2>1. p = ClearFeature(d, r)
    BY <1>7 DEF ParseSetup
  <2>2. \/ p = NotOurs(d) \/ p = Stalled(s)
        \/ \E e : Good(e) /\ (p = Ok(e) \/ p = NotOurs(e))
    <3>1. Good(s)
      BY <1>1
    <3> HIDE DEF Good
    <3> QED
      BY <1>3, <1>4, <2>1, <3>1, Zenon DEF ClearFeature, IsEnd, s
  <2>3. Prepares(d, p.d) /\ (p.how # "ok" \/ p.d.port.wSetupDataSize = 0)
    BY <1>1, <2>2 DEF NotOurs, Stalled, Ok
  <2> QED
    BY <1>7, <2>3, PreparesParsed DEF Sets
<1>8. CASE r.op = "SET_FEATURE"
  <2>1. p = SetFeature(d, r)
    BY <1>8 DEF ParseSetup
  <2>2. \/ p = NotOurs(d) \/ p = Stalled(s)
        \/ \E e : Good(e) /\ (p = Ok(e) \/ p = NotOurs(e))
    <3>1. Good(s)
      BY <1>1
    <3> HIDE DEF Good
    <3> QED
      BY <1>3, <1>4, <2>1, <3>1, Zenon DEF SetFeature, IsEnd, s
  <2>3. Prepares(d, p.d) /\ (p.how # "ok" \/ p.d.port.wSetupDataSize = 0)
    BY <1>1, <2>2 DEF NotOurs, Stalled, Ok
  <2> QED
    BY <1>8, <2>3, PreparesParsed DEF Sets
<1>9. CASE r.op \in {"GET_STATUS", "GET_DESCRIPTOR", "GET_CONFIGURATION", "GET_INTERFACE"}
  <2>1. \/ p = GetStatus(d, r) \/ p = GetDescriptorRequest(d, r)
        \/ p = GetConfiguration(d) \/ p = GetInterface(d)
    BY <1>9 DEF ParseSetup
  <2>2. /\ \A x : x = Ok(d) \/ x = Stalled(d) \/ x = NotOurs(d) => Prepares(d, x.d)
        /\ \A x : x = Stalled(s) \/ x = NotOurs(s) => Prepares(d, x.d)
        /\ \A x, what, n, len :
             x = Ok(Sends(d, what, n, len)) \/ x = NotOurs(Sends(d, what, n, len)) =>
               Prepares(d, x.d)
    BY <1>1, PreparesFacts DEF Ok, Stalled, NotOurs
  <2>3. Prepares(d, p.d)
    <3>1. CASE p = GetStatus(d, r)
      BY <2>2, <3>1, Zenon DEF GetStatus
    <3>2. CASE p = GetDescriptorRequest(d, r)
      BY <2>2, <3>2, Zenon DEF GetDescriptorRequest
    <3>3. CASE p = GetConfiguration(d)
      BY <2>2, <3>3, Zenon DEF GetConfiguration
    <3>4. CASE p = GetInterface(d)
      BY <2>2, <3>4, Zenon DEF GetInterface, s
    <3> QED
      BY <2>1, <3>1, <3>2, <3>3, <3>4
  <2> QED
    BY <1>9, <2>3, PreparesParsed DEF Sets, DirIn
<1>10. CASE r.op \notin {"SET_ADDRESS", "SET_CONFIGURATION", "CLEAR_FEATURE", "SET_FEATURE",
                        "GET_STATUS", "GET_DESCRIPTOR", "GET_CONFIGURATION", "GET_INTERFACE"}
  <2>1. p = NotOurs(d)
    BY <1>10 DEF ParseSetup
  <2>2. Prepares(d, p.d) /\ p.how # "ok"
    BY <1>1, <2>1 DEF NotOurs
  <2> QED
    BY <1>10, <2>2, PreparesParsed DEF Sets
<1> QED
  BY <1>5, <1>6, <1>7, <1>8, <1>9, <1>10

-----------------------------------------------------------------------------
(* What endpoint 0 says, as the host sees it *)

\* The line is as it was; the packet that came is taken.
SameLine(d, e) ==
  /\ Full(e) /\ e.ep0.sentstall = d.ep0.sentstall /\ e.ep0.busy = d.ep0.busy
  /\ e.ep0.faddr = d.ep0.faddr
Cleared(d, e) == SameLine(d, e) /\ e.ep0.rx = NoRequest /\ e.ep0.setupend = FALSE

\* An answer that ends the data stage, or that there is none; one that goes on.
Finishes(d, e) ==
  /\ e.ep0.dataend = TRUE /\ e.port.bEnd0Status = TRUE
  /\ e.port.wSetupDataIndex \in {0, d.port.wSetupDataIndex}
GoesOn(d, e) ==
  /\ d.port.wSetupDataSize # 0 /\ e.port.wSetupDataIndex # 0
  /\ e.ep0.dataend = d.ep0.dataend /\ e.port.bEnd0Status = d.port.bEnd0Status

\* The packet is taken out of the FIFO.
LEMMA AckedUse ==
  ASSUME NEW d, Full(d), NEW e, e = Acked(d)
  PROVE  /\ Cleared(d, e) /\ e.port = d.port /\ e.ep0.sendstall = d.ep0.sendstall
         /\ e.ep0.dataend = d.ep0.dataend /\ e.ep0.tx = d.ep0.tx
<1> DEFINE b == [d EXCEPT !.ep0.rx = NoRequest]
           c == [b EXCEPT !.ep0.setupend = FALSE]
<1>1. e = c
  BY DEF Acked
<1>2. /\ SameLine(d, b) /\ b.ep0.rx = NoRequest /\ b.port = d.port /\ b.ep0.tx = d.ep0.tx
      /\ b.ep0.sendstall = d.ep0.sendstall /\ b.ep0.dataend = d.ep0.dataend
  BY DEF SameLine, Full, Shape, Sides
<1> HIDE DEF b
<1>3. /\ SameLine(b, c) /\ c.ep0.rx = b.ep0.rx /\ c.port = b.port /\ c.ep0.tx = b.ep0.tx
      /\ c.ep0.sendstall = b.ep0.sendstall /\ c.ep0.dataend = b.ep0.dataend
      /\ c.ep0.setupend = FALSE
  BY <1>2 DEF SameLine, Full, Shape, Sides
<1> HIDE DEF c
<1> QED
  BY <1>1, <1>2, <1>3 DEF SameLine, Cleared

\* A refusal
LEMMA RefusalUse ==
  ASSUME NEW d, Full(d), NEW e, e = DefaultEndResponse(d, TRUE)
  PROVE  /\ Cleared(d, e) /\ e.port = d.port /\ e.ep0.sendstall = TRUE
         /\ e.ep0.dataend = d.ep0.dataend
<1> DEFINE a == Acked(d)
<1>1. e = [a EXCEPT !.ep0.sendstall = TRUE]
  BY DEF DefaultEndResponse
<1>2. /\ Cleared(d, a) /\ a.port = d.port /\ a.ep0.dataend = d.ep0.dataend
  BY AckedUse
<1> HIDE DEF a
<1>3. /\ SameLine(a, e) /\ e.ep0.rx = a.ep0.rx /\ e.port = a.port
      /\ e.ep0.sendstall = TRUE /\ e.ep0.dataend = a.ep0.dataend
      /\ e.ep0.setupend = a.ep0.setupend
  BY <1>1, <1>2 DEF Cleared, SameLine, Full, Shape, Sides
<1> QED
  BY <1>2, <1>3 DEF SameLine, Cleared

\* Nothing is left to be said.
LEMMA NoSetupDataUse ==
  ASSUME NEW d, Full(d), NEW e, e = NoSetupData(d)
  PROVE  /\ Full(e) /\ e.ep0 = d.ep0 /\ SameUse(d, e) /\ e.port.request = d.port.request
         /\ e.port.bEnd0Status = d.port.bEnd0Status
         /\ e.port.wSetupDataIndex = 0 /\ e.port.wSetupDataSize = 0
         /\ e.port.pFunctionClient = d.port.pFunctionClient
<1> DEFINE a == [d EXCEPT !.port.wSetupDataIndex = 0]
           b == [a EXCEPT !.port.wSetupDataSize = 0]
<1>1. e = b
  BY DEF NoSetupData
<1>2. /\ Full(a) /\ a.ep0 = d.ep0 /\ SameUse(d, a) /\ a.port.request = d.port.request
      /\ a.port.bEnd0Status = d.port.bEnd0Status /\ a.port.wSetupDataIndex = 0
      /\ a.port.pFunctionClient = d.port.pFunctionClient
  BY DEF Full, Shape, Sides, SameUse
<1> HIDE DEF a
<1>3. /\ Full(b) /\ b.ep0 = a.ep0 /\ SameUse(a, b) /\ b.port.request = a.port.request
      /\ b.port.bEnd0Status = a.port.bEnd0Status
      /\ b.port.wSetupDataIndex = a.port.wSetupDataIndex /\ b.port.wSetupDataSize = 0
      /\ b.port.pFunctionClient = a.port.pFunctionClient
  BY <1>2 DEF Full, Shape, Sides, SameUse
<1> HIDE DEF b
<1> QED
  BY <1>1, <1>2, <1>3 DEF SameUse

\* A packet is loaded, and counted.
Counted(d, at, n, k) == [Load0(d, at, n) EXCEPT !.port.wSetupDataIndex = k]
LEMMA CountedUse ==
  ASSUME NEW d, Full(d), NEW at, NEW n, NEW k, NEW e, e = Counted(d, at, n, k)
  PROVE  /\ SameLine(d, e) /\ SameUse(d, e) /\ e.ep0.rx = d.ep0.rx
         /\ e.ep0.setupend = d.ep0.setupend /\ e.ep0.sendstall = d.ep0.sendstall
         /\ e.ep0.dataend = d.ep0.dataend /\ e.port.request = d.port.request
         /\ e.port.bEnd0Status = d.port.bEnd0Status /\ e.port.wSetupDataIndex = k
         /\ e.port.wSetupDataSize = d.port.wSetupDataSize
<1> DEFINE l == Load0(d, at, n)
<1>1. e = [l EXCEPT !.port.wSetupDataIndex = k]
  BY DEF Counted
<1>2. /\ SameLine(d, l) /\ l.port = d.port /\ l.ep0.rx = d.ep0.rx
      /\ l.ep0.setupend = d.ep0.setupend /\ l.ep0.sendstall = d.ep0.sendstall
      /\ l.ep0.dataend = d.ep0.dataend
  BY DEF Load0, SameLine, Full, Shape, Sides
<1> HIDE DEF l
<1>3. /\ Full(e) /\ e.ep0 = l.ep0 /\ SameUse(l, e) /\ e.port.request = l.port.request
      /\ e.port.bEnd0Status = l.port.bEnd0Status /\ e.port.wSetupDataIndex = k
      /\ e.port.wSetupDataSize = l.port.wSetupDataSize
  BY <1>1, <1>2 DEF SameLine, Full, Shape, Sides, SameUse
<1> QED
  BY <1>2, <1>3 DEF SameLine, SameUse

\* DATAEND, and the end of the data stage
LEMMA DataEndUse ==
  ASSUME NEW d, Full(d), NEW e, e = [d EXCEPT !.ep0.dataend = TRUE]
  PROVE  /\ SameLine(d, e) /\ e.port = d.port /\ e.ep0.rx = d.ep0.rx
         /\ e.ep0.setupend = d.ep0.setupend /\ e.ep0.sendstall = d.ep0.sendstall
         /\ e.ep0.dataend = TRUE
  BY DEF SameLine, Full, Shape, Sides
\* bEnd0Status tells the interrupt of the status stage.
LEMMA End0Use ==
  ASSUME NEW d, Full(d), NEW e, e = End0(d)
  PROVE  /\ SameLine(d, e) /\ SameUse(d, e) /\ e.ep0.rx = d.ep0.rx
         /\ e.ep0.setupend = d.ep0.setupend /\ e.ep0.sendstall = d.ep0.sendstall
         /\ e.ep0.dataend = TRUE /\ e.port.request = d.port.request
         /\ e.port.bEnd0Status = TRUE
         /\ e.port.wSetupDataIndex = d.port.wSetupDataIndex
<1> DEFINE b == [d EXCEPT !.ep0.dataend = TRUE]
           c == [b EXCEPT !.port.bEnd0Status = TRUE]
<1>1. e = c
  BY DEF End0
<1>2. /\ SameLine(d, b) /\ b.port = d.port /\ b.ep0.rx = d.ep0.rx
      /\ b.ep0.setupend = d.ep0.setupend /\ b.ep0.sendstall = d.ep0.sendstall
      /\ b.ep0.dataend = TRUE
  BY DataEndUse
<1> HIDE DEF b
<1>3. /\ Full(c) /\ c.ep0 = b.ep0 /\ SameUse(b, c) /\ c.port.request = b.port.request
      /\ c.port.bEnd0Status = TRUE /\ c.port.wSetupDataIndex = b.port.wSetupDataIndex
  BY <1>2 DEF SameLine, Full, Shape, Sides, SameUse
<1> HIDE DEF c
<1> QED
  BY <1>1, <1>2, <1>3 DEF SameLine, SameUse

\* An answer
LEMMA AnswerUse ==
  ASSUME NEW d, Full(d), NEW e, e = DefaultEndResponse(d, FALSE)
  PROVE  /\ Cleared(d, e) /\ SameUse(d, e) /\ e.ep0.sendstall = d.ep0.sendstall
         /\ e.port.request = d.port.request
         /\ Finishes(d, e) \/ GoesOn(d, e)
<1> DEFINE a == Acked(d)
           n == Least(SmallFifo, d.port.wSetupDataSize)
           t == Counted(a, 0, n, n)
           u == End0(t)
<1>1. \/ e = End0(a)
      \/ n # 0 /\ n = d.port.wSetupDataSize /\ e = NoSetupData(u)
      \/ n # 0 /\ n # d.port.wSetupDataSize /\ e = t
  BY Zenon DEF DefaultEndResponse, Counted
<1>2. /\ Cleared(d, a) /\ a.port = d.port /\ a.ep0.sendstall = d.ep0.sendstall
      /\ a.ep0.dataend = d.ep0.dataend
  BY AckedUse
<1>3. n # 0 => d.port.wSetupDataSize # 0
  BY LeastFacts DEF SmallFifo
<1> HIDE DEF a, n
<1>4. /\ SameLine(a, t) /\ SameUse(a, t) /\ t.ep0.rx = a.ep0.rx
      /\ t.ep0.setupend = a.ep0.setupend /\ t.ep0.sendstall = a.ep0.sendstall
      /\ t.ep0.dataend = a.ep0.dataend /\ t.port.request = a.port.request
      /\ t.port.bEnd0Status = a.port.bEnd0Status /\ t.port.wSetupDataIndex = n
  BY <1>2, CountedUse DEF Cleared, SameLine
<1> HIDE DEF t
<1>5. CASE e = End0(a)
  <2>1. /\ SameLine(a, e) /\ SameUse(a, e) /\ e.ep0.rx = a.ep0.rx
        /\ e.ep0.setupend = a.ep0.setupend /\ e.ep0.sendstall = a.ep0.sendstall
        /\ e.ep0.dataend = TRUE /\ e.port.request = a.port.request
        /\ e.port.bEnd0Status = TRUE
        /\ e.port.wSetupDataIndex = a.port.wSetupDataIndex
    BY <1>2, <1>5, End0Use DEF Cleared, SameLine
  <2> QED
    BY <1>2, <2>1 DEF Cleared, SameLine, SameUse, Finishes
<1>6. CASE e = NoSetupData(u)
  <2>1. /\ SameLine(t, u) /\ SameUse(t, u) /\ u.ep0.rx = t.ep0.rx
        /\ u.ep0.setupend = t.ep0.setupend /\ u.ep0.sendstall = t.ep0.sendstall
        /\ u.ep0.dataend = TRUE /\ u.port.request = t.port.request
        /\ u.port.bEnd0Status = TRUE
    BY <1>4, End0Use DEF SameLine
  <2> HIDE DEF u
  <2>2. /\ Full(e) /\ e.ep0 = u.ep0 /\ SameUse(u, e) /\ e.port.request = u.port.request
        /\ e.port.bEnd0Status = u.port.bEnd0Status /\ e.port.wSetupDataIndex = 0
    BY <1>6, <2>1, NoSetupDataUse DEF SameLine
  <2>3. Cleared(d, e) /\ e.ep0.sendstall = d.ep0.sendstall
    BY <1>2, <1>4, <2>1, <2>2 DEF Cleared, SameLine
  <2>4. SameUse(d, e) /\ e.port.request = d.port.request
    BY <1>2, <1>4, <2>1, <2>2 DEF SameUse
  <2>5. Finishes(d, e)
    BY <2>1, <2>2 DEF Finishes
  <2> QED
    BY <2>3, <2>4, <2>5
<1>7. CASE n # 0 /\ e = t
  BY <1>2, <1>3, <1>4, <1>7 DEF Cleared, SameLine, SameUse, GoesOn
<1> QED
  BY <1>1, <1>5, <1>6, <1>7

\* How a request ends: it is refused, it is granted, or a part of the answer is sent.
Refused(d, e) ==
  /\ Cleared(d, e) /\ SameUse(d, e) /\ e.port.request = d.port.request
  /\ e.ep0.sendstall = TRUE /\ e.ep0.dataend = d.ep0.dataend
  /\ e.port.wSetupDataIndex = 0 /\ e.port.bEnd0Status = d.port.bEnd0Status
Granted(d, e, r) ==
  /\ Cleared(d, e) /\ Takes(d, e, r) /\ e.port.request = d.port.request
  /\ e.ep0.sendstall = d.ep0.sendstall /\ e.ep0.dataend = TRUE
  /\ e.port.wSetupDataIndex = 0 /\ e.port.bEnd0Status = TRUE
Partly(d, e, r) ==
  /\ Cleared(d, e) /\ SameUse(d, e) /\ e.port.request = d.port.request
  /\ DirIn(r) /\ e.ep0.sendstall = d.ep0.sendstall /\ e.ep0.dataend = d.ep0.dataend
  /\ e.port.wSetupDataIndex # 0 /\ e.port.bEnd0Status = d.port.bEnd0Status
Ends(d, e, r) == Refused(d, e) \/ Granted(d, e, r) \/ Partly(d, e, r)

\* What sets has no data to send.
LEMMA SetsAreOut == ASSUME NEW r, DirIn(r) PROVE r.op \notin Sets
  BY DEF DirIn, Sets

\* What is prepared before a request takes effect, or is answered after, changes no use.
LEMMA TakesSteps ==
  ASSUME NEW d, NEW s, NEW f, NEW e, NEW r, SameUse(d, s), Takes(s, f, r), SameUse(f, e)
  PROVE  Takes(d, e, r)
  BY DEF SameUse, Takes, Addressed

\* The request has taken effect, and is answered.
LEMMA AnswerEnds ==
  ASSUME NEW d, NEW f, Full(f), f.ep0 = d.ep0, SameTalk(d, f), f.port.wSetupDataIndex = 0,
         NEW r, Takes(d, f, r), DirIn(r) \/ f.port.wSetupDataSize = 0,
         NEW e, e = DefaultEndResponse(f, FALSE)
  PROVE  Ends(d, e, r)
<1>1. /\ Cleared(f, e) /\ SameUse(f, e) /\ e.ep0.sendstall = f.ep0.sendstall
      /\ e.port.request = f.port.request
      /\ Finishes(f, e) \/ GoesOn(f, e)
  BY AnswerUse
<1>2. /\ Cleared(d, e) /\ e.ep0.sendstall = d.ep0.sendstall
      /\ e.port.request = d.port.request
  BY <1>1 DEF Cleared, SameLine, SameTalk
<1>3. Takes(d, e, r)
  <2>1. SameUse(d, d)
    BY DEF SameUse
  <2> QED
    BY <1>1, <2>1, TakesSteps
<1>4. CASE Finishes(f, e)
  BY <1>2, <1>3, <1>4 DEF Finishes, Ends, Granted
<1>5. CASE GoesOn(f, e)
  <2>1. DirIn(r) /\ SameUse(d, e)
    BY <1>3, <1>5, SetsAreOut DEF GoesOn, Takes
  <2>2. e.ep0.dataend = d.ep0.dataend /\ e.port.bEnd0Status = d.port.bEnd0Status
        /\ e.port.wSetupDataIndex # 0
    BY <1>5 DEF GoesOn, SameTalk
  <2> QED
    BY <1>2, <2>1, <2>2 DEF Ends, Partly
<1> QED
  BY <1>1, <1>4, <1>5

\* A refusal, after preparations
LEMMA RefusalEnds ==
  ASSUME NEW d, NEW f, Prepares(d, f), f.port.wSetupDataIndex = 0,
         NEW r, NEW e, e = DefaultEndResponse(f, TRUE)
  PROVE  Ends(d, e, r)
<1>1. /\ Cleared(f, e) /\ e.port = f.port /\ e.ep0.sendstall = TRUE
      /\ e.ep0.dataend = f.ep0.dataend
  BY RefusalUse DEF Prepares
<1>2. Cleared(d, e)
  BY <1>1 DEF Prepares, Cleared, SameLine
<1> QED
  BY <1>1, <1>2 DEF Prepares, SameUse, SameTalk, Ends, Refused

\* The requests of the client
LEMMA MsdRequestUse ==
  ASSUME NEW d, DriverOk(d), Rested(d), Full(d), d.port.wSetupDataIndex = 0,
         NEW r, r.op \notin Sets, r.op = "BOT_RESET" => ~Pending(d),
         NEW e, e = MsdDeviceRequest(d, r)
  PROVE  Ends(d, e, r)
<1>1. ASSUME NEW f, Prepares(d, f), DirIn(r) \/ f.port.wSetupDataSize = 0,
             e = DefaultEndResponse(f, FALSE)
      PROVE  Ends(d, e, r)
  <2>1. Takes(d, f, r)
    BY <1>1 DEF Prepares, Takes, Sets
  <2>2. f.port.wSetupDataIndex = 0
    BY <1>1 DEF Prepares, SameTalk
  <2> QED
    BY <1>1, <2>1, <2>2, AnswerEnds DEF Prepares
<1>2. CASE r.op = "BOT_RESET"
  <2> DEFINE x == BotReset(d)
             y == SendsNothing(x)
  <2>1. e = DefaultEndResponse(y, FALSE)
    BY <1>2 DEF MsdDeviceRequest
  <2>2. Shape(x) /\ Aside(d, x)
    BY <1>2, BotResetFacts
  <2> HIDE DEF x
  <2>3. Prepares(d, x)
    BY <2>2, AsidePrepares DEF Aside
  <2>4. Prepares(x, y) /\ y.port.wSetupDataSize = 0
    BY <2>3, PreparesFacts DEF Prepares
  <2> HIDE DEF y
  <2> QED
    BY <1>1, <2>1, <2>3, <2>4, PreparesSteps
<1>3. CASE r.op \in {"GET_INTERFACE", "GET_MAXLUN"}
  <2> DEFINE y == Sends(d, "byte", 0, 1)
  <2>1. e = DefaultEndResponse(y, FALSE)
    BY <1>3 DEF MsdDeviceRequest
  <2>2. Prepares(d, y)
    BY PreparesFacts
  <2> HIDE DEF y
  <2> QED
    BY <1>1, <1>3, <2>1, <2>2 DEF DirIn
<1>4. CASE r.op \notin {"GET_INTERFACE", "GET_MAXLUN", "BOT_RESET"}
  <2>1. e = DefaultEndResponse(d, TRUE)
    BY <1>4 DEF MsdDeviceRequest
  <2> QED
    BY <2>1, PreparesFacts, RefusalEnds
<1> QED
  BY <1>2, <1>3, <1>4

\* Before a request is parsed, only its place in the buffer changes.
Readies(d, e) ==
  /\ Full(e) /\ e.ep0 = d.ep0 /\ SameUse(d, e) /\ e.port.request = d.port.request
  /\ e.port.bEnd0Status = d.port.bEnd0Status

\* Two steps to an end
LEMMA EndsSteps ==
  ASSUME NEW d, NEW f, Readies(d, f), NEW e, NEW r, Ends(f, e, r)
  PROVE  Ends(d, e, r)
<1>1. Cleared(f, e) => Cleared(d, e)
  BY DEF Readies, Cleared, SameLine
<1>2. SameUse(f, e) => SameUse(d, e)
  BY DEF Readies, SameUse
<1>3. Takes(f, e, r) => Takes(d, e, r)
  <2>1. SameUse(e, e)
    BY DEF SameUse
  <2> QED
    BY <2>1, TakesSteps DEF Readies
<1>4. /\ f.ep0 = d.ep0 /\ f.port.request = d.port.request
      /\ f.port.bEnd0Status = d.port.bEnd0Status
  BY DEF Readies
<1>5. CASE Refused(f, e)
  BY <1>1, <1>2, <1>4, <1>5 DEF Ends, Refused
<1>6. CASE Granted(f, e, r)
  BY <1>1, <1>3, <1>4, <1>6 DEF Ends, Granted
<1>7. CASE Partly(f, e, r)
  BY <1>1, <1>2, <1>4, <1>7 DEF Ends, Partly
<1> QED
  BY <1>5, <1>6, <1>7 DEF Ends

\* A request that is whole
LEMMA ReceivedUse ==
  ASSUME NEW d, DriverOk(d), Rested(d), Full(d), d.port.request.op = "BOT_RESET" => ~Pending(d),
         NEW e, e = Received(d)
  PROVE  Ends(d, e, d.port.request)
<1> DEFINE r == d.port.request
           a == [d EXCEPT !.port.wSetupDataSize = d.port.wSetupDataIndex]
           b == [a EXCEPT !.port.wSetupDataIndex = 0]
           s == [b EXCEPT !.port.pSetupData = Content("request", 0)]
           p == ParseSetup(s, r)
           f == p.d
           g == NoSetupData(f)
<1>1. Readies(d, a) /\ Answers(d, a)
  BY DEF Readies, Full, Shape, SameUse, Answers, Calm, SameEnds, Sides
<1>2. \/ p.how = "ok" /\ e = DefaultEndResponse(f, FALSE)
      \/ p.how = "stalled" /\ e = DefaultEndResponse(g, TRUE)
      \/ p.how = "client" /\ e = MsdDeviceRequest(f, r)
  <2>1. [d EXCEPT !.port.wSetupDataSize = d.port.wSetupDataIndex, !.port.wSetupDataIndex = 0] = b
    OBVIOUS
  <2>2. p.how \in {"ok", "stalled", "client"}
    BY ParsedHow
  <2> QED
    BY <2>1, <2>2 DEF Received
<1> HIDE DEF a
<1>3. Readies(a, b) /\ Answers(a, b) /\ b.port.wSetupDataIndex = 0
  BY <1>1 DEF Readies, Full, Shape, SameUse, Answers, Calm, SameEnds, Sides
<1> HIDE DEF b
<1>4. Readies(b, s) /\ Answers(b, s) /\ s.port.wSetupDataIndex = 0
  BY <1>3 DEF Readies, Full, Shape, SameUse, Answers, Calm, SameEnds, Sides
<1> HIDE DEF s
<1>5. Answers(d, s) /\ Readies(d, s)
  BY <1>1, <1>3, <1>4, AnswersSteps DEF Readies, SameUse
<1>6. Keeps(d, s) /\ DriverOk(s) /\ Rested(s)
  BY <1>5, CalmFacts DEF Answers, Keeps, Serves
<1>7. Parsed(s, r, p)
  BY <1>5, <1>6, ParsedUse DEF Readies
<1>8. Serves(s, f)
  BY <1>6, ParsedFacts
<1>9. DriverOk(f) /\ Rested(f) /\ (r.op = "BOT_RESET" => ~Pending(f))
  BY <1>6, <1>8 DEF Serves, Keeps
<1> HIDE DEF p
<1>10. Full(f) /\ f.ep0 = s.ep0 /\ SameTalk(s, f) /\ f.port.wSetupDataIndex = 0
  BY <1>4, <1>7 DEF Parsed, SameTalk
<1>11. ASSUME Ends(s, e, r) PROVE Ends(d, e, r)
  BY <1>5, <1>11, EndsSteps
<1>12. CASE p.how = "ok" /\ e = DefaultEndResponse(f, FALSE)
  <2>1. Takes(s, f, r) /\ (DirIn(r) \/ f.port.wSetupDataSize = 0)
    BY <1>7, <1>12 DEF Parsed
  <2> HIDE DEF f
  <2>2. Ends(s, e, r)
    BY <1>10, <1>12, <2>1, AnswerEnds
  <2> QED
    BY <1>11, <2>2
<1>13. ASSUME p.how # "ok" PROVE Readies(s, f)
  BY <1>7, <1>10, <1>13 DEF Parsed, Readies, SameTalk
<1>14. CASE p.how = "stalled" /\ e = DefaultEndResponse(g, TRUE)
  <2>1. Readies(s, f)
    BY <1>13, <1>14
  <2> HIDE DEF f
  <2>2. Readies(f, g) /\ g.port.wSetupDataIndex = 0 /\ Full(g)
    BY <2>1, NoSetupDataUse DEF Readies
  <2> HIDE DEF g
  <2>3. Ends(g, e, r)
    BY <1>14, <2>2, PreparesFacts, RefusalEnds
  <2> QED
    BY <1>11, <2>1, <2>2, <2>3, EndsSteps
<1>15. CASE p.how = "client" /\ e = MsdDeviceRequest(f, r)
  <2>1. Readies(s, f) /\ r.op \notin Sets
    BY <1>7, <1>13, <1>15 DEF Parsed
  <2> HIDE DEF f
  <2>2. Ends(f, e, r)
    BY <1>9, <1>10, <1>15, <2>1, MsdRequestUse
  <2> QED
    BY <1>11, <2>1, <2>2, EndsSteps
<1> QED
  BY <1>2, <1>12, <1>14, <1>15

\* What has come of request r, n bytes, is more than the SETUP packet, or is not all: the rest
\* is waited for.
HearsMore(d, e, n) ==
  /\ SameUse(d, e) /\ e.ep0.setupend = d.ep0.setupend /\ e.ep0.sendstall = d.ep0.sendstall
  /\ e.ep0.dataend = d.ep0.dataend /\ e.ep0.tx = d.ep0.tx
  /\ e.port.wSetupDataIndex = n
HearsAll(d, e, r) ==
  /\ e.ep0.setupend = FALSE
  /\ \/ /\ SameUse(d, e) /\ e.ep0.sendstall = TRUE /\ e.ep0.dataend = d.ep0.dataend
        /\ e.port.wSetupDataIndex = 0
     \/ /\ Takes(d, e, r) /\ e.ep0.sendstall = d.ep0.sendstall /\ e.ep0.dataend = TRUE
        /\ e.port.wSetupDataIndex = 0 /\ e.port.bEnd0Status = TRUE
     \/ /\ SameUse(d, e) /\ DirIn(r) /\ e.ep0.sendstall = d.ep0.sendstall
        /\ e.ep0.dataend = d.ep0.dataend
Hears(d, e, r, n) ==
  /\ SameLine(d, e) /\ e.ep0.rx = NoRequest /\ e.port.request = r
  /\ IF DirIn(r) \/ n - SetupSize >= r.wLength THEN HearsAll(d, e, r) ELSE HearsMore(d, e, n)

\* RXPKTRDY
LEMMA Receive0Use ==
  ASSUME NEW d, DriverOk(d), Rested(d), Full(d), Pending(d) => NotAsked("BOT_RESET", d),
         NEW r, r = (IF d.port.wSetupDataIndex = 0 THEN d.ep0.rx ELSE d.port.request),
         NEW n, n = d.port.wSetupDataIndex
                      + (IF d.ep0.rx.op = "data" THEN d.ep0.rx.wLength ELSE SetupSize),
         NEW e, e = Receive0(d)
  PROVE  Hears(d, e, r, n)
<1> DEFINE a == [d EXCEPT !.port.bEnd0Status = FALSE]
           b == [a EXCEPT !.port.wSetupDataIndex = n]
           s == [b EXCEPT !.port.request = r]
           whole == DirIn(r) \/ n - SetupSize >= r.wLength
           Same(x) == Full(x) /\ x.ep0 = d.ep0 /\ SameUse(d, x) /\ Calm(d, x)
<1>1. e = IF whole THEN Received(s) ELSE [s EXCEPT !.ep0.rx = NoRequest]
  BY DEF Receive0
<1>2. r.op = "BOT_RESET" => ~Pending(d)
  BY DEF NotAsked
<1> HIDE DEF whole
<1>3. Same(a)
  BY DEF Full, Shape, Sides, SameUse, Calm, SameEnds
<1> HIDE DEF a
<1>4. Same(b) /\ b.port.wSetupDataIndex = n
  <2>1. Full(b) /\ b.ep0 = a.ep0 /\ SameUse(a, b) /\ Calm(a, b) /\ b.port.wSetupDataIndex = n
    BY <1>3 DEF Full, Shape, Sides, SameUse, Calm, SameEnds
  <2> HIDE DEF b
  <2> QED
    BY <1>3, <2>1, CalmSteps DEF SameUse
<1> HIDE DEF b
<1>5. Same(s) /\ s.port.wSetupDataIndex = n /\ s.port.request = r
  <2>1. /\ Full(s) /\ s.ep0 = b.ep0 /\ SameUse(b, s) /\ Calm(b, s)
        /\ s.port.wSetupDataIndex = n /\ s.port.request = r
    BY <1>4 DEF Full, Shape, Sides, SameUse, Calm, SameEnds
  <2> HIDE DEF s
  <2> QED
    BY <1>4, <2>1, CalmSteps DEF SameUse
<1> HIDE DEF s
<1>6. DriverOk(s) /\ Rested(s) /\ (Pending(s) => Pending(d))
  BY <1>5, CalmFacts DEF Keeps, Serves
<1>7. CASE whole
  <2>1. Ends(s, e, r)
    BY <1>1, <1>2, <1>5, <1>6, <1>7, ReceivedUse
  <2>2. SameUse(s, e) => SameUse(d, e)
    BY <1>5 DEF SameUse
  <2>3. Takes(s, e, r) => Takes(d, e, r)
    <3>1. SameUse(e, e)
      BY DEF SameUse
    <3> QED
      BY <1>5, <3>1, TakesSteps
  <2>4. Cleared(s, e)
    BY <2>1 DEF Ends, Refused, Granted, Partly
  <2>5. SameLine(d, e) /\ e.ep0.rx = NoRequest
    BY <1>5, <2>4 DEF Cleared, SameLine
  <2>6. e.port.request = r
    BY <1>5, <2>1 DEF Ends, Refused, Granted, Partly
  <2>7. HearsAll(d, e, r)
    BY <1>5, <2>1, <2>2, <2>3, <2>4 DEF Ends, Refused, Granted, Partly, HearsAll, Cleared
  <2> QED
    BY <1>7, <2>5, <2>6, <2>7 DEF Hears, whole
<1>8. CASE ~whole
  <2>1. e = [s EXCEPT !.ep0.rx = NoRequest]
    BY <1>1, <1>8
  <2>2. /\ Full(e) /\ e.port = s.port /\ e.ep0.rx = NoRequest
        /\ e.ep0.setupend = s.ep0.setupend /\ e.ep0.sendstall = s.ep0.sendstall
        /\ e.ep0.dataend = s.ep0.dataend /\ e.ep0.tx = s.ep0.tx
        /\ e.ep0.sentstall = s.ep0.sentstall /\ e.ep0.busy = s.ep0.busy
        /\ e.ep0.faddr = s.ep0.faddr
    BY <1>5, <2>1 DEF Full, Shape, Sides
  <2>3. SameLine(d, e) /\ HearsMore(d, e, n) /\ e.port.request = r
    BY <1>5, <2>2 DEF SameLine, HearsMore, SameUse
  <2> QED
    BY <1>8, <2>2, <2>3 DEF Hears, whole
<1> QED
  BY <1>7, <1>8

\* Endpoint 0 goes on with what it says: while there is nothing to say, nothing happens.
Says(d, e) ==
  /\ SameLine(d, e) /\ SameUse(d, e) /\ e.ep0.rx = d.ep0.rx
  /\ e.ep0.setupend = d.ep0.setupend /\ e.ep0.sendstall = d.ep0.sendstall
  /\ e.port.request = d.port.request /\ e.port.bEnd0Status = d.port.bEnd0Status
  /\ d.port.wSetupDataIndex = 0 /\ d.port.wSetupDataSize = 0 =>
       e.ep0 = d.ep0 /\ e.port.wSetupDataIndex = 0 /\ e.port.wSetupDataSize = 0
  /\ \/ e.ep0.dataend = d.ep0.dataend
     \/ e.ep0.dataend = TRUE /\ e.port.wSetupDataIndex = 0 /\ e.port.wSetupDataSize = 0

\* The next packet of an answer
LEMMA Transmit0Use ==
  ASSUME NEW d, Full(d), NEW e, e = Transmit0(d)
  PROVE  Says(d, e)
<1> DEFINE at == d.port.wSetupDataIndex
           size == d.port.wSetupDataSize
           n == Least(SmallFifo, size - at)
           k == at + n
           t == Counted(d, at, n, k)
           u == [t EXCEPT !.ep0.dataend = TRUE]
<1>1. \/ n = 0 /\ e = NoSetupData(d)
      \/ n # 0 /\ e = NoSetupData(u)
      \/ n # 0 /\ e = t
  BY Zenon DEF Transmit0, Counted
<1>2. at = 0 /\ size = 0 => n = 0
  BY LeastFacts DEF SmallFifo
<1> HIDE DEF n, k
<1>3. /\ SameLine(d, t) /\ SameUse(d, t) /\ t.ep0.rx = d.ep0.rx
      /\ t.ep0.setupend = d.ep0.setupend /\ t.ep0.sendstall = d.ep0.sendstall
      /\ t.ep0.dataend = d.ep0.dataend /\ t.port.request = d.port.request
      /\ t.port.bEnd0Status = d.port.bEnd0Status
  BY CountedUse
<1> HIDE DEF t
<1>4. CASE n = 0 /\ e = NoSetupData(d)
  BY <1>4, NoSetupDataUse DEF Says, SameLine
<1>5. CASE n # 0 /\ e = NoSetupData(u)
  <2>1. /\ SameLine(t, u) /\ u.port = t.port /\ u.ep0.rx = t.ep0.rx
        /\ u.ep0.setupend = t.ep0.setupend /\ u.ep0.sendstall = t.ep0.sendstall
        /\ u.ep0.dataend = TRUE
    BY <1>3, DataEndUse DEF SameLine
  <2> HIDE DEF u
  <2>2. /\ Full(e) /\ e.ep0 = u.ep0 /\ SameUse(u, e) /\ e.port.request = u.port.request
        /\ e.port.bEnd0Status = u.port.bEnd0Status
        /\ e.port.wSetupDataIndex = 0 /\ e.port.wSetupDataSize = 0
    BY <1>5, <2>1, NoSetupDataUse DEF SameLine
  <2>3. SameLine(d, e) /\ SameUse(d, e) /\ e.ep0.dataend = TRUE
    BY <1>3, <2>1, <2>2 DEF SameLine, SameUse
  <2> QED
    BY <1>2, <1>3, <1>5, <2>1, <2>2, <2>3 DEF Says
<1>6. CASE n # 0 /\ e = t
  BY <1>2, <1>3, <1>6 DEF Says
<1> QED
  BY <1>1, <1>4, <1>5, <1>6

\* The interrupt of the status stage: an address that was set is used.
LEMMA StatusAckUse ==
  ASSUME NEW d, Full(d), NEW e, e = StatusAck(d)
  PROVE  /\ Full(e) /\ e.port.bUsbState = d.port.bUsbState
         /\ e.port.bFuncAddr = d.port.bFuncAddr /\ e.port.bConfigValue = d.port.bConfigValue
         /\ e.port.bSetAddress = FALSE /\ e.port.bEnd0Status = FALSE
         /\ e.port.request = d.port.request
         /\ e.port.wSetupDataIndex = d.port.wSetupDataIndex
         /\ e.ep0 = [d.ep0 EXCEPT !.faddr = IF d.port.bSetAddress THEN d.port.bFuncAddr ELSE @]
<1> DEFINE a == [d EXCEPT !.port.bEnd0Status = FALSE]
           b == [a EXCEPT !.port.bSetAddress = FALSE]
           n == IF d.port.bSetAddress THEN d.port.bFuncAddr ELSE d.ep0.faddr
           c == [b EXCEPT !.ep0.faddr = n]
           Same(x) == /\ Full(x) /\ x.port.bUsbState = d.port.bUsbState
                      /\ x.port.bFuncAddr = d.port.bFuncAddr
                      /\ x.port.bConfigValue = d.port.bConfigValue
                      /\ x.port.request = d.port.request
                      /\ x.port.wSetupDataIndex = d.port.wSetupDataIndex
<1>1. e = c
  BY DEF StatusAck
<1>2. Same(a) /\ a.ep0 = d.ep0 /\ a.port.bEnd0Status = FALSE
  BY DEF Full, Shape, Sides
<1> HIDE DEF a
<1>3. Same(b) /\ b.ep0 = a.ep0 /\ b.port.bEnd0Status = FALSE /\ b.port.bSetAddress = FALSE
  BY <1>2 DEF Full, Shape, Sides
<1> HIDE DEF b, n
<1>4. Same(c) /\ c.port = b.port /\ c.ep0 = [b.ep0 EXCEPT !.faddr = n]
  BY <1>3 DEF Full, Shape, Sides
<1> HIDE DEF c
<1> QED
  BY <1>1, <1>2, <1>3, <1>4 DEF n

\* A bus reset: nobody has asked anything yet.
LEMMA BusResetUse ==
  ASSUME NEW d, DriverOk(d), Full(d), NEW e, e = BusReset(d)
  PROVE  /\ Full(e) /\ e.ep0 = d.ep0 /\ e.port.bUsbState = "DEFAULT" /\ e.port.bFuncAddr = 0
         /\ e.port.wSetupDataIndex = 0 /\ e.port.wSetupDataSize = 0
         /\ e.port.pFunctionClient = d.port.pFunctionClient
<1> DEFINE a == [d EXCEPT !.port.bFuncAddr = 0]
           b == NoSetupData(a)
           c == FlushAll(b)
           f == ChangeState(c, "DEFAULT")
<1>1. e = [f EXCEPT !.port.apConfigDescriptors = f.port.pFunctionClient]
  BY DEF BusReset, SpeedSet
<1>2. /\ Full(a) /\ a.ep0 = d.ep0 /\ a.port.bFuncAddr = 0
      /\ a.port.pFunctionClient = d.port.pFunctionClient
  BY DEF Full, Shape, Sides
<1> HIDE DEF a
<1>3. /\ Full(b) /\ b.ep0 = a.ep0 /\ SameUse(a, b) /\ b.port.wSetupDataIndex = 0
      /\ b.port.wSetupDataSize = 0 /\ b.port.pFunctionClient = a.port.pFunctionClient
  BY <1>2, NoSetupDataUse
<1> HIDE DEF b
<1>4. Full(c) /\ c.port = b.port /\ c.ep0 = b.ep0
  BY <1>3, FlushAllFacts DEF Full, Aside
<1> HIDE DEF c
<1>5. /\ Full(f) /\ f.ep0 = c.ep0 /\ f.port.bUsbState = "DEFAULT"
      /\ f.port.bFuncAddr = c.port.bFuncAddr /\ f.port.wSetupDataIndex = c.port.wSetupDataIndex
      /\ f.port.wSetupDataSize = c.port.wSetupDataSize
      /\ f.port.pFunctionClient = c.port.pFunctionClient
  BY <1>4 DEF ChangeState, Full, Shape, Sides
<1> HIDE DEF f
<1>6. /\ Full(e) /\ e.ep0 = f.ep0 /\ e.port.bUsbState = f.port.bUsbState
      /\ e.port.bFuncAddr = f.port.bFuncAddr /\ e.port.wSetupDataIndex = f.port.wSetupDataIndex
      /\ e.port.wSetupDataSize = f.port.wSetupDataSize
      /\ e.port.pFunctionClient = f.port.pFunctionClient
  BY <1>1, <1>5 DEF Full, Shape, Sides
<1> QED
  BY <1>2, <1>3, <1>4, <1>5, <1>6 DEF SameUse

\* MGC_HdrcServiceDefaultEnd when a packet has come
LEMMA HeardUse ==
  ASSUME NEW d, DriverOk(d), Rested(d), Full(d), Pending(d) => NotAsked("BOT_RESET", d),
         ~d.ep0.sentstall, d.ep0.rx # NoRequest,
         NEW at, at = (IF d.ep0.setupend THEN 0 ELSE d.port.wSetupDataIndex),
         NEW r, r = (IF at = 0 THEN d.ep0.rx ELSE d.port.request),
         NEW n, n = at + (IF d.ep0.rx.op = "data" THEN d.ep0.rx.wLength ELSE SetupSize),
         NEW e, e = ServiceDefaultEnd(d)
  PROVE  Hears(d, e, r, n)
<1>1. CASE d.ep0.setupend
  <2> DEFINE g == NoSetupData(d)
  <2>1. Full(g) /\ g.ep0 = d.ep0 /\ SameUse(d, g) /\ g.port.wSetupDataIndex = 0
    BY NoSetupDataUse
  <2>2. DriverOk(g) /\ Rested(g) /\ (Pending(g) => Pending(d))
    BY NothingToSayFacts, CalmFacts DEF DriverOk, Speaks, Keeps, Serves
  <2>3. e = DrcServiceDefaultEnd(g)
    BY <1>1 DEF ServiceDefaultEnd
  <2> HIDE DEF g
  <2>4. e = Receive0(g)
    BY <2>1, <2>3 DEF DrcServiceDefaultEnd
  <2>5. Pending(g) => NotAsked("BOT_RESET", g)
    BY <2>1, <2>2 DEF NotAsked
  <2>6. Hears(g, e, r, n)
    BY <1>1, <2>1, <2>2, <2>4, <2>5, Receive0Use
  <2>7. /\ SameLine(g, e) => SameLine(d, e)
        /\ SameUse(g, e) => SameUse(d, e)
        /\ Takes(g, e, r) => Takes(d, e, r)
    <3>1. SameUse(e, e)
      BY DEF SameUse
    <3> QED
      BY <2>1, <3>1, TakesSteps DEF SameUse, SameLine
  <2>8. HearsAll(g, e, r) => HearsAll(d, e, r)
    BY <2>1, <2>7 DEF HearsAll
  <2>9. HearsMore(g, e, n) => HearsMore(d, e, n)
    BY <2>1, <2>7 DEF HearsMore
  <2> QED
    BY <2>6, <2>7, <2>8, <2>9 DEF Hears
<1>2. CASE ~d.ep0.setupend
  <2>1. e = Receive0(d)
    BY <1>2 DEF ServiceDefaultEnd, DrcServiceDefaultEnd
  <2> QED
    BY <1>2, <2>1, Receive0Use
<1> QED
  BY <1>1, <1>2

\* MGC_HdrcServiceDefaultEnd when none has come, and no status stage either
LEMMA SaidUse ==
  ASSUME NEW d, Full(d), ~d.ep0.sentstall, d.ep0.rx = NoRequest,
         d.ep0.setupend \/ ~d.port.bEnd0Status,
         NEW e, e = ServiceDefaultEnd(d)
  PROVE  /\ d.ep0.setupend => /\ Full(e) /\ e.ep0 = d.ep0 /\ SameUse(d, e)
                              /\ e.port.request = d.port.request
                              /\ e.port.wSetupDataIndex = 0
         /\ ~d.ep0.setupend => Says(d, e)
<1>1. Says(d, d)
  BY DEF Says, SameLine, SameUse
<1>2. CASE d.ep0.setupend
  <2> DEFINE g == NoSetupData(d)
  <2>1. /\ Full(g) /\ g.ep0 = d.ep0 /\ SameUse(d, g) /\ g.port.request = d.port.request
        /\ g.port.wSetupDataIndex = 0 /\ g.port.wSetupDataSize = 0
    BY NoSetupDataUse
  <2>2. e = DrcServiceDefaultEnd(g)
    BY <1>2 DEF ServiceDefaultEnd
  <2> HIDE DEF g
  <2>3. e = Transmit0(g) \/ e = g
    BY <2>1, <2>2 DEF DrcServiceDefaultEnd
  <2>4. CASE e = Transmit0(g)
    <3>1. Says(g, e)
      BY <2>1, <2>4, Transmit0Use
    <3> QED
      BY <1>2, <2>1, <3>1 DEF Says, SameLine, SameUse
  <2> QED
    BY <1>2, <2>1, <2>3, <2>4
<1>3. CASE ~d.ep0.setupend
  <2>1. e = DrcServiceDefaultEnd(d)
    BY <1>3, Zenon DEF ServiceDefaultEnd
  <2>2. e = Transmit0(d) \/ e = d
    BY <2>1 DEF DrcServiceDefaultEnd
  <2> QED
    BY <1>1, <1>3, <2>2, Transmit0Use
<1> QED
  BY <1>2, <1>3

-----------------------------------------------------------------------------
(* The invariant: what the driver and the host know of each other *)

\* More fields of the variables
HostFull(h) == HostShape(h) /\ {"got", "addr", "config"} \subseteq DOMAIN h
Fields ==
  /\ {"bSetAddress", "bFuncAddr", "bConfigValue", "bEnd0Status"} \subseteq DOMAIN port
  /\ {"tx", "setupend", "busy", "faddr"} \subseteq DOMAIN ep0
  /\ HostFull(host)

\* A host that wants nothing more
Dead(h) == h.stage = "idle" /\ h.requests = 0 /\ h.script = <<>> /\ h.bot = "none"
OnBus == port.pFunctionClient /\ "reset" \notin intr

\* Before there is a client, and between a reset of the bus and its service
Unattached ==
  ~port.pFunctionClient =>
    intr = {} /\ ep0 = NewEp0 /\ host.stage = "idle" /\ host.addr = 0 /\ host.config = 0
ResetPending ==
  "reset" \in intr =>
    ep0 = NewEp0 /\ host.stage = "idle" /\ host.addr = 0 /\ host.config = 0

\* The address is the same on both sides; the driver has been told of it, and the host waits
\* for the status stage; or the host has had that, and the driver is still to use it.
Settled == ep0.faddr = Address /\ host.addr = Address /\ ~port.bSetAddress
Answered == ep0.rx = NoRequest /\ port.bEnd0Status /\ ~ep0.sentstall /\ ~ep0.setupend
AddressAsked ==
  /\ ep0.faddr = 0 /\ host.addr = 0 /\ port.bSetAddress /\ port.bUsbState = "ADDRESS"
  /\ host.stage = "status" /\ host.req.op = "SET_ADDRESS" /\ Answered /\ ep0.dataend
AddressTold ==
  /\ ep0.faddr = 0 /\ host.addr = Address /\ port.bSetAddress /\ port.bUsbState = "ADDRESS"
  /\ host.stage = "idle" /\ Answered /\ "ep0" \in intr
AddressOk ==
  OnBus =>
    \/ /\ port.bUsbState = "DEFAULT" /\ port.bFuncAddr = 0 /\ ep0.faddr = 0
       /\ host.addr = 0 /\ host.config = 0
    \/ /\ port.bUsbState \in {"ADDRESS", "CONFIGURED"} /\ port.bFuncAddr = Address
       /\ Settled \/ AddressAsked \/ AddressTold

\* So with the configuration, which the driver uses at once.
ConfigAsked ==
  /\ host.stage = "status" /\ host.req.op = "SET_CONFIGURATION" /\ ep0.rx = NoRequest
  /\ ep0.dataend
  /\ IF host.req.wValue = 0 THEN port.bUsbState = "ADDRESS"
     ELSE port.bUsbState = "CONFIGURED" /\ port.bConfigValue = host.req.wValue
ConfigAgreed ==
  /\ host.config # 0 <=> port.bUsbState = "CONFIGURED"
  /\ host.config # 0 => port.bConfigValue = host.config
ConfigOk == OnBus => ConfigAsked \/ ConfigAgreed

\* A host that waits has asked something; what it has asked is fresh when it comes.
AskedSomething ==
  host.stage # "idle" =>
    /\ host.req.op \notin {"none", "data"} /\ host.req.wLength \in Nat
    /\ host.stage = "data" => host.req.wLength # 0
    /\ ep0.busy
FreshIsUnanswered ==
  ep0.rx # NoRequest => ep0.busy /\ ~ep0.dataend /\ ~ep0.sendstall /\ ep0.tx = NoReply

\* The host waits for the status stage of what sets something, or has given up for good.
SetsAreAwaited ==
  ep0.rx.op \in Sets =>
    (host.stage = "status" /\ host.req = ep0.rx) \/ (Dead(host) /\ "ep0" \notin intr)
SetsAreKnown ==
  host.stage # "idle" /\ host.req.op \in Sets =>
    /\ host.stage = "status" /\ host.req.wLength = 0
    /\ ep0.rx \in {NoRequest, host.req}
    /\ ep0.rx = NoRequest => ep0.dataend \/ ep0.sendstall
    /\ host.req.op = "SET_ADDRESS" => host.req.wValue = Address
    /\ ep0.dataend /\ host.req.op = "SET_ADDRESS" => AddressAsked
    /\ ep0.dataend /\ host.req.op = "SET_CONFIGURATION" => ConfigAsked

\* Where the driver is in what it receives or sends is forgotten when that is over.
IndexIsTold ==
  OnBus /\ port.wSetupDataIndex # 0 => ep0.setupend \/ (ep0.busy /\ ~ep0.dataend)
SetupBeginsAnew ==
  ep0.rx # NoRequest /\ ep0.rx.op # "data" /\ port.wSetupDataIndex # 0 => ep0.setupend
RefusedIsOver ==
  ep0.sendstall => port.wSetupDataIndex = 0 /\ "ep0" \notin intr /\ ~ep0.dataend
Nothing == port.wSetupDataIndex = 0 /\ (port.wSetupDataSize = 0 \/ port.bEnd0Status)
EndedIsOver ==
  OnBus /\ ep0.rx = NoRequest /\ host.stage # "idle" /\ ep0.dataend =>
    Nothing /\ "ep0" \notin intr
LastIsOver ==
  /\ OnBus /\ ep0.rx = NoRequest /\ "ep0" \in intr /\ ~ep0.sentstall /\ ~ep0.setupend
  /\ ~(ep0.busy /\ ~ep0.dataend)
  => Nothing
GotAfterAsked == host.stage = "data" /\ DirIn(host.req) /\ host.got > 0 => ep0.rx = NoRequest

\* Data of the host are received in order, and none is left over.
Sent0 == IF ep0.rx.op = "data" THEN ep0.rx.wLength ELSE 0
Out == host.stage # "idle" /\ ~DirIn(host.req) /\ host.req.wLength > 0
OutBegins == ep0.rx = host.req /\ port.wSetupDataIndex = 0 /\ host.got = 0
OutEnds == ep0.rx = NoRequest /\ (ep0.sendstall \/ (ep0.dataend /\ host.stage = "status"))
OutGoesOn ==
  /\ ep0.rx = NoRequest \/ (ep0.rx.op = "data" /\ ep0.rx.wLength \in 1 .. SmallFifo)
  /\ ~ep0.dataend /\ ~ep0.sendstall
  /\ port.request = host.req /\ port.wSetupDataIndex + Sent0 = SetupSize + host.got
  /\ port.wSetupDataIndex \in Nat \ {0}
  /\ ep0.rx = NoRequest =>
       host.got < host.req.wLength /\ "ep0" \notin intr /\ ep0.tx = NoReply
OutIsKnown ==
  Out => /\ host.kind = "sender" /\ host.got \in 0 .. host.req.wLength
         /\ host.stage = "status" <=> host.got = host.req.wLength
         /\ OutBegins \/ OutEnds \/ OutGoesOn
DataAreAwaited == ep0.rx.op = "data" => Out \/ (Dead(host) /\ "ep0" \notin intr)
SendersEnd ==
  host.kind = "sender" => /\ ~ep0.setupend
                          /\ host.stage = "idle" /\ ~Dead(host) => ~ep0.busy
OnlySendersSend == host.kind # "sender" => ep0.rx.wLength = 0 \/ DirIn(ep0.rx)

AgreedInv ==
  /\ Fields /\ Unattached /\ ResetPending /\ AddressOk /\ ConfigOk
  /\ AskedSomething /\ FreshIsUnanswered /\ SetsAreAwaited /\ SetsAreKnown
  /\ IndexIsTold /\ SetupBeginsAnew /\ RefusedIsOver /\ EndedIsOver /\ LastIsOver
  /\ GotAfterAsked /\ OutIsKnown /\ DataAreAwaited /\ SendersEnd /\ OnlySendersSend

-----------------------------------------------------------------------------
(* The invariant: where nothing is on the way *)

\* The fields of endpoint 0, of the port and of the host
LEMMA AllFields ==
  ASSUME ListeningInv, Fields
  PROVE  /\ {"rx", "sentstall", "sendstall", "dataend", "tx", "setupend", "busy", "faddr"}
              \subseteq DOMAIN ep0
         /\ Full(Driver)
         /\ {"kind", "stage", "req", "script", "bot", "cleared", "requests", "got", "addr",
             "config"} \subseteq DOMAIN host
<1>1. /\ DriverOk(Driver) /\ Driver.port = port /\ Driver.ep0 = ep0
  BY DEF ListeningInv, Driver
<1>2. Full(Driver)
  BY <1>1 DEF Fields, Full, DriverOk
<1> QED
  BY <1>1, <1>2 DEF Fields, HostFull, HostShape, Full, Shape

\* Before the first request after a reset
LEMMA NothingAskedYet ==
  ASSUME Fields', ep0' = NewEp0, host'.stage = "idle", host'.addr = 0, host'.config = 0,
         ~port'.pFunctionClient => intr' = {},
         OnBus' => /\ port'.bUsbState = "DEFAULT" /\ port'.bFuncAddr = 0
                   /\ port'.wSetupDataIndex = 0 /\ intr' = {}
  PROVE  AgreedInv'
<1>1. /\ ep0'.rx = NoRequest /\ ep0'.rx.op = "none" /\ ep0'.rx.wLength = 0
      /\ ~ep0'.sendstall /\ ~ep0'.setupend /\ ~ep0'.busy /\ ep0'.faddr = 0
  BY DEF NewEp0, NoRequest, Request
<1>2. Unattached' /\ ResetPending'
  BY DEF Unattached, ResetPending
<1>3. AddressOk' /\ ConfigOk'
  BY <1>1 DEF AddressOk, ConfigOk, ConfigAgreed
<1>4. AskedSomething' /\ FreshIsUnanswered' /\ SetsAreAwaited' /\ SetsAreKnown'
  BY <1>1 DEF AskedSomething, FreshIsUnanswered, SetsAreAwaited, SetsAreKnown, Sets
<1>5. IndexIsTold' /\ SetupBeginsAnew' /\ RefusedIsOver' /\ EndedIsOver' /\ LastIsOver'
  BY <1>1 DEF IndexIsTold, SetupBeginsAnew, RefusedIsOver, EndedIsOver, LastIsOver, Nothing
<1>6. GotAfterAsked' /\ OutIsKnown' /\ DataAreAwaited' /\ SendersEnd' /\ OnlySendersSend'
  BY <1>1 DEF GotAfterAsked, OutIsKnown, Out, DataAreAwaited, SendersEnd, OnlySendersSend
<1> QED
  BY <1>2, <1>3, <1>4, <1>5, <1>6 DEF AgreedInv

\* What changes nothing of all that
LEMMA AsideAgreed ==
  ASSUME AgreedInv, port' = port, ep0' = ep0,
         "reset" \in intr' <=> "reset" \in intr, "ep0" \in intr' <=> "ep0" \in intr,
         ~port.pFunctionClient => intr' = {},
         HostFull(host'), host'.kind = host.kind, host'.stage = host.stage,
         host'.req = host.req, host'.got = host.got, host'.addr = host.addr,
         host'.config = host.config, Dead(host) => Dead(host')
  PROVE  AgreedInv'
<1>0. OnBus' <=> OnBus
  BY DEF OnBus
<1>1. Fields' /\ Unattached' /\ ResetPending'
  BY DEF AgreedInv, Fields, Unattached, ResetPending
<1>2. AddressAsked' = AddressAsked /\ (AddressTold' <=> AddressTold) /\ Settled' = Settled
      /\ ConfigAsked' = ConfigAsked /\ ConfigAgreed' = ConfigAgreed
  BY DEF AddressAsked, AddressTold, Settled, Answered, ConfigAsked, ConfigAgreed
<1>3. AddressOk'
  BY <1>0, <1>2 DEF AgreedInv, AddressOk
<1>4. ConfigOk'
  BY <1>0, <1>2 DEF AgreedInv, ConfigOk
<1>5. AskedSomething' /\ FreshIsUnanswered' /\ SetsAreAwaited'
  BY DEF AgreedInv, AskedSomething, FreshIsUnanswered, SetsAreAwaited
<1>6. SetsAreKnown'
  BY <1>2 DEF AgreedInv, SetsAreKnown
<1>7. IndexIsTold' /\ SetupBeginsAnew' /\ RefusedIsOver' /\ EndedIsOver' /\ LastIsOver'
  BY <1>0 DEF AgreedInv, IndexIsTold, SetupBeginsAnew, RefusedIsOver, EndedIsOver, LastIsOver,
     Nothing
<1>8. GotAfterAsked' /\ DataAreAwaited' /\ SendersEnd' /\ OnlySendersSend'
  BY DEF AgreedInv, GotAfterAsked, DataAreAwaited, SendersEnd, OnlySendersSend, Out
<1>9. OutIsKnown'
  BY DEF AgreedInv, OutIsKnown, Out, OutBegins, OutEnds, OutGoesOn, Sent0
<1> QED
  BY <1>1, <1>3, <1>4, <1>5, <1>6, <1>7, <1>8, <1>9 DEF AgreedInv

-----------------------------------------------------------------------------
(* The invariant: control transfers *)

\* More of what the host makes of a transfer
LEMMA WrongMore ==
  ASSUME NEW h, HostFull(h), NEW bad, NEW what, NEW e, e = Wrong(h, bad, what)
  PROVE  /\ HostFull(e) /\ e.kind = h.kind /\ e.stage = h.stage /\ e.req = h.req
         /\ e.got = h.got /\ e.addr = h.addr /\ e.config = h.config
         /\ e.script = h.script /\ e.bot = h.bot /\ e.requests = h.requests
  BY DEF Wrong, HostFull, HostShape

LEMMA DoneMore ==
  ASSUME NEW h, HostFull(h), NEW e, e = Done(h)
  PROVE  /\ HostFull(e) /\ e.kind = h.kind /\ e.stage = "idle" /\ e.req = NoRequest
         /\ e.got = 0 /\ e.addr = h.addr /\ e.config = h.config
         /\ e.script = h.script /\ e.bot = h.bot /\ e.requests = h.requests
  BY DEF Done, HostFull, HostShape

LEMMA FailedMore ==
  ASSUME NEW h, HostFull(h), NEW e, e = Failed(h)
  PROVE  /\ HostFull(e) /\ e.kind = h.kind /\ e.stage = h.stage /\ e.req = h.req
         /\ e.got = h.got /\ e.addr = h.addr /\ e.config = h.config
  BY DEF Failed, HostFull, HostShape

\* What a host learns: its new address, or its new configuration
LEMMA LearntMore ==
  ASSUME NEW h, HostFull(h), NEW e, e = Learnt(h)
  PROVE  /\ HostFull(e) /\ e.kind = h.kind /\ e.stage = h.stage /\ e.req = h.req
         /\ e.addr = (IF h.req.op = "SET_ADDRESS" THEN h.req.wValue ELSE h.addr)
         /\ e.config = (IF h.req.op = "SET_CONFIGURATION" THEN h.req.wValue ELSE h.config)
<1> DEFINE r == h.req
           c == [h EXCEPT !.config = r.wValue, !.tog = [s \in Sides |-> 0], !.ready = {TRUE},
                          !.bot = IF h.kind = "disk" THEN "ready" ELSE @]
<1>1. CASE r.op = "SET_ADDRESS"
  <2>1. e = [h EXCEPT !.addr = r.wValue]
    BY <1>1 DEF Learnt
  <2> QED
    BY <1>1, <2>1 DEF HostFull, HostShape
<1>2. CASE r.op = "SET_CONFIGURATION"
  <2>1. e = c
    BY <1>2, Zenon DEF Learnt
  <2> QED
    BY <1>2, <2>1 DEF HostFull, HostShape
<1>3. CASE r.op = "CLEAR_FEATURE" /\ r.recip = "endpoint"
  <2>1. e = [h EXCEPT !.tog[r.wIndex] = 0]
    BY <1>3 DEF Learnt
  <2> QED
    BY <1>3, <2>1 DEF HostFull, HostShape
<1>4. CASE r.op \notin Sets /\ ~(r.op = "CLEAR_FEATURE" /\ r.recip = "endpoint")
  <2>1. e = h
    BY <1>4, Zenon DEF Learnt, Sets
  <2> QED
    BY <1>4, <2>1 DEF Sets
<1> QED
  BY <1>1, <1>2, <1>3, <1>4 DEF Sets

\* While nothing is asked of the use of the device, that stays agreed upon.
LEMMA UseKept ==
  ASSUME AgreedInv, OnBus' => OnBus, ~AddressAsked, ~AddressTold, ~ConfigAsked,
         port'.bUsbState = port.bUsbState, port'.bSetAddress = port.bSetAddress,
         port'.bFuncAddr = port.bFuncAddr, port'.bConfigValue = port.bConfigValue,
         ep0'.faddr = ep0.faddr, host'.addr = host.addr, host'.config = host.config
  PROVE  AddressOk' /\ ConfigOk'
<1>1. Settled' = Settled /\ ConfigAgreed' = ConfigAgreed
  BY DEF Settled, ConfigAgreed
<1>2. AddressOk'
  BY <1>1 DEF AgreedInv, AddressOk
<1>3. ConfigOk'
  BY <1>1 DEF AgreedInv, ConfigOk
<1> QED
  BY <1>2, <1>3

\* Between two packets there is a client, and no reset is pending.
LEMMA WaitsOnBus ==
  ASSUME ListeningInv, host.stage # "idle"
  PROVE  OnBus /\ port.pFunctionClient /\ "reset" \notin intr
  BY DEF ListeningInv, BusIsSilent, OnBus

\* A packet of the data stage
LEMMA TakeReplyAgreed == ASSUME ListeningInv, AgreedInv, TakeReply PROVE AgreedInv'
<1> DEFINE f == [ep0 EXCEPT !.tx = NoReply]
           causes == IF ep0.dataend THEN {} ELSE {"ep0"}
<1>1. PICK total, stage, bad :
        LET g == [host EXCEPT !.got = total, !.stage = stage]
        IN  /\ Bus0(f, causes, host') /\ host' = Wrong(g, bad, "reply")
            /\ stage \in {"status", host.stage}
  BY DEF TakeReply, Bus0
<1> DEFINE g == [host EXCEPT !.got = total, !.stage = stage]
<1>2. /\ host.stage = "data" /\ DirIn(host.req) /\ ep0.tx # NoReply /\ ~ep0.sendstall
      /\ HostFull(host)
  BY DEF TakeReply, Is, AgreedInv, Fields
<1>3. OnBus /\ port.pFunctionClient /\ "reset" \notin intr
  BY <1>2, WaitsOnBus
<1>4. /\ HostFull(g) /\ g.kind = host.kind /\ g.req = host.req /\ g.addr = host.addr
      /\ g.config = host.config /\ g.stage \in {"data", "status"}
  BY <1>1, <1>2 DEF HostFull, HostShape
<1>5. host' = Wrong(g, bad, "reply") /\ Bus0(f, causes, host')
  BY <1>1
<1> HIDE DEF g
<1>6. /\ HostFull(host') /\ host'.kind = host.kind /\ host'.req = host.req
      /\ host'.addr = host.addr /\ host'.config = host.config
      /\ host'.stage \in {"data", "status"}
  <2>1. \A e : e = Wrong(g, bad, "reply") =>
          /\ HostFull(e) /\ e.kind = g.kind /\ e.stage = g.stage /\ e.req = g.req
          /\ e.got = g.got /\ e.addr = g.addr /\ e.config = g.config
    BY <1>4, WrongMore
  <2> QED
    BY <1>4, <1>5, <2>1
<1>7. /\ ep0' = f /\ intr' = intr \cup causes /\ port' = port
  BY <1>5 DEF Bus0
<1>8. /\ f.rx = ep0.rx /\ f.dataend = ep0.dataend /\ f.sendstall = ep0.sendstall
      /\ f.setupend = ep0.setupend /\ f.busy = ep0.busy /\ f.faddr = ep0.faddr
      /\ f.sentstall = ep0.sentstall /\ DOMAIN f = DOMAIN ep0
  OBVIOUS
<1> HIDE DEF f
<1>9. /\ ep0'.rx = NoRequest /\ ep0.rx = NoRequest /\ NoRequest.op = "none" /\ ~ep0'.sendstall
      /\ NoRequest.wLength = 0 /\ ep0.busy
  BY <1>2, <1>7, <1>8 DEF AgreedInv, FreshIsUnanswered, AskedSomething, NoRequest, Request
<1>10. host.req.op \notin Sets
  BY <1>2, SetsAreOut
<1>11. Fields' /\ Unattached' /\ ResetPending'
  BY <1>3, <1>6, <1>7, <1>8 DEF AgreedInv, Fields, Unattached, ResetPending, causes
<1>12. AddressOk' /\ ConfigOk'
  <2>1. ~AddressAsked /\ ~AddressTold /\ ~ConfigAsked
    BY <1>2, <1>10 DEF AddressAsked, AddressTold, ConfigAsked, Sets
  <2> QED
    BY <1>3, <1>6, <1>7, <1>8, <2>1, UseKept
<1>13. AskedSomething' /\ FreshIsUnanswered' /\ SetsAreAwaited' /\ SetsAreKnown'
  BY <1>2, <1>6, <1>7, <1>8, <1>9, <1>10
     DEF AgreedInv, AskedSomething, FreshIsUnanswered, SetsAreAwaited, SetsAreKnown, Sets
<1>14. IndexIsTold' /\ SetupBeginsAnew' /\ RefusedIsOver'
  BY <1>3, <1>7, <1>8, <1>9 DEF AgreedInv, IndexIsTold, SetupBeginsAnew, RefusedIsOver
<1>15. EndedIsOver' /\ LastIsOver'
  BY <1>2, <1>3, <1>7, <1>8, <1>9 DEF AgreedInv, EndedIsOver, LastIsOver, Nothing, causes
<1>16. GotAfterAsked' /\ OutIsKnown' /\ DataAreAwaited' /\ SendersEnd' /\ OnlySendersSend'
  BY <1>2, <1>6, <1>7, <1>8, <1>9 DEF AgreedInv, GotAfterAsked, OutIsKnown, Out,
     DataAreAwaited, SendersEnd, OnlySendersSend
<1> QED
  BY <1>11, <1>12, <1>13, <1>14, <1>15, <1>16 DEF AgreedInv

\* Data of the host are sent when the last packet was taken.
LEMMA SendData0Agreed == ASSUME ListeningInv, AgreedInv, SendData0 PROVE AgreedInv'
<1> DEFINE n == Least(SmallFifo, host.req.wLength - host.got)
           over == host.got + n = host.req.wLength
           f == [ep0 EXCEPT !.rx = DataPacket(n)]
<1>1. /\ host.stage = "data" /\ ~DirIn(host.req) /\ ep0.rx = NoRequest /\ ~ep0.sendstall
      /\ host' = [host EXCEPT !.got = @ + n, !.stage = IF over THEN "status" ELSE @]
      /\ ep0' = f /\ intr' = intr \cup {"ep0"} /\ port' = port
  BY DEF SendData0, Is, Bus0
<1>2. OnBus /\ port.pFunctionClient /\ "reset" \notin intr
  BY <1>1, WaitsOnBus
<1>3. Out /\ host.req.wLength \in Nat /\ host.req.op \notin {"none", "data"} /\ ep0.busy
  BY <1>1 DEF AgreedInv, AskedSomething, Out
<1>4. NoRequest.op = "none"
  BY DEF NoRequest, Request
<1>5. /\ host.kind = "sender" /\ host.got \in 0 .. host.req.wLength /\ ~ep0.dataend
      /\ port.request = host.req /\ port.wSetupDataIndex = SetupSize + host.got
      /\ port.wSetupDataIndex \in Nat \ {0}
      /\ host.got < host.req.wLength /\ "ep0" \notin intr /\ ep0.tx = NoReply
  BY <1>1, <1>3, <1>4 DEF AgreedInv, OutIsKnown, OutBegins, OutEnds, OutGoesOn, Sent0, SetupSize
<1>6. /\ n \in 1 .. SmallFifo /\ host.got + n <= host.req.wLength
  <2>1. host.req.wLength - host.got \in Nat \ {0}
    BY <1>3, <1>5
  <2> HIDE DEF n
  <2>2. n = (IF SmallFifo <= host.req.wLength - host.got THEN SmallFifo
             ELSE host.req.wLength - host.got)
    BY <2>1, LeastFacts DEF SmallFifo, n
  <2> QED
    BY <1>3, <1>5, <2>1, <2>2 DEF SmallFifo
<1> HIDE DEF n
<1>7. /\ HostFull(host') /\ host'.kind = host.kind /\ host'.req = host.req
      /\ host'.addr = host.addr /\ host'.config = host.config /\ host'.got = host.got + n
      /\ host'.stage = (IF over THEN "status" ELSE "data")
  BY <1>1 DEF AgreedInv, Fields, HostFull, HostShape
<1>8. host'.stage \in {"data", "status"}
  BY <1>7
<1>9. /\ ep0'.rx = DataPacket(n) /\ ep0'.dataend = ep0.dataend
      /\ ep0'.sendstall = ep0.sendstall /\ ep0'.setupend = ep0.setupend
      /\ ep0'.busy = ep0.busy /\ ep0'.faddr = ep0.faddr /\ ep0'.tx = ep0.tx
      /\ ep0'.sentstall = ep0.sentstall /\ DOMAIN ep0' = DOMAIN ep0
  BY <1>1, AllFields DEF AgreedInv
<1>10. /\ ep0'.rx.op = "data" /\ ep0'.rx.wLength = n /\ ep0'.rx # NoRequest
       /\ ~ep0'.dataend /\ ~ep0'.sendstall /\ ep0'.busy
  <2>1. DataPacket(n).op = "data" /\ DataPacket(n).wLength = n
    BY DEF DataPacket, Request
  <2> QED
    BY <1>1, <1>3, <1>4, <1>5, <1>9, <2>1
<1>11. host.req.op \notin Sets
  BY <1>1, <1>3 DEF AgreedInv, SetsAreKnown, Out
<1>12. Fields' /\ Unattached' /\ ResetPending'
  BY <1>1, <1>2, <1>7, <1>9 DEF AgreedInv, Fields, Unattached, ResetPending
<1>13. AddressOk' /\ ConfigOk'
  <2>1. ~AddressAsked /\ ~AddressTold /\ ~ConfigAsked
    BY <1>1 DEF AddressAsked, AddressTold, ConfigAsked
  <2> QED
    BY <1>1, <1>2, <1>7, <1>9, <2>1, UseKept
<1>14. AskedSomething' /\ FreshIsUnanswered' /\ SetsAreAwaited' /\ SetsAreKnown'
  BY <1>3, <1>5, <1>7, <1>9, <1>10, <1>11
     DEF AgreedInv, AskedSomething, FreshIsUnanswered, SetsAreAwaited, SetsAreKnown, Sets, Out
<1>15. IndexIsTold' /\ SetupBeginsAnew' /\ RefusedIsOver' /\ EndedIsOver' /\ LastIsOver'
  BY <1>10 DEF IndexIsTold, SetupBeginsAnew, RefusedIsOver, EndedIsOver, LastIsOver
<1>16. Out' /\ GotAfterAsked' /\ DataAreAwaited' /\ SendersEnd' /\ OnlySendersSend'
  BY <1>1, <1>3, <1>5, <1>7, <1>8, <1>9, <1>10 DEF AgreedInv, GotAfterAsked, Out, DataAreAwaited, SendersEnd,
     OnlySendersSend
<1>17. OutIsKnown'
  <2>1. OutGoesOn'
    BY <1>1, <1>5, <1>6, <1>7, <1>10 DEF OutGoesOn, Sent0, SetupSize
  <2>2. /\ host'.got \in 0 .. host'.req.wLength
        /\ host'.stage = "status" <=> host'.got = host'.req.wLength
    BY <1>3, <1>5, <1>6, <1>7 DEF SmallFifo
  <2> QED
    BY <1>5, <1>7, <2>1, <2>2 DEF OutIsKnown
<1> QED
  BY <1>12, <1>13, <1>14, <1>15, <1>16, <1>17 DEF AgreedInv

\* A transfer is over whose request was parsed.
LEMMA OverAgreed ==
  ASSUME ListeningInv, AgreedInv, host.stage # "idle", ep0.rx = NoRequest,
         port' = port, intr' = intr \cup {"ep0"},
         DOMAIN ep0' = DOMAIN ep0, ep0'.rx = NoRequest, ~ep0'.sendstall, ~ep0'.busy,
         HostFull(host'), host'.kind = host.kind, host'.stage = "idle",
         AddressOk', ConfigOk', IndexIsTold', LastIsOver',
         host.kind = "sender" => ~ep0'.setupend
  PROVE  AgreedInv'
<1>1. OnBus /\ port.pFunctionClient /\ "reset" \notin intr
  BY WaitsOnBus
<1>2. NoRequest.op = "none" /\ NoRequest.wLength = 0
  BY DEF NoRequest, Request
<1>3. Fields' /\ Unattached' /\ ResetPending'
  BY <1>1 DEF AgreedInv, Fields, Unattached, ResetPending
<1>4. AskedSomething' /\ FreshIsUnanswered' /\ SetsAreAwaited' /\ SetsAreKnown'
  BY <1>2 DEF AskedSomething, FreshIsUnanswered, SetsAreAwaited, SetsAreKnown, Sets
<1>5. SetupBeginsAnew' /\ RefusedIsOver' /\ EndedIsOver' /\ GotAfterAsked'
  BY DEF SetupBeginsAnew, RefusedIsOver, EndedIsOver, GotAfterAsked
<1>6. OutIsKnown' /\ DataAreAwaited' /\ SendersEnd' /\ OnlySendersSend'
  BY <1>2 DEF OutIsKnown, Out, DataAreAwaited, SendersEnd, OnlySendersSend
<1> QED
  BY <1>3, <1>4, <1>5, <1>6 DEF AgreedInv

\* The status stage: what was set is known on both sides.
LEMMA StatusStageAgreed == ASSUME ListeningInv, AgreedInv, StatusStage PROVE AgreedInv'
<1> DEFINE f == [ep0 EXCEPT !.dataend = FALSE, !.busy = FALSE]
           l == Learnt(host)
           r == host.req
<1>1. /\ host.stage = "status" /\ ep0.dataend /\ ~ep0.sendstall /\ host' = Done(l)
      /\ ep0' = f /\ intr' = intr \cup {"ep0"} /\ port' = port
  BY DEF StatusStage, Is, Bus0
<1>2. OnBus /\ port.pFunctionClient /\ "reset" \notin intr /\ OnBus'
  BY <1>1, WaitsOnBus DEF OnBus
<1>3. /\ HostFull(l) /\ l.kind = host.kind
      /\ l.addr = (IF r.op = "SET_ADDRESS" THEN r.wValue ELSE host.addr)
      /\ l.config = (IF r.op = "SET_CONFIGURATION" THEN r.wValue ELSE host.config)
  BY LearntMore DEF AgreedInv, Fields
<1> HIDE DEF l
<1>4. /\ HostFull(host') /\ host'.kind = host.kind /\ host'.stage = "idle"
      /\ host'.addr = l.addr /\ host'.config = l.config
  BY <1>1, <1>3, DoneMore
<1>5. ep0.rx = NoRequest
  BY <1>1 DEF AgreedInv, FreshIsUnanswered
<1>6. Nothing /\ "ep0" \notin intr
  BY <1>1, <1>2, <1>5 DEF AgreedInv, EndedIsOver
<1>7. /\ DOMAIN ep0' = DOMAIN ep0 /\ ep0'.rx = ep0.rx /\ ep0'.faddr = ep0.faddr
      /\ ep0'.dataend = FALSE /\ ep0'.busy = FALSE
  BY <1>1, AllFields DEF AgreedInv
<1>8. /\ ep0'.sendstall = ep0.sendstall /\ ep0'.setupend = ep0.setupend
      /\ ep0'.sentstall = ep0.sentstall
  BY <1>1, AllFields DEF AgreedInv
<1> HIDE DEF f
<1>9. IndexIsTold' /\ LastIsOver'
  BY <1>1, <1>6 DEF IndexIsTold, LastIsOver, Nothing
<1>10. AddressOk' /\ ConfigOk'
  <2>1. ~AddressTold
    BY <1>6 DEF AddressTold
  <2>2. CASE r.op = "SET_ADDRESS"
    <3>1. AddressAsked /\ r.wValue = Address
      BY <1>1, <2>2 DEF AgreedInv, SetsAreKnown, Sets
    <3>2. l.addr = Address /\ l.config = host.config
      BY <1>3, <2>2, <3>1
    <3>3. AddressTold'
      BY <1>1, <1>4, <1>5, <1>7, <1>8, <3>1, <3>2 DEF AddressAsked, AddressTold, Answered
    <3>4. port.bUsbState = "ADDRESS" /\ port.bFuncAddr = Address
      BY <1>2, <3>1 DEF AgreedInv, AddressOk, AddressAsked
    <3>5. AddressOk'
      BY <1>1, <3>3, <3>4 DEF AddressOk
    <3>6. ~ConfigAsked
      BY <2>2 DEF ConfigAsked
    <3>7. ConfigAgreed'
      BY <1>1, <1>2, <1>4, <3>2, <3>6 DEF AgreedInv, ConfigOk, ConfigAgreed
    <3> QED
      BY <3>5, <3>7 DEF ConfigOk
  <2>3. CASE r.op = "SET_CONFIGURATION"
    <3>1. ConfigAsked
      BY <1>1, <2>3 DEF AgreedInv, SetsAreKnown, Sets
    <3>2. l.addr = host.addr /\ l.config = r.wValue
      BY <1>3, <2>3
    <3>3. ConfigAgreed'
      BY <1>1, <1>4, <3>1, <3>2 DEF ConfigAsked, ConfigAgreed
    <3>4. ~AddressAsked
      BY <2>3 DEF AddressAsked
    <3>5. port.bUsbState \in {"ADDRESS", "CONFIGURED"}
      BY <3>1 DEF ConfigAsked
    <3>6. Settled /\ port.bFuncAddr = Address
      BY <1>2, <2>1, <3>4, <3>5 DEF AgreedInv, AddressOk
    <3>7. Settled'
      BY <1>1, <1>4, <1>7, <3>2, <3>6 DEF Settled
    <3>8. AddressOk'
      BY <1>1, <3>5, <3>6, <3>7 DEF AddressOk
    <3> QED
      BY <3>3, <3>8 DEF ConfigOk
  <2>4. CASE r.op \notin Sets
    <3>1. ~AddressAsked /\ ~ConfigAsked
      BY <2>4 DEF AddressAsked, ConfigAsked, Sets
    <3>2. host'.addr = host.addr /\ host'.config = host.config
      BY <1>3, <1>4, <2>4 DEF Sets
    <3> QED
      BY <1>1, <1>2, <1>7, <2>1, <3>1, <3>2, UseKept
  <2> QED
    BY <2>2, <2>3, <2>4 DEF Sets
<1>11. host.kind = "sender" => ~ep0'.setupend
  BY <1>8 DEF AgreedInv, SendersEnd
<1>12. ~ep0'.sendstall /\ ~ep0'.busy
  BY <1>1, <1>7, <1>8
<1> QED
  BY <1>1, <1>4, <1>5, <1>7, <1>9, <1>10, <1>11, <1>12, OverAgreed

\* The status stage comes early: endpoint 0 is told so.
LEMMA EndEarlyAgreed == ASSUME ListeningInv, AgreedInv, EndEarly PROVE AgreedInv'
<1> DEFINE f == [ep0 EXCEPT !.tx = NoReply, !.setupend = TRUE, !.busy = FALSE]
<1>1. /\ host.kind = "early" /\ host.stage = "data" /\ DirIn(host.req) /\ host.got > 0
      /\ ~ep0.sendstall /\ host' = Done(host)
      /\ ep0' = f /\ intr' = intr \cup {"ep0"} /\ port' = port
  BY DEF EndEarly, Is, Bus0
<1>2. OnBus /\ port.pFunctionClient /\ "reset" \notin intr
  BY <1>1, WaitsOnBus
<1>3. /\ HostFull(host') /\ host'.kind = host.kind /\ host'.stage = "idle"
      /\ host'.addr = host.addr /\ host'.config = host.config
  BY <1>1, DoneMore DEF AgreedInv, Fields
<1>4. ep0.rx = NoRequest
  BY <1>1 DEF AgreedInv, GotAfterAsked
<1>5. /\ DOMAIN ep0' = DOMAIN ep0 /\ ep0'.rx = ep0.rx /\ ep0'.faddr = ep0.faddr
      /\ ep0'.busy = FALSE /\ ep0'.setupend = TRUE /\ ep0'.sendstall = ep0.sendstall
  BY <1>1, AllFields DEF AgreedInv
<1> HIDE DEF f
<1>6. IndexIsTold' /\ LastIsOver'
  BY <1>5 DEF IndexIsTold, LastIsOver
<1>7. ~AddressAsked /\ ~AddressTold /\ ~ConfigAsked
  BY <1>1 DEF AddressAsked, AddressTold, ConfigAsked
<1>8. AddressOk' /\ ConfigOk'
  BY <1>1, <1>2, <1>3, <1>5, <1>7, UseKept
<1>9. ~ep0'.sendstall /\ ~ep0'.busy
  BY <1>1, <1>5
<1> QED
  BY <1>1, <1>3, <1>4, <1>5, <1>6, <1>8, <1>9, OverAgreed

\* A request is refused: nothing was set.
LEMMA TakeStall0Agreed == ASSUME ListeningInv, AgreedInv, TakeStall0 PROVE AgreedInv'
<1> DEFINE f == [ep0 EXCEPT !.sendstall = FALSE, !.sentstall = TRUE, !.busy = FALSE]
           h == Done(host)
           bad == host.kind = "disk"
<1>1. /\ host.stage # "idle" /\ ep0.sendstall /\ host' = Wrong(h, bad, "refused")
      /\ ep0' = f /\ intr' = intr \cup {"ep0"} /\ port' = port
  BY DEF TakeStall0, Bus0
<1>2. OnBus /\ port.pFunctionClient /\ "reset" \notin intr
  BY <1>1, WaitsOnBus
<1>3. /\ HostFull(h) /\ h.kind = host.kind /\ h.stage = "idle"
      /\ h.addr = host.addr /\ h.config = host.config
  BY <1>1, DoneMore DEF AgreedInv, Fields
<1> HIDE DEF h, bad
<1>4. /\ HostFull(host') /\ host'.kind = host.kind /\ host'.stage = "idle"
      /\ host'.addr = host.addr /\ host'.config = host.config
  BY <1>1, <1>3, WrongMore
<1>5. ep0.rx = NoRequest
  BY <1>1 DEF AgreedInv, FreshIsUnanswered
<1>6. port.wSetupDataIndex = 0 /\ ~ep0.dataend
  BY <1>1 DEF AgreedInv, RefusedIsOver
<1>7. /\ DOMAIN ep0' = DOMAIN ep0 /\ ep0'.rx = ep0.rx /\ ep0'.faddr = ep0.faddr
      /\ ep0'.setupend = ep0.setupend
  BY <1>1, AllFields DEF AgreedInv
<1>8. ep0'.busy = FALSE /\ ep0'.sendstall = FALSE /\ ep0'.sentstall = TRUE
  BY <1>1, AllFields DEF AgreedInv
<1> HIDE DEF f
<1>9. IndexIsTold' /\ LastIsOver'
  BY <1>1, <1>6, <1>8 DEF IndexIsTold, LastIsOver
<1>10. ~AddressAsked /\ ~AddressTold /\ ~ConfigAsked
  BY <1>1, <1>6 DEF AddressAsked, AddressTold, ConfigAsked
<1>11. AddressOk' /\ ConfigOk'
  BY <1>1, <1>2, <1>4, <1>7, <1>10, UseKept
<1>12. host.kind = "sender" => ~ep0'.setupend
  BY <1>7 DEF AgreedInv, SendersEnd
<1> QED
  BY <1>1, <1>4, <1>5, <1>7, <1>8, <1>9, <1>11, <1>12, OverAgreed

\* A transfer is given up that sets nothing.
LEMMA AbandonAgreed == ASSUME ListeningInv, AgreedInv, Abandon PROVE AgreedInv'
<1> DEFINE h == Done(host)
<1>1. /\ host.kind = "early" /\ host.stage # "idle" /\ host.req.op \notin Sets
      /\ host' = [h EXCEPT !.abandons = @ - 1]
      /\ port' = port /\ ep0' = ep0 /\ intr' = intr
  BY DEF Abandon, driver, Sets
<1>2. /\ HostFull(h) /\ h.kind = host.kind /\ h.stage = "idle"
      /\ h.addr = host.addr /\ h.config = host.config
  BY DoneMore DEF AgreedInv, Fields
<1> HIDE DEF h
<1>3. /\ HostFull(host') /\ host'.kind = host.kind /\ host'.stage = "idle"
      /\ host'.addr = host.addr /\ host'.config = host.config
  BY <1>1, <1>2 DEF HostFull, HostShape
<1>4. OnBus /\ port.pFunctionClient /\ "reset" \notin intr
  BY <1>1, WaitsOnBus
<1>5. Fields' /\ Unattached' /\ ResetPending'
  BY <1>1, <1>3, <1>4 DEF AgreedInv, Fields, Unattached, ResetPending
<1>6. ~AddressAsked /\ ~AddressTold /\ ~ConfigAsked
  BY <1>1 DEF AddressAsked, AddressTold, ConfigAsked, Sets
<1>7. AddressOk' /\ ConfigOk'
  BY <1>1, <1>3, <1>4, <1>6, UseKept
<1>8. ep0.rx.op \notin Sets
  BY <1>1 DEF AgreedInv, SetsAreAwaited, Dead
<1>9. ep0.rx.op # "data"
  BY <1>1 DEF AgreedInv, DataAreAwaited, OutIsKnown, Dead
<1>10. AskedSomething' /\ FreshIsUnanswered' /\ SetsAreAwaited' /\ SetsAreKnown'
  BY <1>1, <1>3, <1>8
     DEF AgreedInv, AskedSomething, FreshIsUnanswered, SetsAreAwaited, SetsAreKnown
<1>11. IndexIsTold' /\ SetupBeginsAnew' /\ RefusedIsOver' /\ EndedIsOver' /\ LastIsOver'
  BY <1>1, <1>3 DEF AgreedInv, OnBus, IndexIsTold, SetupBeginsAnew, RefusedIsOver, EndedIsOver,
     LastIsOver, Nothing
<1>12. GotAfterAsked' /\ OutIsKnown' /\ DataAreAwaited' /\ SendersEnd' /\ OnlySendersSend'
  BY <1>1, <1>3, <1>9 DEF AgreedInv, GotAfterAsked, OutIsKnown, Out, DataAreAwaited, SendersEnd,
     OnlySendersSend
<1> QED
  BY <1>5, <1>7, <1>10, <1>11, <1>12 DEF AgreedInv

\* A host that waits in vain wants nothing more; what it has lost, the driver has too.
LEMMA GiveUpAgreed == ASSUME ListeningInv, AgreedInv, GiveUp PROVE AgreedInv'
<1> DEFINE fails == Is(host, "idle") /\ host.bot \in {"in", "out", "csw"}
           e == Failed(host)
           o == Done(host)
           l == [o EXCEPT !.requests = 0, !.commands = 0, !.script = <<>>, !.bot = "none"]
<1>1. /\ intr = {} /\ host' = IF fails THEN e ELSE l
      /\ port' = port /\ ep0' = ep0 /\ intr' = intr
  BY DEF GiveUp, Stuck, Quiet, driver
<1>2. HostFull(host)
  BY DEF AgreedInv, Fields
<1>3. CASE fails
  <2>1. host' = e /\ ~Dead(host)
    BY <1>1, <1>3 DEF Dead
  <2> HIDE DEF e
  <2>2. /\ HostFull(e) /\ e.kind = host.kind /\ e.stage = host.stage /\ e.req = host.req
        /\ e.got = host.got /\ e.addr = host.addr /\ e.config = host.config
    BY <1>2, FailedMore DEF e
  <2> QED
    BY <1>1, <2>1, <2>2, AsideAgreed
<1>4. CASE ~fails
  <2>1. /\ HostFull(o) /\ o.kind = host.kind /\ o.stage = "idle"
        /\ o.addr = host.addr /\ o.config = host.config
    BY <1>2, DoneMore
  <2> HIDE DEF o
  <2>2. /\ HostFull(l) /\ l.kind = host.kind /\ l.stage = "idle" /\ Dead(l)
        /\ l.addr = host.addr /\ l.config = host.config
    BY <2>1 DEF HostFull, HostShape, Dead
  <2> HIDE DEF l
  <2>3. /\ HostFull(host') /\ host'.kind = host.kind /\ host'.stage = "idle" /\ Dead(host')
        /\ host'.addr = host.addr /\ host'.config = host.config
    BY <1>1, <1>4, <2>2
  <2>4. Fields' /\ Unattached' /\ ResetPending'
    BY <1>1, <2>3 DEF AgreedInv, Fields, Unattached, ResetPending
  <2>5. ~AddressAsked /\ ~AddressTold /\ ~ConfigAsked
    <3>1. ~AddressTold
      BY <1>1 DEF AddressTold
    <3>2. ~(host.stage = "status" /\ ep0.dataend)
      BY <1>4 DEF GiveUp, Stuck, Is, AtBot
    <3> QED
      BY <3>1, <3>2 DEF AddressAsked, ConfigAsked
  <2>6. AddressOk' /\ ConfigOk'
    BY <1>1, <2>3, <2>5, UseKept DEF OnBus
  <2>7. AskedSomething' /\ FreshIsUnanswered' /\ SetsAreAwaited' /\ SetsAreKnown'
    BY <1>1, <2>3 DEF AgreedInv, AskedSomething, FreshIsUnanswered, SetsAreAwaited, SetsAreKnown
  <2>8. IndexIsTold' /\ SetupBeginsAnew' /\ RefusedIsOver' /\ EndedIsOver' /\ LastIsOver'
    BY <1>1, <2>3 DEF AgreedInv, OnBus, IndexIsTold, SetupBeginsAnew, RefusedIsOver,
       EndedIsOver, LastIsOver
  <2>9. GotAfterAsked' /\ OutIsKnown' /\ DataAreAwaited' /\ SendersEnd' /\ OnlySendersSend'
    BY <1>1, <2>3 DEF AgreedInv, GotAfterAsked, OutIsKnown, Out, DataAreAwaited, SendersEnd,
       OnlySendersSend
  <2> QED
    BY <2>4, <2>6, <2>7, <2>8, <2>9 DEF AgreedInv
<1> QED
  BY <1>3, <1>4

\* A request of a host that wants something
LEMMA SetupAgreed ==
  ASSUME ListeningInv, AgreedInv, NEW r, Setup(r), ~Dead(host),
         r.op \notin {"none", "data"}, r.wLength \in Nat,
         r.op \in Sets => r.wLength = 0, r.op = "SET_ADDRESS" => r.wValue = Address,
         r.wLength = 0 \/ DirIn(r) \/ host.kind = "sender",
         HostFull(host'), host'.kind = host.kind, host'.req = r, host'.got = 0,
         host'.stage = (IF r.wLength = 0 THEN "status" ELSE "data"),
         host'.addr = host.addr, host'.config = host.config
  PROVE  AgreedInv'
<1>1. /\ host.stage = "idle" /\ ep0.faddr = host.addr /\ OnBus /\ port.pFunctionClient
      /\ "reset" \notin intr
      /\ ep0' = [ep0 EXCEPT !.rx = r, !.tx = NoReply, !.dataend = FALSE, !.sendstall = FALSE,
                            !.setupend = @ \/ (ep0.busy /\ ~ep0.dataend), !.busy = TRUE]
      /\ intr' = intr \cup {"ep0"} /\ port' = port
  BY DEF Setup, Is, OnBus
<1>2. /\ DOMAIN ep0' = DOMAIN ep0 /\ ep0'.rx = r /\ ep0'.tx = NoReply
      /\ ep0'.dataend = FALSE /\ ep0'.sendstall = FALSE /\ ep0'.busy = TRUE
      /\ ep0'.faddr = ep0.faddr
      /\ ep0'.setupend = (ep0.setupend \/ (ep0.busy /\ ~ep0.dataend))
  BY <1>1, AllFields DEF AgreedInv
<1>3. r # NoRequest /\ host'.stage # "idle"
  BY DEF NoRequest, Request
<1>4. Fields' /\ Unattached' /\ ResetPending'
  BY <1>1, <1>2 DEF AgreedInv, Fields, Unattached, ResetPending
<1>5. AddressOk' /\ ConfigOk'
  <2>1. ~AddressAsked /\ ~AddressTold /\ ~ConfigAsked
    BY <1>1, FunctionAssumption DEF AddressAsked, AddressTold, ConfigAsked
  <2> QED
    BY <1>1, <1>2, <2>1, UseKept
<1>6. AskedSomething' /\ FreshIsUnanswered' /\ SetsAreAwaited' /\ SetsAreKnown'
  BY <1>2, <1>3 DEF AskedSomething, FreshIsUnanswered, SetsAreAwaited, SetsAreKnown
<1>7. IndexIsTold' /\ SetupBeginsAnew'
  <2>1. port.wSetupDataIndex # 0 => ep0.setupend \/ (ep0.busy /\ ~ep0.dataend)
    BY <1>1 DEF AgreedInv, IndexIsTold
  <2> QED
    BY <1>1, <1>2, <2>1 DEF IndexIsTold, SetupBeginsAnew
<1>8. RefusedIsOver' /\ EndedIsOver' /\ LastIsOver' /\ GotAfterAsked' /\ DataAreAwaited'
  BY <1>2, <1>3 DEF RefusedIsOver, EndedIsOver, LastIsOver, GotAfterAsked, DataAreAwaited
<1>9. host.kind = "sender" => ~ep0.setupend /\ ~ep0.busy /\ port.wSetupDataIndex = 0
  BY <1>1 DEF AgreedInv, SendersEnd, IndexIsTold
<1>10. OutIsKnown'
  BY <1>1, <1>2, <1>3, <1>9 DEF OutIsKnown, Out, OutBegins
<1>11. SendersEnd' /\ OnlySendersSend'
  BY <1>2, <1>3, <1>9 DEF SendersEnd, OnlySendersSend
<1> QED
  BY <1>4, <1>5, <1>6, <1>7, <1>8, <1>10, <1>11 DEF AgreedInv

\* A host that has asked
LEMMA SentMore ==
  ASSUME HostFull(host), NEW r, NEW e, e = Sent(r)
  PROVE  /\ HostFull(e) /\ e.kind = host.kind /\ e.req = r /\ e.got = 0
         /\ e.stage = (IF r.wLength = 0 THEN "status" ELSE "data")
         /\ e.addr = host.addr /\ e.config = host.config
  BY DEF Sent, HostFull, HostShape

\* An explorer asks anything that RequestsAssumption admits.
LEMMA ExploreAgreed == ASSUME ListeningInv, AgreedInv, Explore PROVE AgreedInv'
<1>1. PICK r \in Requests : /\ r.wLength > 0 /\ ~DirIn(r) => host.kind = "sender"
                            /\ Setup(r) /\ host' = [Sent(r) EXCEPT !.requests = @ - 1]
  BY DEF Explore
<1>2. ~Dead(host)
  BY DEF Explore, Dead
<1> DEFINE e == Sent(r)
<1>3. /\ HostFull(e) /\ e.kind = host.kind /\ e.req = r /\ e.got = 0
      /\ e.stage = (IF r.wLength = 0 THEN "status" ELSE "data")
      /\ e.addr = host.addr /\ e.config = host.config
  BY SentMore DEF AgreedInv, Fields
<1>4. host' = [e EXCEPT !.requests = @ - 1]
  BY <1>1
<1> HIDE DEF e
<1>5. /\ HostFull(host') /\ host'.kind = host.kind /\ host'.req = r /\ host'.got = 0
      /\ host'.stage = (IF r.wLength = 0 THEN "status" ELSE "data")
      /\ host'.addr = host.addr /\ host'.config = host.config
  BY <1>3, <1>4 DEF HostFull, HostShape
<1>6. /\ r.op \notin {"none", "data"} /\ r.wLength \in Nat
      /\ r.op \in Sets => r.wLength = 0
      /\ r.op = "SET_ADDRESS" => r.wValue = Address
  BY RequestsAssumption DEF Sets
<1>7. r.wLength = 0 \/ DirIn(r) \/ host.kind = "sender"
  BY <1>1, <1>6
<1> QED
  BY <1>1, <1>2, <1>5, <1>6, <1>7, SetupAgreed

\* What the script of a disk's host asks is of that kind.
LEMMA AsksMore ==
  ASSUME NEW r \in Asks
  PROVE  /\ r.op \notin {"none", "data"} /\ r.wLength \in Nat
         /\ r.op \in Sets => r.wLength = 0
         /\ r.op = "SET_ADDRESS" => r.wValue = Address
         /\ r.wLength = 0 \/ DirIn(r)
<1> USE DEF Get, Simple, GetMaxLun, BotResetRequest, ClearHaltRequest, Request
<1> QED
  BY DEF Asks, Sets, DirIn

LEMMA NextOfScriptAgreed == ASSUME ListeningInv, AgreedInv, NextOfScript PROVE AgreedInv'
<1> DEFINE r == Head(host.script)
           e == Sent(r)
<1>1. Setup(r) /\ host' = [e EXCEPT !.script = Tail(@)] /\ host.script # <<>>
  BY DEF NextOfScript
<1>2. ~Dead(host)
  BY <1>1 DEF Dead
<1>3. r \in Asks
  BY <1>1, AsksFacts DEF ListeningInv, AsksAreKnown
<1>4. /\ HostFull(e) /\ e.kind = host.kind /\ e.req = r /\ e.got = 0
      /\ e.stage = (IF r.wLength = 0 THEN "status" ELSE "data")
      /\ e.addr = host.addr /\ e.config = host.config
  BY SentMore DEF AgreedInv, Fields
<1> HIDE DEF e, r
<1>5. /\ HostFull(host') /\ host'.kind = host.kind /\ host'.req = r /\ host'.got = 0
      /\ host'.stage = (IF r.wLength = 0 THEN "status" ELSE "data")
      /\ host'.addr = host.addr /\ host'.config = host.config
  BY <1>1, <1>4 DEF HostFull, HostShape
<1> QED
  BY <1>1, <1>2, <1>3, <1>5, AsksMore, SetupAgreed

\* A reset of the bus
LEMMA ResetBusAgreed == ASSUME ListeningInv, AgreedInv, ResetBus PROVE AgreedInv'
<1> DEFINE n == NewHost(host.kind)
<1>1. PICK a, b, c, e, f, g :
        host' = [n EXCEPT !.requests = a, !.commands = b, !.tag = c, !.abandons = e,
                          !.resets = f, !.wrong = g]
  BY DEF ResetBus
<1>2. /\ ep0' = NewEp0 /\ intr' = intr \cup {"reset"} /\ port' = port
      /\ port.pFunctionClient
  BY DEF ResetBus
<1>3. HostFull(n) /\ n.stage = "idle" /\ n.addr = 0 /\ n.config = 0
  BY DEF NewHost, HostFull, HostShape
<1> HIDE DEF n
<1>4. HostFull(host') /\ host'.stage = "idle" /\ host'.addr = 0 /\ host'.config = 0
  BY <1>1, <1>3 DEF HostFull, HostShape
<1>5. Fields'
  BY <1>2, <1>4 DEF AgreedInv, Fields, NewEp0
<1> QED
  BY <1>2, <1>4, <1>5, NothingAskedYet DEF OnBus

\* Initially
LEMMA InitAgreed == Init => AgreedInv
<1> SUFFICES ASSUME Init
             PROVE  AgreedInv
  OBVIOUS
<1>1. PICK kind \in Hosts : host = NewHost(kind)
  BY DEF Init
<1>2. HostFull(host) /\ host.stage = "idle" /\ host.addr = 0 /\ host.config = 0
  BY <1>1 DEF NewHost, HostFull, HostShape
<1>3. port = NewPort /\ ep0 = NewEp0 /\ intr = {}
  BY DEF Init
<1>4. Fields /\ Unattached /\ ResetPending
  BY <1>2, <1>3 DEF Fields, Unattached, ResetPending, NewPort, NewEp0
<1>5. /\ ep0.rx = NoRequest /\ ep0.rx.op = "none" /\ ep0.rx.wLength = 0
      /\ ~ep0.sendstall /\ ~ep0.setupend /\ ~ep0.busy
  BY <1>3 DEF NewEp0, NoRequest, Request
<1>6. AddressOk /\ ConfigOk /\ IndexIsTold /\ EndedIsOver /\ LastIsOver
  BY <1>3 DEF OnBus, AddressOk, ConfigOk, IndexIsTold, EndedIsOver, LastIsOver, NewPort
<1>7. AskedSomething /\ FreshIsUnanswered /\ SetsAreAwaited /\ SetsAreKnown
  BY <1>2, <1>5 DEF AskedSomething, FreshIsUnanswered, SetsAreAwaited, SetsAreKnown, Sets
<1>8. SetupBeginsAnew /\ RefusedIsOver /\ GotAfterAsked
  BY <1>2, <1>5 DEF SetupBeginsAnew, RefusedIsOver, GotAfterAsked
<1>9. OutIsKnown /\ DataAreAwaited /\ SendersEnd /\ OnlySendersSend
  BY <1>2, <1>5 DEF OutIsKnown, Out, DataAreAwaited, SendersEnd, OnlySendersSend
<1> QED
  BY <1>4, <1>6, <1>7, <1>8, <1>9 DEF AgreedInv

-----------------------------------------------------------------------------
(* The invariant: the pipes, the background and the registration *)

\* What a host knows of endpoint 0 stays the same.
SameTerms(h, g) ==
  /\ HostFull(g) /\ g.kind = h.kind /\ g.stage = h.stage /\ g.req = h.req
  /\ g.got = h.got /\ g.addr = h.addr /\ g.config = h.config

\* A step of the Bulk-Only Transport of the host
LEMMA BulkAgreed ==
  ASSUME ListeningInv, AgreedInv, NEW phases, AtBot(phases), "none" \notin phases,
         port' = port, ep0' = ep0, NEW s \in Sides, intr' \in {intr, intr \cup {s}},
         SameTerms(host, host')
  PROVE  AgreedInv'
<1>1. ~Dead(host) /\ port.pFunctionClient
  BY AtBotFacts DEF Dead
<1>2. /\ "reset" \in intr' <=> "reset" \in intr
      /\ "ep0" \in intr' <=> "ep0" \in intr
  BY DEF Sides
<1> QED
  BY <1>1, <1>2, AsideAgreed DEF SameTerms

\* A packet of the host
LEMMA PutAgreed ==
  ASSUME ListeningInv, AgreedInv, NEW p, NEW h, Put(p, h), AtBot({"ready", "out"}),
         SameTerms(host, h)
  PROVE  AgreedInv'
<1>1. /\ port' = port /\ ep0' = ep0 /\ intr' \in {intr, intr \cup {"rx"}}
      /\ host' = [h EXCEPT !.tog["rx"] = 1 - @]
  BY DEF Put, Bulk, driver
<1>2. SameTerms(host, host')
  BY <1>1 DEF SameTerms, HostFull, HostShape
<1> QED
  BY <1>1, <1>2, BulkAgreed DEF Sides

LEMMA SendCbwAgreed == ASSUME ListeningInv, AgreedInv, SendCbw PROVE AgreedInv'
<1>1. PICK c, next, p, h :
        /\ Put(p, h)
        /\ h = [host EXCEPT !.bot = next, !.cmd = c, !.tag = @ + 1, !.taken = 0,
                            !.cleared = FALSE, !.commands = @ - 1]
  BY DEF SendCbw
<1>2. AtBot({"ready", "out"})
  BY DEF SendCbw, AtBot
<1>3. SameTerms(host, h)
  BY <1>1 DEF AgreedInv, Fields, SameTerms, HostFull, HostShape
<1> QED
  BY <1>1, <1>2, <1>3, PutAgreed

LEMMA SendDataOutAgreed == ASSUME ListeningInv, AgreedInv, SendDataOut PROVE AgreedInv'
<1>1. PICK n, bot, p, h :
        Put(p, h) /\ h = [host EXCEPT !.taken = @ + n, !.bot = bot]
  BY DEF SendDataOut
<1>2. AtBot({"ready", "out"})
  BY DEF SendDataOut, AtBot
<1>3. SameTerms(host, h)
  BY <1>1 DEF AgreedInv, Fields, SameTerms, HostFull, HostShape
<1> QED
  BY <1>1, <1>2, <1>3, PutAgreed

\* A packet of the device
LEMMA TakeAgreed ==
  ASSUME ListeningInv, AgreedInv, NEW h, Take(h), AtBot({"in", "csw"}), SameTerms(host, h)
  PROVE  AgreedInv'
<1>1. /\ port' = port /\ ep0' = ep0 /\ intr' = intr \cup {"tx"}
      /\ host' \in {[h EXCEPT !.tog["tx"] = 1 - @], host}
  BY DEF Take
<1>2. SameTerms(host, host')
  <2>1. SameTerms(host, host)
    BY DEF AgreedInv, Fields, SameTerms
  <2>2. SameTerms(host, [h EXCEPT !.tog["tx"] = 1 - @])
    BY DEF SameTerms, HostFull, HostShape
  <2> QED
    BY <1>1, <2>1, <2>2
<1> QED
  BY <1>1, <1>2, BulkAgreed DEF Sides

LEMMA TakeDataInAgreed == ASSUME ListeningInv, AgreedInv, TakeDataIn PROVE AgreedInv'
<1>1. PICK total, bot, bad :
        Take(Wrong([host EXCEPT !.taken = total, !.bot = bot], bad, "data"))
  BY DEF TakeDataIn
<1> DEFINE g == [host EXCEPT !.taken = total, !.bot = bot]
           h == Wrong(g, bad, "data")
<1>2. AtBot({"in", "csw"})
  BY DEF TakeDataIn, AtBot
<1>3. SameTerms(host, g)
  BY DEF AgreedInv, Fields, SameTerms, HostFull, HostShape
<1>4. Take(h)
  BY <1>1
<1> HIDE DEF g
<1>5. SameTerms(g, h)
  BY <1>3, WrongMore DEF SameTerms
<1> HIDE DEF h
<1> QED
  BY <1>2, <1>3, <1>4, <1>5, TakeAgreed DEF SameTerms

LEMMA TakeCswAgreed == ASSUME ListeningInv, AgreedInv, TakeCsw PROVE AgreedInv'
<1>1. PICK ready, mine, bad :
        LET h == [host EXCEPT !.bot = "ready", !.cmd = NoCommand, !.taken = 0,
                              !.cleared = FALSE, !.ready = ready]
        IN  Take(IF mine THEN Wrong(h, bad, "status")
                 ELSE [h EXCEPT !.script = Recovery, !.wrong = @ \cup {"csw"}])
  BY DEF TakeCsw
<1> DEFINE g == [host EXCEPT !.bot = "ready", !.cmd = NoCommand, !.taken = 0,
                             !.cleared = FALSE, !.ready = ready]
           h == IF mine THEN Wrong(g, bad, "status")
                ELSE [g EXCEPT !.script = Recovery, !.wrong = @ \cup {"csw"}]
<1>2. AtBot({"in", "csw"})
  BY DEF TakeCsw, AtBot
<1>3. SameTerms(host, g)
  BY DEF AgreedInv, Fields, SameTerms, HostFull, HostShape
<1>4. Take(h)
  BY <1>1
<1> HIDE DEF g
<1>5. SameTerms(g, h)
  <2>1. CASE mine
    BY <1>3, <2>1, WrongMore DEF SameTerms
  <2>2. CASE ~mine
    BY <1>3, <2>2 DEF SameTerms, HostFull, HostShape
  <2> QED
    BY <2>1, <2>2
<1> HIDE DEF h
<1> QED
  BY <1>2, <1>3, <1>4, <1>5, TakeAgreed DEF SameTerms

LEMMA TakeStallAgreed ==
  ASSUME ListeningInv, AgreedInv, NEW s \in Sides, TakeStall(s)
  PROVE  AgreedInv'
<1> DEFINE phases == IF s = "tx" THEN {"in", "csw"} ELSE {"ready", "out"}
<1>1. PICK h :
        /\ h = [host EXCEPT !.bot = "csw", !.script = <<ClearHaltRequest(s)>>,
                            !.cleared = (host.bot = "csw")]
        /\ host' \in {h, Failed(host)}
  BY DEF TakeStall, Bulk
<1>2. AtBot(phases) /\ port' = port /\ ep0' = ep0 /\ intr' = intr \cup {s}
  BY DEF TakeStall, Bulk
<1>3. SameTerms(host, h)
  BY <1>1 DEF AgreedInv, Fields, SameTerms, HostFull, HostShape
<1>4. SameTerms(host, Failed(host))
  BY FailedMore DEF AgreedInv, Fields, SameTerms
<1>5. SameTerms(host, host')
  BY <1>1, <1>3, <1>4
<1>6. "none" \notin phases
  OBVIOUS
<1> HIDE DEF phases
<1> QED
  BY <1>2, <1>5, <1>6, BulkAgreed

LEMMA RecoverAgreed == ASSUME ListeningInv, AgreedInv, Recover PROVE AgreedInv'
<1> DEFINE e == Failed(host)
<1>1. /\ AtBot({"in", "out", "csw"}) /\ host' = [e EXCEPT !.abandons = @ - 1]
      /\ port' = port /\ ep0' = ep0 /\ intr' = intr
  BY DEF Recover, driver
<1>2. SameTerms(host, e)
  BY FailedMore DEF AgreedInv, Fields, SameTerms
<1> HIDE DEF e
<1>3. SameTerms(host, host')
  BY <1>1, <1>2 DEF SameTerms, HostFull, HostShape
<1> QED
  BY <1>1, <1>3, BulkAgreed DEF Sides

\* The background
LEMMA BsrAgreed == ASSUME ListeningInv, AgreedInv, Bsr PROVE AgreedInv'
<1> DEFINE d == Driver
           e == Completed(d)
<1>1. d.port = port /\ d.ep0 = ep0 /\ d.intr = intr /\ d.queue = queue
  BY DEF Driver
<1>2. Becomes(e) /\ host' = host /\ queue # <<>> /\ DriverOk(d)
  BY DEF Bsr, ListeningInv
<1> HIDE DEF d
<1>3. e.port = port /\ e.ep0 = ep0 /\ e.intr = intr
  BY <1>1, <1>2, CompletedFacts
<1> HIDE DEF e
<1>4. port' = port /\ ep0' = ep0 /\ intr' = intr
  BY <1>2, <1>3 DEF Becomes
<1>5. HostFull(host) /\ (~port.pFunctionClient => intr = {})
  BY DEF AgreedInv, Fields, Unattached
<1> QED
  BY <1>2, <1>4, <1>5, AsideAgreed

LEMMA SpinAgreed == ASSUME ListeningInv, AgreedInv, Spin PROVE AgreedInv'
<1> DEFINE d == Driver
           e == Polled(d)
<1>1. d.port = port /\ d.ep0 = ep0 /\ d.intr = intr /\ d.spin = spin
  BY DEF Driver
<1>2. Becomes(e) /\ host' = host /\ d.spin # NoIrp /\ DriverOk(d)
  BY <1>1 DEF Spin, Polled, ListeningInv
<1> HIDE DEF d
<1>3. e.port = port /\ e.ep0 = ep0 /\ e.intr = intr
  BY <1>1, <1>2, SpinFacts
<1> HIDE DEF e
<1>4. port' = port /\ ep0' = ep0 /\ intr' = intr
  BY <1>2, <1>3 DEF Becomes
<1>5. HostFull(host) /\ (~port.pFunctionClient => intr = {})
  BY DEF AgreedInv, Fields, Unattached
<1> QED
  BY <1>2, <1>4, <1>5, AsideAgreed

\* A client is registered before anything has happened.
LEMMA RegisterAgreed == ASSUME ListeningInv, AgreedInv, Register PROVE AgreedInv'
<1> DEFINE d == Driver
           u == Unbound(d)
           ok == VerifyResources(d)
           v == [u EXCEPT !.port.pFunctionClient = ok]
           r == [v EXCEPT !.port.apConfigDescriptors = FALSE]
           causes == IF r.port.pFunctionClient THEN {"reset"} ELSE {}
           e == [r EXCEPT !.intr = causes]
<1>1. d.port = port /\ d.ep0 = ep0 /\ Full(d)
  BY AllFields DEF AgreedInv, Driver
<1>2. /\ Full(u) /\ u.port = d.port /\ u.ep0 = d.ep0
      /\ RegisterClient(d) = [u EXCEPT !.port.pFunctionClient = ok, !.port.apConfigDescriptors = FALSE]
  BY <1>1, UnboundFacts DEF Full, Aside, RegisterClient
<1>3. /\ RegisterClient(d) = r
  BY <1>2 DEF Full, Shape
<1>4. Becomes(e) /\ host' = host /\ ~port.pFunctionClient
  <2>1. Becomes([RegisterClient(d) EXCEPT !.intr = IF RegisterClient(d).port.pFunctionClient
                                                   THEN {"reset"} ELSE {}])
    BY DEF Register
  <2> QED
    BY <1>3, <2>1 DEF Register
<1> HIDE DEF d, u, ok
<1>5. Full(v) /\ v.ep0 = u.ep0 /\ DOMAIN v.port = DOMAIN u.port
  BY <1>2 DEF Full, Shape
<1> HIDE DEF v
<1>6. Full(r) /\ r.ep0 = v.ep0 /\ DOMAIN r.port = DOMAIN v.port
  BY <1>5 DEF Full, Shape
<1> HIDE DEF r
<1>7. e.port = r.port /\ e.ep0 = r.ep0 /\ e.intr = causes
  BY <1>6, IntrFacts DEF Full
<1> HIDE DEF e
<1>8. port' = r.port /\ ep0' = r.ep0 /\ intr' = causes
  BY <1>4, <1>7 DEF Becomes
<1>9. /\ ep0' = NewEp0 /\ host'.stage = "idle" /\ host'.addr = 0 /\ host'.config = 0
  BY <1>1, <1>2, <1>4, <1>5, <1>6, <1>8 DEF AgreedInv, Unattached
<1>10. Fields'
  BY <1>1, <1>2, <1>4, <1>5, <1>6, <1>8 DEF AgreedInv, Fields
<1>11. (~port'.pFunctionClient => intr' = {}) /\ ~OnBus'
  BY <1>8 DEF causes, OnBus
<1> QED
  BY <1>9, <1>10, <1>11, NothingAskedYet

-----------------------------------------------------------------------------
(* The invariant: the service of endpoint 0 *)

\* What endpoint 0 is in e once all is served, for a host that goes on as it was.
Becomes0(e) ==
  /\ port' = e.port /\ ep0' = e.ep0 /\ intr' = {} /\ host' = host
  /\ port'.pFunctionClient = port.pFunctionClient /\ Full(e)

\* A packet was taken, and there is no other.
LEMMA NonePending ==
  ASSUME AgreedInv, OnBus, NEW e, Becomes0(e), e.ep0.rx = NoRequest, e.ep0.busy = ep0.busy,
         host.kind = "sender" => ~e.ep0.setupend,
         AddressOk', ConfigOk', SetsAreKnown', IndexIsTold', RefusedIsOver', EndedIsOver',
         OutIsKnown'
  PROVE  AgreedInv'
<1>1. /\ port' = e.port /\ ep0' = e.ep0 /\ intr' = {} /\ host' = host
      /\ port'.pFunctionClient
  BY DEF Becomes0, OnBus
<1>2. NoRequest.op = "none" /\ NoRequest.wLength = 0
  BY DEF NoRequest, Request
<1>3. Fields' /\ Unattached' /\ ResetPending'
  BY <1>1 DEF AgreedInv, Becomes0, Fields, Full, Unattached, ResetPending
<1>4. AskedSomething' /\ FreshIsUnanswered' /\ SetsAreAwaited'
  BY <1>1, <1>2 DEF AgreedInv, AskedSomething, FreshIsUnanswered, SetsAreAwaited, Sets
<1>5. SetupBeginsAnew' /\ LastIsOver' /\ GotAfterAsked'
  BY <1>1 DEF SetupBeginsAnew, LastIsOver, GotAfterAsked
<1>6. DataAreAwaited' /\ SendersEnd' /\ OnlySendersSend'
  BY <1>1, <1>2 DEF AgreedInv, DataAreAwaited, SendersEnd, OnlySendersSend
<1> QED
  BY <1>3, <1>4, <1>5, <1>6 DEF AgreedInv

\* What is heard is the request that the host has made; what sets is granted, or is refused.
LEMMA HeardAgreed ==
  ASSUME ListeningInv, AgreedInv, OnBus, "ep0" \in intr, ep0.rx # NoRequest, ~ep0.sentstall,
         NEW d, d.port = port, d.ep0 = ep0, NEW e, Becomes0(e),
         NEW at, at = (IF ep0.setupend THEN 0 ELSE port.wSetupDataIndex),
         NEW r, r = (IF at = 0 THEN ep0.rx ELSE port.request),
         NEW n, n = at + (IF ep0.rx.op = "data" THEN ep0.rx.wLength ELSE SetupSize),
         Hears(d, e, r, n)
  PROVE  AgreedInv'
<1>1. /\ port' = e.port /\ ep0' = e.ep0 /\ intr' = {} /\ host' = host
      /\ e.ep0.rx = NoRequest /\ e.port.request = r
      /\ e.ep0.sentstall = ep0.sentstall /\ e.ep0.busy = ep0.busy /\ e.ep0.faddr = ep0.faddr
  BY DEF Becomes0, Hears, SameLine
<1>2. ep0.busy /\ ~ep0.dataend /\ ~ep0.sendstall /\ ep0.tx = NoReply
  BY DEF AgreedInv, FreshIsUnanswered
<1>3. /\ HearsAll(d, e, r) \/ HearsMore(d, e, n)
      /\ DirIn(r) \/ n - SetupSize >= r.wLength => HearsAll(d, e, r)
      /\ ~DirIn(r) /\ ~(n - SetupSize >= r.wLength) => HearsMore(d, e, n)
  BY DEF Hears
<1>4. /\ host.kind = "sender" => ~e.ep0.setupend
      /\ e.port.wSetupDataIndex # 0 => ~e.ep0.dataend
      /\ e.ep0.sendstall => e.port.wSetupDataIndex = 0 /\ ~e.ep0.dataend
      /\ e.ep0.dataend => e.port.wSetupDataIndex = 0 /\ e.port.bEnd0Status
  BY <1>2, <1>3 DEF HearsAll, HearsMore, AgreedInv, SendersEnd
<1>5. IndexIsTold' /\ RefusedIsOver' /\ EndedIsOver'
  BY <1>1, <1>2, <1>4 DEF IndexIsTold, RefusedIsOver, EndedIsOver, Nothing
<1>6. ~AddressAsked /\ ~AddressTold /\ ~ConfigAsked
  BY DEF AddressAsked, AddressTold, Answered, ConfigAsked
<1>7. /\ ep0.rx.op \in Sets => /\ host.stage = "status" /\ host.req = ep0.rx
      /\ host.stage # "idle" /\ host.req.op \in Sets => host.req = ep0.rx
  BY DEF AgreedInv, SetsAreAwaited, SetsAreKnown
<1>8. Out \/ ep0.rx.op # "data"
  BY DEF AgreedInv, DataAreAwaited
<1>9. ep0.rx.op # "data" => at = 0 /\ r = ep0.rx /\ n = SetupSize
  BY DEF AgreedInv, SetupBeginsAnew, SetupSize
<1>10. OnBus' => OnBus
  OBVIOUS
<1>11. SameUse(d, e) => AddressOk' /\ ConfigOk'
  BY <1>1, <1>6, <1>10, UseKept DEF SameUse
<1>12. CASE Out
  <2>1. /\ host.req.op \notin Sets /\ host.req.wLength \in Nat \ {0} /\ ~DirIn(host.req)
        /\ host.stage # "idle"
    BY <1>12 DEF AgreedInv, SetsAreKnown, AskedSomething, Out
  <2>2. /\ host.kind = "sender" /\ host.got \in 0 .. host.req.wLength
        /\ host.stage = "status" <=> host.got = host.req.wLength
        /\ OutBegins \/ OutGoesOn
    BY <1>12 DEF AgreedInv, OutIsKnown, OutEnds
  <2>3. r = host.req /\ n = SetupSize + host.got
    <3>1. CASE OutBegins
      <4>1. ep0.rx.op # "data" /\ ep0.rx = host.req /\ host.got = 0
        BY <3>1, <2>1 DEF AgreedInv, AskedSomething, OutBegins
      <4> QED
        BY <1>9, <4>1 DEF SetupSize
    <3>2. CASE OutGoesOn
      <4>1. ep0.rx.op = "data" /\ ~ep0.setupend
        BY <2>2, <3>2 DEF OutGoesOn, AgreedInv, SendersEnd
      <4> QED
        BY <3>2, <4>1 DEF OutGoesOn, Sent0
    <3> QED
      BY <2>2, <3>1, <3>2
  <2>4. SameUse(d, e)
    BY <1>3, <2>1, <2>3 DEF HearsAll, HearsMore, Takes
  <2>5. SetsAreKnown'
    BY <1>1, <2>1 DEF SetsAreKnown
  <2>6. CASE host.got = host.req.wLength
    <3>1. HearsAll(d, e, r)
      BY <1>3, <2>1, <2>3, <2>6 DEF SetupSize
    <3>2. e.ep0.sendstall \/ e.ep0.dataend
      BY <2>1, <2>3, <3>1 DEF HearsAll
    <3>3. OutEnds'
      BY <1>1, <2>2, <2>6, <3>2 DEF OutEnds
    <3> QED
      BY <1>1, <1>4, <1>5, <1>11, <2>2, <2>4, <2>5, <3>3, NonePending DEF OutIsKnown
  <2>7. CASE host.got # host.req.wLength
    <3>1. HearsMore(d, e, n)
      BY <1>3, <2>1, <2>2, <2>3, <2>7 DEF SetupSize
    <3>2. /\ e.port.wSetupDataIndex = SetupSize + host.got /\ ~e.ep0.dataend
          /\ ~e.ep0.sendstall /\ e.ep0.tx = NoReply /\ e.port.request = host.req
      BY <1>1, <1>2, <2>3, <3>1 DEF HearsMore
    <3>3. OutGoesOn'
      <4>1. NoRequest.op # "data"
        BY DEF NoRequest, Request
      <4>2. Sent0' = 0
        BY <1>1, <4>1 DEF Sent0
      <4>3. host.got < host.req.wLength
        BY <2>1, <2>2, <2>7
      <4> QED
        BY <1>1, <2>2, <2>1, <3>2, <4>2, <4>3 DEF OutGoesOn, SetupSize
    <3> QED
      BY <1>1, <1>4, <1>5, <1>11, <2>2, <2>4, <2>5, <3>3, NonePending DEF OutIsKnown
  <2> QED
    BY <2>6, <2>7
<1>13. CASE ~Out /\ ep0.rx.op \notin Sets
  <2>1. r = ep0.rx
    BY <1>8, <1>9, <1>13
  <2>2. SameUse(d, e)
    BY <1>3, <1>13, <2>1 DEF HearsAll, HearsMore, Takes
  <2>3. SetsAreKnown' /\ OutIsKnown'
    BY <1>1, <1>7, <1>13 DEF SetsAreKnown, OutIsKnown, Out
  <2> QED
    BY <1>1, <1>4, <1>5, <1>11, <2>2, <2>3, NonePending
<1>14. CASE ~Out /\ ep0.rx.op \in Sets
  <2>1. r = ep0.rx /\ n = SetupSize /\ host.stage = "status" /\ host.req = r
    BY <1>7, <1>8, <1>9, <1>14
  <2>2. r.wLength = 0 /\ r.op \in Sets /\ ~DirIn(r) /\ (r.op = "SET_ADDRESS" => r.wValue = Address)
    BY <1>14, <2>1, SetsAreOut DEF AgreedInv, SetsAreKnown
  <2>3. HearsAll(d, e, r)
    BY <1>3, <2>1, <2>2 DEF SetupSize
  <2>4. OutIsKnown'
    BY <1>1, <1>14 DEF OutIsKnown, Out
  <2>5. CASE SameUse(d, e) /\ e.ep0.sendstall = TRUE /\ e.ep0.dataend = ep0.dataend
    <3>1. SetsAreKnown'
      BY <1>1, <1>2, <2>1, <2>2, <2>5 DEF SetsAreKnown
    <3> QED
      BY <1>1, <1>4, <1>5, <1>11, <2>4, <2>5, <3>1, NonePending
  <2>6. CASE /\ Takes(d, e, r) /\ e.ep0.setupend = FALSE /\ e.ep0.dataend = TRUE
             /\ e.port.bEnd0Status = TRUE
    <3>1. CASE r.op = "SET_ADDRESS"
      <4>1. /\ ~Addressed(d) \/ port.bSetAddress
            /\ e.port.bUsbState = "ADDRESS" /\ e.port.bSetAddress = TRUE
            /\ e.port.bFuncAddr = Address
        BY <2>2, <2>6, <3>1 DEF Takes
      <4>2. ep0.faddr = 0 /\ host.addr = 0 /\ host.config = 0
        BY <1>6, <4>1 DEF AgreedInv, AddressOk, Settled, Addressed
      <4>3. AddressAsked'
        BY <1>1, <2>1, <2>6, <3>1, <4>1, <4>2 DEF AddressAsked, Answered
      <4>4. AddressOk' /\ ConfigOk'
        BY <1>1, <4>1, <4>2, <4>3 DEF AddressOk, ConfigOk, ConfigAgreed
      <4>5. SetsAreKnown'
        BY <1>1, <2>1, <2>2, <2>6, <3>1, <4>3 DEF SetsAreKnown
      <4> QED
        BY <1>1, <1>4, <1>5, <2>4, <4>4, <4>5, NonePending
    <3>2. CASE r.op = "SET_CONFIGURATION"
      <4>1. /\ Addressed(d)
            /\ e.port.bSetAddress = port.bSetAddress /\ e.port.bFuncAddr = port.bFuncAddr
            /\ IF r.wValue = 0 THEN e.port.bUsbState = "ADDRESS"
               ELSE e.port.bUsbState = "CONFIGURED" /\ e.port.bConfigValue = r.wValue
        BY <2>6, <3>2 DEF Takes
      <4>2. Settled /\ port.bFuncAddr = Address
        BY <1>6, <4>1 DEF AgreedInv, AddressOk, Addressed
      <4>3. Settled' /\ e.port.bFuncAddr = Address
            /\ e.port.bUsbState \in {"ADDRESS", "CONFIGURED"}
        BY <1>1, <4>1, <4>2 DEF Settled
      <4>4. ConfigAsked'
        BY <1>1, <2>1, <2>6, <3>2, <4>1 DEF ConfigAsked
      <4>5. AddressOk' /\ ConfigOk'
        BY <1>1, <4>3, <4>4 DEF AddressOk, ConfigOk
      <4>6. SetsAreKnown'
        BY <1>1, <2>1, <2>2, <2>6, <3>2, <4>4 DEF SetsAreKnown
      <4> QED
        BY <1>1, <1>4, <1>5, <2>4, <4>5, <4>6, NonePending
    <3> QED
      BY <2>2, <3>1, <3>2 DEF Sets
  <2> QED
    BY <2>2, <2>3, <2>5, <2>6 DEF HearsAll
<1> QED
  BY <1>12, <1>13, <1>14

\* When nothing has come although endpoint 0 has interrupted, no transfer waits for its end.
LEMMA NothingHeard ==
  ASSUME AgreedInv, OnBus, "ep0" \in intr, ep0.rx = NoRequest
  PROVE  /\ ~(host.stage # "idle" /\ ep0.dataend) /\ ~ep0.sendstall /\ ~Out
         /\ ~(host.stage # "idle" /\ host.req.op \in Sets)
         /\ ~AddressAsked /\ ~ConfigAsked
<1>1. ~(host.stage # "idle" /\ ep0.dataend)
  BY DEF AgreedInv, EndedIsOver
<1>2. ~ep0.sendstall
  BY DEF AgreedInv, RefusedIsOver
<1>3. ~Out
  <2>1. NoRequest.op = "none"
    BY DEF NoRequest, Request
  <2>2. host.stage # "idle" => host.req.op # "none"
    BY DEF AgreedInv, AskedSomething
  <2> QED
    BY <1>1, <1>2, <2>1, <2>2 DEF AgreedInv, OutIsKnown, Out, OutBegins, OutEnds, OutGoesOn
<1>4. ~(host.stage # "idle" /\ host.req.op \in Sets)
  BY <1>1, <1>2 DEF AgreedInv, SetsAreKnown
<1> QED
  BY <1>1, <1>2, <1>3, <1>4 DEF AddressAsked, ConfigAsked

\* The interrupt of a status stage: the address that was set is used.
LEMMA AckAgreed ==
  ASSUME ListeningInv, AgreedInv, OnBus, "ep0" \in intr, ep0.rx = NoRequest,
         ~ep0.setupend, ~ep0.sentstall, port.bEnd0Status,
         NEW d, d.port = port, d.ep0 = ep0, Full(d), NEW e, Becomes0(e), e = StatusAck(d)
  PROVE  AgreedInv'
<1> DEFINE n == IF port.bSetAddress THEN port.bFuncAddr ELSE ep0.faddr
<1>1. /\ port' = e.port /\ ep0' = e.ep0 /\ intr' = {} /\ host' = host
      /\ e.port.bUsbState = port.bUsbState /\ e.port.bFuncAddr = port.bFuncAddr
      /\ e.port.bConfigValue = port.bConfigValue /\ e.port.bSetAddress = FALSE
      /\ e.port.wSetupDataIndex = port.wSetupDataIndex
      /\ e.ep0 = [ep0 EXCEPT !.faddr = n]
  <2>1. /\ e.port.bUsbState = d.port.bUsbState /\ e.port.bFuncAddr = d.port.bFuncAddr
        /\ e.port.bConfigValue = d.port.bConfigValue /\ e.port.bSetAddress = FALSE
        /\ e.port.wSetupDataIndex = d.port.wSetupDataIndex
        /\ e.ep0 = [d.ep0 EXCEPT !.faddr = IF d.port.bSetAddress THEN d.port.bFuncAddr ELSE @]
    BY StatusAckUse
  <2> QED
    BY <2>1 DEF Becomes0
<1>2. /\ e.ep0.rx = ep0.rx /\ e.ep0.dataend = ep0.dataend /\ e.ep0.sendstall = ep0.sendstall
      /\ e.ep0.setupend = ep0.setupend /\ e.ep0.busy = ep0.busy /\ e.ep0.faddr = n
  BY <1>1, AllFields DEF AgreedInv
<1> HIDE DEF n
<1>3. /\ ~(host.stage # "idle" /\ ep0.dataend) /\ ~ep0.sendstall /\ ~Out
      /\ ~(host.stage # "idle" /\ host.req.op \in Sets) /\ ~AddressAsked /\ ~ConfigAsked
  BY NothingHeard
<1>4. AddressOk'
  <2>1. CASE /\ port.bUsbState = "DEFAULT" /\ port.bFuncAddr = 0 /\ ep0.faddr = 0
             /\ host.addr = 0 /\ host.config = 0
    BY <1>1, <1>2, <2>1 DEF AddressOk, n
  <2>2. CASE /\ port.bUsbState \in {"ADDRESS", "CONFIGURED"} /\ port.bFuncAddr = Address
             /\ Settled \/ AddressTold
    <3>1. n = Address /\ host.addr = Address
      BY <2>2 DEF Settled, AddressTold, n
    <3>2. Settled'
      BY <1>1, <1>2, <3>1 DEF Settled
    <3> QED
      BY <1>1, <2>2, <3>2 DEF AddressOk
  <2> QED
    BY <1>3, <2>1, <2>2 DEF AgreedInv, AddressOk
<1>5. ConfigOk'
  BY <1>1, <1>3 DEF AgreedInv, ConfigOk, ConfigAgreed
<1>6. SetsAreKnown' /\ RefusedIsOver' /\ EndedIsOver' /\ OutIsKnown'
  BY <1>1, <1>2, <1>3 DEF SetsAreKnown, RefusedIsOver, EndedIsOver, OutIsKnown, Out
<1>7. IndexIsTold'
  BY <1>1, <1>2 DEF AgreedInv, IndexIsTold
<1>8. host.kind = "sender" => ~e.ep0.setupend
  BY <1>2
<1> QED
  BY <1>2, <1>4, <1>5, <1>6, <1>7, <1>8, NonePending

\* Endpoint 0 goes on with an answer, or forgets it.
LEMMA SaidAgreed ==
  ASSUME ListeningInv, AgreedInv, OnBus, "ep0" \in intr, ep0.rx = NoRequest, ~ep0.sentstall,
         ep0.setupend \/ ~port.bEnd0Status,
         NEW d, d.port = port, d.ep0 = ep0, Full(d), NEW e, Becomes0(e),
         e = ServiceDefaultEnd(d)
  PROVE  AgreedInv'
<1>1. /\ port' = e.port /\ ep0' = e.ep0 /\ intr' = {} /\ host' = host /\ OnBus'
  BY DEF Becomes0, OnBus
<1>2. /\ ~(host.stage # "idle" /\ ep0.dataend) /\ ~ep0.sendstall /\ ~Out
      /\ ~(host.stage # "idle" /\ host.req.op \in Sets) /\ ~AddressAsked /\ ~ConfigAsked
  BY NothingHeard
<1>3. ~AddressTold
  BY DEF AddressTold, Answered
<1>4. SetsAreKnown' /\ OutIsKnown'
  BY <1>1, <1>2 DEF SetsAreKnown, OutIsKnown, Out
<1>5. CASE ep0.setupend
  <2>1. e.ep0 = ep0 /\ SameUse(d, e) /\ e.port.wSetupDataIndex = 0
    BY <1>5, SaidUse
  <2>2. AddressOk' /\ ConfigOk'
    BY <1>1, <1>2, <1>3, <2>1, UseKept DEF SameUse
  <2>3. IndexIsTold' /\ RefusedIsOver' /\ EndedIsOver'
    BY <1>1, <1>2, <2>1 DEF IndexIsTold, RefusedIsOver, EndedIsOver
  <2>4. host.kind = "sender" => ~e.ep0.setupend
    BY <2>1 DEF AgreedInv, SendersEnd
  <2> QED
    BY <1>4, <2>1, <2>2, <2>3, <2>4, NonePending
<1>6. CASE ~ep0.setupend
  <2>1. Says(d, e)
    BY <1>6, SaidUse
  <2>2. /\ SameUse(d, e) /\ e.ep0.rx = ep0.rx /\ e.ep0.setupend = ep0.setupend
        /\ e.ep0.sendstall = ep0.sendstall /\ e.ep0.busy = ep0.busy
        /\ e.ep0.faddr = ep0.faddr
    BY <2>1 DEF Says, SameLine
  <2>3. \/ e.ep0.dataend = ep0.dataend
        \/ /\ e.ep0.dataend = TRUE /\ e.port.wSetupDataIndex = 0
           /\ e.port.wSetupDataSize = 0
    BY <2>1 DEF Says
  <2>4. AddressOk' /\ ConfigOk'
    BY <1>1, <1>2, <1>3, <2>2, UseKept DEF SameUse
  <2>5. EndedIsOver' /\ RefusedIsOver'
    BY <1>1, <1>2, <2>2, <2>3 DEF EndedIsOver, RefusedIsOver, Nothing
  <2>6. IndexIsTold'
    <3>1. CASE ep0.busy /\ ~ep0.dataend
      BY <1>1, <2>2, <2>3, <3>1 DEF IndexIsTold
    <3>2. CASE ~(ep0.busy /\ ~ep0.dataend)
      <4>1. port.wSetupDataIndex = 0 /\ port.wSetupDataSize = 0
        BY <1>6, <3>2 DEF AgreedInv, LastIsOver, Nothing
      <4>2. e.port.wSetupDataIndex = 0
        BY <2>1, <4>1 DEF Says
      <4> QED
        BY <1>1, <4>2 DEF IndexIsTold
    <3> QED
      BY <3>1, <3>2
  <2>7. host.kind = "sender" => ~e.ep0.setupend
    BY <1>6, <2>2
  <2> QED
    BY <1>4, <2>2, <2>4, <2>5, <2>6, <2>7, NonePending
<1> QED
  BY <1>5, <1>6

\* The interrupt of a STALL that was sent; a hasty host has already asked again.
LEMMA StallToldAgreed ==
  ASSUME ListeningInv, AgreedInv, OnBus, "ep0" \in intr, ep0.sentstall,
         NEW e, Becomes0(e), e.port = port, e.ep0 = [ep0 EXCEPT !.sentstall = FALSE]
  PROVE  AgreedInv'
<1>1. /\ port' = port /\ ep0' = e.ep0 /\ intr' = {} /\ host' = host /\ OnBus'
  BY DEF Becomes0, OnBus
<1>2. /\ e.ep0.rx = ep0.rx /\ e.ep0.dataend = ep0.dataend /\ e.ep0.sendstall = ep0.sendstall
      /\ e.ep0.setupend = ep0.setupend /\ e.ep0.busy = ep0.busy
      /\ e.ep0.faddr = ep0.faddr /\ e.ep0.tx = ep0.tx
  BY AllFields DEF AgreedInv
<1>3. ~AddressAsked /\ ~AddressTold
  BY DEF AddressAsked, AddressTold, Answered
<1>4. Fields' /\ Unattached' /\ ResetPending'
  BY <1>1 DEF AgreedInv, Becomes0, Fields, Full, OnBus, Unattached, ResetPending
<1>5. Settled' = Settled /\ ConfigAsked' = ConfigAsked /\ ConfigAgreed' = ConfigAgreed
  BY <1>1, <1>2 DEF Settled, ConfigAsked, ConfigAgreed
<1>6. AddressOk'
  BY <1>1, <1>2, <1>3, <1>5 DEF AgreedInv, AddressOk
<1>7. ConfigOk'
  BY <1>5 DEF AgreedInv, ConfigOk
<1>8. AskedSomething' /\ FreshIsUnanswered' /\ SetsAreAwaited'
  BY <1>1, <1>2 DEF AgreedInv, AskedSomething, FreshIsUnanswered, SetsAreAwaited
<1>9. SetsAreKnown'
  BY <1>1, <1>2, <1>3, <1>5 DEF AgreedInv, SetsAreKnown
<1>10. IndexIsTold' /\ SetupBeginsAnew' /\ RefusedIsOver' /\ EndedIsOver' /\ LastIsOver'
  BY <1>1, <1>2 DEF AgreedInv, IndexIsTold, SetupBeginsAnew, RefusedIsOver, EndedIsOver,
     LastIsOver, Nothing
<1>11. GotAfterAsked' /\ DataAreAwaited' /\ SendersEnd' /\ OnlySendersSend'
  BY <1>1, <1>2 DEF AgreedInv, GotAfterAsked, DataAreAwaited, SendersEnd, OnlySendersSend, Out
<1>12. OutIsKnown'
  BY <1>1, <1>2 DEF AgreedInv, OutIsKnown, Out, OutBegins, OutEnds, OutGoesOn, Sent0
<1> QED
  BY <1>4, <1>6, <1>7, <1>8, <1>9, <1>10, <1>11, <1>12 DEF AgreedInv

\* Writing into a field what it holds changes nothing.
LEMMA ExceptItself ==
  ASSUME NEW f, f = [x \in DOMAIN f |-> f[x]], NEW s, NEW v, s \in DOMAIN f => f[s] = v
  PROVE  [f EXCEPT ![s] = v] = f
<1>1. [f EXCEPT ![s] = v] = [x \in DOMAIN f |-> IF x = s THEN v ELSE f[x]]
  OBVIOUS
<1>2. [x \in DOMAIN f |-> IF x = s THEN v ELSE f[x]] = [x \in DOMAIN f |-> f[x]]
  OBVIOUS
<1> QED
  BY <1>1, <1>2

\* What the interrupt of a status stage leaves to be known when nothing was asked.
LEMMA AckOfReset ==
  ASSUME NEW d, Full(d), NEW e, e = StatusAck(d)
  PROVE  /\ e.port.bUsbState = d.port.bUsbState /\ e.port.bFuncAddr = d.port.bFuncAddr
         /\ e.port.wSetupDataIndex = d.port.wSetupDataIndex
         /\ e.ep0 = [d.ep0 EXCEPT !.faddr = IF d.port.bSetAddress THEN d.port.bFuncAddr ELSE @]
BY StatusAckUse

\* A reset of the bus is served, and perhaps an interrupt from before it.
LEMMA ResetAgreed ==
  ASSUME ListeningInv, AgreedInv, "reset" \in intr,
         NEW d, DriverOk(d), Full(d), d.port = port, d.ep0 = ep0, NEW a, a = BusReset(d),
         NEW e, Becomes0(e), NEW b, b = a \/ b = ServiceDefaultEnd(a),
         e.port = b.port, e.ep0 = b.ep0
  PROVE  AgreedInv'
<1>1. /\ port' = e.port /\ ep0' = e.ep0 /\ intr' = {} /\ host' = host
      /\ ep0 = NewEp0 /\ host.stage = "idle" /\ host.addr = 0 /\ host.config = 0
  BY DEF Becomes0, AgreedInv, ResetPending
<1>2. /\ Full(a) /\ a.ep0 = NewEp0 /\ a.port.bUsbState = "DEFAULT" /\ a.port.bFuncAddr = 0
      /\ a.port.wSetupDataIndex = 0 /\ a.port.wSetupDataSize = 0
  BY <1>1, BusResetUse
<1>3. /\ NewEp0.rx = NoRequest /\ ~NewEp0.sentstall /\ ~NewEp0.setupend /\ NewEp0.faddr = 0
      /\ [NewEp0 EXCEPT !.faddr = 0] = NewEp0
  <2>1. NewEp0.rx = NoRequest /\ ~NewEp0.sentstall /\ ~NewEp0.setupend /\ NewEp0.faddr = 0
    BY DEF NewEp0
  <2>2. NewEp0 = [x \in DOMAIN NewEp0 |-> NewEp0[x]]
    BY DEF NewEp0
  <2>3. [NewEp0 EXCEPT !.faddr = 0] = NewEp0
    BY <2>1, <2>2, ExceptItself
  <2> QED
    BY <2>1, <2>3
<1>4. /\ e.ep0 = NewEp0 /\ e.port.bUsbState = "DEFAULT" /\ e.port.bFuncAddr = 0
      /\ e.port.wSetupDataIndex = 0
  <2>1. CASE b = a
    BY <1>2, <2>1
  <2>2. CASE b = ServiceDefaultEnd(a)
    <3>1. CASE a.port.bEnd0Status
      <4>1. b = StatusAck(a)
        BY <1>2, <1>3, <2>2, <3>1, Zenon DEF ServiceDefaultEnd
      <4>2. /\ b.port.bUsbState = a.port.bUsbState /\ b.port.bFuncAddr = a.port.bFuncAddr
            /\ b.port.wSetupDataIndex = a.port.wSetupDataIndex
            /\ b.ep0 = [a.ep0 EXCEPT !.faddr = IF a.port.bSetAddress THEN a.port.bFuncAddr
                                               ELSE @]
        BY <1>2, <4>1, AckOfReset
      <4>3. (IF a.port.bSetAddress THEN a.port.bFuncAddr ELSE a.ep0.faddr) = 0
        BY <1>2, <1>3
      <4>4. b.ep0 = [NewEp0 EXCEPT !.faddr = 0]
        BY <1>2, <4>2, <4>3
      <4> QED
        BY <1>2, <1>3, <2>2, <4>2, <4>4
    <3>2. CASE ~a.port.bEnd0Status
      <4>1. Says(a, b)
        BY <1>2, <1>3, <2>2, <3>2, SaidUse
      <4> QED
        BY <1>2, <2>2, <4>1 DEF Says, SameUse
    <3> QED
      BY <3>1, <3>2
  <2> QED
    BY <2>1, <2>2
<1>5. Fields'
  BY <1>1 DEF AgreedInv, Becomes0, Fields, Full
<1> QED
  BY <1>1, <1>4, <1>5, NothingAskedYet

\* All that is pending is served.
LEMMA PollAgreed == ASSUME ListeningInv, AgreedInv, Poll PROVE AgreedInv'
<1> DEFINE d == [Driver EXCEPT !.intr = {}]
           a == AfterReset(d, intr)
           b == AfterEnd0(d, intr)
           e == Served(d, intr)
<1>1. Becomes(e) /\ host' = host /\ intr # {}
  BY DEF Poll
<1>2. /\ d.port = port /\ d.ep0 = ep0 /\ d.end = end /\ d.csr = csr /\ d.intr = {}
      /\ DriverOk(d) /\ Rested(d)
      /\ Pending(d) => /\ "rx" \in intr /\ ~d.csr["rx"].sentstall /\ NotAsked("BOT_RESET", d)
      /\ \A s \in Sides : d.csr[s].sentstall => s \in intr
      /\ "tx" \in intr /\ "reset" \notin intr =>
           NoTxWork(d) /\ (d.csr["tx"].sentstall \/ NotAsked("CLEAR_FEATURE", d))
  BY PollServes
<1> HIDE DEF d
<1>3. /\ DriverOk(e) /\ e.intr = d.intr /\ e.port.pFunctionClient = d.port.pFunctionClient
      /\ e.port = b.port /\ e.ep0 = b.ep0
      /\ DriverOk(a) /\ Rested(a) /\ (Pending(a) => NotAsked("BOT_RESET", a))
  BY <1>2, ServedFacts
<1>4. /\ "reset" \in intr => a = BusReset(d)
      /\ "reset" \notin intr => a = d
      /\ "ep0" \in intr => b = ServiceDefaultEnd(a)
      /\ "ep0" \notin intr => b = a
  BY DEF AfterReset, AfterEnd0
<1> HIDE DEF a, b, e
<1>5. Full(d)
  BY <1>2 DEF AgreedInv, Fields, Full, DriverOk
<1>6. port.pFunctionClient
  BY <1>1 DEF AgreedInv, Unattached
<1>7. /\ port' = e.port /\ ep0' = e.ep0 /\ intr' = {}
      /\ port'.pFunctionClient = port.pFunctionClient
  BY <1>1, <1>2, <1>3 DEF Becomes
<1>8. CASE "reset" \notin intr /\ "ep0" \notin intr
  <2>1. port' = port /\ ep0' = ep0
    BY <1>2, <1>3, <1>4, <1>7, <1>8
  <2>2. HostFull(host)
    BY DEF AgreedInv, Fields
  <2> QED
    BY <1>1, <1>6, <1>7, <1>8, <2>1, <2>2, AsideAgreed
<1>9. CASE "reset" \notin intr /\ "ep0" \in intr
  <2>1. OnBus /\ a = d /\ b = ServiceDefaultEnd(d)
    BY <1>4, <1>6, <1>9 DEF OnBus
  <2>2. Pending(d) => NotAsked("BOT_RESET", d)
    BY <1>2
  <2>3. Full(b) => Becomes0(b)
    BY <1>1, <1>3, <1>7 DEF Becomes0
  <2>4. CASE ep0.sentstall
    <3>1. b = [d EXCEPT !.ep0.sentstall = FALSE]
      BY <1>2, <2>1, <2>4, Zenon DEF ServiceDefaultEnd
    <3>2. Full(b) /\ b.port = port /\ b.ep0 = [ep0 EXCEPT !.sentstall = FALSE]
      BY <1>2, <1>5, <3>1 DEF Full, Shape
    <3> QED
      BY <1>9, <2>1, <2>3, <2>4, <3>2, StallToldAgreed
  <2>5. CASE ~ep0.sentstall /\ ep0.rx # NoRequest
    <3> DEFINE at == IF ep0.setupend THEN 0 ELSE port.wSetupDataIndex
               r == IF at = 0 THEN ep0.rx ELSE port.request
               n == at + (IF ep0.rx.op = "data" THEN ep0.rx.wLength ELSE SetupSize)
    <3>1. Hears(d, b, r, n)
      BY <1>2, <1>5, <2>1, <2>2, <2>5, HeardUse
    <3>2. Becomes0(b)
      BY <2>3, <3>1 DEF Hears, SameLine
    <3> QED
      BY <1>2, <1>9, <2>1, <2>5, <3>1, <3>2, HeardAgreed
  <2>6. CASE ~ep0.sentstall /\ ep0.rx = NoRequest /\ ~ep0.setupend /\ port.bEnd0Status
    <3>1. b = StatusAck(d)
      BY <1>2, <2>1, <2>6, Zenon DEF ServiceDefaultEnd
    <3>2. Full(b)
      BY <1>5, <3>1, StatusAckUse
    <3> QED
      BY <1>2, <1>5, <1>9, <2>1, <2>3, <2>6, <3>1, <3>2, AckAgreed
  <2>7. CASE ~ep0.sentstall /\ ep0.rx = NoRequest /\ (ep0.setupend \/ ~port.bEnd0Status)
    <3>1. Full(b)
      BY <1>2, <1>5, <2>1, <2>7, SaidUse DEF Says, SameLine
    <3> QED
      BY <1>2, <1>5, <1>9, <2>1, <2>3, <2>7, <3>1, SaidAgreed
  <2> QED
    BY <2>4, <2>5, <2>6, <2>7
<1>10. CASE "reset" \in intr
  <2>1. a = BusReset(d) /\ b \in {a, ServiceDefaultEnd(a)}
    BY <1>4, <1>10
  <2>2. Full(e)
    <3>1. ep0.rx = NoRequest /\ ~ep0.sentstall /\ ~ep0.setupend
      BY <1>10 DEF AgreedInv, ResetPending, NewEp0
    <3>2. Full(a) /\ a.ep0 = ep0
      BY <1>2, <1>5, <2>1, BusResetUse
    <3>3. Full(b)
      <4>1. CASE b = ServiceDefaultEnd(a) /\ a.port.bEnd0Status
        <5>1. b = StatusAck(a)
          BY <3>1, <3>2, <4>1, Zenon DEF ServiceDefaultEnd
        <5> QED
          BY <3>2, <5>1, StatusAckUse
      <4>2. CASE b = ServiceDefaultEnd(a) /\ ~a.port.bEnd0Status
        BY <3>1, <3>2, <4>2, SaidUse DEF Says, SameLine
      <4> QED
        BY <2>1, <3>2, <4>1, <4>2
    <3> QED
      BY <1>3, <3>3 DEF Full, DriverOk, Shape
  <2>3. Becomes0(e)
    BY <1>1, <1>7, <2>2 DEF Becomes0
  <2> QED
    BY <1>2, <1>3, <1>5, <1>10, <2>1, <2>3, ResetAgreed
<1> QED
  BY <1>8, <1>9, <1>10

-----------------------------------------------------------------------------
(* The theorem *)

\* Every step keeps the two invariants.
LEMMA NextAgreed == ASSUME ListeningInv, AgreedInv, [Next]_vars PROVE AgreedInv'
<1>1. CASE Next
  BY <1>1, RegisterAgreed, PollAgreed, BsrAgreed, SpinAgreed, ExploreAgreed,
     NextOfScriptAgreed, TakeReplyAgreed, SendData0Agreed, StatusStageAgreed,
     TakeStall0Agreed, SendCbwAgreed, SendDataOutAgreed, TakeDataInAgreed, TakeCswAgreed,
     TakeStallAgreed, EndEarlyAgreed, AbandonAgreed, RecoverAgreed, GiveUpAgreed,
     ResetBusAgreed DEF Next, HostStep, Sides
<1>2. CASE UNCHANGED vars
  <2>1. port' = port /\ ep0' = ep0 /\ intr' = intr /\ host' = host
    BY <1>2 DEF vars, driver
  <2>2. HostFull(host) /\ (~port.pFunctionClient => intr = {})
    BY DEF AgreedInv, Fields, Unattached
  <2> QED
    BY <2>1, <2>2, AsideAgreed
<1> QED
  BY <1>1, <1>2

\* When all is served the driver and the host agree.
LEMMA InvAgreed == ListeningInv /\ AgreedInv => BusAgreed
<1> SUFFICES ASSUME ListeningInv, AgreedInv, intr = {}, host.stage = "idle"
             PROVE  /\ ep0.faddr = host.addr
                    /\ host.config # 0 <=> port.bUsbState = "CONFIGURED"
                    /\ host.config # 0 => port.bConfigValue = host.config
  BY DEF BusAgreed, Quiet, Is
<1>1. ~AddressAsked /\ ~AddressTold /\ ~ConfigAsked
  BY DEF AddressAsked, AddressTold, ConfigAsked
<1>2. CASE port.pFunctionClient
  <2>1. OnBus
    BY <1>2 DEF OnBus
  <2> QED
    BY <1>1, <2>1 DEF AgreedInv, AddressOk, ConfigOk, Settled, ConfigAgreed
<1>3. CASE ~port.pFunctionClient
  <2>1. ep0.faddr = 0 /\ host.addr = 0 /\ host.config = 0
    BY <1>3 DEF AgreedInv, Unattached, NewEp0
  <2>2. port.bUsbState # "CONFIGURED"
    BY <1>3, Zenon DEF ListeningInv, DriverOk, Client, Driver
  <2> QED
    BY <2>1, <2>2
<1> QED
  BY <1>2, <1>3

\* Whatever the host asks for, ends early, gives up or resets, and whenever it does: once all
\* is served, the driver and the host agree on the address and on the configuration.
THEOREM Agreeing == Spec => []BusAgreed
<1>1. Init => ListeningInv /\ AgreedInv
  BY InitFacts, InitAgreed
<1>2. ListeningInv /\ AgreedInv /\ [Next]_vars => (ListeningInv /\ AgreedInv)'
  BY NextKeeps, NextAgreed
<1>3. ListeningInv /\ AgreedInv => BusAgreed
  BY InvAgreed
<1> QED
  BY <1>1, <1>2, <1>3, PTL DEF Spec
=============================================================================
