----------------------------- MODULE HostProofs -----------------------------
(***************************************************************************)
(* What holds of the host.  Whatever devices, users and the bus do, the    *)
(* FIFOs of its pipes lie apart (FifosApart), from the theorems about the  *)
(* allocator in BulkEndProofs, and control transfers come back until a     *)
(* device leaves early (UntilSurprised).  Where no device does: types,     *)
(* blocks and addresses (TypeOK, EnumeratesItsOwn, AddressesAreOwned).     *)
(* The calls nest, so the invariant, Fine, is about a driver state, and    *)
(* the lemmas go up with the calls: what an operator leaves alone (...Is), *)
(* then that it keeps the first part of the invariant (...Sound) and all   *)
(* of it (...Fine), from programming the bus over control transfers, the   *)
(* OTG states, memory and the enumerator to the actions.                   *)
(***************************************************************************)
EXTENDS Host, BulkEndProofs, WellFoundedInduction

KindsOrNone == AllKinds \cup {"none"}
Outcomes == {"none", "configured", "rejected", "refused", "ignored", "no block",
             "no address", "end taken"}
EnumTimers == {"GetShortDescriptor", "SetDeviceAddress", "GetFullDescriptor", "GetConfig"}
Items == [cause : Causes \cup {"RESET"}, irp : {NoIrp}] \cup [cause : {"IRP"}, irp : Irps]

\* The fields of a driver state that the proofs are about are there.
PortFields ==
  {"bOtgState", "bWantSession", "bWantSuspend", "bWantReset", "bIsHost", "bConnectorId",
   "bIsSuspend", "bIsReset", "bRelinquish", "pRootDevice", "bVbusErrorRetries",
   "bBabbleRetries"}
EnumFields ==
  {"bState", "pDevice", "bAddress", "bIndex", "bRetries", "bFatalRetries", "outcome"}
BlockFields == {"used", "pPrivateData", "bBusAddress", "msd", "kind"}
BusFields ==
  {"plugged", "kind", "session", "joined", "remote", "suspendm", "reset", "babble", "intr",
   "wire", "clean", "blocks", "early", "reports"}
Shape(d) ==
  /\ {"port", "enum", "ep0", "bulk", "timer", "device", "connected", "abmAddress", "queue",
      "hw", "wild"} \subseteq DOMAIN d
  /\ PortFields \subseteq DOMAIN d.port /\ EnumFields \subseteq DOMAIN d.enum
  /\ {"pTxIrp", "list", "failed"} \subseteq DOMAIN d.ep0
  /\ Devices \subseteq DOMAIN d.device
  /\ \A b \in Devices : BlockFields \subseteq DOMAIN d.device[b]
  /\ BusFields \subseteq DOMAIN d.hw

\* Their types.
PortOk(p) ==
  /\ p.bOtgState \in OtgStates
  /\ p.bWantSession \in BOOLEAN /\ p.bWantSuspend \in BOOLEAN /\ p.bWantReset \in BOOLEAN
  /\ p.bIsHost \in BOOLEAN /\ p.bIsSuspend \in BOOLEAN /\ p.bIsReset \in BOOLEAN
  /\ p.bRelinquish \in BOOLEAN /\ p.bConnectorId \in {"A", "unknown"}
  /\ p.pRootDevice \in Devices \cup {NoDevice}
  /\ p.bVbusErrorRetries \in 0 .. VbusRetries /\ p.bBabbleRetries \in 0 .. BabbleRetries
EnumOk(e) ==
  /\ e.bState \in EnumStates /\ e.pDevice \in Devices \cup {NoDevice}
  /\ e.bAddress \in Addresses \cup {0} /\ e.bIndex \in Nat
  /\ e.bRetries \in Nat /\ e.bFatalRetries \in Nat /\ e.outcome \in Outcomes
End0Ok(x) ==
  /\ x.pTxIrp \in Irps \cup {NoIrp} /\ x.list \in Seq(Irps) /\ x.failed \in SUBSET Irps
  /\ x.pTxIrp = NoIrp => x.list = <<>>
BlocksOk(dev) ==
  \A b \in Devices : dev[b].bBusAddress \in Addresses \cup {0} /\ dev[b].kind \in KindsOrNone
BusOk(h) ==
  /\ h.kind \in KindsOrNone
  /\ h.session \in BOOLEAN /\ h.suspendm \in BOOLEAN /\ h.reset \in BOOLEAN
  /\ h.joined => h.session /\ ~h.remote

\* The FIFOs lie where the transport's order puts them, and apart while there is an instance.
FifoOk(d) == Tidy(d.bulk) /\ ((\E b \in Devices : d.device[b].msd) => Apart(d.bulk))

\* The enumerator's IRP is with endpoint 0 or the background, or a timer will send it.
Enumerates(d) ==
  \/ d.ep0.pTxIrp = EnumIrp \/ (\E k \in DOMAIN d.ep0.list : d.ep0.list[k] = EnumIrp)
  \/ \E k \in DOMAIN d.queue : d.queue[k].irp = EnumIrp
  \/ d.timer \in EnumTimers

\* Until a device leaves early: the driver is host of the device that is attached, unless it
\* has yet to take its CONNECT, and a control transfer is with a device, or has failed.
Hosts(d) ==
  d.hw.clean => /\ d.hw.joined /\ "CONNECT" \notin d.hw.intr => d.port.bIsHost
                /\ d.ep0.pTxIrp # NoIrp => d.hw.joined /\ d.hw.wire # "idle"

\* What holds whatever devices do.
Sound(d) ==
  /\ Shape(d)
  /\ PortOk(d.port) /\ EnumOk(d.enum) /\ End0Ok(d.ep0) /\ BlocksOk(d.device) /\ BusOk(d.hw)
  /\ d.timer \in Timers /\ d.connected \in Seq(Devices) /\ d.abmAddress \subseteq Addresses
  /\ d.queue \in Seq(Items)
  /\ FifoOk(d)
  /\ d.hw.wire # "idle" => d.ep0.pTxIrp # NoIrp
  /\ Hosts(d)
  /\ Enumerates(d) => d.enum.pDevice # NoDevice

-----------------------------------------------------------------------------
(* Until a device leaves early, what is on its way to become a device of the list is on its *)
(* way once.                                                                                *)

\* Where the connection, and then the enumeration and configuration, of a device can wait:
\* as a CONNECT of the controller or in the queue, with a timer, or as a control transfer.
ResetTimers == {"HostResetStart", "HostResetComplete"}
Newcomers == Irps \ {HnpIrp}
IsNew(q) == q.cause = "CONNECT" \/ q.irp \in Newcomers
AtIntr(d) == "CONNECT" \in d.hw.intr
AtItem(d) == \E k \in DOMAIN d.queue : IsNew(d.queue[k])
AtTimer(d) == d.timer \in EnumTimers \cup ResetTimers
AtEnd0(d) == d.ep0.pTxIrp \in Newcomers
AtList(d) == \E k \in DOMAIN d.ep0.list : d.ep0.list[k] \in Newcomers
Coming(d) == AtIntr(d) \/ AtItem(d) \/ AtTimer(d) \/ AtEnd0(d) \/ AtList(d)
OneItem(q) == \A j, k \in DOMAIN q : IsNew(q[j]) /\ IsNew(q[k]) => j = k
OneWaits(l) == \A j, k \in DOMAIN l : l[j] \in Newcomers /\ l[k] \in Newcomers => j = k
One(d) ==
  /\ AtIntr(d) => ~AtItem(d) /\ ~AtTimer(d) /\ ~AtEnd0(d) /\ ~AtList(d)
  /\ AtItem(d) => ~AtTimer(d) /\ ~AtEnd0(d) /\ ~AtList(d)
  /\ AtTimer(d) => ~AtEnd0(d) /\ ~AtList(d)
  /\ AtEnd0(d) => ~AtList(d)
  /\ OneItem(d.queue) /\ OneWaits(d.ep0.list)

Listed(d) == {d.connected[k] : k \in DOMAIN d.connected}
Configures(d, b) ==
  \/ d.ep0.pTxIrp = ConfigIrp(b) \/ (\E k \in DOMAIN d.ep0.list : d.ep0.list[k] = ConfigIrp(b))
  \/ \E k \in DOMAIN d.queue : d.queue[k].irp = ConfigIrp(b)

\* Blocks and addresses have one owner each: a device of the list, or the enumerator.
Address(d, b) == d.device[b].bBusAddress
ListOk(d) ==
  /\ \A j, k \in DOMAIN d.connected : d.connected[j] = d.connected[k] => j = k
  /\ \A b \in Listed(d) : /\ d.device[b].used /\ d.device[b].pPrivateData
                          /\ Address(d, b) \in d.abmAddress
  /\ \A b, c \in Listed(d) : Address(d, b) = Address(d, c) => b = c
Owns(d) ==
  LET b == d.enum.pDevice
  IN  /\ d.device[b].used /\ d.device[b].pPrivateData /\ b \notin Listed(d)
      /\ Address(d, b) \in {0, d.enum.bAddress}
      /\ d.enum.bAddress # 0 =>
           /\ d.enum.bAddress \in d.abmAddress
           /\ \A c \in Listed(d) : Address(d, c) # d.enum.bAddress
Bounds(d) ==
  /\ d.enum.bIndex <= Configs /\ d.enum.bRetries <= MaxEnumRetries + 1
  /\ d.enum.bFatalRetries <= 1

\* How far the enumerator is, with t its timer: an address is allocated, then the device has
\* been told of it, and then its configurations are counted.
Staged(d, t) ==
  LET a == d.device[d.enum.pDevice].bBusAddress
  IN  /\ d.enum.bRetries <= MaxEnumRetries /\ d.enum.bFatalRetries = 0
      /\ t = "GetShortDescriptor" \/ d.enum.bState = "GetMinDevice" => a = 0
      /\ t # "GetShortDescriptor" =>
           /\ d.enum.bState = "SetAddress" \/ t = "SetDeviceAddress" => d.enum.bAddress # 0
           /\ \/ d.enum.bState \in {"GetFullDevice", "SizeConfigs", "GetConfigs"}
              \/ t \in {"GetFullDescriptor", "GetConfig"}
              => a = d.enum.bAddress /\ d.enum.bAddress # 0
           /\ d.enum.bState \in {"SizeConfigs", "GetConfigs"} => d.enum.bIndex < Configs

\* DISCONNECT is on the way.
Leaves(d) ==
  "DISCONNECT" \in d.hw.intr \/ \E k \in DOMAIN d.queue : d.queue[k].cause = "DISCONNECT"

\* As long as no device has left early.
Calm(d) ==
  /\ One(d)
  /\ Coming(d) => d.hw.joined /\ d.enum.outcome = "none"
  /\ Leaves(d) => ~d.hw.joined
  /\ \A b \in Devices : Configures(d, b) => b \in Listed(d)
  /\ Enumerates(d) => Staged(d, d.timer)

\* The newcomer is in hand: it has been taken from where it waited.
Hand(d) == ~Coming(d) /\ d.hw.joined /\ d.enum.outcome = "none"
Alone(d, h) ==
  /\ ListOk(d) /\ Bounds(d) /\ (Enumerates(d) => Owns(d)) /\ (h => ~Enumerates(d))
  /\ d.hw.clean => Calm(d) /\ (h => Hand(d))

\* The enumerator may go on, with t its timer.
Works(d, t) ==
  /\ d.enum.pDevice # NoDevice
  /\ Surprises \/ (Owns(d) /\ (d.hw.clean => Staged(d, t)))

\* What holds of a driver state; once a device has left early, not all of it can be kept.
Fine(d, h) == Sound(d) /\ (Surprises \/ Alone(d, h))

-----------------------------------------------------------------------------
(* The bus.  Programming and reading it, and flushing the endpoints, leave what follows. *)

Outside(d, e) ==
  /\ e.enum = d.enum /\ e.ep0 = d.ep0 /\ e.device = d.device /\ e.connected = d.connected
  /\ e.abmAddress = d.abmAddress /\ e.queue = d.queue /\ e.wild = d.wild

\* What may happen to the controller without its driver: a device may leave, and is only
\* forgotten if nothing was under way.
Wires(d, e) ==
  /\ e.hw.clean => /\ d.hw.clean
                   /\ \/ e.hw.joined <=> d.hw.joined
                      \/ ~e.hw.joined /\ d.ep0.pTxIrp = NoIrp /\ d.enum.outcome # "none"
  /\ e.hw.joined => d.hw.joined
  /\ e.hw.remote => d.hw.remote
  /\ (BusOk(d.hw) => BusOk(e.hw))
  /\ \A c \in {"CONNECT", "SUSPEND", "RESET"} : c \in e.hw.intr <=> c \in d.hw.intr
  /\ "DISCONNECT" \in d.hw.intr => "DISCONNECT" \in e.hw.intr
  /\ "DISCONNECT" \in e.hw.intr => "DISCONNECT" \in d.hw.intr \/ ~e.hw.joined
  /\ e.hw.wire = "idle" <=> d.hw.wire = "idle"
  /\ e.hw.kind = d.hw.kind /\ e.hw.blocks = d.hw.blocks
  /\ e.hw.plugged = d.hw.plugged

\* A device leaves.
LEMMA GoneIs ==
  ASSUME NEW d, Shape(d), NEW r, NEW e, e = Gone(d, r)
  PROVE  /\ Shape(e) /\ Outside(d, e) /\ e.port = d.port /\ e.bulk = d.bulk /\ e.timer = d.timer
         /\ Wires(d, e) /\ ~e.hw.joined /\ ~e.hw.remote
         /\ e.hw.session = d.hw.session /\ e.hw.suspendm = d.hw.suspendm
         /\ e.hw.reset = d.hw.reset
<1>1. /\ Shape(e) /\ Outside(d, e) /\ e.port = d.port /\ e.bulk = d.bulk /\ e.timer = d.timer
  BY DEF Shape, Gone, Outside, BusFields
<1>2. /\ e.hw.joined = FALSE /\ e.hw.remote = FALSE
      /\ e.hw.intr = IF d.hw.joined /\ r THEN d.hw.intr \cup {"DISCONNECT"} ELSE d.hw.intr
      /\ e.hw.wire = IF d.hw.wire = "busy" THEN "failed" ELSE d.hw.wire
      /\ e.hw.clean = (d.hw.clean
                         /\ ~(d.hw.joined /\ (d.ep0.pTxIrp # NoIrp \/ d.enum.outcome = "none")))
      /\ e.hw.kind = d.hw.kind /\ e.hw.blocks = d.hw.blocks /\ e.hw.plugged = d.hw.plugged
      /\ e.hw.session = d.hw.session /\ e.hw.suspendm = d.hw.suspendm /\ e.hw.reset = d.hw.reset
  BY ZenonT(60) DEF Shape, Gone, BusFields
<1>3. Wires(d, e)
  BY <1>2 DEF Wires, BusOk
<1> QED
  BY <1>1, <1>2, <1>3

\* A session ends.
LEMMA SessionEndsIs ==
  ASSUME NEW d, Shape(d), NEW e, e = SessionEnds(d)
  PROVE  /\ Shape(e) /\ Outside(d, e) /\ e.port = d.port /\ e.bulk = d.bulk /\ e.timer = d.timer
         /\ Wires(d, e) /\ ~e.hw.joined /\ ~e.hw.remote /\ ~e.hw.session
         /\ e.hw.suspendm = d.hw.suspendm /\ e.hw.reset = d.hw.reset
<1> DEFINE s == [d EXCEPT !.hw.session = FALSE, !.hw.babble = FALSE]
           r == d.hw.reports
<1>1. e = Gone(s, r)
  BY DEF SessionEnds
<1>2. /\ Shape(s) /\ Outside(d, s) /\ s.port = d.port /\ s.bulk = d.bulk /\ s.timer = d.timer
  BY DEF Shape, Outside, BusFields
<1>3. /\ s.hw.session = FALSE /\ s.hw.joined = d.hw.joined /\ s.hw.remote = d.hw.remote
      /\ s.hw.intr = d.hw.intr /\ s.hw.wire = d.hw.wire /\ s.hw.kind = d.hw.kind
      /\ s.hw.blocks = d.hw.blocks /\ s.hw.suspendm = d.hw.suspendm /\ s.hw.reset = d.hw.reset
      /\ s.hw.plugged = d.hw.plugged /\ s.hw.clean = d.hw.clean
  BY DEF Shape, BusFields
<1> HIDE DEF s, r
<1>4. /\ Shape(e) /\ Outside(s, e) /\ e.port = s.port /\ e.bulk = s.bulk /\ e.timer = s.timer
      /\ Wires(s, e) /\ ~e.hw.joined /\ ~e.hw.remote
      /\ e.hw.session = s.hw.session /\ e.hw.suspendm = s.hw.suspendm /\ e.hw.reset = s.hw.reset
  BY <1>1, <1>2, GoneIs
<1>5. Outside(d, e) /\ e.port = d.port /\ e.bulk = d.bulk /\ e.timer = d.timer
  BY <1>2, <1>4 DEF Outside
<1>6. BusOk(d.hw) => BusOk(e.hw)
  <2> SUFFICES ASSUME BusOk(d.hw) PROVE BusOk(e.hw)
    OBVIOUS
  <2>1. e.hw.kind = s.hw.kind  BY <1>4 DEF Wires
  <2> QED
    BY <1>3, <1>4, <2>1 DEF BusOk
<1>7. Wires(d, e)
  BY <1>2, <1>3, <1>4, <1>6 DEF Wires, Outside
<1> QED
  BY <1>3, <1>4, <1>5, <1>7

\* Reading and programming the bus, and flushing the bulk endpoint.
Flushes(b, c) ==
  Tidy(b) => /\ Tidy(c) /\ (Apart(b) => Apart(c)) /\ (~b["rx"].claimed => ~c["rx"].claimed)
BusBulk(d, e) == Flushes(d.bulk, e.bulk)
BusTimer(d, e) == e.timer = d.timer \/ e.timer = "none"
BusPort(d, e) ==
  /\ PortOk(d.port) /\ BusOk(d.hw) => PortOk(e.port)
  /\ e.port.pRootDevice = d.port.pRootDevice /\ e.port.bOtgState = d.port.bOtgState
  /\ e.port.bWantReset = d.port.bWantReset
  /\ e.port.bWantSuspend => d.port.bWantSuspend
  /\ e.hw.suspendm => d.hw.suspendm \/ d.port.bWantSuspend
  /\ BusOk(d.hw) /\ e.hw.joined => /\ e.port.bConnectorId \in {d.port.bConnectorId, "A"}
                                   /\ d.port.bIsHost => e.port.bIsHost
BusMoves(d, e) ==
  Shape(e) /\ Outside(d, e) /\ Wires(d, e) /\ BusBulk(d, e) /\ BusTimer(d, e) /\ BusPort(d, e)

LEMMA WiresTrans ==
  ASSUME NEW d, NEW e, NEW f, Outside(d, e), Outside(e, f), Wires(d, e), Wires(e, f)
  PROVE  Outside(d, f) /\ Wires(d, f)
<1>1. Outside(d, f)
  BY DEF Outside
<1>2. e.ep0 = d.ep0 /\ e.enum = d.enum
  BY DEF Outside
<1>3. f.hw.clean => /\ d.hw.clean
                    /\ \/ f.hw.joined <=> d.hw.joined
                       \/ ~f.hw.joined /\ d.ep0.pTxIrp = NoIrp /\ d.enum.outcome # "none"
  BY <1>2 DEF Wires
<1>4. /\ "DISCONNECT" \in d.hw.intr => "DISCONNECT" \in f.hw.intr
      /\ "DISCONNECT" \in f.hw.intr => "DISCONNECT" \in d.hw.intr \/ ~f.hw.joined
  BY DEF Wires
<1> QED
  BY <1>1, <1>3, <1>4 DEF Wires

LEMMA BusTrans ==
  ASSUME NEW d, NEW e, NEW f, BusMoves(d, e), BusMoves(e, f)
  PROVE  BusMoves(d, f)
<1>1. Outside(d, f) /\ Wires(d, f) /\ Shape(f)
  BY WiresTrans DEF BusMoves
<1>2. BusBulk(d, f)
  BY DEF BusMoves, BusBulk, Flushes
<1>3. BusTimer(d, f)
  BY DEF BusMoves, BusTimer
<1>4. (BusOk(d.hw) => BusOk(e.hw)) /\ (f.hw.joined => e.hw.joined)
  BY DEF BusMoves, Wires
<1>5. BusPort(d, f)
  BY <1>4 DEF BusMoves, BusPort
<1> QED
  BY <1>1, <1>2, <1>3, <1>5 DEF BusMoves

LEMMA FlushedFlushes ==
  ASSUME NEW b
  PROVE  Flushes(b, FlushedAll(b))
<1> SUFFICES ASSUME Tidy(b) PROVE /\ Tidy(FlushedAll(b)) /\ (Apart(b) => Apart(FlushedAll(b)))
                                  /\ ~FlushedAll(b)["rx"].claimed
  BY DEF Flushes
<1>1. Tidy(FlushedAll(b))
  BY StaysTidy
<1>2. \A s \in Sides : b[s] \in [claimed : BOOLEAN, wMax : Nat, base : Nat, size : Nat]
  BY BulkEndsSides DEF Tidy, Placed
<1>3. \A s \in Sides : /\ FlushedAll(b)[s].base = b[s].base /\ FlushedAll(b)[s].size = b[s].size
                       /\ FlushedAll(b)[s].claimed = FALSE
  BY <1>2 DEF FlushedAll, Reused
<1> QED
  BY <1>1, <1>3 DEF Apart, Top, Sides

LEMMA ReadIs ==
  ASSUME NEW d, Shape(d), NEW e, e = ReadBusState(d)
  PROVE  /\ BusMoves(d, e) /\ e.hw = d.hw /\ e.bulk = d.bulk /\ e.timer = d.timer
         /\ e.port.bIsHost = HostMode(d.hw)
         /\ e.port.bWantSuspend = d.port.bWantSuspend
         /\ e.port.bWantSession = d.port.bWantSession
         /\ e.port.bConnectorId = IF d.hw.session THEN "A" ELSE "unknown"
<1>1. Shape(e) /\ Outside(d, e) /\ e.hw = d.hw /\ e.bulk = d.bulk /\ e.timer = d.timer
  BY DEF Shape, Outside, ReadBusState, PortFields
<1>2. /\ e.port.bConnectorId = IF d.hw.session THEN "A" ELSE "unknown"
      /\ e.port.bIsHost = HostMode(d.hw) /\ e.port.bIsSuspend = d.hw.suspendm
      /\ e.port.bIsReset = d.hw.reset
      /\ e.port.pRootDevice = d.port.pRootDevice /\ e.port.bOtgState = d.port.bOtgState
      /\ e.port.bWantReset = d.port.bWantReset /\ e.port.bWantSuspend = d.port.bWantSuspend
      /\ e.port.bWantSession = d.port.bWantSession /\ e.port.bRelinquish = d.port.bRelinquish
      /\ e.port.bVbusErrorRetries = d.port.bVbusErrorRetries
      /\ e.port.bBabbleRetries = d.port.bBabbleRetries
  BY DEF Shape, ReadBusState, PortFields
<1>3. HostMode(d.hw) \in BOOLEAN
  BY DEF HostMode
<1>4. Wires(d, e)
  BY <1>1 DEF Wires
<1>5. PortOk(d.port) /\ BusOk(d.hw) => PortOk(e.port)
  BY <1>2, <1>3 DEF PortOk, BusOk
<1>6. BusPort(d, e)
  BY <1>1, <1>2, <1>5 DEF BusPort, BusOk, HostMode
<1> QED
  BY <1>1, <1>2, <1>4, <1>6 DEF BusMoves, BusBulk, Flushes, BusTimer

LEMMA ProgramIs ==
  ASSUME NEW d, Shape(d), PortOk(d.port), BusOk(d.hw), NEW e, e = ProgramBusState(d)
  PROVE  /\ BusMoves(d, e) /\ e.port = d.port /\ e.bulk = d.bulk /\ e.timer = d.timer
         /\ ~d.port.bWantSession => ~e.hw.joined /\ ~e.hw.session
         /\ d.port.bWantSession => e.hw.session /\ (e.hw.joined <=> d.hw.joined)
         /\ e.hw.suspendm <=> d.port.bWantSuspend /\ (d.hw.suspendm \/ d.port.bIsHost)
         /\ e.hw.reset = d.port.bWantReset
<1> DEFINE p == d.port
           s == [d EXCEPT !.hw.suspendm = p.bWantSuspend /\ (@ \/ p.bIsHost),
                          !.hw.reset = p.bWantReset]
           t == [s EXCEPT !.hw.session = TRUE]
<1>1. e = IF p.bWantSession THEN t ELSE SessionEnds(s)
  BY DEF ProgramBusState
<1>2. /\ Shape(s) /\ Outside(d, s) /\ s.port = d.port /\ s.bulk = d.bulk /\ s.timer = d.timer
      /\ Shape(t) /\ Outside(d, t) /\ t.port = d.port /\ t.bulk = d.bulk /\ t.timer = d.timer
  BY DEF Shape, Outside, BusFields
<1>3. /\ s.hw.suspendm = (p.bWantSuspend /\ (d.hw.suspendm \/ p.bIsHost))
      /\ s.hw.reset = p.bWantReset
      /\ s.hw.session = d.hw.session /\ s.hw.joined = d.hw.joined /\ s.hw.remote = d.hw.remote
      /\ s.hw.intr = d.hw.intr /\ s.hw.wire = d.hw.wire /\ s.hw.kind = d.hw.kind
      /\ s.hw.blocks = d.hw.blocks /\ s.hw.plugged = d.hw.plugged /\ s.hw.clean = d.hw.clean
  BY DEF Shape, BusFields
<1>4. /\ t.hw.suspendm = s.hw.suspendm /\ t.hw.reset = s.hw.reset
      /\ t.hw.session = TRUE /\ t.hw.joined = s.hw.joined /\ t.hw.remote = s.hw.remote
      /\ t.hw.intr = s.hw.intr /\ t.hw.wire = s.hw.wire /\ t.hw.kind = s.hw.kind
      /\ t.hw.blocks = s.hw.blocks /\ t.hw.plugged = s.hw.plugged /\ t.hw.clean = s.hw.clean
  BY <1>2 DEF Shape, BusFields
<1> HIDE DEF s, t
<1>5. BusOk(s.hw) /\ BusOk(t.hw)
  BY <1>3, <1>4, ZenonT(60) DEF BusOk, PortOk
<1>6. Wires(d, s) /\ Wires(d, t)
  BY <1>3, <1>4, <1>5 DEF Wires
<1>7. CASE p.bWantSession
  <2>1. e = t  BY <1>1, <1>7
  <2>2. BusPort(d, e)
    BY <2>1, <1>2, <1>3, <1>4 DEF BusPort
  <2> QED
    BY <2>1, <2>2, <1>2, <1>3, <1>4, <1>6, <1>7 DEF BusMoves, BusBulk, Flushes, BusTimer
<1>8. CASE ~p.bWantSession
  <2>1. e = SessionEnds(s)  BY <1>1, <1>8
  <2>2. /\ Shape(e) /\ Outside(s, e) /\ e.port = s.port /\ e.bulk = s.bulk /\ e.timer = s.timer
        /\ Wires(s, e) /\ ~e.hw.joined /\ ~e.hw.remote /\ ~e.hw.session
        /\ e.hw.suspendm = s.hw.suspendm /\ e.hw.reset = s.hw.reset
    BY <2>1, <1>2, SessionEndsIs
  <2>3. Outside(d, e) /\ Wires(d, e)
    BY <2>2, <1>2, <1>6, WiresTrans
  <2>4. BusPort(d, e)
    BY <2>2, <1>2, <1>3 DEF BusPort
  <2> QED
    BY <2>2, <2>3, <2>4, <1>2, <1>3, <1>8 DEF BusMoves, BusBulk, Flushes, BusTimer
<1> QED
  BY <1>7, <1>8

LEMMA BusTypes ==
  ASSUME NEW d, NEW e, PortOk(d.port), BusOk(d.hw), BusMoves(d, e)
  PROVE  PortOk(e.port) /\ BusOk(e.hw) /\ Shape(e)
BY DEF BusMoves, BusPort, Wires

LEMMA WantSessionIs ==
  ASSUME NEW d, Shape(d), NEW v \in BOOLEAN, NEW e, e = [d EXCEPT !.port.bWantSession = v]
  PROVE  /\ BusMoves(d, e) /\ e.hw = d.hw /\ e.bulk = d.bulk /\ e.timer = d.timer
         /\ e.port.bWantSession = v /\ e.port.bWantSuspend = d.port.bWantSuspend
         /\ e.port.bIsHost = d.port.bIsHost /\ e.port.bConnectorId = d.port.bConnectorId
         /\ e.port.bIsSuspend = d.port.bIsSuspend /\ e.port.bIsReset = d.port.bIsReset
<1>1. Shape(e) /\ Outside(d, e) /\ e.hw = d.hw /\ e.bulk = d.bulk /\ e.timer = d.timer
  BY DEF Shape, Outside, PortFields
<1>2. /\ e.port.bWantSession = v
      /\ e.port.bConnectorId = d.port.bConnectorId /\ e.port.bIsHost = d.port.bIsHost
      /\ e.port.bIsSuspend = d.port.bIsSuspend /\ e.port.bIsReset = d.port.bIsReset
      /\ e.port.pRootDevice = d.port.pRootDevice /\ e.port.bOtgState = d.port.bOtgState
      /\ e.port.bWantReset = d.port.bWantReset /\ e.port.bWantSuspend = d.port.bWantSuspend
      /\ e.port.bRelinquish = d.port.bRelinquish
      /\ e.port.bVbusErrorRetries = d.port.bVbusErrorRetries
      /\ e.port.bBabbleRetries = d.port.bBabbleRetries
  BY DEF Shape, PortFields
<1>3. Wires(d, e)
  BY <1>1 DEF Wires
<1>4. PortOk(d.port) => PortOk(e.port)
  BY <1>2 DEF PortOk
<1> QED
  BY <1>1, <1>2, <1>3, <1>4 DEF BusMoves, BusPort, BusBulk, Flushes, BusTimer

LEMMA WantNoSuspendIs ==
  ASSUME NEW d, Shape(d), NEW e, e = [d EXCEPT !.port.bWantSuspend = FALSE]
  PROVE  /\ BusMoves(d, e) /\ e.hw = d.hw /\ e.bulk = d.bulk /\ e.timer = d.timer
         /\ e.port.bWantSession = d.port.bWantSession /\ ~e.port.bWantSuspend
         /\ e.port.bIsHost = d.port.bIsHost /\ e.port.bConnectorId = d.port.bConnectorId
<1>1. Shape(e) /\ Outside(d, e) /\ e.hw = d.hw /\ e.bulk = d.bulk /\ e.timer = d.timer
  BY DEF Shape, Outside, PortFields
<1>2. /\ e.port.bWantSession = d.port.bWantSession
      /\ e.port.bConnectorId = d.port.bConnectorId /\ e.port.bIsHost = d.port.bIsHost
      /\ e.port.bIsSuspend = d.port.bIsSuspend /\ e.port.bIsReset = d.port.bIsReset
      /\ e.port.pRootDevice = d.port.pRootDevice /\ e.port.bOtgState = d.port.bOtgState
      /\ e.port.bWantReset = d.port.bWantReset /\ e.port.bWantSuspend = FALSE
      /\ e.port.bRelinquish = d.port.bRelinquish
      /\ e.port.bVbusErrorRetries = d.port.bVbusErrorRetries
      /\ e.port.bBabbleRetries = d.port.bBabbleRetries
  BY DEF Shape, PortFields
<1>3. Wires(d, e)
  BY <1>1 DEF Wires
<1>4. PortOk(d.port) => PortOk(e.port)
  BY <1>2 DEF PortOk
<1> QED
  BY <1>1, <1>2, <1>3, <1>4 DEF BusMoves, BusPort, BusBulk, Flushes, BusTimer

LEMMA NoTimerIs ==
  ASSUME NEW d, Shape(d), NEW e, e = [d EXCEPT !.timer = "none"]
  PROVE  BusMoves(d, e) /\ e.hw = d.hw /\ e.bulk = d.bulk /\ e.timer = "none" /\ e.port = d.port
<1>1. /\ Shape(e) /\ Outside(d, e) /\ e.hw = d.hw /\ e.bulk = d.bulk /\ e.timer = "none"
      /\ e.port = d.port
  BY DEF Shape, Outside
<1>2. Wires(d, e)
  BY <1>1 DEF Wires
<1> QED
  BY <1>1, <1>2 DEF BusMoves, BusPort, BusBulk, Flushes, BusTimer

LEMMA FlushedIs ==
  ASSUME NEW d, Shape(d), NEW e, e = [d EXCEPT !.bulk = FlushedAll(@)]
  PROVE  /\ BusMoves(d, e) /\ e.hw = d.hw /\ e.bulk = FlushedAll(d.bulk) /\ e.timer = d.timer
         /\ e.port = d.port
<1>1. /\ Shape(e) /\ Outside(d, e) /\ e.hw = d.hw /\ e.bulk = FlushedAll(d.bulk)
      /\ e.timer = d.timer /\ e.port = d.port
  BY DEF Shape, Outside
<1>2. Wires(d, e)
  BY <1>1 DEF Wires
<1>3. BusBulk(d, e)
  BY <1>1, FlushedFlushes DEF BusBulk
<1> QED
  BY <1>1, <1>2, <1>3 DEF BusMoves, BusPort, BusTimer

\* When the host role, or that of a peripheral, is left, the endpoint is flushed.
Exits(from, toOtg) ==
  \/ toOtg = "A_PERIPHERAL" \/ (toOtg # "A_SUSPEND" /\ from \in {"A_HOST", "B_HOST"})
  \/ from \in {"A_PERIPHERAL", "B_PERIPHERAL"}

LEMMA LeaveIs ==
  ASSUME NEW d, Shape(d), PortOk(d.port), BusOk(d.hw), NEW toOtg, NEW e, e = Leave(d, toOtg)
  PROVE  /\ BusMoves(d, e) /\ PortOk(e.port) /\ BusOk(e.hw) /\ Shape(e)
         /\ e.timer = "none"
         /\ e.port.bIsHost = HostMode(d.hw)
         /\ e.port.bConnectorId = IF d.hw.session THEN "A" ELSE "unknown"
         /\ e.port.bWantSession = d.port.bWantSession
         /\ e.port.bWantSuspend = d.port.bWantSuspend
         /\ d.port.bWantSession => (e.hw.joined <=> d.hw.joined)
         /\ Exits(d.port.bOtgState, toOtg) => e.bulk = FlushedAll(d.bulk)
<1> DEFINE r == ReadBusState(d)
           s == [r EXCEPT !.timer = "none"]
           f == [s EXCEPT !.bulk = FlushedAll(@)]
           from == d.port.bOtgState
<1>1. e = IF Exits(from, toOtg) THEN ProgramBusState(f) ELSE s
  BY DEF Leave, Exits
<1>2. /\ BusMoves(d, r) /\ r.hw = d.hw /\ r.bulk = d.bulk
      /\ r.port.bIsHost = HostMode(d.hw) /\ r.port.bWantSuspend = d.port.bWantSuspend
      /\ r.port.bWantSession = d.port.bWantSession
      /\ r.port.bConnectorId = IF d.hw.session THEN "A" ELSE "unknown"
  BY ReadIs
<1>3. Shape(r)
  BY <1>2 DEF BusMoves
<1>4. BusMoves(r, s) /\ s.hw = r.hw /\ s.bulk = r.bulk /\ s.timer = "none" /\ s.port = r.port
  <2> HIDE DEF r
  <2> QED
    BY <1>3, NoTimerIs
<1>5. Shape(s) /\ BusMoves(d, s)
  BY <1>2, <1>4, BusTrans DEF BusMoves
<1>6. /\ BusMoves(s, f) /\ f.hw = s.hw /\ f.bulk = FlushedAll(s.bulk) /\ f.timer = s.timer
      /\ f.port = s.port
  <2> HIDE DEF s
  <2> QED
    BY <1>5, FlushedIs
<1> HIDE DEF r, s, f
<1>7. Shape(f) /\ BusMoves(d, f)
  BY <1>5, <1>6, BusTrans DEF BusMoves
<1>8. PortOk(f.port) /\ BusOk(f.hw)
  BY <1>7, BusTypes
<1>9. CASE Exits(from, toOtg)
  <2>1. e = ProgramBusState(f)  BY <1>1, <1>9
  <2>2. /\ BusMoves(f, e) /\ e.port = f.port /\ e.bulk = f.bulk /\ e.timer = f.timer
        /\ f.port.bWantSession => (e.hw.joined <=> f.hw.joined)
    BY <2>1, <1>7, <1>8, ProgramIs
  <2>3. BusMoves(d, e)
    BY <2>2, <1>7, BusTrans
  <2>4. PortOk(e.port) /\ BusOk(e.hw) /\ Shape(e)
    BY <2>3, BusTypes
  <2> QED
    BY <2>2, <2>3, <2>4, <1>2, <1>4, <1>6
<1>10. CASE ~Exits(from, toOtg)
  <2>1. e = s  BY <1>1, <1>10
  <2>2. PortOk(e.port) /\ BusOk(e.hw) /\ Shape(e)
    BY <2>1, <1>5, BusTypes
  <2> QED
    BY <2>1, <2>2, <1>2, <1>4, <1>5, <1>10
<1> QED
  BY <1>9, <1>10

-----------------------------------------------------------------------------
(* What holds whatever devices do *)

LEMMA BusSound ==
  ASSUME NEW d, NEW e, Sound(d), BusMoves(d, e)
  PROVE  Sound(e)
<1>1. PortOk(d.port) /\ BusOk(d.hw) /\ Shape(d)
  BY DEF Sound
<1>2. PortOk(e.port) /\ BusOk(e.hw) /\ Shape(e)
  BY <1>1, BusTypes
<1>3. Outside(d, e) /\ Wires(d, e) /\ BusBulk(d, e) /\ BusTimer(d, e)
  BY DEF BusMoves
<1>4. EnumOk(e.enum) /\ End0Ok(e.ep0) /\ BlocksOk(e.device)
  BY <1>3 DEF Sound, Outside
<1>5. e.timer \in Timers /\ e.connected \in Seq(Devices) /\ e.abmAddress \subseteq Addresses
  BY <1>3 DEF Sound, Outside, BusTimer, Timers
<1>6. e.queue \in Seq(Items)
  BY <1>3 DEF Sound, Outside
<1>7. FifoOk(e)
  BY <1>3 DEF Sound, FifoOk, Outside, BusBulk, Flushes
<1>8. e.hw.wire # "idle" => e.ep0.pTxIrp # NoIrp
  BY <1>3 DEF Sound, Outside, Wires
<1>9. Enumerates(e) => Enumerates(d)
  BY <1>3 DEF Outside, BusTimer, EnumTimers, Enumerates
<1>10. Enumerates(e) => e.enum.pDevice # NoDevice
  BY <1>9, <1>3 DEF Sound, Outside
<1>11. Hosts(e)
  <2>1. /\ e.hw.clean => /\ d.hw.clean
                         /\ \/ e.hw.joined <=> d.hw.joined
                            \/ ~e.hw.joined /\ d.ep0.pTxIrp = NoIrp
        /\ "CONNECT" \in e.hw.intr <=> "CONNECT" \in d.hw.intr
        /\ e.hw.wire = "idle" <=> d.hw.wire = "idle"
    BY <1>3 DEF Wires
  <2>2. e.ep0.pTxIrp = d.ep0.pTxIrp /\ (e.hw.joined /\ d.port.bIsHost => e.port.bIsHost)
    BY <1>1, <1>3 DEF BusMoves, BusPort, Outside
  <2> QED
    BY <2>1, <2>2 DEF Sound, Hosts
<1> QED
  BY <1>2, <1>4, <1>5, <1>6, <1>7, <1>8, <1>10, <1>11 DEF Sound

\* The parts of a driver's state that a step does not touch.
SameBus(d, e) == e.port = d.port /\ e.bulk = d.bulk /\ e.timer = d.timer
SameMemory(d, e) ==
  e.device = d.device /\ e.connected = d.connected /\ e.abmAddress = d.abmAddress
SameWires(h, g) ==
  /\ g.kind = h.kind /\ g.session = h.session /\ g.joined = h.joined /\ g.remote = h.remote
  /\ g.suspendm = h.suspendm /\ g.reset = h.reset /\ g.intr = h.intr /\ g.blocks = h.blocks
  /\ g.plugged = h.plugged

\* What touches neither a newcomer nor what it will own.
Aside(d, e) ==
  /\ e.enum = d.enum /\ e.ep0 = d.ep0 /\ SameMemory(d, e) /\ e.queue = d.queue
  /\ e.timer = d.timer \/ e.timer \notin EnumTimers \cup ResetTimers
  /\ e.hw.clean => /\ d.hw.clean
                   /\ \/ e.hw.joined <=> d.hw.joined
                      \/ ~e.hw.joined /\ d.ep0.pTxIrp = NoIrp /\ d.enum.outcome # "none"
  /\ "CONNECT" \in e.hw.intr <=> "CONNECT" \in d.hw.intr
  /\ "DISCONNECT" \in e.hw.intr => "DISCONNECT" \in d.hw.intr \/ ~e.hw.joined

\* Where memory is the same, blocks and addresses have the same owners.
LEMMA SameOwners ==
  ASSUME NEW d, NEW e, SameMemory(d, e)
  PROVE  /\ Listed(e) = Listed(d) /\ (ListOk(d) => ListOk(e))
         /\ e.enum.pDevice = d.enum.pDevice /\ e.enum.bAddress = d.enum.bAddress =>
              (Owns(d) => Owns(e))
<1>1. Listed(e) = Listed(d)
  BY DEF SameMemory, Listed
<1>2. ListOk(d) => ListOk(e)
  BY <1>1 DEF SameMemory, ListOk, Address
<1>3. ASSUME e.enum.pDevice = d.enum.pDevice, e.enum.bAddress = d.enum.bAddress, Owns(d)
      PROVE  Owns(e)
  BY <1>1, <1>3 DEF SameMemory, Owns, Address
<1> QED
  BY <1>1, <1>2, <1>3

LEMMA AsideFine ==
  ASSUME NEW d, NEW h \in BOOLEAN, Fine(d, h), NEW e, Sound(e), Aside(d, e)
  PROVE  Fine(e, h)
<1>1. Enumerates(e) => Enumerates(d)
  BY DEF Aside, Enumerates
<1>2. SUFFICES ASSUME ~Surprises PROVE Alone(e, h)
  BY DEF Fine
<1>3. Alone(d, h)
  BY <1>2 DEF Fine
<1>4. ListOk(e) /\ Bounds(e) /\ (Enumerates(e) => Owns(e)) /\ (h => ~Enumerates(e))
  <2>1. SameMemory(d, e) /\ e.enum = d.enum
    BY DEF Aside
  <2>2. ListOk(e) /\ (Owns(d) => Owns(e))
    BY <1>3, <2>1, SameOwners DEF Alone
  <2> QED
    BY <1>1, <1>3, <2>1, <2>2 DEF Alone, Bounds
<1>5. SUFFICES ASSUME e.hw.clean PROVE Calm(e) /\ (h => Hand(e))
  BY <1>4 DEF Alone
<1>6. d.hw.clean /\ Calm(d) /\ (h => Hand(d))
  BY <1>3, <1>5 DEF Aside, Alone
<1>7. /\ AtIntr(e) <=> AtIntr(d)
      /\ AtItem(e) <=> AtItem(d)
      /\ AtTimer(e) => AtTimer(d)
      /\ AtEnd0(e) <=> AtEnd0(d)
      /\ AtList(e) <=> AtList(d)
  BY DEF Aside, AtIntr, AtItem, AtTimer, AtEnd0, AtList
<1>8. One(e) /\ (Coming(e) => Coming(d))
  <2>1. e.queue = d.queue /\ e.ep0.list = d.ep0.list
    BY DEF Aside
  <2>2. One(d)
    BY <1>6 DEF Calm
  <2> QED
    BY <1>7, <2>1, <2>2 DEF One, Coming
<1>9. Enumerates(e) => Staged(e, e.timer)
  <2>1. e.timer = d.timer => (Enumerates(e) => Staged(e, e.timer))
    BY <1>1, <1>6 DEF Calm, Staged, Aside, SameMemory
  <2>2. ASSUME e.timer # d.timer, Enumerates(e)
        PROVE  d.timer \notin EnumTimers /\ e.timer \notin EnumTimers
    <3>1. e.timer \notin EnumTimers
      BY <2>2 DEF Aside
    <3>2. AtItem(d) \/ AtEnd0(d) \/ AtList(d)
      BY <2>2, <3>1 DEF Aside, Enumerates, AtItem, AtEnd0, AtList, IsNew, Newcomers, Irps,
         EnumIrp, HnpIrp
    <3>3. ~AtTimer(d)
      BY <1>6, <3>2 DEF Calm, One
    <3> QED
      BY <3>1, <3>3 DEF AtTimer
  <2>3. CASE e.timer # d.timer /\ Enumerates(e)
    <3>1. Staged(d, d.timer)
      BY <1>1, <1>6, <2>3 DEF Calm
    <3>2. e.enum = d.enum /\ e.device = d.device
      BY DEF Aside, SameMemory
    <3> QED
      BY <2>2, <2>3, <3>1, <3>2 DEF Staged, EnumTimers
  <2> QED
    BY <2>1, <2>3
<1>10. /\ Coming(e) => e.hw.joined /\ e.enum.outcome = "none"
       /\ h => Hand(e)
  <2>1. Coming(d) \/ h => d.hw.joined /\ d.enum.outcome = "none"
    BY <1>6 DEF Calm, Hand
  <2>2. Coming(d) \/ h => e.hw.joined /\ e.enum.outcome = "none"
    BY <1>5, <2>1 DEF Aside
  <2> QED
    BY <1>6, <1>8, <2>2 DEF Hand
<1>11. \A b \in Devices : Configures(e, b) => b \in Listed(e)
  BY <1>6 DEF Calm, Aside, SameMemory, Configures, Listed
<1>12. Leaves(e) => ~e.hw.joined
  BY <1>5, <1>6 DEF Calm, Aside, Leaves
<1> QED
  BY <1>8, <1>9, <1>10, <1>11, <1>12 DEF Calm

LEMMA BusFine ==
  ASSUME NEW d, NEW h \in BOOLEAN, Fine(d, h), NEW e, BusMoves(d, e)
  PROVE  Fine(e, h)
<1>1. Sound(e)
  BY BusSound DEF Fine
<1>2. Aside(d, e)
  BY DEF BusMoves, Outside, Wires, BusTimer, Aside, SameMemory, EnumTimers, ResetTimers
<1> QED
  BY <1>1, <1>2, AsideFine

\* The enumerator's IRP and timers are a newcomer's.
LEMMA EnumeratesComing == ASSUME NEW d, Enumerates(d) PROVE Coming(d)
<1>1. EnumIrp \in Newcomers
  BY DEF Newcomers, Irps, EnumIrp, HnpIrp
<1> QED
  BY <1>1 DEF Enumerates, Coming, AtEnd0, AtList, AtItem, AtTimer, IsNew

\* A board that calls back, or a timer that will.
LEMMA AfterIs ==
  ASSUME NEW d, Shape(d), NEW c, NEW r, NEW e, e = After(d, c, r)
  PROVE  \/ e = r
         \/ /\ Shape(e) /\ Outside(d, e) /\ e.port = d.port /\ e.bulk = d.bulk /\ e.hw = d.hw
            /\ e.timer = c
BY DEF After, Shape, Outside

LEMMA AfterSound ==
  ASSUME NEW d, Sound(d), NEW c, c \in Timers, NEW r, Sound(r),
         c \in EnumTimers => d.enum.pDevice # NoDevice
  PROVE  Sound(After(d, c, r))
<1> DEFINE e == After(d, c, r)
<1>1. SUFFICES ASSUME e # r PROVE Sound(e)
  OBVIOUS
<1>2. /\ Shape(e) /\ Outside(d, e) /\ e.port = d.port /\ e.bulk = d.bulk /\ e.hw = d.hw
      /\ e.timer = c
  BY <1>1, AfterIs DEF Sound
<1> HIDE DEF e
<1>3. FifoOk(e)
  BY <1>2 DEF Sound, FifoOk, Outside
<1>4. Enumerates(e) => Enumerates(d) \/ c \in EnumTimers
  BY <1>2 DEF Outside, Enumerates
<1>5. Enumerates(e) => e.enum.pDevice # NoDevice
  BY <1>4, <1>2 DEF Sound, Outside
<1>6. Hosts(e)
  BY <1>2 DEF Sound, Hosts, Outside
<1> QED
  BY <1>2, <1>3, <1>5, <1>6 DEF Sound, Outside

\* A timer of the bus, and one that a newcomer in hand waits with.
LEMMA AfterFine ==
  ASSUME NEW d, NEW h \in BOOLEAN, Fine(d, h), NEW r, Fine(r, h),
         NEW c, c \in Timers, c \notin EnumTimers \cup ResetTimers
  PROVE  Fine(After(d, c, r), h)
<1> DEFINE e == After(d, c, r)
<1>1. Sound(e)
  BY AfterSound DEF Fine
<1>2. CASE e = r
  BY <1>2
<1>3. CASE e # r
  <2>1. /\ Shape(e) /\ Outside(d, e) /\ e.port = d.port /\ e.bulk = d.bulk /\ e.hw = d.hw
        /\ e.timer = c
    BY <1>3, AfterIs DEF Sound, Fine
  <2> HIDE DEF e
  <2>2. Aside(d, e)
    BY <2>1 DEF Aside, Outside, SameMemory
  <2>3. Fine(e, h)
    BY <1>1, <2>2, AsideFine
  <2> QED
    BY <2>3 DEF e
<1> QED
  BY <1>2, <1>3

LEMMA WaitsFine ==
  ASSUME NEW d, Fine(d, TRUE), NEW r, Fine(r, FALSE),
         NEW c, c \in EnumTimers \cup ResetTimers, c \in EnumTimers => Works(d, c)
  PROVE  Fine(After(d, c, r), FALSE)
<1> DEFINE e == After(d, c, r)
<1>1. Sound(e)
  BY AfterSound DEF Fine, Works, EnumTimers, ResetTimers, Timers
<1>2. SUFFICES ASSUME e # r PROVE Fine(e, FALSE)
  OBVIOUS
<1>3. /\ Shape(e) /\ Outside(d, e) /\ e.port = d.port /\ e.bulk = d.bulk /\ e.hw = d.hw
      /\ e.timer = c
  BY <1>2, AfterIs DEF Sound, Fine
<1> HIDE DEF e
<1>4. SUFFICES ASSUME ~Surprises PROVE Alone(e, FALSE)
  BY <1>1 DEF Fine
<1>5. Alone(d, TRUE)
  BY <1>4 DEF Fine
<1>6. Enumerates(e) => c \in EnumTimers
  BY <1>3, <1>5 DEF Alone, Enumerates, Outside
<1>7. Enumerates(e) => Owns(e)
  BY <1>3, <1>4, <1>6 DEF Works, Owns, Outside, Listed, Address
<1>8. ListOk(e) /\ Bounds(e)
  BY <1>3, <1>5 DEF Alone, ListOk, Bounds, Outside, Listed, Address
<1>9. SUFFICES ASSUME e.hw.clean PROVE Calm(e)
  BY <1>7, <1>8 DEF Alone
<1>10. d.hw.clean /\ Calm(d) /\ Hand(d)
  BY <1>3, <1>5, <1>9 DEF Alone
<1>11. ~AtIntr(e) /\ ~AtItem(e) /\ ~AtEnd0(e) /\ ~AtList(e)
  BY <1>3, <1>10 DEF Hand, Coming, Outside, AtIntr, AtItem, AtEnd0, AtList
<1>12. One(e)
  BY <1>3, <1>10, <1>11 DEF Calm, One, Outside
<1>13. e.hw.joined /\ e.enum.outcome = "none"
  BY <1>3, <1>10 DEF Hand, Outside
<1>14. Leaves(e) => ~e.hw.joined
  BY <1>3, <1>10 DEF Calm, Leaves, Outside
<1>15. \A b \in Devices : Configures(e, b) => b \in Listed(e)
  BY <1>3, <1>10 DEF Calm, Configures, Listed, Outside
<1>16. Enumerates(e) => Staged(e, c)
  BY <1>3, <1>4, <1>6, <1>10 DEF Works, Staged, Outside
<1> QED
  BY <1>3, <1>12, <1>13, <1>14, <1>15, <1>16 DEF Calm

-----------------------------------------------------------------------------
(* Control transfers *)

LEMMA TransmitIs ==
  ASSUME NEW d, Shape(d), NEW i, NEW e, e = Transmit(d, i)
  PROVE  /\ Shape(e) /\ SameBus(d, e) /\ SameMemory(d, e) /\ SameWires(d.hw, e.hw)
         /\ e.enum = d.enum /\ e.queue = d.queue /\ e.wild = d.wild
         /\ e.ep0.pTxIrp = i /\ e.ep0.list = d.ep0.list /\ e.ep0.failed = d.ep0.failed \ {i}
         /\ e.hw.wire # "idle"
         /\ e.hw.clean <=> d.hw.clean /\ d.hw.joined
<1>1. /\ SameBus(d, e) /\ SameMemory(d, e)
      /\ e.enum = d.enum /\ e.queue = d.queue /\ e.wild = d.wild /\ DOMAIN e = DOMAIN d
  BY DEF Shape, Transmit, SameBus, SameMemory
<1>2. e.ep0 = [d.ep0 EXCEPT !.pTxIrp = i, !.failed = @ \ {i}]
  BY DEF Shape, Transmit
<1>3. e.hw = [d.hw EXCEPT !.wire = IF d.hw.joined THEN "busy" ELSE "failed",
                            !.clean = @ /\ d.hw.joined]
  BY DEF Shape, Transmit
<1>4. e.ep0.failed = d.ep0.failed \ {i} /\ e.ep0.pTxIrp = i /\ e.ep0.list = d.ep0.list
  BY <1>2 DEF Shape
<1>5. /\ SameWires(d.hw, e.hw) /\ e.hw.wire = IF d.hw.joined THEN "busy" ELSE "failed"
      /\ e.hw.clean = (d.hw.clean /\ d.hw.joined)
  BY <1>3 DEF Shape, BusFields, SameWires
<1>6. Shape(e)
  BY <1>1, <1>2, <1>3 DEF Shape, SameBus, SameMemory
<1> QED
  BY <1>1, <1>4, <1>5, <1>6

LEMMA StartIs ==
  ASSUME NEW d, Shape(d), NEW i, NEW e, e = StartControlTransfer(d, i)
  PROVE  /\ Shape(e) /\ SameBus(d, e) /\ SameMemory(d, e) /\ SameWires(d.hw, e.hw)
         /\ e.enum = d.enum /\ e.queue = d.queue /\ e.wild = d.wild
         /\ e.ep0.failed = d.ep0.failed \ {i}
         /\ d.ep0.pTxIrp = NoIrp =>
              /\ e.ep0.pTxIrp = i /\ e.ep0.list = d.ep0.list /\ e.hw.wire # "idle"
              /\ e.hw.clean <=> d.hw.clean /\ d.hw.joined
         /\ d.ep0.pTxIrp # NoIrp =>
              /\ e.ep0.pTxIrp = d.ep0.pTxIrp /\ e.ep0.list = Append(d.ep0.list, i)
              /\ e.hw = d.hw
<1>1. CASE d.ep0.pTxIrp = NoIrp
  <2>1. e = Transmit(d, i)
    BY <1>1 DEF StartControlTransfer
  <2> QED
    BY <1>1, <2>1, TransmitIs
<1>2. CASE d.ep0.pTxIrp # NoIrp
  <2>1. e = [d EXCEPT !.ep0.list = Append(@, i), !.ep0.failed = @ \ {i}]
    BY <1>2 DEF StartControlTransfer
  <2>2. /\ Shape(e) /\ SameBus(d, e) /\ SameMemory(d, e)
        /\ e.enum = d.enum /\ e.queue = d.queue /\ e.wild = d.wild /\ e.hw = d.hw
    BY <2>1 DEF Shape, SameBus, SameMemory
  <2> DEFINE q == Append(d.ep0.list, i)
             f == d.ep0.failed \ {i}
             x == [d.ep0 EXCEPT !.list = q, !.failed = f]
  <2>4. e = [d EXCEPT !.ep0 = x]
    BY <2>1 DEF Shape
  <2> HIDE DEF q, f
  <2>5. x.failed = f /\ x.list = q /\ x.pTxIrp = d.ep0.pTxIrp
    BY DEF Shape
  <2> HIDE DEF x
  <2>6. e.ep0 = x
    BY <2>4 DEF Shape
  <2>3. /\ e.ep0.failed = d.ep0.failed \ {i} /\ e.ep0.pTxIrp = d.ep0.pTxIrp
        /\ e.ep0.list = Append(d.ep0.list, i)
    BY <2>5, <2>6 DEF q, f
  <2> QED
    BY <1>2, <2>2, <2>3 DEF SameWires
<1> QED
  BY <1>1, <1>2

LEMMA StartSound ==
  ASSUME NEW d, Sound(d), NEW i \in Irps, i = EnumIrp => d.enum.pDevice # NoDevice
  PROVE  Sound(StartControlTransfer(d, i))
<1> DEFINE e == StartControlTransfer(d, i)
<1>1. Shape(d)
  BY DEF Sound
<1>2. /\ Shape(e) /\ SameBus(d, e) /\ SameMemory(d, e) /\ SameWires(d.hw, e.hw)
      /\ e.enum = d.enum /\ e.queue = d.queue /\ e.wild = d.wild
      /\ e.ep0.failed = d.ep0.failed \ {i}
      /\ d.ep0.pTxIrp = NoIrp =>
           /\ e.ep0.pTxIrp = i /\ e.ep0.list = d.ep0.list /\ e.hw.wire # "idle"
           /\ e.hw.clean <=> d.hw.clean /\ d.hw.joined
      /\ d.ep0.pTxIrp # NoIrp =>
           /\ e.ep0.pTxIrp = d.ep0.pTxIrp /\ e.ep0.list = Append(d.ep0.list, i)
           /\ e.hw = d.hw
  BY <1>1, StartIs
<1> HIDE DEF e
<1>3. NoIrp \notin Irps
  BY DEF Irps, NoIrp, EnumIrp, HnpIrp, ConfigIrp
<1>4. End0Ok(e.ep0)
  <2>1. End0Ok(d.ep0)  BY DEF Sound
  <2>2. CASE d.ep0.pTxIrp = NoIrp
    BY <1>2, <1>3, <2>1, <2>2 DEF End0Ok
  <2>3. CASE d.ep0.pTxIrp # NoIrp
    <3>1. Append(d.ep0.list, i) \in Seq(Irps)  BY <2>1 DEF End0Ok
    <3> QED
      BY <1>2, <2>1, <2>3, <3>1 DEF End0Ok
  <2> QED
    BY <2>2, <2>3
<1>5. BusOk(e.hw) /\ BlocksOk(e.device) /\ EnumOk(e.enum) /\ PortOk(e.port)
  BY <1>2 DEF Sound, BusOk, SameBus, SameMemory, SameWires
<1>6. FifoOk(e)
  BY <1>2 DEF Sound, FifoOk, SameBus, SameMemory
<1>7. e.hw.wire # "idle" => e.ep0.pTxIrp # NoIrp
  BY <1>2, <1>3 DEF Sound
<1>8. ASSUME Enumerates(e) PROVE Enumerates(d) \/ i = EnumIrp
  <2>1. CASE e.ep0.pTxIrp = EnumIrp
    BY <2>1, <1>2 DEF Enumerates
  <2>2. CASE \E k \in DOMAIN e.ep0.list : e.ep0.list[k] = EnumIrp
    <3>1. CASE d.ep0.pTxIrp = NoIrp
      BY <2>2, <3>1, <1>2 DEF Enumerates
    <3>2. CASE d.ep0.pTxIrp # NoIrp
      <4>1. PICK k \in DOMAIN e.ep0.list : e.ep0.list[k] = EnumIrp
        BY <2>2
      <4>2. d.ep0.list \in Seq(Irps) /\ e.ep0.list = Append(d.ep0.list, i)
        BY <3>2, <1>2 DEF Sound, End0Ok
      <4>3. (k \in DOMAIN d.ep0.list /\ d.ep0.list[k] = e.ep0.list[k]) \/ e.ep0.list[k] = i
        BY <4>1, <4>2
      <4> QED
        BY <4>1, <4>3 DEF Enumerates
    <3> QED
      BY <3>1, <3>2
  <2>3. CASE ~(e.ep0.pTxIrp = EnumIrp) /\ ~(\E k \in DOMAIN e.ep0.list : e.ep0.list[k] = EnumIrp)
    BY <2>3, <1>8, <1>2 DEF Enumerates, SameBus
  <2> QED
    BY <2>1, <2>2, <2>3
<1>9. Enumerates(e) => e.enum.pDevice # NoDevice
  BY <1>8, <1>2 DEF Sound
<1>10. Hosts(e)
  BY <1>2 DEF Sound, Hosts, SameBus, SameWires
<1> QED
  BY <1>2, <1>4, <1>5, <1>6, <1>7, <1>9, <1>10 DEF Sound, SameBus, SameMemory, e

\* Where a transfer that is started may be found.
LEMMA StartMoves ==
  ASSUME NEW d, Sound(d), NEW i \in Irps, NEW e, e = StartControlTransfer(d, i)
  PROVE  /\ Shape(e) /\ SameBus(d, e) /\ SameMemory(d, e) /\ SameWires(d.hw, e.hw)
         /\ e.enum = d.enum /\ e.queue = d.queue /\ (e.hw.clean => d.hw.clean)
         /\ AtEnd0(e) => AtEnd0(d) \/ (i \in Newcomers /\ ~AtList(e))
         /\ AtList(e) => AtList(d) \/ (i \in Newcomers /\ AtEnd0(e) = AtEnd0(d))
         /\ ~AtList(d) \/ i \notin Newcomers => (OneWaits(d.ep0.list) => OneWaits(e.ep0.list))
         /\ Enumerates(e) => Enumerates(d) \/ i = EnumIrp
         /\ \A b : Configures(e, b) => Configures(d, b) \/ i = ConfigIrp(b)
<1>1. /\ Shape(e) /\ SameBus(d, e) /\ SameMemory(d, e) /\ SameWires(d.hw, e.hw)
      /\ e.enum = d.enum /\ e.queue = d.queue
      /\ d.ep0.pTxIrp = NoIrp =>
           /\ e.ep0.pTxIrp = i /\ e.ep0.list = d.ep0.list
           /\ e.hw.clean <=> d.hw.clean /\ d.hw.joined
      /\ d.ep0.pTxIrp # NoIrp =>
           /\ e.ep0.pTxIrp = d.ep0.pTxIrp /\ e.ep0.list = Append(d.ep0.list, i)
           /\ e.hw = d.hw
  BY StartIs DEF Sound
<1>2. CASE d.ep0.pTxIrp = NoIrp
  <2>1. d.ep0.list = <<>>
    BY <1>2 DEF Sound, End0Ok
  <2>2. ~AtList(d) /\ ~AtList(e)
    BY <1>1, <1>2, <2>1 DEF AtList
  <2>3. AtEnd0(e) => i \in Newcomers
    BY <1>1, <1>2 DEF AtEnd0
  <2>4. Enumerates(e) => Enumerates(d) \/ i = EnumIrp
    BY <1>1, <1>2 DEF Enumerates, SameBus
  <2>5. \A b : Configures(e, b) => Configures(d, b) \/ i = ConfigIrp(b)
    BY <1>1, <1>2 DEF Configures
  <2> QED
    BY <1>1, <1>2, <2>2, <2>3, <2>4, <2>5
<1>3. CASE d.ep0.pTxIrp # NoIrp
  <2>1. d.ep0.list \in Seq(Irps)
    BY DEF Sound, End0Ok
  <2>2. AtEnd0(e) = AtEnd0(d)
    BY <1>1, <1>3 DEF AtEnd0
  <2>3. \A k \in DOMAIN e.ep0.list :
          (k \in DOMAIN d.ep0.list /\ d.ep0.list[k] = e.ep0.list[k])
            \/ (k = Len(d.ep0.list) + 1 /\ e.ep0.list[k] = i)
    <3> DEFINE l == d.ep0.list
               m == e.ep0.list
    <3>1. m = Append(l, i) /\ l \in Seq(Irps)
      BY <1>1, <1>3, <2>1
    <3> HIDE DEF l, m
    <3>2. \A k \in DOMAIN m : (k \in DOMAIN l /\ l[k] = m[k]) \/ (k = Len(l) + 1 /\ m[k] = i)
      BY <3>1
    <3> QED
      BY <3>2 DEF l, m
  <2>4. AtList(e) => AtList(d) \/ i \in Newcomers
    BY <2>3 DEF AtList
  <2>5. ~AtList(d) \/ i \notin Newcomers => (OneWaits(d.ep0.list) => OneWaits(e.ep0.list))
    BY <2>3 DEF AtList, OneWaits
  <2>6. Enumerates(e) => Enumerates(d) \/ i = EnumIrp
    BY <1>1, <1>3, <2>3 DEF Enumerates, SameBus
  <2>7. \A b : Configures(e, b) => Configures(d, b) \/ i = ConfigIrp(b)
    BY <1>1, <1>3, <2>3 DEF Configures
  <2> QED
    BY <1>1, <1>3, <2>2, <2>4, <2>5, <2>6, <2>7
<1> QED
  BY <1>2, <1>3

\* The HNP request, and the transfer of a newcomer in hand.
LEMMA HnpStartFine ==
  ASSUME NEW d, NEW h \in BOOLEAN, Fine(d, h)
  PROVE  Fine(StartControlTransfer(d, HnpIrp), h)
<1> DEFINE e == StartControlTransfer(d, HnpIrp)
<1>1. /\ HnpIrp \in Irps /\ HnpIrp \notin Newcomers /\ HnpIrp # EnumIrp
      /\ \A b : HnpIrp # ConfigIrp(b)
  BY DEF Irps, Newcomers, HnpIrp, EnumIrp, ConfigIrp
<1>2. Sound(e)
  BY <1>1, StartSound DEF Fine
<1>3. Sound(d)
  BY DEF Fine
<1>4. /\ Shape(e) /\ SameBus(d, e) /\ SameMemory(d, e) /\ SameWires(d.hw, e.hw)
      /\ e.enum = d.enum /\ e.queue = d.queue /\ (e.hw.clean => d.hw.clean)
      /\ (AtEnd0(e) => AtEnd0(d)) /\ (AtList(e) => AtList(d))
      /\ OneWaits(d.ep0.list) => OneWaits(e.ep0.list)
      /\ Enumerates(e) => Enumerates(d)
      /\ \A b : Configures(e, b) => Configures(d, b)
  BY <1>1, <1>3, StartMoves
<1> HIDE DEF e
<1>5. SUFFICES ASSUME ~Surprises PROVE Alone(e, h)
  BY <1>2 DEF Fine, e
<1>6. Alone(d, h)
  BY <1>5 DEF Fine
<1>7. ListOk(e) /\ Bounds(e) /\ (Enumerates(e) => Owns(e)) /\ (h => ~Enumerates(e))
  BY <1>4, <1>6 DEF Alone, SameMemory, ListOk, Owns, Bounds, Listed, Address
<1>8. SUFFICES ASSUME e.hw.clean PROVE Calm(e) /\ (h => Hand(e))
  BY <1>7 DEF Alone
<1>9. d.hw.clean /\ Calm(d) /\ (h => Hand(d))
  BY <1>4, <1>6, <1>8 DEF Alone
<1>10. /\ AtIntr(e) <=> AtIntr(d)
       /\ AtItem(e) <=> AtItem(d)
       /\ AtTimer(e) <=> AtTimer(d)
  BY <1>4 DEF SameBus, SameWires, AtIntr, AtItem, AtTimer
<1>11. One(e) /\ (Coming(e) => Coming(d))
  BY <1>4, <1>9, <1>10 DEF Calm, One, Coming
<1>12. e.hw.joined = d.hw.joined /\ (Leaves(e) <=> Leaves(d))
  BY <1>4 DEF SameWires, Leaves
<1>13. \A b \in Devices : Configures(e, b) => b \in Listed(e)
  BY <1>4, <1>9 DEF Calm, SameMemory, Listed
<1>14. Enumerates(e) => Staged(e, e.timer)
  BY <1>4, <1>9 DEF Calm, Staged, SameMemory, SameBus
<1> QED
  BY <1>4, <1>9, <1>11, <1>12, <1>13, <1>14 DEF Calm, Hand

LEMMA StartFine ==
  ASSUME NEW d, Fine(d, TRUE), NEW i \in Newcomers, i = EnumIrp => Works(d, "none"),
         \A b : i = ConfigIrp(b) => b \in Listed(d)
  PROVE  Fine(StartControlTransfer(d, i), FALSE)
<1> DEFINE e == StartControlTransfer(d, i)
<1>1. i \in Irps
  BY DEF Newcomers
<1>2. Sound(e)
  BY <1>1, StartSound DEF Fine, Works
<1>3. Sound(d)
  BY DEF Fine
<1>4. /\ Shape(e) /\ SameBus(d, e) /\ SameMemory(d, e) /\ SameWires(d.hw, e.hw)
      /\ e.enum = d.enum /\ e.queue = d.queue /\ (e.hw.clean => d.hw.clean)
      /\ AtEnd0(e) => AtEnd0(d) \/ ~AtList(e)
      /\ AtList(e) => AtList(d) \/ AtEnd0(e) = AtEnd0(d)
      /\ ~AtList(d) => (OneWaits(d.ep0.list) => OneWaits(e.ep0.list))
      /\ Enumerates(e) => Enumerates(d) \/ i = EnumIrp
      /\ \A b : Configures(e, b) => Configures(d, b) \/ i = ConfigIrp(b)
  BY <1>1, <1>3, StartMoves
<1> HIDE DEF e
<1>5. SUFFICES ASSUME ~Surprises PROVE Alone(e, FALSE)
  BY <1>2 DEF Fine, e
<1>6. Alone(d, TRUE)
  BY <1>5 DEF Fine
<1>7. Enumerates(e) => i = EnumIrp
  BY <1>4, <1>6 DEF Alone
<1>8. ListOk(e) /\ Bounds(e) /\ (Enumerates(e) => Owns(e))
  BY <1>4, <1>5, <1>6, <1>7 DEF Alone, SameMemory, ListOk, Owns, Bounds, Listed, Address, Works
<1>9. SUFFICES ASSUME e.hw.clean PROVE Calm(e)
  BY <1>8 DEF Alone
<1>10. d.hw.clean /\ Calm(d) /\ Hand(d)
  BY <1>4, <1>6, <1>9 DEF Alone
<1>11. ~AtIntr(e) /\ ~AtItem(e) /\ ~AtTimer(e) /\ ~AtEnd0(d) /\ ~AtList(d)
  BY <1>4, <1>10 DEF Hand, Coming, SameBus, SameWires, AtIntr, AtItem, AtTimer
<1>12. One(e)
  BY <1>4, <1>10, <1>11 DEF Calm, One
<1>13. e.hw.joined = d.hw.joined /\ (Leaves(e) <=> Leaves(d))
  BY <1>4 DEF SameWires, Leaves
<1>14. \A b \in Devices : Configures(e, b) => b \in Listed(e)
  BY <1>4, <1>10 DEF Calm, SameMemory, Listed
<1>15. ASSUME Enumerates(e) PROVE Staged(e, e.timer)
  <2>1. Staged(d, "none")
    BY <1>5, <1>7, <1>10, <1>15 DEF Works
  <2>2. e.timer \notin EnumTimers
    BY <1>11 DEF AtTimer
  <2> QED
    BY <1>4, <2>1, <2>2 DEF Staged, SameMemory, EnumTimers
<1> QED
  BY <1>4, <1>10, <1>12, <1>13, <1>14, <1>15 DEF Calm, Hand

\* The end of a transfer: the next one is begun, if there is one.
Serves(d, e) ==
  /\ Shape(e) /\ SameBus(d, e) /\ SameMemory(d, e) /\ SameWires(d.hw, e.hw)
  /\ e.enum = d.enum /\ e.wild = d.wild
  /\ ~d.port.bIsHost =>
       /\ e.ep0 = d.ep0 /\ e.queue = d.queue /\ e.hw.wire = "idle"
       /\ e.hw.clean = d.hw.clean
  /\ d.port.bIsHost => e.queue = Append(d.queue, [cause |-> "IRP", irp |-> d.ep0.pTxIrp])
  /\ d.port.bIsHost /\ d.ep0.list = <<>> =>
       /\ e.ep0.pTxIrp = NoIrp /\ e.ep0.list = <<>> /\ e.hw.wire = "idle"
       /\ e.hw.clean = d.hw.clean
  /\ d.port.bIsHost /\ d.ep0.list # <<>> =>
       /\ e.ep0.pTxIrp = Head(d.ep0.list) /\ e.ep0.list = Tail(d.ep0.list)
       /\ e.hw.wire # "idle" /\ (e.hw.clean <=> d.hw.clean /\ d.hw.joined)
  /\ e.ep0.failed \subseteq d.ep0.failed \cup {d.ep0.pTxIrp}

LEMMA ServiceIs ==
  ASSUME NEW d, Shape(d), NEW e, e = ServiceDefaultEnd(d)
  PROVE  Serves(d, e)
<1> SUFFICES /\ Shape(e) /\ SameBus(d, e) /\ SameMemory(d, e) /\ SameWires(d.hw, e.hw)
             /\ e.enum = d.enum /\ e.wild = d.wild
             /\ ~d.port.bIsHost =>
                  /\ e.ep0 = d.ep0 /\ e.queue = d.queue /\ e.hw.wire = "idle"
                  /\ e.hw.clean = d.hw.clean
             /\ d.port.bIsHost => e.queue = Append(d.queue, [cause |-> "IRP", irp |-> d.ep0.pTxIrp])
             /\ d.port.bIsHost /\ d.ep0.list = <<>> =>
                  /\ e.ep0.pTxIrp = NoIrp /\ e.ep0.list = <<>> /\ e.hw.wire = "idle"
                  /\ e.hw.clean = d.hw.clean
             /\ d.port.bIsHost /\ d.ep0.list # <<>> =>
                  /\ e.ep0.pTxIrp = Head(d.ep0.list) /\ e.ep0.list = Tail(d.ep0.list)
                  /\ e.hw.wire # "idle" /\ (e.hw.clean <=> d.hw.clean /\ d.hw.joined)
             /\ e.ep0.failed \subseteq d.ep0.failed \cup {d.ep0.pTxIrp}
  BY DEF Serves
<1> DEFINE s == [d EXCEPT !.hw.wire = "idle"]
           i == d.ep0.pTxIrp
<1>1. /\ Shape(s) /\ SameBus(d, s) /\ SameMemory(d, s) /\ SameWires(d.hw, s.hw)
      /\ s.enum = d.enum /\ s.wild = d.wild /\ s.ep0 = d.ep0 /\ s.queue = d.queue
      /\ s.hw.wire = "idle" /\ s.hw.clean = d.hw.clean
  <2>1. /\ SameBus(d, s) /\ SameMemory(d, s) /\ s.enum = d.enum /\ s.wild = d.wild
        /\ s.ep0 = d.ep0 /\ s.queue = d.queue /\ s.hw = [d.hw EXCEPT !.wire = "idle"]
        /\ DOMAIN s = DOMAIN d
    BY DEF Shape, SameBus, SameMemory
  <2> HIDE DEF s
  <2> QED
    BY <2>1 DEF Shape, SameWires, SameBus, SameMemory, BusFields
<1>2. CASE ~d.port.bIsHost
  <2>1. e = s  BY <1>2 DEF ServiceDefaultEnd
  <2> HIDE DEF s
  <2> QED  BY <1>1, <1>2, <2>1
<1>3. CASE d.port.bIsHost
  <2>1. PICK F : e = CompleteIrp([s EXCEPT !.ep0.failed = F]) /\ F \subseteq d.ep0.failed \cup {i}
    <3>1. CASE d.hw.wire = "failed"
      <4>1. e = CompleteIrp([s EXCEPT !.ep0.failed = @ \cup {i}])
        BY <1>3, <3>1 DEF ServiceDefaultEnd
      <4>2. [s EXCEPT !.ep0.failed = @ \cup {i}] = [s EXCEPT !.ep0.failed = s.ep0.failed \cup {i}]
        OBVIOUS
      <4> HIDE DEF s
      <4> QED  BY <1>1, <4>1, <4>2
    <3>2. CASE d.hw.wire # "failed"
      <4>1. e = DrcServiceDefaultEnd(s)
        BY <1>3, <3>2 DEF ServiceDefaultEnd
      <4>2. e = CompleteIrp([s EXCEPT !.ep0.failed = s.ep0.failed \ {s.ep0.pTxIrp}])
        BY <4>1 DEF DrcServiceDefaultEnd
      <4> HIDE DEF s
      <4> QED  BY <1>1, <4>2
    <3> QED
      BY <3>1, <3>2, Zenon
  <2> DEFINE t == [s EXCEPT !.ep0.failed = F]
             u == [t EXCEPT !.queue = Append(@, [cause |-> "IRP", irp |-> t.ep0.pTxIrp])]
  <2> HIDE DEF s
  <2>2. /\ Shape(t) /\ SameBus(s, t) /\ SameMemory(s, t) /\ t.hw = s.hw
        /\ t.enum = s.enum /\ t.wild = s.wild /\ t.queue = s.queue
        /\ t.ep0.pTxIrp = s.ep0.pTxIrp /\ t.ep0.list = s.ep0.list /\ t.ep0.failed = F
    BY <1>1 DEF Shape, SameBus, SameMemory
  <2>3. e = StartNextControlTransfer(u)
    BY <2>1 DEF CompleteIrp
  <2> HIDE DEF t
  <2>4. /\ Shape(u) /\ SameBus(t, u) /\ SameMemory(t, u) /\ u.hw = t.hw
        /\ u.enum = t.enum /\ u.wild = t.wild /\ u.ep0 = t.ep0
        /\ u.queue = Append(t.queue, [cause |-> "IRP", irp |-> t.ep0.pTxIrp])
    BY <2>2 DEF Shape, SameBus, SameMemory
  <2> HIDE DEF u
  <2>5. u.queue = Append(d.queue, [cause |-> "IRP", irp |-> d.ep0.pTxIrp])
    BY <2>4, <2>2, <1>1
  <2>6. CASE d.ep0.list = <<>>
    <3>1. e = [u EXCEPT !.ep0.pTxIrp = NoIrp]
      BY <2>6, <2>4, <2>3, <2>2, <1>1 DEF StartNextControlTransfer
    <3>2. /\ Shape(e) /\ SameBus(u, e) /\ SameMemory(u, e) /\ e.hw = u.hw
          /\ e.enum = u.enum /\ e.wild = u.wild /\ e.queue = u.queue
          /\ e.ep0.pTxIrp = NoIrp /\ e.ep0.list = u.ep0.list /\ e.ep0.failed = u.ep0.failed
      BY <3>1, <2>4 DEF Shape, SameBus, SameMemory
    <3>3. SameBus(d, e) /\ SameMemory(d, e)
      BY <1>1, <2>2, <2>4, <3>2 DEF SameBus, SameMemory
    <3>4. e.hw = s.hw
      BY <2>2, <2>4, <3>2
    <3>5. e.ep0.list = <<>> /\ e.ep0.failed \subseteq d.ep0.failed \cup {i}
      BY <1>1, <2>1, <2>2, <2>4, <2>6, <3>2
    <3>6. e.enum = d.enum /\ e.wild = d.wild
      BY <1>1, <2>2, <2>4, <3>2
    <3> QED
      BY <1>1, <1>3, <2>5, <2>6, <3>2, <3>3, <3>4, <3>5, <3>6
  <2>7. CASE d.ep0.list # <<>>
    <3> DEFINE v == [u EXCEPT !.ep0.list = Tail(@)]
               n == Head(d.ep0.list)
    <3>1. e = Transmit(v, n)
      BY <2>7, <2>4, <2>3, <2>2, <1>1 DEF StartNextControlTransfer
    <3>2. /\ Shape(v) /\ SameBus(u, v) /\ SameMemory(u, v) /\ v.hw = u.hw
          /\ v.enum = u.enum /\ v.wild = u.wild /\ v.queue = u.queue
          /\ v.ep0.list = Tail(u.ep0.list) /\ v.ep0.failed = u.ep0.failed
      BY <2>4 DEF Shape, SameBus, SameMemory
    <3> HIDE DEF v, n
    <3>3. /\ Shape(e) /\ SameBus(v, e) /\ SameMemory(v, e) /\ SameWires(v.hw, e.hw)
          /\ e.enum = v.enum /\ e.queue = v.queue /\ e.wild = v.wild
          /\ e.ep0.pTxIrp = n /\ e.ep0.list = v.ep0.list /\ e.ep0.failed = v.ep0.failed \ {n}
          /\ e.hw.wire # "idle"
          /\ e.hw.clean <=> v.hw.clean /\ v.hw.joined
      BY <3>1, <3>2, TransmitIs
    <3>4. SameBus(d, e) /\ SameMemory(d, e)
      BY <1>1, <2>2, <2>4, <3>2, <3>3 DEF SameBus, SameMemory
    <3>5. SameWires(d.hw, e.hw)
      BY <1>1, <2>2, <2>4, <3>2, <3>3 DEF SameWires
    <3>6. e.hw.clean <=> d.hw.clean /\ d.hw.joined
      BY <1>1, <2>2, <2>4, <3>2, <3>3 DEF SameWires
    <3>7. e.ep0.failed \subseteq d.ep0.failed \cup {i}
      BY <2>1, <2>2, <2>4, <3>2, <3>3
    <3>8. e.ep0.pTxIrp = Head(d.ep0.list) /\ e.ep0.list = Tail(d.ep0.list)
      BY <1>1, <2>2, <2>4, <3>2, <3>3 DEF n
    <3> QED
      BY <1>1, <1>3, <2>2, <2>4, <2>5, <2>7, <3>2, <3>3, <3>4, <3>5, <3>6, <3>7, <3>8
  <2> QED
    BY <2>6, <2>7
<1> QED
  BY <1>2, <1>3

LEMMA ServiceSound ==
  ASSUME NEW d, Sound(d), d.ep0.pTxIrp # NoIrp, d.hw.clean => d.port.bIsHost
  PROVE  Sound(ServiceDefaultEnd(d))
<1> DEFINE e == ServiceDefaultEnd(d)
           i == d.ep0.pTxIrp
           it == [cause |-> "IRP", irp |-> i]
<1>1. Shape(d)
  BY DEF Sound
<1>5. Serves(d, e)
  BY <1>1, ServiceIs
<1> HIDE DEF e
<1> SUFFICES Sound(e)
  BY DEF e
<1>2. /\ Shape(e) /\ SameBus(d, e) /\ SameMemory(d, e) /\ SameWires(d.hw, e.hw)
      /\ e.enum = d.enum
      /\ e.ep0.failed \subseteq d.ep0.failed \cup {i}
  BY <1>5 DEF Serves
<1>3. CASE ~d.port.bIsHost
  <2>1. e.ep0 = d.ep0 /\ e.queue = d.queue /\ e.hw.wire = "idle" /\ ~e.hw.clean
    BY <1>3, <1>5 DEF Serves
  <2>2. BusOk(e.hw) /\ BlocksOk(e.device)
    BY <1>2 DEF Sound, BusOk, SameMemory, SameWires
  <2>3. FifoOk(e)
    BY <1>2 DEF Sound, FifoOk, SameBus, SameMemory
  <2>4. Enumerates(e) => Enumerates(d)
    BY <1>2, <2>1 DEF Enumerates, SameBus
  <2> QED
    BY <1>2, <2>1, <2>2, <2>3, <2>4 DEF Sound, Hosts, SameBus, SameMemory
<1>4. CASE d.port.bIsHost
  <2>1. e.queue = Append(d.queue, it)
    BY <1>4, <1>5 DEF Serves
  <2>2. \/ d.ep0.list = <<>> /\ e.ep0.pTxIrp = NoIrp /\ e.ep0.list = <<>> /\ e.hw.wire = "idle"
        \/ /\ d.ep0.list # <<>>
           /\ e.ep0.pTxIrp = Head(d.ep0.list) /\ e.ep0.list = Tail(d.ep0.list)
           /\ e.hw.wire # "idle"
    BY <1>4, <1>5 DEF Serves
  <2>13. \/ e.ep0.pTxIrp = NoIrp /\ e.hw.clean = d.hw.clean
         \/ e.hw.wire # "idle" /\ (e.hw.clean <=> d.hw.clean /\ d.hw.joined)
    BY <1>4, <1>5 DEF Serves
  <2> HIDE DEF i
  <2>3. i \in Irps /\ End0Ok(d.ep0) /\ d.ep0.list \in Seq(Irps)
    BY DEF Sound, End0Ok, i
  <2>4. NoIrp \notin Irps
    BY DEF Irps, NoIrp, EnumIrp, HnpIrp, ConfigIrp
  <2>5. d.ep0.list # <<>> => Head(d.ep0.list) \in Irps /\ Tail(d.ep0.list) \in Seq(Irps)
    BY <2>3
  <2>6. End0Ok(e.ep0)
    BY <1>2, <2>2, <2>3, <2>4, <2>5 DEF End0Ok
  <2>7. e.hw.wire # "idle" => e.ep0.pTxIrp # NoIrp
    BY <2>2, <2>4, <2>5
  <2>8. it \in Items
    BY <2>3 DEF Items
  <2>9. e.queue \in Seq(Items)
    BY <2>1, <2>8 DEF Sound
  <2>10. BusOk(e.hw) /\ BlocksOk(e.device)
    BY <1>2 DEF Sound, BusOk, SameMemory, SameWires
  <2>11. FifoOk(e)
    BY <1>2 DEF Sound, FifoOk, SameBus, SameMemory
  <2>12. ASSUME Enumerates(e) PROVE Enumerates(d)
    <3>1. e.ep0.pTxIrp = EnumIrp => Enumerates(d)
      <4> SUFFICES ASSUME e.ep0.pTxIrp = EnumIrp PROVE Enumerates(d)
        OBVIOUS
      <4>1. EnumIrp # NoIrp  BY DEF EnumIrp, NoIrp
      <4>2. d.ep0.list # <<>> /\ d.ep0.list[1] = EnumIrp /\ 1 \in DOMAIN d.ep0.list
        BY <2>2, <2>3, <4>1
      <4> QED  BY <4>2 DEF Enumerates
    <3>2. (\E k \in DOMAIN e.ep0.list : e.ep0.list[k] = EnumIrp) => Enumerates(d)
      <4> SUFFICES ASSUME NEW k \in DOMAIN e.ep0.list, e.ep0.list[k] = EnumIrp PROVE Enumerates(d)
        OBVIOUS
      <4>1. d.ep0.list # <<>> /\ e.ep0.list = Tail(d.ep0.list)
        BY <2>2
      <4>2. k + 1 \in DOMAIN d.ep0.list /\ d.ep0.list[k + 1] = EnumIrp
        BY <4>1, <2>3
      <4> QED  BY <4>2 DEF Enumerates
    <3>3. (\E k \in DOMAIN e.queue : e.queue[k].irp = EnumIrp) => Enumerates(d)
      <4> SUFFICES ASSUME NEW k \in DOMAIN e.queue, e.queue[k].irp = EnumIrp PROVE Enumerates(d)
        OBVIOUS
      <4>1. (k \in DOMAIN d.queue /\ d.queue[k] = e.queue[k]) \/ e.queue[k] = it
        BY <2>1 DEF Sound
      <4>2. it.irp = i  OBVIOUS
      <4> QED  BY <4>1, <4>2 DEF Enumerates, i
    <3> QED
      BY <2>12, <3>1, <3>2, <3>3, <1>2 DEF Enumerates, SameBus
  <2>14. Hosts(e)
    BY <1>2, <1>4, <2>13 DEF Sound, Hosts, SameBus, SameWires
  <2> QED
    BY <1>2, <2>6, <2>7, <2>9, <2>10, <2>11, <2>12, <2>14 DEF Sound, SameBus, SameMemory
<1> QED
  BY <1>3, <1>4

\* Where a transfer that ends, and the next one, may be found.
LEMMA ServiceMoves ==
  ASSUME NEW d, Sound(d), d.ep0.pTxIrp # NoIrp, NEW e, e = ServiceDefaultEnd(d)
  PROVE  /\ Shape(e) /\ SameBus(d, e) /\ SameMemory(d, e) /\ SameWires(d.hw, e.hw)
         /\ e.enum = d.enum /\ (e.hw.clean => d.hw.clean)
         /\ AtItem(e) => AtItem(d) \/ (AtEnd0(d) /\ (AtEnd0(e) => AtList(d)))
         /\ AtEnd0(e) => AtEnd0(d) \/ (AtList(d) /\ (OneWaits(d.ep0.list) => ~AtList(e)))
         /\ AtList(e) => AtList(d)
         /\ OneWaits(d.ep0.list) => OneWaits(e.ep0.list)
         /\ ~AtItem(d) \/ ~AtEnd0(d) => (OneItem(d.queue) => OneItem(e.queue))
         /\ d.port.bIsHost => (AtEnd0(e) => AtList(d))
         /\ Leaves(e) => Leaves(d)
         /\ Enumerates(e) => Enumerates(d)
         /\ \A b : Configures(e, b) => Configures(d, b)
<1> DEFINE i == d.ep0.pTxIrp
           it == [cause |-> "IRP", irp |-> i]
<1>4. Serves(d, e)
  BY ServiceIs DEF Sound
<1>1. /\ Shape(e) /\ SameBus(d, e) /\ SameMemory(d, e) /\ SameWires(d.hw, e.hw)
      /\ e.enum = d.enum
  BY <1>4 DEF Serves
<1>2. CASE ~d.port.bIsHost
  <2>1. e.ep0 = d.ep0 /\ e.queue = d.queue /\ e.hw.clean = d.hw.clean
    BY <1>2, <1>4 DEF Serves
  <2>2. AtItem(e) = AtItem(d) /\ AtEnd0(e) = AtEnd0(d) /\ AtList(e) = AtList(d)
    BY <2>1 DEF AtItem, AtEnd0, AtList
  <2>3. Leaves(e) = Leaves(d)
    BY <1>1, <2>1 DEF Leaves, SameWires
  <2>4. (Enumerates(e) => Enumerates(d)) /\ \A b : Configures(e, b) => Configures(d, b)
    BY <1>1, <2>1 DEF Enumerates, Configures, SameBus
  <2> QED
    BY <1>1, <1>2, <2>1, <2>2, <2>3, <2>4
<1>3. CASE d.port.bIsHost
  <2>1. e.queue = Append(d.queue, it)
    BY <1>3, <1>4 DEF Serves
  <2>2. \/ d.ep0.list = <<>> /\ e.ep0.pTxIrp = NoIrp /\ e.ep0.list = <<>>
        \/ /\ d.ep0.list # <<>>
           /\ e.ep0.pTxIrp = Head(d.ep0.list) /\ e.ep0.list = Tail(d.ep0.list)
    BY <1>3, <1>4 DEF Serves
  <2>3. e.hw.clean => d.hw.clean
    BY <1>3, <1>4 DEF Serves
  <2>4. it.irp = i /\ it.cause = "IRP"
    OBVIOUS
  <2> HIDE DEF it
  <2>5. \A k \in DOMAIN e.queue :
          (k \in DOMAIN d.queue /\ d.queue[k] = e.queue[k])
            \/ (k = Len(d.queue) + 1 /\ e.queue[k] = it)
    BY <2>1 DEF Sound
  <2>19. d.ep0.list \in Seq(Irps)
    BY DEF Sound, End0Ok
  <2>6. \A k \in DOMAIN e.ep0.list :
          k + 1 \in DOMAIN d.ep0.list /\ d.ep0.list[k + 1] = e.ep0.list[k] /\ k \in Nat \ {0}
    <3>1. CASE e.ep0.list = <<>>
      BY <3>1
    <3>2. CASE d.ep0.list # <<>> /\ e.ep0.list = Tail(d.ep0.list)
      <4> SUFFICES ASSUME NEW k \in DOMAIN e.ep0.list
                   PROVE  /\ k + 1 \in DOMAIN d.ep0.list /\ d.ep0.list[k + 1] = e.ep0.list[k]
                          /\ k \in Nat \ {0}
        OBVIOUS
      <4> QED
        BY <2>19, <3>2
    <3> QED
      BY <2>2, <3>1, <3>2
  <2>7. e.ep0.pTxIrp # NoIrp =>
          /\ 1 \in DOMAIN d.ep0.list /\ d.ep0.list[1] = e.ep0.pTxIrp
          /\ \A k \in DOMAIN e.ep0.list : k + 1 # 1
    BY <2>2, <2>6, <2>19
  <2>8. NoIrp \notin Newcomers /\ NoIrp # EnumIrp /\ \A b : NoIrp # ConfigIrp(b)
    BY DEF Newcomers, Irps, NoIrp, EnumIrp, HnpIrp, ConfigIrp
  <2>9. IsNew(it) => i \in Newcomers
    BY <2>4 DEF IsNew
  <2>10. AtItem(e) => AtItem(d) \/ AtEnd0(d)
    BY <2>5, <2>9 DEF AtItem, AtEnd0
  <2>11. AtEnd0(e) => AtList(d)
    BY <2>7, <2>8 DEF AtEnd0, AtList
  <2>12. AtList(e) => AtList(d)
    BY <2>6 DEF AtList
  <2>13. AtEnd0(e) /\ OneWaits(d.ep0.list) => ~AtList(e)
    BY <2>6, <2>7, <2>8 DEF AtEnd0, AtList, OneWaits
  <2>14. OneWaits(d.ep0.list) => OneWaits(e.ep0.list)
    <3> SUFFICES ASSUME OneWaits(d.ep0.list),
                        NEW j \in DOMAIN e.ep0.list, NEW k \in DOMAIN e.ep0.list,
                        e.ep0.list[j] \in Newcomers, e.ep0.list[k] \in Newcomers
                 PROVE  j = k
      BY DEF OneWaits
    <3>1. j + 1 = k + 1
      BY <2>6 DEF OneWaits
    <3> QED
      BY <2>6, <3>1
  <2>15. ~AtItem(d) \/ ~AtEnd0(d) => (OneItem(d.queue) => OneItem(e.queue))
    BY <2>5, <2>9 DEF OneItem, AtItem, AtEnd0
  <2>16. Leaves(e) => Leaves(d)
    BY <1>1, <2>4, <2>5 DEF Leaves, SameWires
  <2>17. Enumerates(e) => Enumerates(d)
    BY <1>1, <2>4, <2>5, <2>6, <2>7, <2>8 DEF Enumerates, SameBus
  <2>18. \A b : Configures(e, b) => Configures(d, b)
    BY <2>4, <2>5, <2>6, <2>7, <2>8 DEF Configures
  <2> QED
    BY <1>1, <2>3, <2>10, <2>11, <2>12, <2>13, <2>14, <2>15, <2>16, <2>17, <2>18
<1> QED
  BY <1>2, <1>3

LEMMA ServiceFine ==
  ASSUME NEW d, Fine(d, FALSE), d.ep0.pTxIrp # NoIrp, d.hw.clean => d.port.bIsHost
  PROVE  Fine(ServiceDefaultEnd(d), FALSE)
<1> DEFINE e == ServiceDefaultEnd(d)
<1>1. Sound(e) /\ Sound(d)
  BY ServiceSound DEF Fine
<1>2. /\ Shape(e) /\ SameBus(d, e) /\ SameMemory(d, e) /\ SameWires(d.hw, e.hw)
      /\ e.enum = d.enum /\ (e.hw.clean => d.hw.clean)
      /\ AtItem(e) => AtItem(d) \/ (AtEnd0(d) /\ (AtEnd0(e) => AtList(d)))
      /\ AtEnd0(e) => AtEnd0(d) \/ (AtList(d) /\ (OneWaits(d.ep0.list) => ~AtList(e)))
      /\ AtList(e) => AtList(d)
      /\ OneWaits(d.ep0.list) => OneWaits(e.ep0.list)
      /\ ~AtItem(d) \/ ~AtEnd0(d) => (OneItem(d.queue) => OneItem(e.queue))
      /\ d.port.bIsHost => (AtEnd0(e) => AtList(d))
      /\ Leaves(e) => Leaves(d)
      /\ Enumerates(e) => Enumerates(d)
      /\ \A b : Configures(e, b) => Configures(d, b)
  BY <1>1, ServiceMoves
<1> HIDE DEF e
<1>3. SUFFICES ASSUME ~Surprises PROVE Alone(e, FALSE)
  BY <1>1 DEF Fine, e
<1>4. Alone(d, FALSE)
  BY <1>3 DEF Fine
<1>5. ListOk(e) /\ Bounds(e) /\ (Enumerates(e) => Owns(e))
  BY <1>2, <1>4 DEF Alone, SameMemory, ListOk, Owns, Bounds, Listed, Address
<1>6. SUFFICES ASSUME e.hw.clean PROVE Calm(e)
  BY <1>5 DEF Alone
<1>7. d.hw.clean /\ Calm(d)
  BY <1>2, <1>4, <1>6 DEF Alone
<1>8. /\ AtIntr(e) <=> AtIntr(d)
      /\ AtTimer(e) <=> AtTimer(d)
      /\ AtEnd0(e) => AtList(d)
  BY <1>2, <1>7 DEF SameBus, SameWires, AtIntr, AtTimer
<1>9. One(d)
  BY <1>7 DEF Calm
<1>10. One(e)
  BY <1>2, <1>8, <1>9 DEF One
<1>11. Coming(e) => Coming(d)
  BY <1>2, <1>8 DEF Coming
<1>12. \A b \in Devices : Configures(e, b) => b \in Listed(e)
  BY <1>2, <1>7 DEF Calm, SameMemory, Listed
<1>13. Enumerates(e) => Staged(e, e.timer)
  BY <1>2, <1>7 DEF Calm, Staged, SameMemory, SameBus
<1> QED
  BY <1>2, <1>7, <1>10, <1>11, <1>12, <1>13 DEF Calm, SameWires

\* The rest of a driver's state, when the enumerator's data change.
SameButEnum(d, e) ==
  /\ SameBus(d, e) /\ SameMemory(d, e)
  /\ e.hw = d.hw /\ e.ep0 = d.ep0 /\ e.queue = d.queue /\ e.wild = d.wild

LEMMA EnumSound ==
  ASSUME NEW d, NEW e, Sound(d), Shape(e), SameButEnum(d, e), EnumOk(e.enum),
         Enumerates(d) => e.enum.pDevice # NoDevice
  PROVE  Sound(e)
<1>1. FifoOk(e)
  BY DEF Sound, FifoOk, SameBus, SameMemory, SameButEnum
<1>2. Enumerates(e) <=> Enumerates(d)
  BY DEF SameBus, SameButEnum, Enumerates
<1> QED
  BY <1>1, <1>2 DEF Sound, Hosts, SameBus, SameMemory, SameButEnum

LEMMA StateIs ==
  ASSUME NEW d, Shape(d), NEW v, NEW e, e = [d EXCEPT !.enum.bState = v]
  PROVE  /\ Shape(e) /\ SameButEnum(d, e) /\ e.enum = [d.enum EXCEPT !.bState = v]
         /\ e.enum.bState = v /\ e.enum.pDevice = d.enum.pDevice
         /\ e.enum.bAddress = d.enum.bAddress /\ e.enum.bIndex = d.enum.bIndex
         /\ e.enum.bRetries = d.enum.bRetries /\ e.enum.bFatalRetries = d.enum.bFatalRetries
         /\ e.enum.outcome = d.enum.outcome
<1>1. SameButEnum(d, e) /\ DOMAIN e = DOMAIN d /\ e.enum = [d.enum EXCEPT !.bState = v]
  BY DEF Shape, SameBus, SameMemory, SameButEnum
<1>2. Shape(e)
  BY <1>1 DEF Shape, SameBus, SameMemory, SameButEnum
<1> QED
  BY <1>1, <1>2 DEF Shape, EnumFields

LEMMA OutcomeIs ==
  ASSUME NEW d, Shape(d), NEW v, NEW e, e = [d EXCEPT !.enum.outcome = v]
  PROVE  /\ Shape(e) /\ SameButEnum(d, e) /\ e.enum = [d.enum EXCEPT !.outcome = v]
         /\ e.enum.bState = d.enum.bState /\ e.enum.pDevice = d.enum.pDevice
         /\ e.enum.bAddress = d.enum.bAddress /\ e.enum.bIndex = d.enum.bIndex
         /\ e.enum.bRetries = d.enum.bRetries /\ e.enum.bFatalRetries = d.enum.bFatalRetries
         /\ e.enum.outcome = v
<1>1. SameButEnum(d, e) /\ DOMAIN e = DOMAIN d /\ e.enum = [d.enum EXCEPT !.outcome = v]
  BY DEF Shape, SameBus, SameMemory, SameButEnum
<1>2. Shape(e)
  BY <1>1 DEF Shape, SameBus, SameMemory, SameButEnum
<1> QED
  BY <1>1, <1>2 DEF Shape, EnumFields

LEMMA SendSound ==
  ASSUME NEW d, Sound(d), d.enum.pDevice # NoDevice
  PROVE  /\ \A state \in EnumStates : Sound(SendRequest(d, state))
         /\ Sound(GetConfig(d)) /\ Sound(GetShortDescriptor(d)) /\ Sound(GetFullDescriptor(d))
         /\ Sound(SetDeviceAddress(d))
<1>0. EnumIrp \in Irps
  BY DEF Irps
<1>1. ASSUME NEW c, Sound(c), c.enum.pDevice # NoDevice, NEW state \in EnumStates
      PROVE  Sound(SendRequest(c, state))
  <2> DEFINE s == [c EXCEPT !.enum.bState = state]
  <2>1. /\ Shape(s) /\ SameButEnum(c, s)
        /\ s.enum.bState = state /\ s.enum.pDevice = c.enum.pDevice
        /\ s.enum.bAddress = c.enum.bAddress /\ s.enum.bIndex = c.enum.bIndex
        /\ s.enum.bRetries = c.enum.bRetries /\ s.enum.bFatalRetries = c.enum.bFatalRetries
        /\ s.enum.outcome = c.enum.outcome
    <3>1. Shape(c)  BY <1>1 DEF Sound
    <3>2. s = [c EXCEPT !.enum.bState = state]  OBVIOUS
    <3> HIDE DEF s
    <3> QED  BY <3>1, <3>2, StateIs
  <2> HIDE DEF s
  <2>2. EnumOk(s.enum)
    BY <1>1, <2>1 DEF Sound, EnumOk
  <2>3. Sound(s) /\ s.enum.pDevice # NoDevice
    BY <1>1, <2>1, <2>2, EnumSound
  <2>4. Sound(StartControlTransfer(s, EnumIrp))
    BY <1>0, <2>3, StartSound
  <2> QED
    BY <2>4 DEF SendRequest, s
<1>2. Sound(GetConfig(d))
  BY <1>0, StartSound DEF GetConfig
<1>3. Sound(GetShortDescriptor(d)) /\ Sound(GetFullDescriptor(d))
  BY <1>1 DEF GetShortDescriptor, GetFullDescriptor, EnumStates
<1>4. Sound(SetDeviceAddress(d))
  <2> DEFINE p == ProgramBusState(d)
  <2>1. BusMoves(d, p)
    BY ProgramIs DEF Sound
  <2> HIDE DEF p
  <2>2. Sound(p) /\ p.enum.pDevice # NoDevice
    BY <2>1, BusSound DEF BusMoves, Outside
  <2>3. Sound(SendRequest(p, "SetAddress"))
    BY <2>2, <1>1 DEF EnumStates
  <2> QED
    BY <2>3 DEF SetDeviceAddress, p
<1> QED
  BY <1>1, <1>2, <1>3, <1>4

\* The enumerator's data change while the newcomer is in hand; with an outcome it is no more.
LEMMA EnumFine ==
  ASSUME NEW d, Fine(d, TRUE), NEW e, Sound(e), SameButEnum(d, e), Surprises \/ Bounds(e)
  PROVE  Fine(e, FALSE) /\ (e.enum.outcome = d.enum.outcome => Fine(e, TRUE))
<1>1. SUFFICES ASSUME ~Surprises
               PROVE  Alone(e, FALSE) /\ (e.enum.outcome = d.enum.outcome => Alone(e, TRUE))
  BY DEF Fine
<1>2. Alone(d, TRUE) /\ Bounds(e)
  BY <1>1 DEF Fine
<1>3. ListOk(e) /\ ~Enumerates(e)
  BY <1>2 DEF Alone, SameButEnum, SameBus, SameMemory, ListOk, Listed, Address, Enumerates
<1>4. SUFFICES ASSUME e.hw.clean
               PROVE  Calm(e) /\ (e.enum.outcome = d.enum.outcome => Hand(e))
  BY <1>2, <1>3 DEF Alone
<1>5. d.hw.clean /\ Calm(d) /\ Hand(d)
  BY <1>2, <1>4 DEF Alone, SameButEnum
<1>6. ~Coming(e)
  BY <1>5 DEF Hand, SameButEnum, SameBus, Coming, AtIntr, AtItem, AtTimer, AtEnd0, AtList
<1>7. One(e)
  BY <1>5, <1>6 DEF Calm, One, Coming, SameButEnum
<1>8. /\ Leaves(e) => ~e.hw.joined
      /\ \A b \in Devices : Configures(e, b) => b \in Listed(e)
  BY <1>5 DEF Calm, Leaves, Configures, Listed, SameButEnum, SameMemory
<1> QED
  BY <1>3, <1>5, <1>6, <1>7, <1>8 DEF Calm, Hand, SameButEnum

LEMMA WorksOn ==
  ASSUME NEW d, NEW t, Works(d, t), NEW e, e.enum = d.enum, SameMemory(d, e),
         e.hw.clean => d.hw.clean
  PROVE  Works(e, t)
<1>1. Owns(d) => Owns(e)
  BY SameOwners
<1>2. Staged(d, t) => Staged(e, t)
  BY DEF SameMemory, Staged
<1> QED
  BY <1>1, <1>2 DEF Works

\* The requests of the enumerator.
Asks(c, state, s) ==
  /\ s.device = c.device /\ s.connected = c.connected /\ s.abmAddress = c.abmAddress
  /\ s.hw.clean = c.hw.clean
  /\ s.enum.bState = state /\ s.enum.pDevice = c.enum.pDevice
  /\ s.enum.bAddress = c.enum.bAddress /\ s.enum.bIndex = c.enum.bIndex
  /\ s.enum.bRetries = c.enum.bRetries /\ s.enum.bFatalRetries = c.enum.bFatalRetries

LEMMA AsksOwns ==
  ASSUME NEW c, NEW state, NEW s, Asks(c, state, s), c.enum.pDevice # NoDevice,
         Surprises \/ (Owns(c) /\ (c.hw.clean => Staged(s, "none")))
  PROVE  Works(s, "none")
<1>1. /\ SameMemory(c, s) /\ s.enum.pDevice = c.enum.pDevice /\ s.enum.bAddress = c.enum.bAddress
      /\ s.hw.clean = c.hw.clean
  BY DEF Asks, SameMemory
<1>2. Owns(c) => Owns(s)
  BY <1>1, SameOwners
<1> QED
  BY <1>1, <1>2 DEF Works

LEMMA SendFine ==
  ASSUME NEW d, Fine(d, TRUE)
  PROVE  /\ Works(d, "none") \/ Works(d, "GetConfig") => Fine(GetConfig(d), FALSE)
         /\ Works(d, "GetShortDescriptor") => Fine(GetShortDescriptor(d), FALSE)
         /\ Works(d, "GetFullDescriptor") => Fine(GetFullDescriptor(d), FALSE)
         /\ Works(d, "SetDeviceAddress") => Fine(SetDeviceAddress(d), FALSE)
<1>0. EnumIrp \in Newcomers /\ \A b : EnumIrp # ConfigIrp(b)
  BY DEF Newcomers, Irps, EnumIrp, HnpIrp, ConfigIrp
<1>1. ASSUME NEW c, Fine(c, TRUE), NEW state \in EnumStates, c.enum.pDevice # NoDevice,
             \A s : Asks(c, state, s) => Works(s, "none")
      PROVE  Fine(SendRequest(c, state), FALSE)
  <2> DEFINE s == [c EXCEPT !.enum.bState = state]
  <2>1. /\ Shape(s) /\ SameButEnum(c, s)
        /\ s.enum.bState = state /\ s.enum.pDevice = c.enum.pDevice
        /\ s.enum.bAddress = c.enum.bAddress /\ s.enum.bIndex = c.enum.bIndex
        /\ s.enum.bRetries = c.enum.bRetries /\ s.enum.bFatalRetries = c.enum.bFatalRetries
        /\ s.enum.outcome = c.enum.outcome
    <3>1. Shape(c)  BY <1>1 DEF Fine, Sound
    <3>2. s = [c EXCEPT !.enum.bState = state]  OBVIOUS
    <3> HIDE DEF s
    <3> QED  BY <3>1, <3>2, StateIs
  <2> HIDE DEF s
  <2>2. Sound(c)
    BY <1>1 DEF Fine
  <2>3. EnumOk(s.enum)
    BY <1>1, <2>1, <2>2 DEF Sound, EnumOk
  <2>4. Sound(s)
    BY <1>1, <2>1, <2>2, <2>3, EnumSound
  <2>5. Surprises \/ Bounds(s)
    BY <1>1, <2>1 DEF Fine, Alone, Bounds
  <2>6. Fine(s, TRUE)
    BY <1>1, <2>1, <2>4, <2>5, EnumFine
  <2>7. Works(s, "none")
    BY <1>1, <2>1 DEF SameButEnum, SameMemory, Asks
  <2>8. Fine(StartControlTransfer(s, EnumIrp), FALSE)
    BY <1>0, <2>6, <2>7, StartFine
  <2> QED
    BY <2>8 DEF SendRequest, s
<1>2. ASSUME Works(d, "none") \/ Works(d, "GetConfig") PROVE Fine(GetConfig(d), FALSE)
  <2>1. Works(d, "none")
    BY <1>2 DEF Works, Staged
  <2> QED
    BY <1>0, <2>1, StartFine DEF GetConfig
<1>3. ASSUME Works(d, "GetShortDescriptor") PROVE Fine(GetShortDescriptor(d), FALSE)
  <2>1. "GetMinDevice" \in EnumStates  BY DEF EnumStates
  <2>3. ASSUME NEW s, Asks(d, "GetMinDevice", s) PROVE Works(s, "none")
    <3>1. d.enum.pDevice # NoDevice /\ (Surprises \/ Owns(d))
      BY <1>3 DEF Works
    <3>2. Surprises \/ (d.hw.clean => Staged(s, "none"))
      BY <1>3, <2>3 DEF Works, Asks, Staged
    <3> QED
      BY <2>3, <3>1, <3>2, AsksOwns
  <2>2. Fine(SendRequest(d, "GetMinDevice"), FALSE)
    BY <1>1, <2>1, <2>3, <1>3 DEF Works
  <2> QED
    BY <2>2 DEF GetShortDescriptor
<1>4. ASSUME Works(d, "GetFullDescriptor") PROVE Fine(GetFullDescriptor(d), FALSE)
  <2>1. "GetFullDevice" \in EnumStates  BY DEF EnumStates
  <2>3. ASSUME NEW s, Asks(d, "GetFullDevice", s) PROVE Works(s, "none")
    <3>1. d.enum.pDevice # NoDevice /\ (Surprises \/ Owns(d))
      BY <1>4 DEF Works
    <3>2. Surprises \/ (d.hw.clean => Staged(s, "none"))
      BY <1>4, <2>3 DEF Works, Asks, Staged
    <3> QED
      BY <2>3, <3>1, <3>2, AsksOwns
  <2>2. Fine(SendRequest(d, "GetFullDevice"), FALSE)
    BY <1>1, <2>1, <2>3, <1>4 DEF Works
  <2> QED
    BY <2>2 DEF GetFullDescriptor
<1>5. ASSUME Works(d, "SetDeviceAddress") PROVE Fine(SetDeviceAddress(d), FALSE)
  <2> DEFINE p == ProgramBusState(d)
  <2>1. BusMoves(d, p) /\ p.timer = d.timer
    BY ProgramIs DEF Sound, Fine
  <2> HIDE DEF p
  <2>3. Fine(p, TRUE)
    BY <2>1, BusFine
  <2>4. Works(p, "SetDeviceAddress")
    BY <1>5, <2>1, WorksOn DEF BusMoves, Outside, Wires, SameMemory
  <2>5. "SetAddress" \in EnumStates  BY DEF EnumStates
  <2>7. ASSUME NEW s, Asks(p, "SetAddress", s) PROVE Works(s, "none")
    <3>1. p.enum.pDevice # NoDevice /\ (Surprises \/ Owns(p))
      BY <2>4 DEF Works
    <3>2. Surprises \/ (p.hw.clean => Staged(s, "none"))
      BY <2>4, <2>7 DEF Works, Asks, Staged
    <3> QED
      BY <2>7, <3>1, <3>2, AsksOwns
  <2>6. Fine(SendRequest(p, "SetAddress"), FALSE)
    BY <1>1, <2>3, <2>4, <2>5, <2>7 DEF Works
  <2> QED
    BY <2>6 DEF SetDeviceAddress, p
<1> QED
  BY <1>2, <1>3, <1>4, <1>5

LEMMA MinIn ==
  ASSUME NEW S, S \subseteq Nat, S # {}
  PROVE  Min(S) \in S
<1>1. PICK m \in S : \A k \in S : ~(<<k, m>> \in OpToRel(<, Nat))
  BY NatLessThanWellFounded, WFMin, Zenon
<1>2. \A k \in S : m <= k
  <2> SUFFICES ASSUME NEW k \in S, ~(m <= k) PROVE FALSE
    OBVIOUS
  <2>1. <<k, m>> \in OpToRel(<, Nat)
    BY DEF OpToRel
  <2> QED
    BY <1>1, <2>1, Zenon
<1> QED
  BY <1>2 DEF Min

NewBlock == [used |-> TRUE, pPrivateData |-> TRUE, bBusAddress |-> 0, msd |-> FALSE,
             kind |-> "none"]
Free(d) == {b \in Devices : ~d.device[b].used}

\* MGC_EnumerateDevice, as far as the first request.
Allocated1(d, s) ==
  /\ Shape(s) /\ SameBus(d, s) /\ s.hw = d.hw /\ s.ep0 = d.ep0 /\ s.queue = d.queue
  /\ s.wild = d.wild /\ s.connected = d.connected /\ s.abmAddress = d.abmAddress
  /\ s.enum.pDevice \in Free(d)
  /\ s.device[s.enum.pDevice] = NewBlock
  /\ \A c \in Devices : c # s.enum.pDevice => s.device[c] = d.device[c]
  /\ s.enum.bAddress = 0 /\ s.enum.bRetries = 0 /\ s.enum.bFatalRetries = 0
  /\ s.enum.outcome = "none"
  /\ s.enum.bState = d.enum.bState /\ s.enum.bIndex = d.enum.bIndex

LEMMA EnumerateIs ==
  ASSUME NEW d, Shape(d), NEW e, e = EnumerateDevice(d)
  PROVE  \/ Free(d) = {} /\ e = [d EXCEPT !.enum.outcome = "no block"]
         \/ \E s : Allocated1(d, s) /\ e = After(s, "GetShortDescriptor", GetShortDescriptor(s))
<1> SUFFICES ASSUME Free(d) # {}
             PROVE  \E s : /\ Allocated1(d, s)
                           /\ e = After(s, "GetShortDescriptor", GetShortDescriptor(s))
  BY Zenon DEF EnumerateDevice, Free
<1> DEFINE b == Min(Free(d))
           s == [d EXCEPT !.device[b] = NewBlock,
                          !.enum.pDevice = b, !.enum.bAddress = 0, !.enum.bRetries = 0,
                          !.enum.bFatalRetries = 0, !.enum.outcome = "none"]
<1>1. e = After(s, "GetShortDescriptor", GetShortDescriptor(s))
  BY Zenon DEF EnumerateDevice, Free, NewBlock
<1>2. b \in Free(d) /\ b \in Devices
  <2>1. Free(d) \subseteq Nat
    BY HostAssumption DEF Free
  <2> QED
    BY <2>1, MinIn DEF Free
<1> HIDE DEF b
<1>3. /\ SameBus(d, s) /\ s.hw = d.hw /\ s.ep0 = d.ep0 /\ s.queue = d.queue
      /\ s.wild = d.wild /\ s.connected = d.connected /\ s.abmAddress = d.abmAddress
      /\ DOMAIN s = DOMAIN d
  BY DEF SameBus, Shape
<1>4. s.device = [d.device EXCEPT ![b] = NewBlock]
  BY DEF Shape
<1>5. s.enum = [d.enum EXCEPT !.pDevice = b, !.bAddress = 0, !.bRetries = 0,
                              !.bFatalRetries = 0, !.outcome = "none"]
  BY DEF Shape
<1> HIDE DEF s
<1>6. s.device[b] = NewBlock /\ \A c \in Devices : c # b => s.device[c] = d.device[c]
  BY <1>2, <1>4 DEF Shape
<1>7. /\ s.enum.pDevice = b /\ s.enum.bAddress = 0 /\ s.enum.bRetries = 0
      /\ s.enum.bFatalRetries = 0 /\ s.enum.outcome = "none" /\ s.enum.bState = d.enum.bState
      /\ s.enum.bIndex = d.enum.bIndex
  BY <1>5 DEF Shape, EnumFields
<1>8. Shape(s)
  <2>1. \A c \in Devices : BlockFields \subseteq DOMAIN s.device[c]
    BY <1>6 DEF Shape, BlockFields, NewBlock
  <2>2. Devices \subseteq DOMAIN s.device /\ EnumFields \subseteq DOMAIN s.enum
    BY <1>4, <1>5 DEF Shape
  <2> QED
    BY <1>3, <2>1, <2>2 DEF Shape, SameBus
<1> QED
  BY <1>1, <1>2, <1>3, <1>6, <1>7, <1>8 DEF Allocated1

LEMMA AllocatedSound ==
  ASSUME NEW d, Sound(d), NEW s, Allocated1(d, s)
  PROVE  Sound(s)
<1>1. s.enum.pDevice \in Devices /\ s.enum.pDevice # NoDevice
  BY HostAssumption DEF Allocated1, Free, NoDevice
<1>2. EnumOk(s.enum)
  <2>1. /\ s.enum.bAddress = 0 /\ s.enum.bRetries = 0 /\ s.enum.bFatalRetries = 0
        /\ s.enum.outcome = "none"
        /\ s.enum.bState = d.enum.bState /\ s.enum.bIndex = d.enum.bIndex
    BY DEF Allocated1
  <2>2. EnumOk(d.enum)  BY DEF Sound
  <2>3. d.enum.bState \in EnumStates /\ d.enum.bIndex \in Nat
    BY <2>2 DEF EnumOk
  <2> QED
    BY <1>1, <2>1, <2>3 DEF EnumOk, Outcomes
<1>3. BlocksOk(s.device)
  BY <1>1 DEF Sound, BlocksOk, Allocated1, NewBlock, KindsOrNone
<1>4. FifoOk(s)
  <2>1. \A b \in Devices : s.device[b].msd => d.device[b].msd
    BY <1>1 DEF Allocated1, NewBlock
  <2> QED
    BY <2>1 DEF Sound, FifoOk, SameBus, Allocated1
<1> QED
  BY <1>1, <1>2, <1>3, <1>4 DEF Sound, Hosts, SameBus, Allocated1

LEMMA EnumerateSound ==
  ASSUME NEW d, Sound(d)
  PROVE  Sound(EnumerateDevice(d))
<1> DEFINE e == EnumerateDevice(d)
<1>1. Shape(d)
  BY DEF Sound
<1>2. CASE Free(d) = {} /\ e = [d EXCEPT !.enum.outcome = "no block"]
  <2> DEFINE v == "no block"
             n == [d EXCEPT !.enum.outcome = v]
  <2> HIDE DEF v
  <2>1. /\ Shape(n) /\ SameButEnum(d, n)
        /\ n.enum.bState = d.enum.bState /\ n.enum.pDevice = d.enum.pDevice
        /\ n.enum.bAddress = d.enum.bAddress /\ n.enum.bIndex = d.enum.bIndex
        /\ n.enum.bRetries = d.enum.bRetries /\ n.enum.bFatalRetries = d.enum.bFatalRetries
        /\ n.enum.outcome = v
    BY <1>1, OutcomeIs
  <2>2. e = n
    BY <1>2, Zenon DEF v
  <2> HIDE DEF e, n
  <2>3. EnumOk(n.enum) /\ (Enumerates(d) => n.enum.pDevice # NoDevice)
    BY <2>1, Zenon DEF Sound, EnumOk, Outcomes, v
  <2>4. Sound(n)
    BY <2>1, <2>3, EnumSound
  <2> QED
    BY <2>2, <2>4 DEF e
<1>3. ASSUME NEW s, Allocated1(d, s), e = After(s, "GetShortDescriptor", GetShortDescriptor(s))
      PROVE  Sound(e)
  <2>1. s.enum.pDevice \in Devices /\ s.enum.pDevice # NoDevice
    BY <1>3, HostAssumption DEF Allocated1, Free, NoDevice
  <2>5. Sound(s)
    BY <1>3, AllocatedSound
  <2>6. Sound(GetShortDescriptor(s))
    BY <2>1, <2>5, SendSound
  <2>7. "GetShortDescriptor" \in Timers
    BY DEF Timers
  <2> QED
    BY <1>3, <2>1, <2>5, <2>6, <2>7, AfterSound
<1> QED
  BY <1>1, <1>2, <1>3, EnumerateIs, Zenon

LEMMA EnumerateFine ==
  ASSUME NEW d, Fine(d, TRUE)
  PROVE  Fine(EnumerateDevice(d), FALSE)
<1> DEFINE e == EnumerateDevice(d)
<1>1. Shape(d) /\ Sound(d) /\ Sound(e)
  BY EnumerateSound DEF Fine, Sound
<1>2. CASE Free(d) = {} /\ e = [d EXCEPT !.enum.outcome = "no block"]
  <2> DEFINE v == "no block"
             n == [d EXCEPT !.enum.outcome = v]
  <2> HIDE DEF v
  <2>1. /\ Shape(n) /\ SameButEnum(d, n)
        /\ n.enum.bState = d.enum.bState /\ n.enum.pDevice = d.enum.pDevice
        /\ n.enum.bAddress = d.enum.bAddress /\ n.enum.bIndex = d.enum.bIndex
        /\ n.enum.bRetries = d.enum.bRetries /\ n.enum.bFatalRetries = d.enum.bFatalRetries
        /\ n.enum.outcome = v
    BY <1>1, OutcomeIs
  <2>2. e = n
    BY <1>2, Zenon DEF v
  <2> HIDE DEF e, n
  <2>3. Surprises \/ Bounds(n)
    BY <2>1 DEF Fine, Alone, Bounds
  <2>4. Fine(n, FALSE)
    BY <1>1, <2>1, <2>2, <2>3, EnumFine
  <2> QED
    BY <2>2, <2>4 DEF e
<1>3. ASSUME NEW s, Allocated1(d, s), e = After(s, "GetShortDescriptor", GetShortDescriptor(s)),
             Sound(s)
      PROVE  Fine(e, FALSE)
  <2> HIDE DEF e
  <2> DEFINE b == s.enum.pDevice
  <2>1. /\ b \in Devices /\ b # NoDevice /\ ~d.device[b].used
        /\ s.device[b] = NewBlock /\ \A c \in Devices : c # b => s.device[c] = d.device[c]
        /\ s.connected = d.connected /\ s.abmAddress = d.abmAddress
    BY <1>3, HostAssumption DEF Allocated1, Free, NoDevice
  <2>2. /\ s.enum.bAddress = 0 /\ s.enum.bRetries = 0 /\ s.enum.bFatalRetries = 0
        /\ s.enum.outcome = "none" /\ s.enum.bIndex = d.enum.bIndex
    BY <1>3 DEF Allocated1
  <2>3. /\ SameBus(d, s) /\ s.hw = d.hw /\ s.ep0 = d.ep0 /\ s.queue = d.queue
    BY <1>3 DEF Allocated1
  <2>4. s.device[b].used /\ s.device[b].pPrivateData /\ s.device[b].bBusAddress = 0
    BY <2>1 DEF NewBlock
  <2> HIDE DEF b
  <2>5. Listed(s) = Listed(d) /\ Listed(d) \subseteq Devices
    <3>1. d.connected \in Seq(Devices)  BY <1>1 DEF Sound
    <3> QED  BY <2>1, <3>1 DEF Listed
  <2>6. ASSUME ~Surprises
        PROVE  Alone(s, TRUE) /\ Owns(s) /\ Staged(s, "GetShortDescriptor")
    <3>1. Alone(d, TRUE)
      BY <2>6 DEF Fine
    <3>2. b \notin Listed(d) /\ \A c \in Listed(d) : s.device[c] = d.device[c]
      BY <2>1, <2>5, <3>1 DEF Alone, ListOk
    <3>3. ListOk(s)
      BY <2>1, <2>5, <3>1, <3>2 DEF Alone, ListOk, Address
    <3>4. 0 <= MaxEnumRetries + 1 /\ 0 <= MaxEnumRetries
      BY HostAssumption
    <3>5. Bounds(s)
      BY <2>2, <3>1, <3>4 DEF Alone, Bounds
    <3>6. Owns(s)
      BY <2>2, <2>4, <2>5, <3>2 DEF Owns, Address, b
    <3>7. Staged(s, "GetShortDescriptor")
      BY <2>2, <2>4, <3>4 DEF Staged, b
    <3>8. ~Enumerates(s)
      BY <2>3, <3>1 DEF Alone, Enumerates, SameBus
    <3>9. ASSUME s.hw.clean PROVE Calm(s) /\ Hand(s)
      <4>1. Calm(d) /\ Hand(d)
        BY <2>3, <3>1, <3>9 DEF Alone
      <4>2. ~Coming(s)
        BY <2>3, <4>1 DEF Hand, SameBus, Coming, AtIntr, AtItem, AtTimer, AtEnd0, AtList
      <4>3. One(s)
        BY <2>3, <4>1, <4>2 DEF Calm, One, Coming
      <4>4. /\ Leaves(s) => ~s.hw.joined
            /\ \A c \in Devices : Configures(s, c) => c \in Listed(s)
        BY <2>3, <2>5, <4>1 DEF Calm, Leaves, Configures
      <4> QED
        BY <2>2, <2>3, <3>8, <4>1, <4>2, <4>3, <4>4 DEF Calm, Hand
    <3> QED
      BY <3>3, <3>5, <3>6, <3>7, <3>8, <3>9 DEF Alone
  <2>7. Fine(s, TRUE) /\ Works(s, "GetShortDescriptor")
    BY <1>3, <2>1, <2>6 DEF Fine, Works, b
  <2>8. Fine(GetShortDescriptor(s), FALSE)
    BY <2>7, SendFine
  <2>9. "GetShortDescriptor" \in EnumTimers
    BY DEF EnumTimers
  <2> QED
    BY <1>3, <2>7, <2>8, <2>9, WaitsFine
<1>4. \A s : Allocated1(d, s) => Sound(s)
  BY <1>1, AllocatedSound
<1> QED
  BY <1>1, <1>2, <1>3, <1>4, EnumerateIs, Zenon

-----------------------------------------------------------------------------
(* The OTG state machine *)

\* The rest of a driver's state, when the port's changes.
SameButPort(d, e) ==
  /\ Outside(d, e) /\ e.hw = d.hw /\ e.bulk = d.bulk /\ e.timer = d.timer

LEMMA PortSound ==
  ASSUME NEW d, NEW e, Sound(d), Shape(e), SameButPort(d, e), PortOk(e.port),
         d.port.bIsHost => e.port.bIsHost
  PROVE  Sound(e)
<1>1. FifoOk(e) /\ (Enumerates(e) <=> Enumerates(d))
  BY DEF Sound, SameButPort, Outside, FifoOk, Enumerates
<1>2. Hosts(e)
  BY DEF Sound, Hosts, SameButPort, Outside
<1> QED
  BY <1>1, <1>2 DEF Sound, SameButPort, Outside

\* The state is entered.
Enters(d, o, e) ==
  /\ Shape(e) /\ SameButPort(d, e) /\ e.port.bOtgState = o
  /\ e.port.bWantSession = d.port.bWantSession /\ e.port.bWantSuspend = d.port.bWantSuspend
  /\ e.port.bWantReset = d.port.bWantReset /\ e.port.bIsHost = d.port.bIsHost
  /\ e.port.bConnectorId = d.port.bConnectorId /\ e.port.bIsSuspend = d.port.bIsSuspend
  /\ e.port.bIsReset = d.port.bIsReset /\ e.port.bRelinquish = d.port.bRelinquish
  /\ e.port.pRootDevice = d.port.pRootDevice
  /\ e.port.bVbusErrorRetries = d.port.bVbusErrorRetries
  /\ e.port.bBabbleRetries = d.port.bBabbleRetries

LEMMA EnterIs ==
  ASSUME NEW d, Shape(d), NEW o
  PROVE  Enters(d, o, Enter(d, o))
<1> DEFINE e == Enter(d, o)
<1>1. SameButPort(d, e) /\ DOMAIN e = DOMAIN d /\ e.port = [d.port EXCEPT !.bOtgState = o]
  BY DEF Shape, Outside, SameButPort, Enter
<1> HIDE DEF e
<1>2. Shape(e)
  BY <1>1 DEF Shape, Outside, SameButPort
<1>3. Enters(d, o, e)
  BY <1>1, <1>2 DEF Shape, PortFields, Enters
<1> QED
  BY <1>3 DEF e

LEMMA EnterSound ==
  ASSUME NEW d, Sound(d), NEW o \in OtgStates
  PROVE  Sound(Enter(d, o))
<1> DEFINE e == Enter(d, o)
<1>1. Shape(d) /\ PortOk(d.port)
  BY DEF Sound
<1>2. Enters(d, o, e)
  BY <1>1, EnterIs
<1> HIDE DEF e
<1>3. PortOk(e.port)
  BY <1>1, <1>2 DEF PortOk, Enters
<1>4. Sound(e)
  BY <1>2, <1>3, PortSound DEF Enters
<1> QED
  BY <1>4 DEF e

LEMMA PortFine ==
  ASSUME NEW d, NEW h \in BOOLEAN, Fine(d, h), NEW e, Sound(e), SameButPort(d, e)
  PROVE  Fine(e, h)
<1>1. Aside(d, e)
  BY DEF SameButPort, Outside, Aside, SameMemory
<1> QED
  BY <1>1, AsideFine

LEMMA EnterFine ==
  ASSUME NEW d, NEW h \in BOOLEAN, Fine(d, h), NEW o \in OtgStates
  PROVE  Fine(Enter(d, o), h)
<1>1. Sound(d)
  BY DEF Fine
<1>2. Enters(d, o, Enter(d, o))
  BY <1>1, EnterIs DEF Sound
<1>3. Sound(Enter(d, o))
  BY <1>1, EnterSound
<1> QED
  BY <1>2, <1>3, PortFine DEF Enters

\* A device joins the bus, which its driver sees as CONNECT.
Joins(d, e) ==
  /\ d.hw.session /\ ~d.hw.joined /\ ~d.hw.remote
  /\ Shape(e) /\ SameBus(d, e) /\ SameMemory(d, e)
  /\ e.ep0 = d.ep0 /\ e.queue = d.queue /\ e.wild = d.wild
  /\ e.enum.bState = d.enum.bState /\ e.enum.pDevice = d.enum.pDevice
  /\ e.enum.bAddress = d.enum.bAddress /\ e.enum.bIndex = d.enum.bIndex
  /\ e.enum.bRetries = d.enum.bRetries /\ e.enum.bFatalRetries = d.enum.bFatalRetries
  /\ e.enum.outcome = "none"
  /\ e.hw.joined = TRUE /\ e.hw.intr = d.hw.intr \cup {"CONNECT"}
  /\ e.hw.clean = (d.hw.clean /\ ~Unseen(d))
  /\ e.hw.kind = d.hw.kind /\ e.hw.session = d.hw.session /\ e.hw.remote = d.hw.remote
  /\ e.hw.suspendm = d.hw.suspendm /\ e.hw.reset = d.hw.reset /\ e.hw.wire = d.hw.wire
  /\ e.hw.blocks = d.hw.blocks /\ e.hw.plugged = d.hw.plugged

LEMMA JoinedIs ==
  ASSUME NEW d, Shape(d)
  PROVE  Joined(d) = d \/ Joins(d, Joined(d))
<1> DEFINE u == Unseen(d)
           e == Joined(d)
<1> SUFFICES ASSUME e # d PROVE Joins(d, e)
  OBVIOUS
<1>1. /\ d.hw.session /\ ~d.hw.joined /\ ~d.hw.remote
      /\ e = [d EXCEPT !.hw.joined = TRUE, !.hw.intr = @ \cup {"CONNECT"},
                       !.hw.clean = @ /\ ~u, !.enum.outcome = "none"]
  BY DEF Joined
<1> HIDE DEF u, e
<1>2. /\ SameBus(d, e) /\ SameMemory(d, e) /\ e.ep0 = d.ep0 /\ e.queue = d.queue
      /\ e.wild = d.wild /\ DOMAIN e = DOMAIN d
  BY <1>1 DEF Shape, SameBus, SameMemory
<1>3. e.hw = [d.hw EXCEPT !.joined = TRUE, !.intr = @ \cup {"CONNECT"}, !.clean = @ /\ ~u]
  BY <1>1 DEF Shape
<1>4. e.enum = [d.enum EXCEPT !.outcome = "none"]
  BY <1>1 DEF Shape
<1>5. Shape(e)
  BY <1>2, <1>3, <1>4 DEF Shape, SameBus, SameMemory
<1>6. /\ e.enum.bState = d.enum.bState /\ e.enum.pDevice = d.enum.pDevice
      /\ e.enum.bAddress = d.enum.bAddress /\ e.enum.bIndex = d.enum.bIndex
      /\ e.enum.bRetries = d.enum.bRetries /\ e.enum.bFatalRetries = d.enum.bFatalRetries
      /\ e.enum.outcome = "none"
  BY <1>4 DEF Shape, EnumFields
<1>7. /\ e.hw.joined = TRUE /\ e.hw.intr = d.hw.intr \cup {"CONNECT"}
      /\ e.hw.clean = (d.hw.clean /\ ~u)
      /\ e.hw.kind = d.hw.kind /\ e.hw.session = d.hw.session /\ e.hw.remote = d.hw.remote
      /\ e.hw.suspendm = d.hw.suspendm /\ e.hw.reset = d.hw.reset /\ e.hw.wire = d.hw.wire
      /\ e.hw.blocks = d.hw.blocks /\ e.hw.plugged = d.hw.plugged
  BY <1>3 DEF Shape, BusFields
<1> QED
  BY <1>1, <1>2, <1>5, <1>6, <1>7 DEF u, Joins

LEMMA JoinedSound ==
  ASSUME NEW d, Sound(d)
  PROVE  Sound(Joined(d))
<1> DEFINE e == Joined(d)
<1>1. SUFFICES ASSUME Joins(d, e) PROVE Sound(e)
  BY JoinedIs DEF Sound
<1> HIDE DEF e
<1>2. EnumOk(e.enum)
  BY <1>1, Zenon DEF Sound, EnumOk, Outcomes, Joins
<1>3. BusOk(e.hw)
  BY <1>1 DEF Sound, BusOk, Joins
<1>4. FifoOk(e) /\ (Enumerates(e) <=> Enumerates(d))
  BY <1>1 DEF Sound, FifoOk, Enumerates, SameBus, SameMemory, Joins
<1>5. Hosts(e)
  BY <1>1 DEF Sound, Hosts, Joins, SameBus
<1> QED
  BY <1>1, <1>2, <1>3, <1>4, <1>5 DEF Sound, SameBus, SameMemory, Joins

LEMMA JoinedFine ==
  ASSUME NEW d, Fine(d, FALSE)
  PROVE  Fine(Joined(d), FALSE)
<1> DEFINE e == Joined(d)
<1>1. Sound(e) /\ Sound(d)
  BY JoinedSound DEF Fine
<1>2. SUFFICES ASSUME Joins(d, e) PROVE Fine(e, FALSE)
  BY <1>1, JoinedIs DEF Sound
<1> HIDE DEF e
<1>3. SUFFICES ASSUME ~Surprises PROVE Alone(e, FALSE)
  BY <1>1 DEF Fine
<1>4. Alone(d, FALSE)
  BY <1>3 DEF Fine
<1>5. Enumerates(e) => Enumerates(d)
  BY <1>2 DEF Joins, SameBus, Enumerates
<1>6. ListOk(e) /\ Bounds(e) /\ (Enumerates(e) => Owns(e))
  <2>1. /\ SameMemory(d, e) /\ e.enum.pDevice = d.enum.pDevice
        /\ e.enum.bAddress = d.enum.bAddress
    BY <1>2 DEF Joins
  <2>2. Bounds(e)
    BY <1>2, <1>4 DEF Joins, Alone, Bounds
  <2>3. ListOk(e) /\ (Owns(d) => Owns(e))
    BY <1>4, <2>1, SameOwners DEF Alone
  <2> QED
    BY <1>4, <1>5, <2>2, <2>3 DEF Alone
<1>7. SUFFICES ASSUME e.hw.clean PROVE Calm(e)
  BY <1>6 DEF Alone
<1>8. Calm(d) /\ ~Unseen(d) /\ ~d.hw.joined
  BY <1>2, <1>4, <1>7 DEF Joins, Alone
<1>9. ~Coming(d) /\ ~Enumerates(e)
  BY <1>5, <1>8, EnumeratesComing DEF Calm
<1>10. ~AtItem(e) /\ ~AtTimer(e) /\ ~AtEnd0(e) /\ ~AtList(e)
  BY <1>2, <1>9 DEF Joins, SameBus, Coming, AtItem, AtTimer, AtEnd0, AtList
<1>11. One(e)
  BY <1>2, <1>8, <1>10 DEF Joins, Calm, One
<1>12. ~Leaves(e)
  BY <1>2, <1>8 DEF Joins, Leaves, Unseen
<1>13. \A b \in Devices : Configures(e, b) => b \in Listed(e)
  BY <1>2, <1>8 DEF Joins, Calm, Configures, Listed, SameMemory
<1> QED
  BY <1>2, <1>9, <1>11, <1>12, <1>13 DEF Calm, Joins

\* Fields of the port are set.
PortBut(d, e, F) ==
  Shape(e) /\ SameButPort(d, e) /\ \A f \in PortFields \ F : e.port[f] = d.port[f]

LEMMA PortButIs ==
  ASSUME NEW d, Shape(d), NEW e, NEW F, SameButPort(d, e), DOMAIN e = DOMAIN d,
         PortFields \subseteq DOMAIN e.port,
         \A f \in PortFields \ F : e.port[f] = d.port[f]
  PROVE  PortBut(d, e, F)
BY DEF PortBut, Shape, SameButPort, Outside

LEMMA SetsIs ==
  ASSUME NEW d, Shape(d)
  PROVE  /\ LET e == [d EXCEPT !.port.bWantReset = FALSE]
            IN  PortBut(d, e, {"bWantReset"}) /\ e.port.bWantReset = FALSE
         /\ LET e == [d EXCEPT !.port.bWantReset = TRUE, !.port.bWantSuspend = FALSE]
            IN  /\ PortBut(d, e, {"bWantReset", "bWantSuspend"})
                /\ e.port.bWantReset = TRUE /\ e.port.bWantSuspend = FALSE
         /\ LET e == [d EXCEPT !.port.bRelinquish = FALSE, !.port.bWantSuspend = TRUE]
            IN  /\ PortBut(d, e, {"bRelinquish", "bWantSuspend"})
                /\ e.port.bRelinquish = FALSE /\ e.port.bWantSuspend = TRUE
         /\ LET e == [d EXCEPT !.port.bRelinquish = TRUE]
            IN  PortBut(d, e, {"bRelinquish"}) /\ e.port.bRelinquish = TRUE
         /\ LET e == [d EXCEPT !.port.bWantSuspend = TRUE]
            IN  PortBut(d, e, {"bWantSuspend"}) /\ e.port.bWantSuspend = TRUE
         /\ LET e == [d EXCEPT !.port.bWantSuspend = FALSE, !.port.bWantSession = TRUE]
            IN  /\ PortBut(d, e, {"bWantSession", "bWantSuspend"})
                /\ e.port.bWantSession = TRUE /\ e.port.bWantSuspend = FALSE
         /\ LET e == [d EXCEPT !.port.bWantReset = FALSE, !.port.bOtgState = "AB_IDLE"]
            IN  /\ PortBut(d, e, {"bWantReset", "bOtgState"})
                /\ e.port.bWantReset = FALSE /\ e.port.bOtgState = "AB_IDLE"
         /\ LET e == [d EXCEPT !.port.bVbusErrorRetries = VbusRetries,
                               !.port.bBabbleRetries = BabbleRetries]
            IN  /\ PortBut(d, e, {"bVbusErrorRetries", "bBabbleRetries"})
                /\ e.port.bVbusErrorRetries = VbusRetries /\ e.port.bBabbleRetries = BabbleRetries
         /\ LET e == [d EXCEPT !.port.bVbusErrorRetries = @ - 1]
            IN  /\ PortBut(d, e, {"bVbusErrorRetries"})
                /\ e.port.bVbusErrorRetries = d.port.bVbusErrorRetries - 1
         /\ LET e == [d EXCEPT !.port.bBabbleRetries = @ - 1]
            IN  /\ PortBut(d, e, {"bBabbleRetries"})
                /\ e.port.bBabbleRetries = d.port.bBabbleRetries - 1
         /\ LET e == [d EXCEPT !.port.pRootDevice = NoDevice]
            IN  PortBut(d, e, {"pRootDevice"}) /\ e.port.pRootDevice = NoDevice
         /\ \A v \in BOOLEAN :
              LET e == [d EXCEPT !.port.bIsSuspend = v]
              IN  PortBut(d, e, {"bIsSuspend"}) /\ e.port.bIsSuspend = v
<1>1. LET e == [d EXCEPT !.port.bWantReset = FALSE]
      IN  PortBut(d, e, {"bWantReset"}) /\ e.port.bWantReset = FALSE
  <2> DEFINE e == [d EXCEPT !.port.bWantReset = FALSE]
  <2>1. SameButPort(d, e) /\ DOMAIN e = DOMAIN d /\ e.port = [d.port EXCEPT !.bWantReset = FALSE]
    BY DEF Shape, Outside, SameButPort
  <2> HIDE DEF e
  <2>2. PortBut(d, e, {"bWantReset"}) /\ e.port.bWantReset = FALSE
    BY <2>1, PortButIs DEF Shape, PortFields
  <2> QED  BY <2>2 DEF e
<1>2. LET e == [d EXCEPT !.port.bWantReset = TRUE, !.port.bWantSuspend = FALSE]
      IN  /\ PortBut(d, e, {"bWantReset", "bWantSuspend"})
          /\ e.port.bWantReset = TRUE /\ e.port.bWantSuspend = FALSE
  <2> DEFINE e == [d EXCEPT !.port.bWantReset = TRUE, !.port.bWantSuspend = FALSE]
  <2>1. /\ SameButPort(d, e) /\ DOMAIN e = DOMAIN d
        /\ e.port = [d.port EXCEPT !.bWantReset = TRUE, !.bWantSuspend = FALSE]
    BY DEF Shape, Outside, SameButPort
  <2> HIDE DEF e
  <2>2. /\ PortBut(d, e, {"bWantReset", "bWantSuspend"})
        /\ e.port.bWantReset = TRUE /\ e.port.bWantSuspend = FALSE
    BY <2>1, PortButIs DEF Shape, PortFields
  <2> QED  BY <2>2 DEF e
<1>3. LET e == [d EXCEPT !.port.bRelinquish = FALSE, !.port.bWantSuspend = TRUE]
      IN  /\ PortBut(d, e, {"bRelinquish", "bWantSuspend"})
          /\ e.port.bRelinquish = FALSE /\ e.port.bWantSuspend = TRUE
  <2> DEFINE e == [d EXCEPT !.port.bRelinquish = FALSE, !.port.bWantSuspend = TRUE]
  <2>1. /\ SameButPort(d, e) /\ DOMAIN e = DOMAIN d
        /\ e.port = [d.port EXCEPT !.bRelinquish = FALSE, !.bWantSuspend = TRUE]
    BY DEF Shape, Outside, SameButPort
  <2> HIDE DEF e
  <2>2. /\ PortBut(d, e, {"bRelinquish", "bWantSuspend"})
        /\ e.port.bRelinquish = FALSE /\ e.port.bWantSuspend = TRUE
    BY <2>1, PortButIs DEF Shape, PortFields
  <2> QED  BY <2>2 DEF e
<1>4. LET e == [d EXCEPT !.port.bRelinquish = TRUE]
      IN  PortBut(d, e, {"bRelinquish"}) /\ e.port.bRelinquish = TRUE
  <2> DEFINE e == [d EXCEPT !.port.bRelinquish = TRUE]
  <2>1. SameButPort(d, e) /\ DOMAIN e = DOMAIN d /\ e.port = [d.port EXCEPT !.bRelinquish = TRUE]
    BY DEF Shape, Outside, SameButPort
  <2> HIDE DEF e
  <2>2. PortBut(d, e, {"bRelinquish"}) /\ e.port.bRelinquish = TRUE
    BY <2>1, PortButIs DEF Shape, PortFields
  <2> QED  BY <2>2 DEF e
<1>5. LET e == [d EXCEPT !.port.bWantSuspend = TRUE]
      IN  PortBut(d, e, {"bWantSuspend"}) /\ e.port.bWantSuspend = TRUE
  <2> DEFINE e == [d EXCEPT !.port.bWantSuspend = TRUE]
  <2>1. SameButPort(d, e) /\ DOMAIN e = DOMAIN d /\ e.port = [d.port EXCEPT !.bWantSuspend = TRUE]
    BY DEF Shape, Outside, SameButPort
  <2> HIDE DEF e
  <2>2. PortBut(d, e, {"bWantSuspend"}) /\ e.port.bWantSuspend = TRUE
    BY <2>1, PortButIs DEF Shape, PortFields
  <2> QED  BY <2>2 DEF e
<1>6. LET e == [d EXCEPT !.port.bWantSuspend = FALSE, !.port.bWantSession = TRUE]
      IN  /\ PortBut(d, e, {"bWantSession", "bWantSuspend"})
          /\ e.port.bWantSession = TRUE /\ e.port.bWantSuspend = FALSE
  <2> DEFINE e == [d EXCEPT !.port.bWantSuspend = FALSE, !.port.bWantSession = TRUE]
  <2>1. /\ SameButPort(d, e) /\ DOMAIN e = DOMAIN d
        /\ e.port = [d.port EXCEPT !.bWantSuspend = FALSE, !.bWantSession = TRUE]
    BY DEF Shape, Outside, SameButPort
  <2> HIDE DEF e
  <2>2. /\ PortBut(d, e, {"bWantSession", "bWantSuspend"})
        /\ e.port.bWantSession = TRUE /\ e.port.bWantSuspend = FALSE
    BY <2>1, PortButIs DEF Shape, PortFields
  <2> QED  BY <2>2 DEF e
<1>7. LET e == [d EXCEPT !.port.bWantReset = FALSE, !.port.bOtgState = "AB_IDLE"]
      IN  /\ PortBut(d, e, {"bWantReset", "bOtgState"})
          /\ e.port.bWantReset = FALSE /\ e.port.bOtgState = "AB_IDLE"
  <2> DEFINE e == [d EXCEPT !.port.bWantReset = FALSE, !.port.bOtgState = "AB_IDLE"]
  <2>1. /\ SameButPort(d, e) /\ DOMAIN e = DOMAIN d
        /\ e.port = [d.port EXCEPT !.bWantReset = FALSE, !.bOtgState = "AB_IDLE"]
    BY DEF Shape, Outside, SameButPort
  <2> HIDE DEF e
  <2>2. /\ PortBut(d, e, {"bWantReset", "bOtgState"})
        /\ e.port.bWantReset = FALSE /\ e.port.bOtgState = "AB_IDLE"
    BY <2>1, PortButIs DEF Shape, PortFields
  <2> QED  BY <2>2 DEF e
<1>8. LET e == [d EXCEPT !.port.bVbusErrorRetries = VbusRetries,
                         !.port.bBabbleRetries = BabbleRetries]
      IN  /\ PortBut(d, e, {"bVbusErrorRetries", "bBabbleRetries"})
          /\ e.port.bVbusErrorRetries = VbusRetries /\ e.port.bBabbleRetries = BabbleRetries
  <2> DEFINE e == [d EXCEPT !.port.bVbusErrorRetries = VbusRetries,
                            !.port.bBabbleRetries = BabbleRetries]
  <2>1. /\ SameButPort(d, e) /\ DOMAIN e = DOMAIN d
        /\ e.port = [d.port EXCEPT !.bVbusErrorRetries = VbusRetries,
                                   !.bBabbleRetries = BabbleRetries]
    BY DEF Shape, Outside, SameButPort
  <2> HIDE DEF e
  <2>2. /\ PortBut(d, e, {"bVbusErrorRetries", "bBabbleRetries"})
        /\ e.port.bVbusErrorRetries = VbusRetries /\ e.port.bBabbleRetries = BabbleRetries
    BY <2>1, PortButIs DEF Shape, PortFields
  <2> QED  BY <2>2 DEF e
<1>9. LET e == [d EXCEPT !.port.bVbusErrorRetries = @ - 1]
      IN  /\ PortBut(d, e, {"bVbusErrorRetries"})
          /\ e.port.bVbusErrorRetries = d.port.bVbusErrorRetries - 1
  <2> DEFINE e == [d EXCEPT !.port.bVbusErrorRetries = @ - 1]
  <2>1. /\ SameButPort(d, e) /\ DOMAIN e = DOMAIN d
        /\ e.port = [d.port EXCEPT !.bVbusErrorRetries = @ - 1]
    BY DEF Shape, Outside, SameButPort
  <2> HIDE DEF e
  <2>2. /\ PortBut(d, e, {"bVbusErrorRetries"})
        /\ e.port.bVbusErrorRetries = d.port.bVbusErrorRetries - 1
    BY <2>1, PortButIs DEF Shape, PortFields
  <2> QED  BY <2>2 DEF e
<1>10. LET e == [d EXCEPT !.port.bBabbleRetries = @ - 1]
       IN  /\ PortBut(d, e, {"bBabbleRetries"})
           /\ e.port.bBabbleRetries = d.port.bBabbleRetries - 1
  <2> DEFINE e == [d EXCEPT !.port.bBabbleRetries = @ - 1]
  <2>1. /\ SameButPort(d, e) /\ DOMAIN e = DOMAIN d
        /\ e.port = [d.port EXCEPT !.bBabbleRetries = @ - 1]
    BY DEF Shape, Outside, SameButPort
  <2> HIDE DEF e
  <2>2. /\ PortBut(d, e, {"bBabbleRetries"})
        /\ e.port.bBabbleRetries = d.port.bBabbleRetries - 1
    BY <2>1, PortButIs DEF Shape, PortFields
  <2> QED  BY <2>2 DEF e
<1>11. LET e == [d EXCEPT !.port.pRootDevice = NoDevice]
       IN  PortBut(d, e, {"pRootDevice"}) /\ e.port.pRootDevice = NoDevice
  <2> DEFINE e == [d EXCEPT !.port.pRootDevice = NoDevice]
  <2>1. /\ SameButPort(d, e) /\ DOMAIN e = DOMAIN d
        /\ e.port = [d.port EXCEPT !.pRootDevice = NoDevice]
    BY DEF Shape, Outside, SameButPort
  <2> HIDE DEF e
  <2>2. PortBut(d, e, {"pRootDevice"}) /\ e.port.pRootDevice = NoDevice
    BY <2>1, PortButIs DEF Shape, PortFields
  <2> QED  BY <2>2 DEF e
<1>12. ASSUME NEW v \in BOOLEAN
       PROVE  LET e == [d EXCEPT !.port.bIsSuspend = v]
              IN  PortBut(d, e, {"bIsSuspend"}) /\ e.port.bIsSuspend = v
  <2> DEFINE e == [d EXCEPT !.port.bIsSuspend = v]
  <2>1. SameButPort(d, e) /\ DOMAIN e = DOMAIN d /\ e.port = [d.port EXCEPT !.bIsSuspend = v]
    BY DEF Shape, Outside, SameButPort
  <2> HIDE DEF e
  <2>2. PortBut(d, e, {"bIsSuspend"}) /\ e.port.bIsSuspend = v
    BY <2>1, PortButIs DEF Shape, PortFields
  <2> QED  BY <2>2 DEF e
<1> QED
  BY <1>1, <1>2, <1>3, <1>4, <1>5, <1>6, <1>7, <1>8, <1>9, <1>10, <1>11, <1>12

\* Setting, programming and reading the bus, and flushing, keep what holds.
LEMMA MoveFine ==
  ASSUME NEW d, NEW h \in BOOLEAN, Fine(d, h)
  PROVE  /\ Fine(ProgramBusState(d), h) /\ Fine(ReadBusState(d), h)
         /\ \A o : Fine(Leave(d, o), h)
         /\ \A v \in BOOLEAN : Fine([d EXCEPT !.port.bWantSession = v], h)
         /\ Fine([d EXCEPT !.timer = "none"], h) /\ Fine([d EXCEPT !.bulk = FlushedAll(@)], h)
<1>1. Shape(d) /\ PortOk(d.port) /\ BusOk(d.hw)
  BY DEF Fine, Sound
<1>2. Fine(ProgramBusState(d), h)
  BY <1>1, ProgramIs, BusFine
<1>3. Fine(ReadBusState(d), h)
  BY <1>1, ReadIs, BusFine
<1>4. \A o : Fine(Leave(d, o), h)
  BY <1>1, LeaveIs, BusFine
<1>5. \A v \in BOOLEAN : Fine([d EXCEPT !.port.bWantSession = v], h)
  BY <1>1, WantSessionIs, BusFine
<1>6. Fine([d EXCEPT !.timer = "none"], h)
  BY <1>1, NoTimerIs, BusFine
<1>7. Fine([d EXCEPT !.bulk = FlushedAll(@)], h)
  BY <1>1, FlushedIs, BusFine
<1> QED
  BY <1>2, <1>3, <1>4, <1>5, <1>6, <1>7

Settable(f, v) ==
  \/ /\ f \in {"bWantSession", "bWantSuspend", "bWantReset", "bRelinquish", "bIsSuspend"}
     /\ v \in BOOLEAN
  \/ f = "bOtgState" /\ v \in OtgStates
  \/ f = "pRootDevice" /\ v \in Devices \cup {NoDevice}
  \/ f = "bVbusErrorRetries" /\ v \in 0 .. VbusRetries
  \/ f = "bBabbleRetries" /\ v \in 0 .. BabbleRetries

LEMMA SetSound ==
  ASSUME NEW d, Sound(d), NEW e, NEW F, PortBut(d, e, F), \A f \in F : Settable(f, e.port[f])
  PROVE  Sound(e)
<1>1. Shape(e) /\ SameButPort(d, e) /\ \A f \in PortFields \ F : e.port[f] = d.port[f]
  BY DEF PortBut
<1>2. PortOk(d.port)
  BY DEF Sound
<1>3. \A f \in PortFields : e.port[f] = d.port[f] \/ Settable(f, e.port[f])
  BY <1>1
<1>4. /\ e.port.bOtgState \in OtgStates /\ e.port.pRootDevice \in Devices \cup {NoDevice}
      /\ e.port.bVbusErrorRetries \in 0 .. VbusRetries
      /\ e.port.bBabbleRetries \in 0 .. BabbleRetries
  BY <1>2, <1>3 DEF PortOk, PortFields, Settable
<1>5. /\ e.port.bWantSession \in BOOLEAN /\ e.port.bWantSuspend \in BOOLEAN
      /\ e.port.bWantReset \in BOOLEAN
  BY <1>2, <1>3 DEF PortOk, PortFields, Settable
<1>6. /\ e.port.bIsSuspend \in BOOLEAN /\ e.port.bRelinquish \in BOOLEAN
  BY <1>2, <1>3 DEF PortOk, PortFields, Settable
<1>7. /\ e.port.bIsHost = d.port.bIsHost /\ e.port.bIsReset = d.port.bIsReset
      /\ e.port.bConnectorId = d.port.bConnectorId
  BY <1>3 DEF PortFields, Settable
<1>8. PortOk(e.port)
  BY <1>2, <1>4, <1>5, <1>6, <1>7 DEF PortOk
<1> QED
  BY <1>1, <1>7, <1>8, PortSound

LEMMA SetFine ==
  ASSUME NEW d, NEW h \in BOOLEAN, Fine(d, h), NEW e, NEW F, PortBut(d, e, F),
         \A f \in F : Settable(f, e.port[f])
  PROVE  Fine(e, h)
<1>1. Sound(e)
  BY SetSound DEF Fine
<1> QED
  BY <1>1, PortFine DEF PortBut

LEMMA SetsFine ==
  ASSUME NEW d, NEW h \in BOOLEAN, Fine(d, h)
  PROVE  /\ Fine([d EXCEPT !.port.bWantReset = FALSE], h)
         /\ Fine([d EXCEPT !.port.bWantReset = TRUE, !.port.bWantSuspend = FALSE], h)
         /\ Fine([d EXCEPT !.port.bRelinquish = FALSE, !.port.bWantSuspend = TRUE], h)
         /\ Fine([d EXCEPT !.port.bRelinquish = TRUE], h)
         /\ Fine([d EXCEPT !.port.bWantSuspend = TRUE], h)
         /\ Fine([d EXCEPT !.port.bWantSuspend = FALSE, !.port.bWantSession = TRUE], h)
         /\ Fine([d EXCEPT !.port.bWantReset = FALSE, !.port.bOtgState = "AB_IDLE"], h)
         /\ Fine([d EXCEPT !.port.bVbusErrorRetries = VbusRetries,
                            !.port.bBabbleRetries = BabbleRetries], h)
         /\ d.port.bVbusErrorRetries > 0 => Fine([d EXCEPT !.port.bVbusErrorRetries = @ - 1], h)
         /\ d.port.bBabbleRetries > 0 => Fine([d EXCEPT !.port.bBabbleRetries = @ - 1], h)
         /\ Fine([d EXCEPT !.port.pRootDevice = NoDevice], h)
         /\ \A v \in BOOLEAN : Fine([d EXCEPT !.port.bIsSuspend = v], h)
         /\ Fine([d EXCEPT !.port.bWantSuspend = FALSE], h)
<1>0. Shape(d) /\ PortOk(d.port)
  BY DEF Fine, Sound
<1>1. Fine([d EXCEPT !.port.bWantReset = FALSE], h)
  <2> DEFINE e == [d EXCEPT !.port.bWantReset = FALSE]
  <2>1. PortBut(d, e, {"bWantReset"}) /\ e.port.bWantReset = FALSE  BY <1>0, SetsIs, Zenon
  <2> HIDE DEF e
  <2>2. Settable("bWantReset", e.port.bWantReset)  BY <2>1 DEF Settable
  <2>3. Fine(e, h)  BY <2>1, <2>2, SetFine
  <2> QED  BY <2>3 DEF e
<1>2. Fine([d EXCEPT !.port.bWantReset = TRUE, !.port.bWantSuspend = FALSE], h)
  <2> DEFINE e == [d EXCEPT !.port.bWantReset = TRUE, !.port.bWantSuspend = FALSE]
  <2>1. /\ PortBut(d, e, {"bWantReset", "bWantSuspend"})
        /\ e.port.bWantReset = TRUE /\ e.port.bWantSuspend = FALSE
    BY <1>0, SetsIs, Zenon
  <2> HIDE DEF e
  <2>2. /\ Settable("bWantReset", e.port.bWantReset)
        /\ Settable("bWantSuspend", e.port.bWantSuspend)  BY <2>1 DEF Settable
  <2>3. Fine(e, h)  BY <2>1, <2>2, SetFine
  <2> QED  BY <2>3 DEF e
<1>3. Fine([d EXCEPT !.port.bRelinquish = FALSE, !.port.bWantSuspend = TRUE], h)
  <2> DEFINE e == [d EXCEPT !.port.bRelinquish = FALSE, !.port.bWantSuspend = TRUE]
  <2>1. /\ PortBut(d, e, {"bRelinquish", "bWantSuspend"})
        /\ e.port.bRelinquish = FALSE /\ e.port.bWantSuspend = TRUE
    BY <1>0, SetsIs, Zenon
  <2> HIDE DEF e
  <2>2. /\ Settable("bRelinquish", e.port.bRelinquish)
        /\ Settable("bWantSuspend", e.port.bWantSuspend)  BY <2>1 DEF Settable
  <2>3. Fine(e, h)  BY <2>1, <2>2, SetFine
  <2> QED  BY <2>3 DEF e
<1>4. Fine([d EXCEPT !.port.bRelinquish = TRUE], h)
  <2> DEFINE e == [d EXCEPT !.port.bRelinquish = TRUE]
  <2>1. PortBut(d, e, {"bRelinquish"}) /\ e.port.bRelinquish = TRUE  BY <1>0, SetsIs, Zenon
  <2> HIDE DEF e
  <2>2. Settable("bRelinquish", e.port.bRelinquish)  BY <2>1 DEF Settable
  <2>3. Fine(e, h)  BY <2>1, <2>2, SetFine
  <2> QED  BY <2>3 DEF e
<1>5. Fine([d EXCEPT !.port.bWantSuspend = TRUE], h)
  <2> DEFINE e == [d EXCEPT !.port.bWantSuspend = TRUE]
  <2>1. PortBut(d, e, {"bWantSuspend"}) /\ e.port.bWantSuspend = TRUE  BY <1>0, SetsIs, Zenon
  <2> HIDE DEF e
  <2>2. Settable("bWantSuspend", e.port.bWantSuspend)  BY <2>1 DEF Settable
  <2>3. Fine(e, h)  BY <2>1, <2>2, SetFine
  <2> QED  BY <2>3 DEF e
<1>6. Fine([d EXCEPT !.port.bWantSuspend = FALSE, !.port.bWantSession = TRUE], h)
  <2> DEFINE e == [d EXCEPT !.port.bWantSuspend = FALSE, !.port.bWantSession = TRUE]
  <2>1. /\ PortBut(d, e, {"bWantSession", "bWantSuspend"})
        /\ e.port.bWantSession = TRUE /\ e.port.bWantSuspend = FALSE
    BY <1>0, SetsIs, Zenon
  <2> HIDE DEF e
  <2>2. /\ Settable("bWantSession", e.port.bWantSession)
        /\ Settable("bWantSuspend", e.port.bWantSuspend)  BY <2>1 DEF Settable
  <2>3. Fine(e, h)  BY <2>1, <2>2, SetFine
  <2> QED  BY <2>3 DEF e
<1>7. Fine([d EXCEPT !.port.bWantReset = FALSE, !.port.bOtgState = "AB_IDLE"], h)
  <2> DEFINE e == [d EXCEPT !.port.bWantReset = FALSE, !.port.bOtgState = "AB_IDLE"]
  <2>1. /\ PortBut(d, e, {"bWantReset", "bOtgState"})
        /\ e.port.bWantReset = FALSE /\ e.port.bOtgState = "AB_IDLE"
    BY <1>0, SetsIs, Zenon
  <2> HIDE DEF e
  <2>2. /\ Settable("bWantReset", e.port.bWantReset)
        /\ Settable("bOtgState", e.port.bOtgState)  BY <2>1 DEF Settable, OtgStates
  <2>3. Fine(e, h)  BY <2>1, <2>2, SetFine
  <2> QED  BY <2>3 DEF e
<1>8. Fine([d EXCEPT !.port.bVbusErrorRetries = VbusRetries,
                      !.port.bBabbleRetries = BabbleRetries], h)
  <2> DEFINE e == [d EXCEPT !.port.bVbusErrorRetries = VbusRetries,
                            !.port.bBabbleRetries = BabbleRetries]
  <2>1. /\ PortBut(d, e, {"bVbusErrorRetries", "bBabbleRetries"})
        /\ e.port.bVbusErrorRetries = VbusRetries /\ e.port.bBabbleRetries = BabbleRetries
    BY <1>0, SetsIs, Zenon
  <2> HIDE DEF e
  <2>2. VbusRetries \in 0 .. VbusRetries /\ BabbleRetries \in 0 .. BabbleRetries
    BY HostAssumption
  <2>3. /\ Settable("bVbusErrorRetries", e.port.bVbusErrorRetries)
        /\ Settable("bBabbleRetries", e.port.bBabbleRetries)  BY <2>1, <2>2 DEF Settable
  <2>4. Fine(e, h)  BY <2>1, <2>3, SetFine
  <2> QED  BY <2>4 DEF e
<1>9. ASSUME d.port.bVbusErrorRetries > 0
      PROVE  Fine([d EXCEPT !.port.bVbusErrorRetries = @ - 1], h)
  <2> DEFINE e == [d EXCEPT !.port.bVbusErrorRetries = @ - 1]
  <2>1. /\ PortBut(d, e, {"bVbusErrorRetries"})
        /\ e.port.bVbusErrorRetries = d.port.bVbusErrorRetries - 1
    BY <1>0, SetsIs, Zenon
  <2> HIDE DEF e
  <2>2. d.port.bVbusErrorRetries - 1 \in 0 .. VbusRetries
    BY <1>0, <1>9, HostAssumption DEF PortOk
  <2>3. Settable("bVbusErrorRetries", e.port.bVbusErrorRetries)  BY <2>1, <2>2 DEF Settable
  <2>4. Fine(e, h)  BY <2>1, <2>3, SetFine
  <2> QED  BY <2>4 DEF e
<1>10. ASSUME d.port.bBabbleRetries > 0
       PROVE  Fine([d EXCEPT !.port.bBabbleRetries = @ - 1], h)
  <2> DEFINE e == [d EXCEPT !.port.bBabbleRetries = @ - 1]
  <2>1. /\ PortBut(d, e, {"bBabbleRetries"})
        /\ e.port.bBabbleRetries = d.port.bBabbleRetries - 1
    BY <1>0, SetsIs, Zenon
  <2> HIDE DEF e
  <2>2. d.port.bBabbleRetries - 1 \in 0 .. BabbleRetries
    BY <1>0, <1>10, HostAssumption DEF PortOk
  <2>3. Settable("bBabbleRetries", e.port.bBabbleRetries)  BY <2>1, <2>2 DEF Settable
  <2>4. Fine(e, h)  BY <2>1, <2>3, SetFine
  <2> QED  BY <2>4 DEF e
<1>11. Fine([d EXCEPT !.port.pRootDevice = NoDevice], h)
  <2> DEFINE e == [d EXCEPT !.port.pRootDevice = NoDevice]
  <2>1. PortBut(d, e, {"pRootDevice"}) /\ e.port.pRootDevice = NoDevice  BY <1>0, SetsIs, Zenon
  <2> HIDE DEF e
  <2>2. Settable("pRootDevice", e.port.pRootDevice)  BY <2>1 DEF Settable
  <2>3. Fine(e, h)  BY <2>1, <2>2, SetFine
  <2> QED  BY <2>3 DEF e
<1>12. ASSUME NEW v \in BOOLEAN PROVE Fine([d EXCEPT !.port.bIsSuspend = v], h)
  <2> DEFINE e == [d EXCEPT !.port.bIsSuspend = v]
  <2>1. PortBut(d, e, {"bIsSuspend"}) /\ e.port.bIsSuspend = v
    <3>1. \A w \in BOOLEAN : LET x == [d EXCEPT !.port.bIsSuspend = w]
                             IN  PortBut(d, x, {"bIsSuspend"}) /\ x.port.bIsSuspend = w
      BY <1>0, SetsIs, Zenon
    <3> QED  BY <3>1
  <2> HIDE DEF e
  <2>2. Settable("bIsSuspend", e.port.bIsSuspend)  BY <2>1 DEF Settable
  <2>3. Fine(e, h)  BY <2>1, <2>2, SetFine
  <2> QED  BY <2>3 DEF e
<1>13. Fine([d EXCEPT !.port.bWantSuspend = FALSE], h)
  BY <1>0, WantNoSuspendIs, BusFine
<1> QED
  BY <1>1, <1>2, <1>3, <1>4, <1>5, <1>6, <1>7, <1>8, <1>9, <1>10, <1>11, <1>12, <1>13

\* The steps of the OTG state machine, each of them a whole chain of calls.
LEMMA ResetsFine ==
  ASSUME NEW d
  PROVE  /\ Fine(d, TRUE) => /\ Fine(HostResetComplete(d), FALSE)
                             /\ Fine(HostResetStart(d), FALSE)
         /\ \A h \in BOOLEAN : Fine(d, h) => Fine(HostRetryEnum(d), h)
<1>1. ASSUME NEW c, Fine(c, TRUE) PROVE Fine(HostResetComplete(c), FALSE)
  <2> DEFINE p == [c EXCEPT !.port.bWantReset = FALSE]
             q == ProgramBusState(p)
             r == ReadBusState(q)
  <2>1. Fine(p, TRUE)  BY <1>1, SetsFine, Zenon
  <2> HIDE DEF p
  <2>2. Fine(q, TRUE)  BY <2>1, MoveFine
  <2> HIDE DEF q
  <2>3. Fine(r, TRUE)  BY <2>2, MoveFine
  <2> HIDE DEF r
  <2>4. Fine(EnumerateDevice(r), FALSE)  BY <2>3, EnumerateFine
  <2>5. HostResetComplete(c) = EnumerateDevice(r)
    BY DEF HostResetComplete, p, q, r
  <2> QED
    BY <2>4, <2>5
<1>2. ASSUME Fine(d, TRUE) PROVE Fine(HostResetStart(d), FALSE)
  <2> DEFINE p == [d EXCEPT !.port.bWantReset = TRUE, !.port.bWantSuspend = FALSE]
             q == ProgramBusState(p)
  <2>1. Fine(p, TRUE)  BY <1>2, SetsFine, Zenon
  <2> HIDE DEF p
  <2>2. Fine(q, TRUE)  BY <2>1, MoveFine
  <2> HIDE DEF q
  <2>3. Fine(HostResetComplete(q), FALSE)  BY <2>2, <1>1
  <2>4. "HostResetComplete" \in ResetTimers /\ "HostResetComplete" \notin EnumTimers
    BY DEF ResetTimers, EnumTimers
  <2>5. Fine(After(q, "HostResetComplete", HostResetComplete(q)), FALSE)
    BY <2>2, <2>3, <2>4, WaitsFine
  <2>6. HostResetStart(d) = After(q, "HostResetComplete", HostResetComplete(q))
    BY DEF HostResetStart, p, q
  <2> QED
    BY <2>5, <2>6
<1>3. ASSUME NEW h \in BOOLEAN, Fine(d, h) PROVE Fine(HostRetryEnum(d), h)
  <2> DEFINE p == [d EXCEPT !.port.bWantSession = TRUE]
  <2>1. Fine(p, h)  BY <1>3, MoveFine
  <2> HIDE DEF p
  <2>2. Fine(ProgramBusState(p), h)  BY <2>1, MoveFine
  <2> QED
    BY <2>2 DEF HostRetryEnum, p
<1> QED
  BY <1>1, <1>2, <1>3

LEMMA ToIdleFine ==
  ASSUME NEW d, NEW h \in BOOLEAN, Fine(d, h)
  PROVE  Fine(ToIdle(d), h) /\ Fine(WaitSessReqTimeout(d), h)
<1>1. Fine(ToIdle(d), h)
  <2> DEFINE p == Leave(d, "AB_IDLE")
             q == [p EXCEPT !.port.bWantSession = FALSE]
             r == ProgramBusState(q)
  <2>1. Fine(p, h)  BY MoveFine
  <2> HIDE DEF p
  <2>2. Fine(q, h)  BY <2>1, MoveFine
  <2> HIDE DEF q
  <2>3. Fine(r, h)  BY <2>2, MoveFine
  <2> HIDE DEF r
  <2>4. "AB_IDLE" \in OtgStates  BY DEF OtgStates
  <2>5. Fine(Enter(r, "AB_IDLE"), h)  BY <2>3, <2>4, EnterFine
  <2> QED
    BY <2>5 DEF ToIdle, p, q, r
<1> QED
  BY <1>1 DEF WaitSessReqTimeout

LEMMA ToWaitBconFine ==
  ASSUME NEW d, Fine(d, FALSE)
  PROVE  Fine(ToWaitBcon(d), FALSE)
<1> DEFINE p == Leave(d, "A_WAIT_BCON")
           q == [p EXCEPT !.port.bWantSession = TRUE]
           s == ProgramBusState(q)
           j == Joined(s)
           a == After(s, "WaitSessReq", WaitSessReqTimeout(j))
<1>1. Fine(p, FALSE)  BY MoveFine
<1> HIDE DEF p
<1>2. Fine(q, FALSE)  BY <1>1, MoveFine
<1> HIDE DEF q
<1>3. Fine(s, FALSE)  BY <1>2, MoveFine
<1> HIDE DEF s
<1>4. Fine(j, FALSE)  BY <1>3, JoinedFine
<1> HIDE DEF j
<1>5. "WaitSessReq" \in Timers /\ "WaitSessReq" \notin EnumTimers \cup ResetTimers
  BY DEF Timers, EnumTimers, ResetTimers
<1>6. Fine(WaitSessReqTimeout(j), FALSE)  BY <1>4, ToIdleFine
<1>7. Fine(a, FALSE)  BY <1>3, <1>5, <1>6, AfterFine
<1> HIDE DEF a
<1>8. "A_WAIT_BCON" \in OtgStates  BY DEF OtgStates
<1>9. Fine(Enter(a, "A_WAIT_BCON"), FALSE)  BY <1>7, <1>8, EnterFine
<1> QED
  BY <1>9 DEF ToWaitBcon, p, q, s, j, a

LEMMA ToHostFine ==
  ASSUME NEW d
  PROVE  /\ Fine(d, TRUE) => Fine(ToHost(d), FALSE) /\ Fine(ToBHost(d), FALSE)
         /\ Fine(d, FALSE) /\ d.port.bOtgState = "A_SUSPEND" => Fine(ToHost(d), FALSE)
<1>0. "A_HOST" \in OtgStates /\ "B_HOST" \in OtgStates  BY DEF OtgStates
<1>1. ASSUME NEW h \in BOOLEAN, Fine(d, h), h \/ d.port.bOtgState = "A_SUSPEND"
      PROVE  Fine(ToHost(d), FALSE)
  <2> DEFINE s == Leave(d, "A_HOST")
             a == After(s, "HostResetStart", HostResetStart(s))
  <2>1. Fine(s, h)  BY <1>1, MoveFine
  <2> HIDE DEF s
  <2>2. "HostResetStart" \in ResetTimers /\ "HostResetStart" \notin EnumTimers
    BY DEF ResetTimers, EnumTimers
  <2>3. h => Fine(HostResetStart(s), FALSE)  BY <2>1, ResetsFine
  <2>4. h => Fine(a, FALSE)  BY <2>1, <2>2, <2>3, WaitsFine
  <2> HIDE DEF a
  <2>5. Fine(s, FALSE)  BY <2>1 DEF Fine, Alone
  <2>6. Fine(Enter(s, "A_HOST"), FALSE) /\ (h => Fine(Enter(a, "A_HOST"), FALSE))
    BY <1>0, <2>4, <2>5, EnterFine
  <2> QED
    BY <1>1, <2>6 DEF ToHost, s, a
<1>2. ASSUME Fine(d, TRUE) PROVE Fine(ToBHost(d), FALSE)
  <2> DEFINE p == Leave(d, "B_HOST")
             s == ProgramBusState(p)
             a == After(s, "HostResetComplete", HostResetComplete(s))
  <2>1. Fine(p, TRUE)  BY <1>2, MoveFine
  <2> HIDE DEF p
  <2>2. Fine(s, TRUE)  BY <2>1, MoveFine
  <2> HIDE DEF s
  <2>3. "HostResetComplete" \in ResetTimers /\ "HostResetComplete" \notin EnumTimers
    BY DEF ResetTimers, EnumTimers
  <2>4. Fine(HostResetComplete(s), FALSE)  BY <2>2, ResetsFine
  <2>5. Fine(a, FALSE)  BY <2>2, <2>3, <2>4, WaitsFine
  <2> HIDE DEF a
  <2>6. Fine(Enter(a, "B_HOST"), FALSE)  BY <1>0, <2>5, EnterFine
  <2> QED
    BY <2>6 DEF ToBHost, p, s, a
<1> QED
  BY <1>1, <1>2

LEMMA ToPeripheralFine ==
  ASSUME NEW d, NEW h \in BOOLEAN, Fine(d, h), NEW o \in OtgStates
  PROVE  Fine(ToPeripheral(d, o), h)
<1> DEFINE s == Leave(d, o)
<1>1. Fine(s, h)  BY MoveFine
<1> HIDE DEF s
<1>2. Fine(Enter(s, o), h)  BY <1>1, EnterFine
<1> QED
  BY <1>2 DEF ToPeripheral, s

LEMMA ToSuspendFine ==
  ASSUME NEW d, NEW h \in BOOLEAN, Fine(d, h)
  PROVE  Fine(ToSuspend(d), h)
<1> DEFINE s == Leave(d, "A_SUSPEND")
           p == [s EXCEPT !.port.bRelinquish = FALSE, !.port.bWantSuspend = TRUE]
<1>1. Fine(s, h)  BY MoveFine
<1> HIDE DEF s
<1>2. Fine(p, h)  BY <1>1, SetsFine, Zenon
<1> HIDE DEF p
<1>3. Fine(ProgramBusState(p), h)  BY <1>2, MoveFine
<1>4. Fine(SuspendBus(s), h)  BY <1>3 DEF SuspendBus, p
<1>6. Fine(StartControlTransfer(s, HnpIrp), h)  BY <1>1, HnpStartFine
<1>7. "A_SUSPEND" \in OtgStates  BY DEF OtgStates
<1>8. /\ Fine(Enter(s, "A_SUSPEND"), h)  /\ Fine(Enter(SuspendBus(s), "A_SUSPEND"), h)
      /\ Fine(Enter(StartControlTransfer(s, HnpIrp), "A_SUSPEND"), h)
  BY <1>1, <1>4, <1>6, <1>7, EnterFine
<1>9. \E t : /\ ToSuspend(d) = Enter(t, "A_SUSPEND")
             /\ t \in {s, SuspendBus(s), StartControlTransfer(s, HnpIrp)}
  BY DEF ToSuspend, s
<1> QED
  BY <1>8, <1>9

LEMMA ResumesFine ==
  ASSUME NEW d, NEW h \in BOOLEAN, Fine(d, h)
  PROVE  Fine(CompleteResume(d), h) /\ Fine(FinishResume(d), h) /\ Fine(RemoveSuspend(d), h)
<1>1. Fine(CompleteResume(d), h)  BY MoveFine DEF CompleteResume
<1>2. "CompleteResume" \in Timers /\ "CompleteResume" \notin EnumTimers \cup ResetTimers
  BY DEF Timers, EnumTimers, ResetTimers
<1>3. Fine(FinishResume(d), h)  BY <1>1, <1>2, AfterFine DEF FinishResume
<1>4. Fine(RemoveSuspend(d), h)
  <2> DEFINE p == [d EXCEPT !.port.bWantSuspend = FALSE]
  <2>1. Fine(p, h)  BY SetsFine, Zenon
  <2> HIDE DEF p
  <2>2. Fine(ProgramBusState(p), h)  BY <2>1, MoveFine
  <2> QED
    BY <2>2 DEF RemoveSuspend, p
<1> QED
  BY <1>1, <1>3, <1>4

LEMMA RelinquishFine ==
  ASSUME NEW d, NEW h \in BOOLEAN, Fine(d, h)
  PROVE  Fine(RelinquishHost(d), h)
<1> DEFINE s == [d EXCEPT !.port.bRelinquish = TRUE]
           r == ReadBusState(s)
           w == [r EXCEPT !.port.bWantSuspend = TRUE]
           t == ProgramBusState(w)
           p == ToPeripheral(t, "B_PERIPHERAL")
<1>1. Fine(s, h)  BY SetsFine, ZenonT(60)
<1> HIDE DEF s
<1>2. Fine(r, h)  BY <1>1, MoveFine
<1> HIDE DEF r
<1>3. Fine(w, h)  BY <1>2, SetsFine, Zenon
<1> HIDE DEF w
<1>4. Fine(t, h)  BY <1>3, MoveFine
<1> HIDE DEF t
<1>5. Fine(p, h)  BY <1>4, ToPeripheralFine DEF OtgStates
<1> HIDE DEF p
<1>6. "RemoveSuspend" \in Timers /\ "RemoveSuspend" \notin EnumTimers \cup ResetTimers
  BY DEF Timers, EnumTimers, ResetTimers
<1>7. Fine(RemoveSuspend(p), h)  BY <1>5, ResumesFine
<1>8. Fine(After(p, "RemoveSuspend", RemoveSuspend(p)), h)  BY <1>5, <1>6, <1>7, AfterFine
<1>9. Fine(ToSuspend(s), h)  BY <1>1, ToSuspendFine
<1>10. RelinquishHost(d) = IF d.port.bConnectorId = "A" THEN ToSuspend(s)
                           ELSE After(p, "RemoveSuspend", RemoveSuspend(p))
  BY DEF RelinquishHost, s, r, w, t, p
<1> QED
  BY <1>8, <1>9, <1>10

LEMMA GetIdFine ==
  ASSUME NEW d, Fine(d, FALSE)
  PROVE  Fine(OtgStateGetId(d), FALSE)
<1> DEFINE p == [d EXCEPT !.port.bWantSuspend = FALSE, !.port.bWantSession = TRUE]
           q == ProgramBusState(p)
           s == ReadBusState(q)
<1>1. Fine(p, FALSE)  BY SetsFine, Zenon
<1> HIDE DEF p
<1>2. Fine(q, FALSE)  BY <1>1, MoveFine
<1> HIDE DEF q
<1>3. Fine(s, FALSE)  BY <1>2, MoveFine
<1> HIDE DEF s
<1>4. Fine(ToWaitBcon(s), FALSE)  BY <1>3, ToWaitBconFine
<1>5. OtgStateGetId(d) = IF s.port.bIsHost THEN s ELSE ToWaitBcon(s)
  BY DEF OtgStateGetId, p, q, s
<1> QED
  BY <1>3, <1>4, <1>5

\* Looking for a device touches no control transfer.
Idles(d, e) == e.ep0 = d.ep0 /\ (e.hw.clean => d.hw.clean)

LEMMA MovesIdle ==
  ASSUME NEW d, Fine(d, FALSE)
  PROVE  /\ Idles(d, ProgramBusState(d)) /\ Idles(d, ReadBusState(d))
         /\ \A o : Idles(d, Leave(d, o)) /\ Idles(d, Enter(d, o))
         /\ \A v \in BOOLEAN : Idles(d, [d EXCEPT !.port.bWantSession = v])
<1>1. Shape(d) /\ PortOk(d.port) /\ BusOk(d.hw)
  BY DEF Fine, Sound
<1>2. \A e : BusMoves(d, e) => Idles(d, e)
  BY DEF BusMoves, Outside, Wires, Idles
<1>3. Idles(d, ProgramBusState(d)) /\ Idles(d, ReadBusState(d))
  BY <1>1, <1>2, ProgramIs, ReadIs
<1>4. \A o : Idles(d, Leave(d, o))
  BY <1>1, <1>2, LeaveIs
<1>5. \A o : Idles(d, Enter(d, o))
  BY <1>1, EnterIs DEF Enters, SameButPort, Outside, Idles
<1>6. \A v \in BOOLEAN : Idles(d, [d EXCEPT !.port.bWantSession = v])
  BY <1>1, <1>2, WantSessionIs
<1> QED
  BY <1>3, <1>4, <1>5, <1>6

LEMMA ToIdleIdles ==
  ASSUME NEW d, Fine(d, FALSE)
  PROVE  Idles(d, WaitSessReqTimeout(d))
<1>1. Idles(d, ToIdle(d))
  <2> DEFINE p == Leave(d, "AB_IDLE")
             q == [p EXCEPT !.port.bWantSession = FALSE]
             r == ProgramBusState(q)
             e == Enter(r, "AB_IDLE")
  <2>1. Fine(p, FALSE) /\ Idles(d, p)  BY MoveFine, MovesIdle
  <2> HIDE DEF p
  <2>2. Fine(q, FALSE) /\ Idles(p, q)  BY <2>1, MoveFine, MovesIdle
  <2> HIDE DEF q
  <2>3. Fine(r, FALSE) /\ Idles(q, r)  BY <2>2, MoveFine, MovesIdle
  <2> HIDE DEF r
  <2>4. Idles(r, e)  BY <2>3, MovesIdle
  <2> HIDE DEF e
  <2>5. Idles(d, e)  BY <2>1, <2>2, <2>3, <2>4 DEF Idles
  <2> QED
    BY <2>5 DEF ToIdle, p, q, r, e
<1> QED
  BY <1>1 DEF WaitSessReqTimeout, Idles

LEMMA GetIdIdles ==
  ASSUME NEW d, Fine(d, FALSE)
  PROVE  Idles(d, OtgStateGetId(d))
<1>1. ASSUME NEW c, Fine(c, FALSE)  PROVE Idles(c, ToWaitBcon(c))
  <2> DEFINE p == Leave(c, "A_WAIT_BCON")
             q == [p EXCEPT !.port.bWantSession = TRUE]
             s == ProgramBusState(q)
             j == Joined(s)
             w == WaitSessReqTimeout(j)
             a == After(s, "WaitSessReq", w)
             e == Enter(a, "A_WAIT_BCON")
  <2>1. Fine(p, FALSE) /\ Idles(c, p)  BY <1>1, MoveFine, MovesIdle
  <2> HIDE DEF p
  <2>2. Fine(q, FALSE) /\ Idles(p, q)  BY <2>1, MoveFine, MovesIdle
  <2> HIDE DEF q
  <2>3. Fine(s, FALSE) /\ Idles(q, s)  BY <2>2, MoveFine, MovesIdle
  <2> HIDE DEF s
  <2>4. Fine(j, FALSE) /\ Idles(s, j)
    BY <2>3, JoinedFine, JoinedIs DEF Fine, Sound, Joins, Idles
  <2> HIDE DEF j
  <2>5. Fine(w, FALSE) /\ Idles(j, w)  BY <2>4, ToIdleFine, ToIdleIdles
  <2> HIDE DEF w
  <2>6. "WaitSessReq" \in Timers /\ "WaitSessReq" \notin EnumTimers \cup ResetTimers
  BY DEF Timers, EnumTimers, ResetTimers
  <2>7. Fine(a, FALSE)  BY <2>3, <2>5, <2>6, AfterFine
  <2>8. Idles(s, a)
    <3>1. Idles(s, w)
      BY <2>4, <2>5 DEF Idles
    <3>2. Shape(s)
      BY <2>3 DEF Fine, Sound
    <3>3. a = w \/ (Outside(s, a) /\ a.hw = s.hw)
      BY <3>2, AfterIs
    <3> HIDE DEF a
    <3> QED
      BY <3>1, <3>3 DEF Outside, Idles
  <2> HIDE DEF a
  <2>9. Idles(a, e)  BY <2>7, MovesIdle
  <2> HIDE DEF e
  <2>10. Idles(c, e)  BY <2>1, <2>2, <2>3, <2>8, <2>9 DEF Idles
  <2> QED
    BY <2>10 DEF ToWaitBcon, p, q, s, j, w, a, e
<1> DEFINE p == [d EXCEPT !.port.bWantSuspend = FALSE, !.port.bWantSession = TRUE]
           q == ProgramBusState(p)
           s == ReadBusState(q)
<1>2. Idles(d, p)
  BY DEF Fine, Sound, Shape, Idles
<1>3. Fine(p, FALSE)  BY SetsFine, Zenon
<1> HIDE DEF p
<1>4. Fine(q, FALSE) /\ Idles(p, q)  BY <1>3, MoveFine, MovesIdle
<1> HIDE DEF q
<1>5. Fine(s, FALSE) /\ Idles(q, s)  BY <1>4, MoveFine, MovesIdle
<1> HIDE DEF s
<1>6. Idles(s, ToWaitBcon(s))  BY <1>5, <1>1
<1>7. Idles(d, s) /\ Idles(d, ToWaitBcon(s))
  BY <1>2, <1>4, <1>5, <1>6 DEF Idles
<1> QED
  BY <1>7, SMTT(60) DEF OtgStateGetId, p, q, s

\* MGC_HdrcStop and MUSB_ResetPort: interrupts, items and transfers are given up.
Stopped(d) == [StopController(d) EXCEPT !.queue = <<>>, !.bulk = FlushedAll(@)]
Stops(d, e) ==
  /\ Shape(e) /\ SameMemory(d, e) /\ e.port = d.port /\ e.timer = d.timer
  /\ e.enum = d.enum /\ e.ep0 = d.ep0 /\ e.wild = d.wild
  /\ e.queue = <<>> /\ e.bulk = FlushedAll(d.bulk) /\ e.hw.intr = {} /\ e.hw.wire = "idle"
  /\ e.hw.kind = d.hw.kind /\ e.hw.session = d.hw.session /\ e.hw.joined = d.hw.joined
  /\ e.hw.remote = d.hw.remote /\ e.hw.suspendm = d.hw.suspendm /\ e.hw.reset = d.hw.reset
  /\ e.hw.blocks = d.hw.blocks /\ e.hw.plugged = d.hw.plugged /\ e.hw.clean = d.hw.clean

LEMMA StoppedIs ==
  ASSUME NEW d, Shape(d)
  PROVE  Stops(d, Stopped(d))
<1> DEFINE e == Stopped(d)
<1>1. /\ SameMemory(d, e) /\ e.port = d.port /\ e.timer = d.timer /\ DOMAIN e = DOMAIN d
      /\ e.enum = d.enum /\ e.ep0 = d.ep0 /\ e.wild = d.wild
      /\ e.queue = <<>> /\ e.bulk = FlushedAll(d.bulk)
      /\ e.hw = [d.hw EXCEPT !.intr = {}, !.wire = "idle"]
  BY DEF Shape, Stopped, StopController, SameMemory
<1> HIDE DEF e
<1>2. Shape(e)
  BY <1>1 DEF Shape, SameMemory
<1>3. Stops(d, e)
  BY <1>1, <1>2 DEF Shape, BusFields, Stops
<1> QED
  BY <1>3 DEF e

LEMMA StoppedSound ==
  ASSUME NEW d, Sound(d), ~d.hw.joined
  PROVE  Sound(Stopped(d))
<1> DEFINE e == Stopped(d)
<1>1. Stops(d, e)
  BY StoppedIs DEF Sound
<1> HIDE DEF e
<1>2. Flushes(d.bulk, e.bulk)
  BY <1>1, FlushedFlushes DEF Stops
<1>3. FifoOk(e)
  BY <1>1, <1>2 DEF Sound, FifoOk, Flushes, Stops, SameMemory
<1>4. BusOk(e.hw)
  BY <1>1 DEF Sound, BusOk, Stops
<1>5. Enumerates(e) => Enumerates(d)
  BY <1>1 DEF Stops, Enumerates
<1>6. Sound(e)
  BY <1>1, <1>3, <1>4, <1>5 DEF Sound, Hosts, Stops, SameMemory
<1> QED
  BY <1>6 DEF e

LEMMA StoppedFine ==
  ASSUME NEW d, Fine(d, FALSE), ~d.hw.joined
  PROVE  Fine(Stopped(d), FALSE)
<1> DEFINE e == Stopped(d)
<1>1. Sound(e) /\ Sound(d)
  BY StoppedSound DEF Fine
<1>2. Stops(d, e)
  BY <1>1, StoppedIs DEF Sound
<1> HIDE DEF e
<1>3. SUFFICES ASSUME ~Surprises PROVE Alone(e, FALSE)
  BY <1>1 DEF Fine, e
<1>4. Alone(d, FALSE)
  BY <1>3 DEF Fine
<1>5. Enumerates(e) => Enumerates(d)
  BY <1>2 DEF Stops, Enumerates
<1>6. ListOk(e) /\ Bounds(e) /\ (Enumerates(e) => Owns(e))
  <2>1. /\ SameMemory(d, e) /\ e.enum.pDevice = d.enum.pDevice
        /\ e.enum.bAddress = d.enum.bAddress
    BY <1>2 DEF Stops
  <2>2. Bounds(e)
    BY <1>2, <1>4 DEF Stops, Alone, Bounds
  <2>3. ListOk(e) /\ (Owns(d) => Owns(e))
    BY <1>4, <2>1, SameOwners DEF Alone
  <2> QED
    BY <1>4, <1>5, <2>2, <2>3 DEF Alone
<1>7. SUFFICES ASSUME e.hw.clean PROVE Calm(e)
  BY <1>6 DEF Alone
<1>8. Calm(d)
  BY <1>2, <1>4, <1>7 DEF Stops, Alone
<1>9. ~Coming(d) /\ ~Enumerates(e)
  BY <1>5, <1>8, EnumeratesComing DEF Calm
<1>10. ~Coming(e) /\ ~Leaves(e)
  BY <1>2, <1>9 DEF Stops, Coming, AtIntr, AtItem, AtTimer, AtEnd0, AtList, Leaves
<1>11. One(e)
  BY <1>2, <1>8, <1>10 DEF Stops, Calm, One, Coming, OneItem
<1>12. \A b \in Devices : Configures(e, b) => b \in Listed(e)
  BY <1>2, <1>8 DEF Stops, Calm, Configures, Listed, SameMemory
<1> QED
  BY <1>9, <1>10, <1>11, <1>12 DEF Calm

LEMMA ResetPortFine ==
  ASSUME NEW d, Fine(d, FALSE)
  PROVE  Fine(ResetPort(d), FALSE)
<1> DEFINE n == [d EXCEPT !.timer = "none"]
           p == [n EXCEPT !.port.bWantSession = FALSE]
           s == ProgramBusState(p)
           t == Stopped(s)
           r == ReadBusState(t)
           e == [r EXCEPT !.port.bWantReset = FALSE, !.port.bOtgState = "AB_IDLE"]
<1>0. p = [d EXCEPT !.timer = "none", !.port.bWantSession = FALSE]
  OBVIOUS
<1>1. Fine(n, FALSE)  BY MoveFine
<1> HIDE DEF n
<1>2. Fine(p, FALSE) /\ ~p.port.bWantSession
  BY <1>1, MoveFine, WantSessionIs DEF Fine, Sound
<1> HIDE DEF p
<1>3. Fine(s, FALSE) /\ ~s.hw.joined
  <2>1. ~p.port.bWantSession
    BY <1>2
  <2> QED
    BY <1>2, <2>1, MoveFine, ProgramIs DEF Fine, Sound
<1> HIDE DEF s
<1>4. Fine(t, FALSE)  BY <1>3, StoppedFine
<1> HIDE DEF t
<1>5. Fine(r, FALSE)  BY <1>4, MoveFine
<1> HIDE DEF r
<1>6. Fine(e, FALSE)  BY <1>5, SetsFine, Zenon
<1>7. e = ResetPort(d)
  BY <1>0 DEF ResetPort, Stopped, s, t, r
<1> HIDE DEF e
<1> QED
  BY <1>6, <1>7

LEMMA RegisterFine ==
  ASSUME NEW d, Fine(d, FALSE)
  PROVE  Fine(DeactivateClient(d), FALSE) /\ Fine(RegisterOtgClient(d), FALSE)
<1>1. Fine(DeactivateClient(d), FALSE)
  <2> DEFINE p == [d EXCEPT !.port.bWantSession = FALSE]
  <2>1. Fine(p, FALSE)  BY MoveFine, Zenon
  <2> HIDE DEF p
  <2>2. Fine(ProgramBusState(p), FALSE)  BY <2>1, MoveFine
  <2> QED
    BY <2>2 DEF DeactivateClient, p
<1>2. Fine(RegisterOtgClient(d), FALSE)
  <2> DEFINE p == [d EXCEPT !.port.bVbusErrorRetries = VbusRetries,
                            !.port.bBabbleRetries = BabbleRetries]
  <2>1. Fine(p, FALSE)  BY SetsFine, Zenon
  <2> HIDE DEF p
  <2>2. Fine(ResetPort(p), FALSE)  BY <2>1, ResetPortFine
  <2>3. Fine(OtgStateGetId(ResetPort(p)), FALSE)  BY <2>2, GetIdFine
  <2> QED
    BY <2>3 DEF RegisterOtgClient, p
<1> QED
  BY <1>1, <1>2

-----------------------------------------------------------------------------
(* Memory, addresses and the list of devices *)

\* What a driver gives back: blocks, addresses, places in the list, and its pipes.
GivesBack(d, e) ==
  /\ Shape(e) /\ e.port = d.port /\ e.timer = d.timer /\ e.hw = d.hw /\ e.queue = d.queue
  /\ e.ep0 = d.ep0 /\ e.enum = d.enum
  /\ Flushes(d.bulk, e.bulk) /\ e.abmAddress \subseteq d.abmAddress
  /\ d.connected \in Seq(Devices) => e.connected \in Seq(Devices)
  /\ \A c \in Devices : /\ e.device[c].bBusAddress = d.device[c].bBusAddress
                        /\ e.device[c].kind = d.device[c].kind
                        /\ e.device[c].msd => d.device[c].msd

LEMMA GivesBackSound ==
  ASSUME NEW d, NEW e, Sound(d), GivesBack(d, e)
  PROVE  Sound(e)
<1>1. FifoOk(e)
  BY DEF Sound, FifoOk, GivesBack, Flushes
<1>2. BlocksOk(e.device)
  BY DEF Sound, BlocksOk, GivesBack
<1>3. Enumerates(e) <=> Enumerates(d)
  BY DEF GivesBack, Enumerates
<1> QED
  BY <1>1, <1>2, <1>3 DEF Sound, Hosts, GivesBack

LEMMA GivesBackTrans ==
  ASSUME NEW d, NEW e, NEW f, GivesBack(d, e), GivesBack(e, f)
  PROVE  GivesBack(d, f)
<1>1. Flushes(d.bulk, f.bulk)
  BY DEF GivesBack, Flushes
<1> QED
  BY <1>1 DEF GivesBack

LEMMA GivesBackSelf ==
  ASSUME NEW d, Shape(d)
  PROVE  GivesBack(d, d)
BY DEF GivesBack, Flushes

LEMMA ReleaseIs ==
  ASSUME NEW d, Shape(d), NEW a, NEW e, e = ReleaseAddress(d, a)
  PROVE  /\ GivesBack(d, e) /\ e.abmAddress = d.abmAddress \ {a}
         /\ e.device = d.device /\ e.connected = d.connected /\ e.wild = d.wild
         /\ e.bulk = d.bulk
<1>1. /\ e.port = d.port /\ e.timer = d.timer /\ e.hw = d.hw /\ e.queue = d.queue
      /\ e.ep0 = d.ep0 /\ e.enum = d.enum /\ e.bulk = d.bulk /\ e.connected = d.connected
      /\ e.device = d.device /\ e.wild = d.wild /\ e.abmAddress = d.abmAddress \ {a}
      /\ DOMAIN e = DOMAIN d
  BY DEF ReleaseAddress, Shape
<1>2. Shape(e)
  BY <1>1 DEF Shape
<1> QED
  BY <1>1, <1>2 DEF GivesBack, Flushes

\* A field of a block is set, or memory is misused.
BlockSet(d, b, f, v, e) ==
  /\ Shape(e) /\ SameBus(d, e) /\ e.hw = d.hw /\ e.queue = d.queue /\ e.ep0 = d.ep0
  /\ e.enum = d.enum /\ e.connected = d.connected /\ e.abmAddress = d.abmAddress
  /\ e.wild = d.wild
  /\ \A c \in Devices : c # b => e.device[c] = d.device[c]
  /\ b \in Devices => /\ e.device[b][f] = v
                      /\ \A g \in BlockFields \ {f} : e.device[b][g] = d.device[b][g]

LEMMA BlockSetIs ==
  ASSUME NEW d, Shape(d), NEW b, NEW f \in BlockFields, NEW v
  PROVE  BlockSet(d, b, f, v, [d EXCEPT !.device[b][f] = v])
<1> DEFINE e == [d EXCEPT !.device[b][f] = v]
<1>1. /\ SameBus(d, e) /\ e.hw = d.hw /\ e.queue = d.queue /\ e.ep0 = d.ep0
      /\ e.enum = d.enum /\ e.connected = d.connected /\ e.abmAddress = d.abmAddress
      /\ e.wild = d.wild /\ DOMAIN e = DOMAIN d
      /\ e.device = [d.device EXCEPT ![b][f] = v]
  BY DEF Shape, SameBus
<1> HIDE DEF e
<1>2. \A c \in Devices : c # b => e.device[c] = d.device[c]
  BY <1>1 DEF Shape
<1>3. b \in Devices => e.device[b] = [d.device[b] EXCEPT ![f] = v]
  BY <1>1 DEF Shape
<1>4. b \in Devices => /\ e.device[b][f] = v
                       /\ \A g \in BlockFields \ {f} : e.device[b][g] = d.device[b][g]
                       /\ DOMAIN e.device[b] = DOMAIN d.device[b]
  BY <1>3 DEF Shape
<1>5. Devices \subseteq DOMAIN e.device
  BY <1>1 DEF Shape
<1>6. \A c \in Devices : BlockFields \subseteq DOMAIN e.device[c]
  BY <1>2, <1>4 DEF Shape
<1>7. Shape(e)
  BY <1>1, <1>5, <1>6 DEF Shape, SameBus
<1>8. BlockSet(d, b, f, v, e)
  BY <1>1, <1>2, <1>4, <1>7 DEF BlockSet
<1> QED
  BY <1>8 DEF e

LEMMA WildIs ==
  ASSUME NEW d, Shape(d), NEW v, NEW e, e = [d EXCEPT !.wild = v]
  PROVE  /\ Shape(e) /\ SameBus(d, e) /\ e.hw = d.hw /\ e.queue = d.queue /\ e.ep0 = d.ep0
         /\ e.enum = d.enum /\ SameMemory(d, e) /\ e.wild = v
<1>1. /\ SameBus(d, e) /\ e.hw = d.hw /\ e.queue = d.queue /\ e.ep0 = d.ep0
      /\ e.enum = d.enum /\ SameMemory(d, e) /\ e.wild = v /\ DOMAIN e = DOMAIN d
  BY DEF Shape, SameBus, SameMemory
<1>2. Shape(e)
  BY <1>1 DEF Shape, SameBus, SameMemory
<1> QED
  BY <1>1, <1>2

LEMMA WildSound ==
  ASSUME NEW d, Sound(d), NEW v
  PROVE  Sound([d EXCEPT !.wild = v])
<1> DEFINE e == [d EXCEPT !.wild = v]
<1>0. Shape(d)
  BY DEF Sound
<1>1. /\ Shape(e) /\ SameBus(d, e) /\ e.hw = d.hw /\ e.queue = d.queue /\ e.ep0 = d.ep0
      /\ e.enum = d.enum /\ SameMemory(d, e)
  BY <1>0, WildIs
<1> HIDE DEF e
<1>2. FifoOk(e) /\ (Enumerates(e) <=> Enumerates(d))
  BY <1>1 DEF Sound, FifoOk, Enumerates, SameBus, SameMemory
<1>3. Sound(e)
  BY <1>1, <1>2 DEF Sound, Hosts, SameBus, SameMemory
<1> QED
  BY <1>3 DEF e

LEMMA MemFreeIs ==
  ASSUME NEW d, Shape(d), NEW b \in Devices, NEW e, e = MemFree(d, b)
  PROVE  /\ GivesBack(d, e) /\ e.bulk = d.bulk
         /\ e.connected = d.connected /\ e.abmAddress = d.abmAddress
         /\ \A c \in Devices : c # b => e.device[c] = d.device[c]
         /\ \A g \in BlockFields \ {"used"} : e.device[b][g] = d.device[b][g]
         /\ d.device[b].used => ~e.device[b].used /\ e.wild = d.wild
         /\ ~d.device[b].used => e.device[b] = d.device[b]
<1>1. CASE d.device[b].used
  <2> DEFINE f == "used"
             n == [d EXCEPT !.device[b][f] = FALSE]
  <2>0. e = n /\ f \in BlockFields
    BY <1>1 DEF MemFree, BlockFields
  <2> HIDE DEF f
  <2>1. BlockSet(d, b, f, FALSE, n)
    BY <2>0, BlockSetIs
  <2> HIDE DEF n
  <2>2. /\ Shape(e) /\ SameBus(d, e) /\ e.hw = d.hw /\ e.queue = d.queue /\ e.ep0 = d.ep0
        /\ e.enum = d.enum /\ e.connected = d.connected /\ e.abmAddress = d.abmAddress
        /\ e.wild = d.wild
        /\ \A c \in Devices : c # b => e.device[c] = d.device[c]
        /\ e.device[b].used = FALSE
        /\ \A g \in BlockFields \ {"used"} : e.device[b][g] = d.device[b][g]
    BY <2>0, <2>1 DEF f, BlockSet
  <2>3. GivesBack(d, e)
    BY <2>2 DEF GivesBack, Flushes, SameBus, BlockFields
  <2> QED
    BY <1>1, <2>2, <2>3 DEF SameBus
<1>2. CASE ~d.device[b].used
  <2> DEFINE v == d.wild \cup {"freed twice"}
  <2>1. e = [d EXCEPT !.wild = v]
    BY <1>2, Zenon DEF MemFree
  <2> HIDE DEF v
  <2>2. /\ Shape(e) /\ SameBus(d, e) /\ e.hw = d.hw /\ e.queue = d.queue /\ e.ep0 = d.ep0
        /\ e.enum = d.enum /\ SameMemory(d, e)
    BY <2>1, WildIs
  <2> QED
    BY <1>2, <2>2 DEF GivesBack, Flushes, SameBus, SameMemory
<1> QED
  BY <1>1, <1>2

\* What MUSB_ListRemoveItem leaves.
LEMMA WithoutIs ==
  ASSUME NEW S, NEW l \in Seq(S), NEW i
  PROVE  Without(l, i) \in Seq(S)
<1>1. CASE ~Contains(l, i)
  BY <1>1 DEF Without
<1>2. CASE Contains(l, i)
  <2> DEFINE k == CHOOSE n \in 1 .. Len(l) : l[n] = i
  <2>1. k \in 1 .. Len(l) /\ Without(l, i) = RemoveAt(l, k)
    BY <1>2 DEF Contains, Without
  <2> HIDE DEF k
  <2>2. SubSeq(l, 1, k - 1) \in Seq(S) /\ SubSeq(l, k + 1, Len(l)) \in Seq(S)
    BY <2>1
  <2>3. RemoveAt(l, k) = SubSeq(l, 1, k - 1) \o SubSeq(l, k + 1, Len(l))
    BY DEF RemoveAt
  <2> QED
    BY <2>1, <2>2, <2>3
<1> QED
  BY <1>1, <1>2

\* The FIFOs stay where they are when the pipes are closed.
LEMMA ClosedFlushes ==
  ASSUME NEW b
  PROVE  Flushes(b, BothClosed(b))
<1> SUFFICES ASSUME Tidy(b) PROVE /\ Tidy(BothClosed(b)) /\ (Apart(b) => Apart(BothClosed(b)))
                                  /\ ~BothClosed(b)["rx"].claimed
  BY DEF Flushes
<1>0. "tx" \in Sides /\ "rx" \in Sides  BY DEF Sides
<1>1. Tidy(BothClosed(b))
  BY StaysTidy
<1>2. ASSUME NEW e, Placed(e), NEW t \in Sides
      PROVE  /\ Placed(Closed(e, t)) /\ Closed(e, t)[t].claimed = FALSE
             /\ \A s \in Sides : /\ Closed(e, t)[s].base = e[s].base
                                 /\ Closed(e, t)[s].size = e[s].size
  <2> DEFINE r == Reused(e)
             c == [r EXCEPT ![t].claimed = FALSE]
  <2>1. Placed(r) /\ \A s \in Sides : r[s].base = e[s].base /\ r[s].size = e[s].size
    BY <1>2, ReusedKeeps
  <2>2. c = Closed(e, t)  BY DEF Closed
  <2> HIDE DEF r
  <2>3. \A s \in Sides : /\ r[s] \in [claimed : BOOLEAN, wMax : Nat, base : Nat, size : Nat]
                         /\ s \in DOMAIN r
    BY <2>1, BulkEndsSides DEF Placed
  <2>4. \A s \in Sides : c[s].base = r[s].base /\ c[s].size = r[s].size
    BY <1>2, <2>3
  <2> QED
    BY <1>2, <2>1, <2>2, <2>4, ClosedKeeps
<1> DEFINE c == Closed(b, "tx")
           f == Closed(c, "rx")
<1>3. Placed(c) /\ \A s \in Sides : c[s].base = b[s].base /\ c[s].size = b[s].size
  BY <1>0, <1>2 DEF Tidy
<1> HIDE DEF c
<1>4. /\ f["rx"].claimed = FALSE
      /\ \A s \in Sides : f[s].base = c[s].base /\ f[s].size = c[s].size
  BY <1>0, <1>2, <1>3
<1> HIDE DEF f
<1>5. Apart(b) => Apart(f)
  BY <1>0, <1>3, <1>4 DEF Apart, Top
<1> QED
  BY <1>1, <1>4, <1>5 DEF BothClosed, f, c

\* A device is taken from the list, and its block is given back if it had a driver.
Rejected(d, b, e) ==
  /\ GivesBack(d, e) /\ e.bulk = d.bulk
  /\ e.abmAddress = d.abmAddress \ {d.device[b].bBusAddress}
  /\ e.connected = Without(d.connected, b)
  /\ \A c \in Devices : c # b => e.device[c] = d.device[c]
  /\ e.device[b].pPrivateData = FALSE /\ e.device[b].msd = d.device[b].msd
  /\ d.device[b].pPrivateData /\ d.device[b].used => ~e.device[b].used
  /\ ~d.device[b].pPrivateData => e.device[b].used = d.device[b].used
  /\ d.device[b].used \/ ~d.device[b].pPrivateData => e.wild = d.wild

LEMMA RejectIs ==
  ASSUME NEW d, Shape(d), NEW b \in Devices
  PROVE  Rejected(d, b, RejectDevice(d, b))
<1> DEFINE f == "pPrivateData"
           r == ReleaseAddress(d, d.device[b].bBusAddress)
           q == [r EXCEPT !.connected = Without(@, b)]
           s == [q EXCEPT !.device[b][f] = FALSE]
           e == RejectDevice(d, b)
<1>1. e = IF d.device[b].pPrivateData THEN MemFree(s, b) ELSE s
  BY DEF RejectDevice
<1>2. /\ GivesBack(d, r) /\ r.abmAddress = d.abmAddress \ {d.device[b].bBusAddress}
      /\ r.device = d.device /\ r.connected = d.connected /\ r.wild = d.wild
      /\ r.bulk = d.bulk
  BY ReleaseIs
<1> HIDE DEF r, e
<1>3. /\ SameBus(r, q) /\ q.hw = r.hw /\ q.queue = r.queue /\ q.ep0 = r.ep0
      /\ q.enum = r.enum /\ q.device = r.device /\ q.abmAddress = r.abmAddress
      /\ q.wild = r.wild /\ q.connected = Without(r.connected, b) /\ DOMAIN q = DOMAIN r
  BY <1>2 DEF GivesBack, Shape, SameBus
<1> HIDE DEF q
<1>4. Shape(q)
  BY <1>2, <1>3 DEF GivesBack, Shape, SameBus
<1>5. f \in BlockFields  BY DEF BlockFields
<1> HIDE DEF f
<1>6. BlockSet(q, b, f, FALSE, s)
  BY <1>4, <1>5, BlockSetIs
<1> HIDE DEF s
<1>7. /\ s.port = d.port /\ s.timer = d.timer /\ s.hw = d.hw /\ s.queue = d.queue
      /\ s.ep0 = d.ep0 /\ s.enum = d.enum /\ s.bulk = d.bulk /\ s.wild = d.wild
      /\ s.abmAddress = d.abmAddress \ {d.device[b].bBusAddress}
      /\ s.connected = Without(d.connected, b) /\ Shape(s)
  BY <1>2, <1>3, <1>6 DEF GivesBack, SameBus, BlockSet
<1>8. /\ \A c \in Devices : c # b => s.device[c] = d.device[c]
      /\ s.device[b].pPrivateData = FALSE
      /\ s.device[b].bBusAddress = d.device[b].bBusAddress
      /\ s.device[b].kind = d.device[b].kind /\ s.device[b].msd = d.device[b].msd
      /\ s.device[b].used = d.device[b].used
  BY <1>2, <1>3, <1>6 DEF BlockSet, BlockFields, f
<1>9. GivesBack(d, s)
  BY <1>7, <1>8, WithoutIs DEF GivesBack, Flushes
<1>10. CASE ~d.device[b].pPrivateData
  BY <1>1, <1>7, <1>8, <1>9, <1>10 DEF Rejected, e
<1>11. CASE d.device[b].pPrivateData
  <2> DEFINE m == MemFree(s, b)
  <2>1. /\ GivesBack(s, m) /\ m.bulk = s.bulk
        /\ m.connected = s.connected /\ m.abmAddress = s.abmAddress
        /\ \A c \in Devices : c # b => m.device[c] = s.device[c]
        /\ \A g \in BlockFields \ {"used"} : m.device[b][g] = s.device[b][g]
        /\ s.device[b].used => ~m.device[b].used /\ m.wild = s.wild
    BY <1>7, MemFreeIs
  <2> HIDE DEF m
  <2>2. m.device[b].pPrivateData = FALSE /\ m.device[b].msd = d.device[b].msd
    BY <2>1, <1>8 DEF BlockFields
  <2>3. GivesBack(d, m)
    BY <1>9, <2>1, GivesBackTrans
  <2>4. Rejected(d, b, m)
    BY <1>7, <1>8, <1>11, <2>1, <2>2, <2>3 DEF Rejected
  <2> QED
    BY <1>1, <1>11, <2>4 DEF m, e
<1> QED
  BY <1>10, <1>11

\* The class driver lets go of a device.
LetGo(d, b, e) ==
  /\ GivesBack(d, e) /\ e.abmAddress = d.abmAddress /\ e.connected = d.connected
  /\ \A c \in Devices : c # b => e.device[c] = d.device[c]
  /\ \A g \in BlockFields \ {"msd"} : e.device[b][g] = d.device[b][g]
  /\ d.device[b].msd => /\ ~e.device[b].msd /\ e.wild = d.wild /\ e.bulk = BothClosed(d.bulk)
  /\ ~d.device[b].msd => e.device[b] = d.device[b] /\ e.bulk = d.bulk

LEMMA MsdDisconnectIs ==
  ASSUME NEW d, Shape(d), NEW b \in Devices
  PROVE  LetGo(d, b, MsdDisconnect(d, b))
<1> DEFINE e == MsdDisconnect(d, b)
<1>1. CASE d.device[b].msd
  <2> DEFINE f == "msd"
             n == [d EXCEPT !.device[b][f] = FALSE]
             m == [n EXCEPT !.bulk = BothClosed(@)]
  <2>1. e = m /\ f \in BlockFields
    BY <1>1 DEF MsdDisconnect, BlockFields
  <2> HIDE DEF f, e
  <2>2. BlockSet(d, b, f, FALSE, n)
    BY <2>1, BlockSetIs
  <2> HIDE DEF n
  <2>3. /\ m.bulk = BothClosed(n.bulk) /\ m.port = n.port /\ m.timer = n.timer
        /\ m.hw = n.hw /\ m.queue = n.queue /\ m.ep0 = n.ep0 /\ m.enum = n.enum
        /\ m.connected = n.connected /\ m.abmAddress = n.abmAddress /\ m.wild = n.wild
        /\ m.device = n.device /\ DOMAIN m = DOMAIN n
    BY <2>2 DEF BlockSet, Shape
  <2> HIDE DEF m
  <2>4. Shape(m)
    BY <2>2, <2>3 DEF BlockSet, Shape
  <2>5. /\ m.bulk = BothClosed(d.bulk) /\ m.port = d.port /\ m.timer = d.timer
        /\ m.hw = d.hw /\ m.queue = d.queue /\ m.ep0 = d.ep0 /\ m.enum = d.enum
        /\ m.connected = d.connected /\ m.abmAddress = d.abmAddress /\ m.wild = d.wild
    BY <2>2, <2>3 DEF BlockSet, SameBus
  <2>6. /\ \A c \in Devices : c # b => m.device[c] = d.device[c]
        /\ \A g \in BlockFields \ {"msd"} : m.device[b][g] = d.device[b][g]
        /\ m.device[b].msd = FALSE
    BY <2>2, <2>3 DEF BlockSet, f
  <2>7. Flushes(d.bulk, m.bulk)
    BY <2>5, ClosedFlushes
  <2>8. GivesBack(d, m)
    BY <2>4, <2>5, <2>6, <2>7 DEF GivesBack, BlockFields
  <2> QED
    BY <1>1, <2>1, <2>5, <2>6, <2>8 DEF LetGo, e
<1>2. CASE ~d.device[b].msd
  <2> DEFINE v == d.wild \cup {"no instance"}
             n == [d EXCEPT !.wild = v]
  <2>1. e = n
    BY <1>2 DEF MsdDisconnect
  <2> HIDE DEF v, e
  <2>2. /\ Shape(n) /\ SameBus(d, n) /\ n.hw = d.hw /\ n.queue = d.queue /\ n.ep0 = d.ep0
        /\ n.enum = d.enum /\ SameMemory(d, n)
    BY WildIs
  <2> HIDE DEF n
  <2>3. GivesBack(d, n)
    BY <2>2 DEF GivesBack, Flushes, SameBus, SameMemory
  <2> QED
    BY <1>2, <2>1, <2>2, <2>3 DEF LetGo, SameBus, SameMemory, e
<1> QED
  BY <1>1, <1>2

LEMMA DisconnectedGivesBack ==
  ASSUME NEW d, Shape(d), NEW b \in Devices \cup {NoDevice}
  PROVE  GivesBack(d, DeviceDisconnected(d, b))
<1>1. CASE b = NoDevice
  BY <1>1, GivesBackSelf DEF DeviceDisconnected
<1>2. CASE b # NoDevice
  <2> DEFINE m == MsdDisconnect(d, b)
  <2>1. GivesBack(d, m)
    BY <1>2, MsdDisconnectIs DEF LetGo
  <2>2. Shape(m)
    BY <2>1 DEF GivesBack
  <2> HIDE DEF m
  <2>3. GivesBack(m, RejectDevice(m, b)) /\ GivesBack(d, RejectDevice(d, b))
    BY <1>2, <2>2, RejectIs DEF Rejected
  <2>4. GivesBack(d, RejectDevice(m, b))
    BY <2>1, <2>3, GivesBackTrans
  <2> QED
    BY <1>2, <2>3, <2>4 DEF DeviceDisconnected, m
<1> QED
  BY <1>1, <1>2

\* Induction over numbers
LEMMA UpTo ==
  ASSUME NEW n \in Nat, NEW S \in SUBSET Nat, 0 \in S, \A k \in 0 .. n - 1 : k \in S => k + 1 \in S
  PROVE  n \in S
<1> SUFFICES ASSUME n \notin S
             PROVE  FALSE
  OBVIOUS
<1> DEFINE T == {k \in 0 .. n : k \notin S}
<1>1. T # {} /\ T \subseteq Nat
  OBVIOUS
<1>2. PICK m \in T : \A k \in T : ~(<<k, m>> \in OpToRel(<, Nat))
  BY <1>1, NatLessThanWellFounded, WFMin, Zenon
<1>3. m \in 0 .. n /\ m \notin S /\ m # 0
  OBVIOUS
<1>4. m - 1 \in 0 .. n /\ <<m - 1, m>> \in OpToRel(<, Nat)
  BY <1>3 DEF OpToRel
<1>5. m - 1 \in S
  BY <1>2, <1>4, Zenon
<1>6. m - 1 \in 0 .. n - 1 /\ m - 1 + 1 = m
  BY <1>3
<1> QED
  BY <1>3, <1>5, <1>6

\* The highest number of a set that has one
LEMMA MaxIs ==
  ASSUME NEW S, NEW k \in S, \A j \in S : k >= j, S \subseteq Nat
  PROVE  Max(S) = k
<1>1. Max(S) \in S /\ \A j \in S : Max(S) >= j
  BY DEF Max
<1>2. Max(S) \in Nat /\ k \in Nat /\ Max(S) >= k /\ k >= Max(S)
  BY <1>1
<1> QED
  BY <1>2

\* The fold of MGC_HostDestroy, as a recursive function: the devices of the list go in turn.
LEMMA InTurn ==
  ASSUME NEW d, NEW n \in Nat, DOMAIN d.connected = 1 .. n
  PROVE  \E h : /\ h[0] = d
                /\ \A k \in 1 .. n : h[k] = DeviceDisconnected(h[k - 1], d.connected[k])
                /\ HostDestroy(d) = h[n]
<1> DEFINE q == d.connected
           Iterates(f, m) ==
             f = [s \in SUBSET (1 .. m) |->
                    IF s = {} THEN d ELSE DeviceDisconnected(f[s \ {Max(s)}], q[Max(s)])]
           N == {m \in 0 .. n : \E f : Iterates(f, m)}
<1>1. 0 \in N
  <2> DEFINE f == [s \in SUBSET (1 .. 0) |-> d]
  <2>1. \A s \in SUBSET (1 .. 0) : s = {}
    OBVIOUS
  <2>2. Iterates(f, 0)
    BY <2>1
  <2>3. 0 \in 0 .. n
    OBVIOUS
  <2> HIDE DEF f, Iterates
  <2> QED
    BY <2>2, <2>3
<1>2. ASSUME NEW m \in 0 .. n - 1, m \in N  PROVE m + 1 \in N
  <2>1. PICK f : Iterates(f, m)
    BY <1>2
  <2> DEFINE e == [s \in SUBSET (1 .. m + 1) |->
                     IF m + 1 \in s THEN DeviceDisconnected(f[s \ {m + 1}], q[m + 1]) ELSE f[s]]
  <2>2. ASSUME NEW s \in SUBSET (1 .. m + 1), s # {}
        PROVE  e[s] = DeviceDisconnected(e[s \ {Max(s)}], q[Max(s)])
    <3>1. CASE m + 1 \in s
      <4>1. Max(s) = m + 1
        <5>1. s \subseteq Nat /\ \A j \in s : m + 1 >= j
          OBVIOUS
        <5> QED
          BY <3>1, <5>1, MaxIs
      <4>2. e[s \ {m + 1}] = f[s \ {m + 1}]
        OBVIOUS
      <4> QED
        BY <3>1, <4>1, <4>2
    <3>2. CASE m + 1 \notin s
      <4>1. s \in SUBSET (1 .. m)
        BY <3>2
      <4>2. f[s] = DeviceDisconnected(f[s \ {Max(s)}], q[Max(s)])
        BY <2>1, <2>2, <4>1
      <4>3. e[s] = f[s] /\ e[s \ {Max(s)}] = f[s \ {Max(s)}]
        BY <3>2
      <4> QED
        BY <4>2, <4>3
    <3> QED
      BY <3>1, <3>2
  <2>3. e[{}] = d
    BY <2>1
  <2>4. Iterates(e, m + 1)
    <3> HIDE DEF e, q
    <3>1. e = [s \in SUBSET (1 .. m + 1) |-> e[s]]
      BY DEF e
    <3> QED
      BY <2>2, <2>3, <3>1
  <2>5. m + 1 \in 0 .. n
    OBVIOUS
  <2> HIDE DEF e, Iterates
  <2> QED
    BY <2>4, <2>5
<1>3. n \in N
  <2> HIDE DEF N
  <2>1. N \subseteq Nat
    <3> HIDE DEF Iterates
    <3> QED
      BY DEF N
  <2> QED
    BY <1>1, <1>2, <2>1, UpTo
<1> DEFINE F == CHOOSE f : Iterates(f, n)
<1>4. Iterates(F, n)
  <2>1. \E f : Iterates(f, n)
    BY <1>3
  <2> HIDE DEF Iterates
  <2> QED
    BY <2>1
<1>5. HostDestroy(d) = F[1 .. n]
  BY DEF HostDestroy, FoldLeft, MapThenFoldSet
<1> HIDE DEF F
<1> DEFINE h == [k \in 0 .. n |-> F[1 .. k]]
<1>6. h[0] = d
  <2>1. h[0] = F[1 .. 0] /\ 1 .. 0 = {} /\ {} \in SUBSET (1 .. n)
    OBVIOUS
  <2>2. F[{}] = d
    BY <1>4, <2>1
  <2> QED
    BY <2>1, <2>2
<1>7. ASSUME NEW k \in 1 .. n
      PROVE  h[k] = DeviceDisconnected(h[k - 1], d.connected[k])
  <2> DEFINE S == 1 .. k
  <2>1. k \in Nat /\ k >= 1 /\ k <= n
    OBVIOUS
  <2>2. k \in S /\ S \subseteq Nat /\ (\A j \in S : k >= j) /\ S \ {k} = 1 .. k - 1
    BY <2>1
  <2>3. S \in SUBSET (1 .. n) /\ S # {}
    <3>1. n \in Nat
      OBVIOUS
    <3> HIDE DEF h
    <3>2. \A j \in S : j \in 1 .. n
      BY <2>1, <3>1
    <3> HIDE DEF S
    <3> QED
      BY <2>2, <3>2
  <2>4. h[k] = F[S] /\ h[k - 1] = F[1 .. k - 1]
    <3>1. k \in 0 .. n /\ k - 1 \in 0 .. n
      BY <2>1
    <3> QED
      BY <3>1
  <2> HIDE DEF S, h
  <2>5. Max(S) = k
    BY <2>2, MaxIs
  <2>6. F[S] = DeviceDisconnected(F[1 .. k - 1], q[k])
    <3>1. F[S] = DeviceDisconnected(F[S \ {Max(S)}], q[Max(S)])
      <4> HIDE DEF q
      <4> QED
        BY <1>4, <2>3
    <3> QED
      BY <2>2, <2>5, <3>1
  <2> QED
    BY <2>4, <2>6
<1>8. HostDestroy(d) = h[n]
  BY <1>5
<1> QED
  BY <1>6, <1>7, <1>8

LEMMA DestroyGivesBack ==
  ASSUME NEW d, Shape(d), d.connected \in Seq(Devices)
  PROVE  GivesBack(d, HostDestroy(d))
<1> DEFINE n == Len(d.connected)
<1>1. n \in Nat /\ DOMAIN d.connected = 1 .. n
  OBVIOUS
<1> HIDE DEF n
<1>2. PICK h : /\ h[0] = d
               /\ \A k \in 1 .. n : h[k] = DeviceDisconnected(h[k - 1], d.connected[k])
               /\ HostDestroy(d) = h[n]
  BY <1>1, InTurn
<1> DEFINE S == {k \in Nat : k <= n => GivesBack(d, h[k])}
<1>3. 0 \in S
  BY <1>2, GivesBackSelf
<1>4. ASSUME NEW k \in 0 .. n - 1, k \in S  PROVE k + 1 \in S
  <2>1. k + 1 \in 1 .. n /\ k + 1 - 1 = k /\ k <= n /\ k + 1 \in Nat
    BY <1>1
  <2>2. GivesBack(d, h[k])
    BY <1>4, <2>1
  <2>3. h[k + 1] = DeviceDisconnected(h[k], d.connected[k + 1])
    BY <1>2, <2>1
  <2>4. d.connected[k + 1] \in Devices
    BY <1>1, <2>1
  <2>5. Shape(h[k])
    BY <2>2 DEF GivesBack
  <2>6. GivesBack(h[k], h[k + 1])
    BY <2>3, <2>4, <2>5, DisconnectedGivesBack
  <2>7. GivesBack(d, h[k + 1])
    BY <2>2, <2>6, GivesBackTrans
  <2> QED
    BY <2>1, <2>7
<1>5. S \in SUBSET Nat
  OBVIOUS
<1> HIDE DEF S
<1>6. n \in S
  BY <1>1, <1>3, <1>4, <1>5, UpTo
<1>7. GivesBack(d, h[n])
  BY <1>1, <1>6 DEF S
<1> QED
  BY <1>2, <1>7

\* Fields of the enumerator's data are set.
EnumBut(d, e, F) ==
  Shape(e) /\ SameButEnum(d, e) /\ \A f \in EnumFields \ F : e.enum[f] = d.enum[f]

LEMMA EnumButIs ==
  ASSUME NEW d, Shape(d), NEW e, NEW F, SameButEnum(d, e), DOMAIN e = DOMAIN d,
         EnumFields \subseteq DOMAIN e.enum,
         \A f \in EnumFields \ F : e.enum[f] = d.enum[f]
  PROVE  EnumBut(d, e, F)
BY DEF EnumBut, Shape, SameButEnum, SameBus, SameMemory

LEMMA EnumSetsIs ==
  ASSUME NEW d, Shape(d)
  PROVE  /\ LET e == [d EXCEPT !.enum.bState = "Idle", !.enum.bFatalRetries = @ + 1]
            IN  /\ EnumBut(d, e, {"bState", "bFatalRetries"})
                /\ e.enum.bState = "Idle"
                /\ e.enum.bFatalRetries = d.enum.bFatalRetries + 1
         /\ LET e == [d EXCEPT !.enum.bRetries = @ + 1]
            IN  /\ EnumBut(d, e, {"bRetries"})
                /\ e.enum.bRetries = d.enum.bRetries + 1
         /\ LET e == [d EXCEPT !.enum.bRetries = 0, !.enum.bFatalRetries = 0]
            IN  /\ EnumBut(d, e, {"bRetries", "bFatalRetries"})
                /\ e.enum.bRetries = 0
                /\ e.enum.bFatalRetries = 0
         /\ LET e == [d EXCEPT !.enum.bIndex = @ + 1]
            IN  /\ EnumBut(d, e, {"bIndex"})
                /\ e.enum.bIndex = d.enum.bIndex + 1
         /\ LET e == [d EXCEPT !.enum.bState = "GetConfigs", !.enum.bIndex = 0]
            IN  /\ EnumBut(d, e, {"bState", "bIndex"})
                /\ e.enum.bState = "GetConfigs"
                /\ e.enum.bIndex = 0
         /\ LET e == [d EXCEPT !.enum.bState = "SizeConfigs", !.enum.bIndex = 0]
            IN  /\ EnumBut(d, e, {"bState", "bIndex"})
                /\ e.enum.bState = "SizeConfigs"
                /\ e.enum.bIndex = 0
<1>1. LET e == [d EXCEPT !.enum.bState = "Idle", !.enum.bFatalRetries = @ + 1]
      IN  /\ EnumBut(d, e, {"bState", "bFatalRetries"})
          /\ e.enum.bState = "Idle"
          /\ e.enum.bFatalRetries = d.enum.bFatalRetries + 1
  <2> DEFINE e == [d EXCEPT !.enum.bState = "Idle", !.enum.bFatalRetries = @ + 1]
  <2>1. /\ SameButEnum(d, e) /\ DOMAIN e = DOMAIN d
        /\ e.enum = [d.enum EXCEPT !.bState = "Idle", !.bFatalRetries = @ + 1]
    BY DEF Shape, SameBus, SameMemory, SameButEnum
  <2> HIDE DEF e
  <2>2. /\ EnumBut(d, e, {"bState", "bFatalRetries"})
        /\ e.enum.bState = "Idle"
        /\ e.enum.bFatalRetries = d.enum.bFatalRetries + 1
    BY <2>1, EnumButIs DEF Shape, EnumFields
  <2> QED  BY <2>2 DEF e
<1>2. LET e == [d EXCEPT !.enum.bRetries = @ + 1]
      IN  /\ EnumBut(d, e, {"bRetries"})
          /\ e.enum.bRetries = d.enum.bRetries + 1
  <2> DEFINE e == [d EXCEPT !.enum.bRetries = @ + 1]
  <2>1. SameButEnum(d, e) /\ DOMAIN e = DOMAIN d /\ e.enum = [d.enum EXCEPT !.bRetries = @ + 1]
    BY DEF Shape, SameBus, SameMemory, SameButEnum
  <2> HIDE DEF e
  <2>2. /\ EnumBut(d, e, {"bRetries"})
        /\ e.enum.bRetries = d.enum.bRetries + 1
    BY <2>1, EnumButIs DEF Shape, EnumFields
  <2> QED  BY <2>2 DEF e
<1>3. LET e == [d EXCEPT !.enum.bRetries = 0, !.enum.bFatalRetries = 0]
      IN  /\ EnumBut(d, e, {"bRetries", "bFatalRetries"})
          /\ e.enum.bRetries = 0
          /\ e.enum.bFatalRetries = 0
  <2> DEFINE e == [d EXCEPT !.enum.bRetries = 0, !.enum.bFatalRetries = 0]
  <2>1. /\ SameButEnum(d, e) /\ DOMAIN e = DOMAIN d
        /\ e.enum = [d.enum EXCEPT !.bRetries = 0, !.bFatalRetries = 0]
    BY DEF Shape, SameBus, SameMemory, SameButEnum
  <2> HIDE DEF e
  <2>2. /\ EnumBut(d, e, {"bRetries", "bFatalRetries"})
        /\ e.enum.bRetries = 0
        /\ e.enum.bFatalRetries = 0
    BY <2>1, EnumButIs DEF Shape, EnumFields
  <2> QED  BY <2>2 DEF e
<1>4. LET e == [d EXCEPT !.enum.bIndex = @ + 1]
      IN  /\ EnumBut(d, e, {"bIndex"})
          /\ e.enum.bIndex = d.enum.bIndex + 1
  <2> DEFINE e == [d EXCEPT !.enum.bIndex = @ + 1]
  <2>1. SameButEnum(d, e) /\ DOMAIN e = DOMAIN d /\ e.enum = [d.enum EXCEPT !.bIndex = @ + 1]
    BY DEF Shape, SameBus, SameMemory, SameButEnum
  <2> HIDE DEF e
  <2>2. /\ EnumBut(d, e, {"bIndex"})
        /\ e.enum.bIndex = d.enum.bIndex + 1
    BY <2>1, EnumButIs DEF Shape, EnumFields
  <2> QED  BY <2>2 DEF e
<1>5. LET e == [d EXCEPT !.enum.bState = "GetConfigs", !.enum.bIndex = 0]
      IN  /\ EnumBut(d, e, {"bState", "bIndex"})
          /\ e.enum.bState = "GetConfigs"
          /\ e.enum.bIndex = 0
  <2> DEFINE e == [d EXCEPT !.enum.bState = "GetConfigs", !.enum.bIndex = 0]
  <2>1. /\ SameButEnum(d, e) /\ DOMAIN e = DOMAIN d
        /\ e.enum = [d.enum EXCEPT !.bState = "GetConfigs", !.bIndex = 0]
    BY DEF Shape, SameBus, SameMemory, SameButEnum
  <2> HIDE DEF e
  <2>2. /\ EnumBut(d, e, {"bState", "bIndex"})
        /\ e.enum.bState = "GetConfigs"
        /\ e.enum.bIndex = 0
    BY <2>1, EnumButIs DEF Shape, EnumFields
  <2> QED  BY <2>2 DEF e
<1>6. LET e == [d EXCEPT !.enum.bState = "SizeConfigs", !.enum.bIndex = 0]
      IN  /\ EnumBut(d, e, {"bState", "bIndex"})
          /\ e.enum.bState = "SizeConfigs"
          /\ e.enum.bIndex = 0
  <2> DEFINE e == [d EXCEPT !.enum.bState = "SizeConfigs", !.enum.bIndex = 0]
  <2>1. /\ SameButEnum(d, e) /\ DOMAIN e = DOMAIN d
        /\ e.enum = [d.enum EXCEPT !.bState = "SizeConfigs", !.bIndex = 0]
    BY DEF Shape, SameBus, SameMemory, SameButEnum
  <2> HIDE DEF e
  <2>2. /\ EnumBut(d, e, {"bState", "bIndex"})
        /\ e.enum.bState = "SizeConfigs"
        /\ e.enum.bIndex = 0
    BY <2>1, EnumButIs DEF Shape, EnumFields
  <2> QED  BY <2>2 DEF e
<1> QED
  BY <1>1, <1>2, <1>3, <1>4, <1>5, <1>6

EnumSettable(f, v) ==
  \/ f = "bState" /\ v \in EnumStates
  \/ f = "bAddress" /\ v \in Addresses \cup {0}
  \/ f \in {"bIndex", "bRetries", "bFatalRetries"} /\ v \in Nat
  \/ f = "outcome" /\ v \in Outcomes

LEMMA EnumSetSound ==
  ASSUME NEW d, Sound(d), NEW e, NEW F, EnumBut(d, e, F),
         \A f \in F : EnumSettable(f, e.enum[f])
  PROVE  Sound(e) /\ e.enum.pDevice = d.enum.pDevice
<1>1. Shape(e) /\ SameButEnum(d, e) /\ \A f \in EnumFields \ F : e.enum[f] = d.enum[f]
  BY DEF EnumBut
<1>2. EnumOk(d.enum)
  BY DEF Sound
<1>3. \A f \in EnumFields : e.enum[f] = d.enum[f] \/ EnumSettable(f, e.enum[f])
  BY <1>1
<1>4. e.enum.pDevice = d.enum.pDevice
  BY <1>3 DEF EnumFields, EnumSettable
<1>5. e.enum.bState \in EnumStates /\ e.enum.bAddress \in Addresses \cup {0}
  BY <1>2, <1>3 DEF EnumOk, EnumFields, EnumSettable
<1>6. e.enum.bIndex \in Nat /\ e.enum.bRetries \in Nat /\ e.enum.bFatalRetries \in Nat
  BY <1>2, <1>3 DEF EnumOk, EnumFields, EnumSettable
<1>7. e.enum.outcome \in Outcomes
  BY <1>2, <1>3 DEF EnumOk, EnumFields, EnumSettable
<1>8. EnumOk(e.enum)
  BY <1>2, <1>4, <1>5, <1>6, <1>7 DEF EnumOk
<1>9. Enumerates(d) => e.enum.pDevice # NoDevice
  BY <1>4 DEF Sound
<1> QED
  BY <1>1, <1>4, <1>8, <1>9, EnumSound

LEMMA EnumSetsSound ==
  ASSUME NEW d, Sound(d)
  PROVE  /\ LET e == [d EXCEPT !.enum.bState = "Idle", !.enum.bFatalRetries = @ + 1]
            IN  Sound(e) /\ e.enum.pDevice = d.enum.pDevice
         /\ LET e == [d EXCEPT !.enum.bRetries = @ + 1]
            IN  Sound(e) /\ e.enum.pDevice = d.enum.pDevice
         /\ LET e == [d EXCEPT !.enum.bRetries = 0, !.enum.bFatalRetries = 0]
            IN  Sound(e) /\ e.enum.pDevice = d.enum.pDevice
         /\ LET e == [d EXCEPT !.enum.bIndex = @ + 1]
            IN  Sound(e) /\ e.enum.pDevice = d.enum.pDevice
         /\ LET e == [d EXCEPT !.enum.bState = "GetConfigs", !.enum.bIndex = 0]
            IN  Sound(e) /\ e.enum.pDevice = d.enum.pDevice
         /\ LET e == [d EXCEPT !.enum.bState = "SizeConfigs", !.enum.bIndex = 0]
            IN  Sound(e) /\ e.enum.pDevice = d.enum.pDevice
         /\ \A v \in EnumStates : LET e == [d EXCEPT !.enum.bState = v]
                                IN  Sound(e) /\ e.enum.pDevice = d.enum.pDevice
         /\ \A v \in Outcomes : LET e == [d EXCEPT !.enum.outcome = v]
                              IN  Sound(e) /\ e.enum.pDevice = d.enum.pDevice
<1>0. Shape(d) /\ EnumOk(d.enum)
  BY DEF Sound
<1>1. LET e == [d EXCEPT !.enum.bState = "Idle", !.enum.bFatalRetries = @ + 1]
      IN  Sound(e) /\ e.enum.pDevice = d.enum.pDevice
  <2> DEFINE e == [d EXCEPT !.enum.bState = "Idle", !.enum.bFatalRetries = @ + 1]
  <2>1. /\ EnumBut(d, e, {"bState", "bFatalRetries"})
        /\ e.enum.bState = "Idle"
        /\ e.enum.bFatalRetries = d.enum.bFatalRetries + 1
    BY <1>0, EnumSetsIs, Zenon
  <2> HIDE DEF e
  <2>2. /\ EnumSettable("bState", e.enum.bState)
        /\ EnumSettable("bFatalRetries", e.enum.bFatalRetries)
    BY <1>0, <2>1 DEF EnumOk, EnumSettable, EnumStates
  <2>3. Sound(e) /\ e.enum.pDevice = d.enum.pDevice  BY <2>1, <2>2, EnumSetSound
  <2> QED  BY <2>3 DEF e
<1>2. LET e == [d EXCEPT !.enum.bRetries = @ + 1]
      IN  Sound(e) /\ e.enum.pDevice = d.enum.pDevice
  <2> DEFINE e == [d EXCEPT !.enum.bRetries = @ + 1]
  <2>1. /\ EnumBut(d, e, {"bRetries"})
        /\ e.enum.bRetries = d.enum.bRetries + 1
    BY <1>0, EnumSetsIs, Zenon
  <2> HIDE DEF e
  <2>2. /\ EnumSettable("bRetries", e.enum.bRetries)
    BY <1>0, <2>1 DEF EnumOk, EnumSettable, EnumStates
  <2>3. Sound(e) /\ e.enum.pDevice = d.enum.pDevice  BY <2>1, <2>2, EnumSetSound
  <2> QED  BY <2>3 DEF e
<1>3. LET e == [d EXCEPT !.enum.bRetries = 0, !.enum.bFatalRetries = 0]
      IN  Sound(e) /\ e.enum.pDevice = d.enum.pDevice
  <2> DEFINE e == [d EXCEPT !.enum.bRetries = 0, !.enum.bFatalRetries = 0]
  <2>1. /\ EnumBut(d, e, {"bRetries", "bFatalRetries"})
        /\ e.enum.bRetries = 0
        /\ e.enum.bFatalRetries = 0
    BY <1>0, EnumSetsIs, Zenon
  <2> HIDE DEF e
  <2>2. /\ EnumSettable("bRetries", e.enum.bRetries)
        /\ EnumSettable("bFatalRetries", e.enum.bFatalRetries)
    BY <1>0, <2>1 DEF EnumOk, EnumSettable, EnumStates
  <2>3. Sound(e) /\ e.enum.pDevice = d.enum.pDevice  BY <2>1, <2>2, EnumSetSound
  <2> QED  BY <2>3 DEF e
<1>4. LET e == [d EXCEPT !.enum.bIndex = @ + 1]
      IN  Sound(e) /\ e.enum.pDevice = d.enum.pDevice
  <2> DEFINE e == [d EXCEPT !.enum.bIndex = @ + 1]
  <2>1. /\ EnumBut(d, e, {"bIndex"})
        /\ e.enum.bIndex = d.enum.bIndex + 1
    BY <1>0, EnumSetsIs, Zenon
  <2> HIDE DEF e
  <2>2. /\ EnumSettable("bIndex", e.enum.bIndex)
    BY <1>0, <2>1 DEF EnumOk, EnumSettable, EnumStates
  <2>3. Sound(e) /\ e.enum.pDevice = d.enum.pDevice  BY <2>1, <2>2, EnumSetSound
  <2> QED  BY <2>3 DEF e
<1>5. LET e == [d EXCEPT !.enum.bState = "GetConfigs", !.enum.bIndex = 0]
      IN  Sound(e) /\ e.enum.pDevice = d.enum.pDevice
  <2> DEFINE e == [d EXCEPT !.enum.bState = "GetConfigs", !.enum.bIndex = 0]
  <2>1. /\ EnumBut(d, e, {"bState", "bIndex"})
        /\ e.enum.bState = "GetConfigs"
        /\ e.enum.bIndex = 0
    BY <1>0, EnumSetsIs, Zenon
  <2> HIDE DEF e
  <2>2. /\ EnumSettable("bState", e.enum.bState)
        /\ EnumSettable("bIndex", e.enum.bIndex)
    BY <1>0, <2>1 DEF EnumOk, EnumSettable, EnumStates
  <2>3. Sound(e) /\ e.enum.pDevice = d.enum.pDevice  BY <2>1, <2>2, EnumSetSound
  <2> QED  BY <2>3 DEF e
<1>6. LET e == [d EXCEPT !.enum.bState = "SizeConfigs", !.enum.bIndex = 0]
      IN  Sound(e) /\ e.enum.pDevice = d.enum.pDevice
  <2> DEFINE e == [d EXCEPT !.enum.bState = "SizeConfigs", !.enum.bIndex = 0]
  <2>1. /\ EnumBut(d, e, {"bState", "bIndex"})
        /\ e.enum.bState = "SizeConfigs"
        /\ e.enum.bIndex = 0
    BY <1>0, EnumSetsIs, Zenon
  <2> HIDE DEF e
  <2>2. /\ EnumSettable("bState", e.enum.bState)
        /\ EnumSettable("bIndex", e.enum.bIndex)
    BY <1>0, <2>1 DEF EnumOk, EnumSettable, EnumStates
  <2>3. Sound(e) /\ e.enum.pDevice = d.enum.pDevice  BY <2>1, <2>2, EnumSetSound
  <2> QED  BY <2>3 DEF e
<1>7. ASSUME NEW v \in EnumStates
      PROVE  LET e == [d EXCEPT !.enum.bState = v] IN Sound(e) /\ e.enum.pDevice = d.enum.pDevice
  <2> DEFINE e == [d EXCEPT !.enum.bState = v]
  <2>1. /\ Shape(e) /\ SameButEnum(d, e) /\ e.enum.bState = v
        /\ e.enum.pDevice = d.enum.pDevice /\ e.enum.bAddress = d.enum.bAddress
        /\ e.enum.bIndex = d.enum.bIndex /\ e.enum.bRetries = d.enum.bRetries
        /\ e.enum.bFatalRetries = d.enum.bFatalRetries /\ e.enum.outcome = d.enum.outcome
    <3>1. Shape(d)  BY <1>0
    <3> QED  BY <3>1, StateIs
  <2> HIDE DEF e
  <2>2. /\ EnumBut(d, e, {"bState"}) /\ e.enum.bState = v
    BY <1>0, <2>1 DEF Shape, EnumFields, EnumBut
  <2>3. EnumSettable("bState", e.enum.bState)
    BY <2>2 DEF EnumSettable
  <2>4. Sound(e) /\ e.enum.pDevice = d.enum.pDevice  BY <2>2, <2>3, EnumSetSound
  <2> QED  BY <2>4 DEF e
<1>8. ASSUME NEW v \in Outcomes
      PROVE  LET e == [d EXCEPT !.enum.outcome = v] IN Sound(e) /\ e.enum.pDevice = d.enum.pDevice
  <2> DEFINE e == [d EXCEPT !.enum.outcome = v]
  <2>1. /\ Shape(e) /\ SameButEnum(d, e) /\ e.enum.outcome = v
        /\ e.enum.bState = d.enum.bState /\ e.enum.pDevice = d.enum.pDevice
        /\ e.enum.bAddress = d.enum.bAddress /\ e.enum.bIndex = d.enum.bIndex
        /\ e.enum.bRetries = d.enum.bRetries /\ e.enum.bFatalRetries = d.enum.bFatalRetries
    <3>1. Shape(d)  BY <1>0
    <3> QED  BY <3>1, OutcomeIs
  <2> HIDE DEF e
  <2>2. /\ EnumBut(d, e, {"outcome"}) /\ e.enum.outcome = v
    BY <1>0, <2>1 DEF Shape, EnumFields, EnumBut
  <2>3. EnumSettable("outcome", e.enum.outcome)
    BY <2>2 DEF EnumSettable
  <2>4. Sound(e) /\ e.enum.pDevice = d.enum.pDevice  BY <2>2, <2>3, EnumSetSound
  <2> QED  BY <2>4 DEF e
<1> QED
  BY <1>1, <1>2, <1>3, <1>4, <1>5, <1>6, <1>7, <1>8

LEMMA BlockSetSound ==
  ASSUME NEW d, Sound(d), NEW b \in Devices, NEW f, NEW v, NEW e, BlockSet(d, b, f, v, e),
         \/ f = "bBusAddress" /\ v \in Addresses \cup {0}
         \/ f = "kind" /\ v \in KindsOrNone
  PROVE  Sound(e) /\ e.enum = d.enum
<1>1. BlocksOk(e.device)
  <2> SUFFICES ASSUME NEW c \in Devices
               PROVE  /\ e.device[c].bBusAddress \in Addresses \cup {0}
                      /\ e.device[c].kind \in KindsOrNone
    BY DEF BlocksOk
  <2>1. CASE c # b
    BY <2>1 DEF Sound, BlocksOk, BlockSet
  <2>2. CASE c = b
    BY <2>2 DEF Sound, BlocksOk, BlockSet, BlockFields
  <2> QED
    BY <2>1, <2>2
<1>2. \A c \in Devices : e.device[c].msd = d.device[c].msd
  BY DEF BlockSet, BlockFields
<1>3. FifoOk(e)
  BY <1>2 DEF Sound, FifoOk, SameBus, BlockSet
<1>4. Enumerates(e) <=> Enumerates(d)
  BY DEF BlockSet, SameBus, Enumerates
<1> QED
  BY <1>1, <1>3, <1>4 DEF Sound, Hosts, SameBus, BlockSet

LEMMA FreesSound ==
  ASSUME NEW d, Sound(d)
  PROVE  /\ \A a : LET e == ReleaseAddress(d, a) IN Sound(e) /\ e.enum = d.enum
         /\ \A b \in Devices : LET e == MemFree(d, b) IN Sound(e) /\ e.enum = d.enum
         /\ \A b \in Devices : LET e == RejectDevice(d, b) IN Sound(e) /\ e.enum = d.enum
         /\ \A b \in Devices \cup {NoDevice} : Sound(DeviceDisconnected(d, b))
         /\ Sound(HostDestroy(d))
<1>1. Shape(d) /\ d.connected \in Seq(Devices)
  BY DEF Sound
<1>2. ASSUME NEW e, GivesBack(d, e) PROVE Sound(e) /\ e.enum = d.enum
  BY <1>2, GivesBackSound DEF GivesBack
<1>3. \A a : GivesBack(d, ReleaseAddress(d, a))
  BY <1>1, ReleaseIs
<1>4. \A b \in Devices : GivesBack(d, MemFree(d, b))
  BY <1>1, MemFreeIs
<1>5. \A b \in Devices : GivesBack(d, RejectDevice(d, b))
  BY <1>1, RejectIs DEF Rejected
<1>6. \A b \in Devices \cup {NoDevice} : GivesBack(d, DeviceDisconnected(d, b))
  BY <1>1, DisconnectedGivesBack
<1>7. GivesBack(d, HostDestroy(d))
  BY <1>1, DestroyGivesBack
<1> QED
  BY <1>2, <1>3, <1>4, <1>5, <1>6, <1>7

\* Blocks, addresses and the list change while the newcomer is in hand, or when there is none.
InMemory(d, e) ==
  /\ e.timer = d.timer /\ e.hw = d.hw /\ e.queue = d.queue /\ e.ep0 = d.ep0 /\ e.enum = d.enum

LEMMA MemoryFine ==
  ASSUME NEW d, NEW h \in BOOLEAN, Fine(d, h), NEW e, Sound(e), InMemory(d, e),
         Surprises \/ ListOk(e),
         Surprises \/ h \/ (~Enumerates(d) /\ (d.hw.clean => ~Coming(d)))
  PROVE  Fine(e, h)
<1>1. SUFFICES ASSUME ~Surprises PROVE Alone(e, h)
  BY DEF Fine
<1>2. Alone(d, h)
  BY <1>1 DEF Fine
<1>3. ListOk(e) /\ Bounds(e) /\ ~Enumerates(d)
  BY <1>1, <1>2 DEF Alone, Bounds, InMemory
<1>4. ~Enumerates(e)
  BY <1>3 DEF Enumerates, InMemory
<1>5. SUFFICES ASSUME e.hw.clean PROVE Calm(e) /\ (h => Hand(e))
  BY <1>3, <1>4 DEF Alone
<1>6. d.hw.clean /\ Calm(d) /\ ~Coming(d) /\ (h => Hand(d))
  BY <1>1, <1>2, <1>5 DEF Alone, InMemory, Hand
<1>7. ~Coming(e)
  BY <1>6 DEF InMemory, Coming, AtIntr, AtItem, AtTimer, AtEnd0, AtList
<1>8. One(e)
  BY <1>6, <1>7 DEF Calm, One, Coming, InMemory
<1>9. \A b \in Devices : ~Configures(e, b)
  <2>1. \A b \in Devices : ConfigIrp(b) \in Newcomers
    BY DEF Newcomers, Irps, ConfigIrp, HnpIrp
  <2> QED
    BY <1>7, <2>1 DEF Configures, Coming, AtItem, AtEnd0, AtList, IsNew
<1>10. (Leaves(e) => ~e.hw.joined) /\ (h => Hand(e))
  BY <1>6, <1>7 DEF Calm, Leaves, InMemory, Hand
<1> QED
  BY <1>4, <1>7, <1>8, <1>9, <1>10 DEF Calm

\* What is left of a list without repetitions.
Once(q) == \A j, k \in DOMAIN q : q[j] = q[k] => j = k
Members(q) == {q[k] : k \in DOMAIN q}

LEMMA WithoutLeaves ==
  ASSUME NEW S, NEW l \in Seq(S), NEW i, Once(l), NEW r, r = Without(l, i)
  PROVE  Once(r) /\ Members(r) = Members(l) \ {i}
<1>1. CASE ~Contains(l, i)
  BY <1>1 DEF Without, Contains, Members
<1>2. CASE Contains(l, i)
  <2> DEFINE k == CHOOSE n \in 1 .. Len(l) : l[n] = i
  <2>1. k \in 1 .. Len(l) /\ l[k] = i /\ r = RemoveAt(l, k)
    BY <1>2 DEF Contains, Without
  <2> HIDE DEF k
  <2>2. /\ Len(l) \in Nat \ {0} /\ DOMAIN l = 1 .. Len(l)
        /\ DOMAIN r = 1 .. Len(l) - 1
        /\ \A n \in 1 .. Len(l) - 1 : r[n] = IF n < k THEN l[n] ELSE l[n + 1]
    <3> DEFINE u == SubSeq(l, 1, k - 1)
               v == SubSeq(l, k + 1, Len(l))
    <3>1. /\ u \in Seq(S) /\ Len(u) = k - 1 /\ v \in Seq(S) /\ Len(v) = Len(l) - k
          /\ Len(l) \in Nat \ {0} /\ DOMAIN l = 1 .. Len(l)
      BY <2>1
    <3>2. \A n \in 1 .. k - 1 : u[n] = l[n]
      BY <2>1
    <3>3. \A n \in 1 .. Len(l) - k : v[n] = l[n + k]
      BY <2>1
    <3>4. r = u \o v
      BY <2>1 DEF RemoveAt
    <3> HIDE DEF u, v
    <3>5. /\ u \o v \in Seq(S) /\ Len(u \o v) = Len(u) + Len(v)
          /\ \A n \in 1 .. Len(u) + Len(v) :
               (u \o v)[n] = IF n <= Len(u) THEN u[n] ELSE v[n - Len(u)]
      <4>1. u \in Seq(S) /\ v \in Seq(S)
        BY <3>1
      <4> QED
        BY <4>1
    <3>6. r \in Seq(S) /\ Len(r) = Len(l) - 1
      BY <2>1, <3>1, <3>4, <3>5
    <3>7. DOMAIN r = 1 .. Len(r)
      BY <3>6
    <3>8. ASSUME NEW n \in 1 .. Len(r)
          PROVE  r[n] = IF n < k THEN l[n] ELSE l[n + 1]
      <4>1. CASE n < k
        <5>1. n \in 1 .. k - 1 /\ n <= Len(u) /\ n \in 1 .. Len(u) + Len(v)
          BY <2>1, <3>1, <3>6, <4>1
        <5>2. r[n] = u[n]
          BY <3>4, <3>5, <5>1
        <5> QED
          BY <3>2, <4>1, <5>1, <5>2
      <4>2. CASE ~(n < k)
        <5>1. ~(n <= Len(u)) /\ n \in 1 .. Len(u) + Len(v) /\ n - Len(u) \in 1 .. Len(l) - k
              /\ n - Len(u) + k = n + 1
          BY <2>1, <3>1, <3>6, <4>2
        <5>2. r[n] = v[n - Len(u)]
          BY <3>4, <3>5, <5>1
        <5> QED
          BY <3>3, <4>2, <5>1, <5>2
      <4> QED
        BY <4>1, <4>2
    <3> QED
      BY <3>1, <3>6, <3>7, <3>8
  <2>3. \A n \in DOMAIN r : \E x \in DOMAIN l : /\ x # k /\ r[n] = l[x]
                                               /\ x = IF n < k THEN n ELSE n + 1
    BY <2>1, <2>2
  <2>4. Once(r)
    <3> SUFFICES ASSUME NEW a \in DOMAIN r, NEW b \in DOMAIN r, r[a] = r[b] PROVE a = b
      BY DEF Once
    <3>1. PICK x \in DOMAIN l : r[a] = l[x] /\ x = IF a < k THEN a ELSE a + 1
      BY <2>3
    <3>2. PICK y \in DOMAIN l : r[b] = l[y] /\ y = IF b < k THEN b ELSE b + 1
      BY <2>3
    <3>3. x = y
      BY <3>1, <3>2 DEF Once
    <3> QED
      BY <2>1, <2>2, <3>1, <3>2, <3>3
  <2>5. Members(r) \subseteq Members(l) \ {i}
    <3> SUFFICES ASSUME NEW n \in DOMAIN r PROVE r[n] \in Members(l) \ {i}
      BY DEF Members
    <3>1. PICK x \in DOMAIN l : x # k /\ r[n] = l[x]
      BY <2>3
    <3>2. l[x] # i
      BY <2>1, <2>2, <3>1 DEF Once
    <3> QED
      BY <3>1, <3>2 DEF Members
  <2>6. ASSUME NEW n \in DOMAIN l, l[n] # i PROVE l[n] \in Members(r)
    <3>1. CASE n < k
      <4>1. n \in DOMAIN r /\ r[n] = l[n]
        BY <2>1, <2>2, <3>1
      <4> QED
        BY <4>1 DEF Members
    <3>2. CASE n > k
      <4>1. n - 1 \in DOMAIN r /\ r[n - 1] = l[n]
        BY <2>1, <2>2, <3>2
      <4> QED
        BY <4>1 DEF Members
    <3> QED
      BY <2>1, <2>2, <2>6, <3>1, <3>2
  <2>7. Members(l) \ {i} \subseteq Members(r)
    BY <2>6 DEF Members
  <2> QED
    BY <2>4, <2>5, <2>7
<1> QED
  BY <1>1, <1>2

\* A device of the list is rejected.
LEMMA RejectFine ==
  ASSUME NEW d, Fine(d, FALSE), NEW b \in Devices,
         Surprises \/ (b \in Listed(d) /\ ~Enumerates(d) /\ (d.hw.clean => ~Coming(d)))
  PROVE  Fine(RejectDevice(d, b), FALSE)
<1> DEFINE e == RejectDevice(d, b)
<1>1. Sound(d) /\ Sound(e)
  BY FreesSound, Zenon DEF Fine
<1>2. Rejected(d, b, e)
  BY <1>1, RejectIs DEF Sound
<1> HIDE DEF e
<1>3. InMemory(d, e)
  BY <1>2 DEF Rejected, GivesBack, InMemory
<1>4. ASSUME ~Surprises PROVE ListOk(e)
  <2>1. ListOk(d) /\ b \in Listed(d)
    BY <1>4 DEF Fine, Alone
  <2>2. d.connected \in Seq(Devices)
    BY <1>1 DEF Sound
  <2>3. Once(e.connected) /\ Members(e.connected) = Members(d.connected) \ {b}
    <3>1. Once(d.connected) /\ e.connected = Without(d.connected, b)
      BY <1>2, <2>1 DEF ListOk, Once, Rejected
    <3> QED
      BY <2>2, <3>1, WithoutLeaves
  <2>8. /\ \A j, k \in DOMAIN e.connected : e.connected[j] = e.connected[k] => j = k
        /\ Listed(e) = Listed(d) \ {b}
    BY <2>3 DEF Once, Members, Listed
  <2>4. Listed(d) \subseteq Devices
    BY <2>2 DEF Listed
  <2>5. \A c \in Listed(e) : c \in Listed(d) /\ e.device[c] = d.device[c] /\ c # b
    BY <1>2, <2>8, <2>4 DEF Rejected
  <2>6. \A c \in Listed(e) : Address(d, c) # Address(d, b)
    BY <2>1, <2>5 DEF ListOk
  <2>7. e.abmAddress = d.abmAddress \ {Address(d, b)}
    BY <1>2 DEF Rejected, Address
  <2> QED
    BY <2>1, <2>8, <2>5, <2>6, <2>7 DEF ListOk, Address
<1>5. Fine(e, FALSE)
  BY <1>1, <1>3, <1>4, MemoryFine
<1> QED
  BY <1>5 DEF e

\* Every device of the list goes.
LEMMA DisconnectedLists ==
  ASSUME NEW d, Shape(d), NEW b \in Devices
  PROVE  DeviceDisconnected(d, b).connected = Without(d.connected, b)
<1> DEFINE m == MsdDisconnect(d, b)
<1>1. b # NoDevice
  BY HostAssumption DEF NoDevice
<1>2. Shape(m) /\ m.connected = d.connected
  BY MsdDisconnectIs DEF LetGo, GivesBack
<1> HIDE DEF m
<1>3. \A c : Shape(c) => RejectDevice(c, b).connected = Without(c.connected, b)
  BY RejectIs DEF Rejected
<1>4. DeviceDisconnected(d, b) = IF d.device[b].pPrivateData THEN RejectDevice(m, b)
                                 ELSE RejectDevice(d, b)
  BY <1>1 DEF DeviceDisconnected, m
<1> QED
  BY <1>2, <1>3, <1>4

LEMMA DestroyEmpties ==
  ASSUME NEW d, Shape(d), d.connected \in Seq(Devices), Once(d.connected)
  PROVE  Listed(HostDestroy(d)) = {}
<1> DEFINE n == Len(d.connected)
<1>1. n \in Nat /\ DOMAIN d.connected = 1 .. n
  OBVIOUS
<1> HIDE DEF n
<1>2. PICK h : /\ h[0] = d
               /\ \A k \in 1 .. n : h[k] = DeviceDisconnected(h[k - 1], d.connected[k])
               /\ HostDestroy(d) = h[n]
  BY <1>1, InTurn
<1> DEFINE First(k) == {d.connected[j] : j \in 1 .. k}
           P(k) == /\ Shape(h[k]) /\ h[k].connected \in Seq(Devices) /\ Once(h[k].connected)
                   /\ Members(h[k].connected) = Members(d.connected) \ First(k)
           S == {k \in Nat : k <= n => P(k)}
<1>3. 0 \in S
  <2>1. First(0) = {}
    OBVIOUS
  <2> QED
    BY <1>2, <2>1
<1>4. ASSUME NEW k \in 0 .. n - 1, k \in S  PROVE k + 1 \in S
  <2> DEFINE b == d.connected[k + 1]
  <2>1. k + 1 \in 1 .. n /\ k + 1 - 1 = k /\ k <= n /\ k + 1 \in Nat
    BY <1>1
  <2>2. P(k)
    BY <1>4, <2>1
  <2>3. h[k + 1] = DeviceDisconnected(h[k], b)
    BY <1>2, <2>1
  <2>4. b \in Devices
    BY <1>1, <2>1
  <2>5. First(k + 1) = First(k) \cup {b}
    BY <2>1
  <2> HIDE DEF b, First
  <2>6. h[k + 1].connected = Without(h[k].connected, b)
    BY <2>2, <2>3, <2>4, DisconnectedLists
  <2>7. Shape(h[k + 1]) /\ h[k + 1].connected \in Seq(Devices)
    BY <2>2, <2>3, <2>4, DisconnectedGivesBack DEF GivesBack
  <2>8. /\ Once(h[k + 1].connected)
        /\ Members(h[k + 1].connected) = Members(h[k].connected) \ {b}
    BY <2>2, <2>6, WithoutLeaves
  <2>9. Members(h[k + 1].connected) = Members(d.connected) \ First(k + 1)
    BY <2>2, <2>5, <2>8
  <2>10. P(k + 1)
    BY <2>7, <2>8, <2>9
  <2> QED
    BY <2>1, <2>10
<1>5. S \in SUBSET Nat
  OBVIOUS
<1>6. First(n) = Members(d.connected)
  BY <1>1 DEF Members
<1> HIDE DEF S, P
<1>7. n \in S
  BY <1>1, <1>3, <1>4, <1>5, UpTo
<1>8. P(n)
  BY <1>1, <1>7 DEF S
<1>9. Members(h[n].connected) = {}
  <2> HIDE DEF First
  <2> QED
    BY <1>6, <1>8 DEF P
<1> QED
  BY <1>2, <1>9 DEF Listed, Members

\* A block and an address that no device of the list has are given back.
LEMMA GiveUpFine ==
  ASSUME NEW d, NEW h \in BOOLEAN, Fine(d, h), NEW b \in Devices, NEW a,
         Surprises \/ (b \notin Listed(d) /\ \A c \in Listed(d) : Address(d, c) # a),
         Surprises \/ h \/ (~Enumerates(d) /\ (d.hw.clean => ~Coming(d)))
  PROVE  Fine(MemFree(ReleaseAddress(d, a), b), h)
<1> DEFINE r == ReleaseAddress(d, a)
           e == MemFree(r, b)
<1>1. Sound(d)
  BY DEF Fine
<1>2. /\ GivesBack(d, r) /\ r.abmAddress = d.abmAddress \ {a}
      /\ r.device = d.device /\ r.connected = d.connected
  BY <1>1, ReleaseIs DEF Sound
<1>3. Sound(r)
  BY <1>1, <1>2, GivesBackSound
<1> HIDE DEF r
<1>4. /\ GivesBack(r, e) /\ e.connected = r.connected /\ e.abmAddress = r.abmAddress
      /\ \A c \in Devices : c # b => e.device[c] = r.device[c]
  BY <1>3, MemFreeIs DEF Sound
<1> HIDE DEF e
<1>5. Sound(e)
  BY <1>3, <1>4, GivesBackSound
<1>6. InMemory(d, e)
  BY <1>2, <1>4 DEF GivesBack, InMemory
<1>7. Listed(e) = Listed(d) /\ Listed(d) \subseteq Devices
  BY <1>1, <1>2, <1>4 DEF Listed, Sound
<1>8. ASSUME ~Surprises PROVE ListOk(e)
  <2>1. ListOk(d) /\ b \notin Listed(d) /\ \A c \in Listed(d) : Address(d, c) # a
    BY <1>8 DEF Fine, Alone
  <2>2. \A c \in Listed(d) : e.device[c] = d.device[c]
    BY <1>2, <1>4, <1>7, <2>1
  <2> QED
    BY <1>2, <1>4, <1>7, <2>1, <2>2 DEF ListOk, Address
<1>9. Fine(e, h)
  BY <1>5, <1>6, <1>8, MemoryFine
<1> QED
  BY <1>9 DEF e, r

\* What neither enumerates nor touches the enumerator's data or memory.
Quits(d, e) ==
  /\ e.enum = d.enum /\ SameMemory(d, e) /\ (Enumerates(e) => Enumerates(d))
  /\ e.hw.clean => d.hw.clean

LEMMA MovesQuit ==
  ASSUME NEW d, NEW h \in BOOLEAN, Fine(d, h)
  PROVE  /\ Quits(d, ProgramBusState(d)) /\ Quits(d, ReadBusState(d))
         /\ \A o : Quits(d, Leave(d, o)) /\ Quits(d, Enter(d, o))
         /\ \A e, F : PortBut(d, e, F) => Quits(d, e)
         /\ \A e : BusMoves(d, e) => Quits(d, e)
         /\ Quits(d, StartControlTransfer(d, HnpIrp))
         /\ \A c, r : c \notin EnumTimers /\ Quits(d, r) => Quits(d, After(d, c, r))
<1>1. Shape(d) /\ PortOk(d.port) /\ BusOk(d.hw) /\ Sound(d)
  BY DEF Fine, Sound
<1>2. \A e : BusMoves(d, e) => Quits(d, e)
  BY DEF BusMoves, Outside, Wires, BusTimer, Quits, SameMemory, Enumerates, EnumTimers
<1>3. Quits(d, ProgramBusState(d)) /\ Quits(d, ReadBusState(d))
  BY <1>1, <1>2, ProgramIs, ReadIs
<1>4. \A o : Quits(d, Leave(d, o))
  BY <1>1, <1>2, LeaveIs
<1>5. \A e : SameButPort(d, e) => Quits(d, e)
  BY DEF SameButPort, Outside, Quits, SameMemory, Enumerates
<1>6. \A o : Quits(d, Enter(d, o))
  BY <1>1, <1>5, EnterIs DEF Enters
<1>7. \A e, F : PortBut(d, e, F) => Quits(d, e)
  BY <1>5 DEF PortBut
<1>8. Quits(d, StartControlTransfer(d, HnpIrp))
  <2>1. HnpIrp \in Irps /\ HnpIrp # EnumIrp
    BY DEF Irps, HnpIrp, EnumIrp
  <2> QED
    BY <1>1, <2>1, StartMoves DEF Quits
<1>9. ASSUME NEW c, NEW r, c \notin EnumTimers, Quits(d, r) PROVE Quits(d, After(d, c, r))
  <2> DEFINE e == After(d, c, r)
  <2>1. \/ e = r
        \/ Outside(d, e) /\ e.hw = d.hw /\ e.timer = c
    BY <1>1, AfterIs
  <2> HIDE DEF e
  <2>2. Quits(d, e)
    BY <1>9, <2>1 DEF Outside, Quits, SameMemory, Enumerates
  <2> QED
    BY <2>2 DEF e
<1> QED
  BY <1>2, <1>3, <1>4, <1>6, <1>7, <1>8, <1>9

LEMMA QuitsTrans ==
  ASSUME NEW d, NEW e, NEW f, Quits(d, e), Quits(e, f)
  PROVE  Quits(d, f)
BY DEF Quits, SameMemory

LEMMA RelinquishQuits ==
  ASSUME NEW d, NEW h \in BOOLEAN, Fine(d, h)
  PROVE  Quits(d, RelinquishHost(d))
<1>1. ASSUME NEW c, Fine(c, h) PROVE Quits(c, ToSuspend(c))
  <2> DEFINE s == Leave(c, "A_SUSPEND")
             p == [s EXCEPT !.port.bRelinquish = FALSE, !.port.bWantSuspend = TRUE]
  <2>1. Fine(s, h) /\ Quits(c, s)  BY <1>1, MoveFine, MovesQuit
  <2> HIDE DEF s
  <2>2. Shape(s)  BY <2>1 DEF Fine, Sound
  <2>3. Fine(p, h)  BY <2>1, SetsFine, Zenon
  <2>4. PortBut(s, p, {"bRelinquish", "bWantSuspend"})  BY <2>2, SetsIs, Zenon
  <2> HIDE DEF p
  <2>5. Quits(s, p)  BY <2>1, <2>4, MovesQuit
  <2>6. Quits(s, ProgramBusState(p))  BY <2>3, <2>5, MovesQuit, QuitsTrans
  <2>7. Quits(s, SuspendBus(s))  BY <2>6 DEF SuspendBus, p
  <2>8. Quits(s, StartControlTransfer(s, HnpIrp)) /\ Quits(s, s)
    BY <2>1, MovesQuit DEF Quits, SameMemory
  <2>9. ASSUME NEW t, Fine(t, h), Quits(s, t) PROVE Quits(c, Enter(t, "A_SUSPEND"))
    BY <2>1, <2>9, MovesQuit, QuitsTrans
  <2>10. Fine(ProgramBusState(p), h)  BY <2>3, MoveFine
  <2>11. Fine(SuspendBus(s), h)  BY <2>10 DEF SuspendBus, p
  <2>12. Fine(StartControlTransfer(s, HnpIrp), h)  BY <2>1, HnpStartFine
  <2>13. \E t : /\ ToSuspend(c) = Enter(t, "A_SUSPEND")
                /\ t \in {s, SuspendBus(s), StartControlTransfer(s, HnpIrp)}
    BY DEF ToSuspend, s
  <2> QED
    BY <2>1, <2>7, <2>8, <2>9, <2>11, <2>12, <2>13
<1> DEFINE s == [d EXCEPT !.port.bRelinquish = TRUE]
           r == ReadBusState(s)
           w == [r EXCEPT !.port.bWantSuspend = TRUE]
           t == ProgramBusState(w)
           l == Leave(t, "B_PERIPHERAL")
           p == ToPeripheral(t, "B_PERIPHERAL")
           u == [p EXCEPT !.port.bWantSuspend = FALSE]
<1>2. Fine(s, h)  BY SetsFine, ZenonT(60)
<1>3. Quits(d, s)
  <2>1. Shape(d)  BY DEF Fine, Sound
  <2>2. PortBut(d, s, {"bRelinquish"})  BY <2>1, SetsIs, Zenon
  <2> HIDE DEF s
  <2> QED  BY <2>2, MovesQuit
<1> HIDE DEF s
<1>4. Fine(r, h) /\ Quits(s, r)  BY <1>2, MoveFine, MovesQuit
<1> HIDE DEF r
<1>5. Fine(w, h)  BY <1>4, SetsFine, Zenon
<1>6. Quits(r, w)
  <2>1. Shape(r)  BY <1>4 DEF Fine, Sound
  <2>2. PortBut(r, w, {"bWantSuspend"})  BY <2>1, SetsIs, Zenon
  <2> HIDE DEF w
  <2> QED  BY <2>2, <1>4, MovesQuit
<1> HIDE DEF w
<1>7. Fine(t, h) /\ Quits(w, t)  BY <1>5, MoveFine, MovesQuit
<1> HIDE DEF t
<1>8. Fine(l, h) /\ Quits(t, l)  BY <1>7, MoveFine, MovesQuit
<1>9. Quits(l, p)
  <2>1. p = Enter(l, "B_PERIPHERAL")  BY DEF ToPeripheral
  <2> HIDE DEF l, p
  <2> QED  BY <1>8, <2>1, MovesQuit
<1>10. Fine(p, h)  BY <1>7, ToPeripheralFine DEF OtgStates
<1> HIDE DEF l, p
<1>11. Fine(u, h)  BY <1>10, SetsFine, Zenon
<1>12. Quits(p, u)
  <2>1. Shape(p)  BY <1>10 DEF Fine, Sound
  <2>2. BusMoves(p, u)  BY <2>1, WantNoSuspendIs
  <2> HIDE DEF u
  <2> QED  BY <2>2, <1>10, MovesQuit
<1> HIDE DEF u
<1>13. Quits(p, ProgramBusState(u))  BY <1>11, <1>12, MovesQuit, QuitsTrans
<1>14. Quits(p, RemoveSuspend(p))  BY <1>13 DEF RemoveSuspend, u
<1>15. "RemoveSuspend" \notin EnumTimers  BY DEF EnumTimers
<1>16. Quits(p, After(p, "RemoveSuspend", RemoveSuspend(p)))
  BY <1>10, <1>14, <1>15, MovesQuit
<1>17. Quits(d, p)  BY <1>3, <1>4, <1>6, <1>7, <1>8, <1>9, QuitsTrans
<1>18. Quits(d, After(p, "RemoveSuspend", RemoveSuspend(p)))  BY <1>16, <1>17, QuitsTrans
<1>19. Quits(d, ToSuspend(s))  BY <1>1, <1>2, <1>3, QuitsTrans
<1>20. RelinquishHost(d) = IF d.port.bConnectorId = "A" THEN ToSuspend(s)
                           ELSE After(p, "RemoveSuspend", RemoveSuspend(p))
  BY DEF RelinquishHost, s, r, w, t, p
<1> QED
  BY <1>18, <1>19, <1>20

-----------------------------------------------------------------------------
(* The enumerator *)

LEMMA Weaker == ASSUME NEW d, Fine(d, TRUE) PROVE Fine(d, FALSE)
BY DEF Fine, Alone

\* What the enumerator's data may be set to while it has the newcomer in hand.
LEMMA EnumSetsFine ==
  ASSUME NEW d, Fine(d, TRUE), NEW e, NEW F, EnumBut(d, e, F), Sound(e), "outcome" \notin F,
         Surprises \/ Bounds(e)
  PROVE  Fine(e, TRUE)
<1>1. SameButEnum(d, e) /\ e.enum.outcome = d.enum.outcome
  BY DEF EnumBut, EnumFields
<1> QED
  BY <1>1, EnumFine

LEMMA OutcomeFine ==
  ASSUME NEW d, Fine(d, TRUE), NEW v \in Outcomes, NEW e, e = [d EXCEPT !.enum.outcome = v]
  PROVE  /\ Fine(e, FALSE) /\ SameButEnum(d, e) /\ e.enum.outcome = v
         /\ e.enum.pDevice = d.enum.pDevice
<1>1. Sound(d) /\ Shape(d)
  BY DEF Fine, Sound
<1>2. Sound([d EXCEPT !.enum.outcome = v])
  BY <1>1, EnumSetsSound, Zenon
<1>3. Sound(e)
  BY <1>2
<1>4. /\ SameButEnum(d, e) /\ e.enum.bIndex = d.enum.bIndex /\ e.enum.outcome = v
      /\ e.enum.bRetries = d.enum.bRetries /\ e.enum.bFatalRetries = d.enum.bFatalRetries
      /\ e.enum.pDevice = d.enum.pDevice
  BY <1>1, OutcomeIs
<1>5. Surprises \/ Bounds(e)
  BY <1>4 DEF Fine, Alone, Bounds
<1> QED
  BY <1>3, <1>4, <1>5, EnumFine

LEMMA AbortFine ==
  ASSUME NEW d, Fine(d, TRUE), d.enum.pDevice # NoDevice,
         Surprises \/ (Owns(d) /\ d.enum.bFatalRetries = 0)
  PROVE  Fine(Abort(d), FALSE)
<1> DEFINE b == d.enum.pDevice
           i == [d EXCEPT !.enum.bState = "Idle", !.enum.bFatalRetries = @ + 1]
           x == d.device[b].bBusAddress
           s == MemFree(ReleaseAddress(i, x), b)
           p == [s EXCEPT !.port.bWantSession = FALSE]
           t == ProgramBusState(p)
<1>0. Sound(d)
  BY DEF Fine
<1>1. b \in Devices
  BY <1>0 DEF Sound, EnumOk
<1>2. /\ EnumBut(d, i, {"bState", "bFatalRetries"}) /\ Sound(i)
      /\ i.enum.bFatalRetries = d.enum.bFatalRetries + 1
  <2>1. Shape(d)  BY <1>0 DEF Sound
  <2>2. EnumBut(d, i, {"bState", "bFatalRetries"})  BY <2>1, EnumSetsIs, Zenon
  <2>3. i.enum.bFatalRetries = d.enum.bFatalRetries + 1  BY <2>1, EnumSetsIs, Zenon
  <2>4. Sound(i)  BY <1>0, EnumSetsSound, Zenon
  <2> QED  BY <2>2, <2>3, <2>4
<1> HIDE DEF i
<1>3. Surprises \/ Bounds(i)
  <2>1. i.enum.bIndex = d.enum.bIndex /\ i.enum.bRetries = d.enum.bRetries
    BY <1>2 DEF EnumBut, EnumFields
  <2> QED
    BY <1>2, <2>1 DEF Fine, Alone, Bounds
<1>4. Fine(i, TRUE)
  BY <1>2, <1>3, EnumSetsFine
<1>5. ASSUME ~Surprises
      PROVE  b \notin Listed(i) /\ \A c \in Listed(i) : Address(i, c) # x
  <2>1. /\ Listed(i) = Listed(d) /\ i.device = d.device /\ x = Address(d, b)
        /\ \A c : Address(i, c) = Address(d, c)
    BY <1>2 DEF EnumBut, SameButEnum, SameMemory, Listed, Address
  <2>2. Owns(d) /\ ListOk(d)
    BY <1>5 DEF Fine, Alone
  <2>3. d.abmAddress \subseteq Nat \ {0}
    BY <1>0, HostAssumption DEF Sound
  <2>4. \A c \in Listed(d) : Address(d, c) # x
    BY <2>1, <2>2, <2>3 DEF Owns, ListOk
  <2> QED
    BY <2>1, <2>2, <2>4 DEF Owns
<1> HIDE DEF b, x
<1>6. Fine(s, TRUE)
  BY <1>1, <1>4, <1>5, GiveUpFine
<1> HIDE DEF s
<1>7. Fine(p, TRUE)
  BY <1>6, MoveFine
<1> HIDE DEF p
<1>8. Fine(t, TRUE)
  BY <1>7, MoveFine
<1> HIDE DEF t
<1>9. Fine(HostRetryEnum(t), TRUE)
  BY <1>8, ResetsFine
<1>10. "HostRetryEnum" \in Timers /\ "HostRetryEnum" \notin EnumTimers \cup ResetTimers
  BY DEF Timers, EnumTimers, ResetTimers
<1>11. Fine(After(t, "HostRetryEnum", HostRetryEnum(t)), TRUE)
  BY <1>8, <1>9, <1>10, AfterFine
<1>12. Abort(d) \in {s, After(t, "HostRetryEnum", HostRetryEnum(t))}
  BY DEF Abort, t, p, s, i, b, x
<1> QED
  BY <1>6, <1>11, <1>12, Weaker

LEMMA FailedFine ==
  ASSUME NEW d, Fine(d, TRUE), Works(d, "none"), Surprises \/ d.hw.clean
  PROVE  Fine(EnumFailed(d), FALSE)
<1> DEFINE s == [d EXCEPT !.enum.bRetries = @ + 1]
<1>0. Sound(d) /\ d.enum.bRetries \in Nat
  BY DEF Fine, Sound, EnumOk
<1>1. EnumBut(d, s, {"bRetries"}) /\ s.enum.bRetries = d.enum.bRetries + 1 /\ Sound(s)
  <2>1. Shape(d)  BY <1>0 DEF Sound
  <2>2. EnumBut(d, s, {"bRetries"})  BY <2>1, EnumSetsIs, Zenon
  <2>3. s.enum.bRetries = d.enum.bRetries + 1  BY <2>1, EnumSetsIs, Zenon
  <2>4. Sound(s)  BY <1>0, EnumSetsSound, Zenon
  <2> QED  BY <2>2, <2>3, <2>4
<1>2. EnumFailed(d) = IF s.enum.bRetries > MaxEnumRetries THEN Abort(s)
                      ELSE StartControlTransfer(s, EnumIrp)
  BY DEF EnumFailed
<1> HIDE DEF s
<1>3. /\ s.enum.bState = d.enum.bState /\ s.enum.pDevice = d.enum.pDevice
      /\ s.enum.bAddress = d.enum.bAddress /\ s.enum.bIndex = d.enum.bIndex
      /\ s.enum.bFatalRetries = d.enum.bFatalRetries
      /\ s.device = d.device /\ s.connected = d.connected /\ s.abmAddress = d.abmAddress
      /\ s.hw = d.hw
  BY <1>1 DEF EnumBut, EnumFields, SameButEnum, SameMemory
<1>4. s.enum.pDevice # NoDevice
  BY <1>3 DEF Works
<1>5. Surprises \/ (Owns(d) /\ Staged(d, "none"))
  BY DEF Works
<1>6. Surprises \/ Owns(s)
  BY <1>3, <1>5 DEF Owns, Listed, Address
<1>7. Surprises \/ s.enum.bFatalRetries = 0
  BY <1>3, <1>5 DEF Staged
<1>8. Surprises \/ Bounds(s)
  <2>1. Surprises \/ d.enum.bRetries <= MaxEnumRetries
    BY <1>5 DEF Staged
  <2>2. MaxEnumRetries \in Nat
    BY HostAssumption
  <2>3. Surprises \/ s.enum.bRetries <= MaxEnumRetries + 1
    BY <1>0, <1>1, <2>1, <2>2
  <2> QED
    BY <1>3, <2>3 DEF Fine, Alone, Bounds
<1>9. Fine(s, TRUE)
  BY <1>1, <1>8, EnumSetsFine
<1>10. Fine(Abort(s), FALSE)
  BY <1>4, <1>6, <1>7, <1>9, AbortFine
<1>11. ASSUME ~(s.enum.bRetries > MaxEnumRetries)
       PROVE  Fine(StartControlTransfer(s, EnumIrp), FALSE)
  <2>1. EnumIrp \in Newcomers /\ \A c : EnumIrp # ConfigIrp(c)
    BY DEF Newcomers, Irps, EnumIrp, HnpIrp, ConfigIrp
  <2>2. s.enum.bRetries <= MaxEnumRetries
    BY <1>0, <1>1, <1>11, HostAssumption
  <2>3. Surprises \/ Staged(s, "none")
    BY <1>3, <1>5, <2>2 DEF Staged
  <2>4. Works(s, "none")
    BY <1>4, <1>6, <2>3 DEF Works
  <2> QED
    BY <1>9, <2>1, <2>4, StartFine
<1> QED
  BY <1>2, <1>10, <1>11

LEMMA AddressSound ==
  ASSUME NEW d, Sound(d), d.abmAddress # Addresses
  PROVE  Sound(AllocateAddress(d)) /\ AllocateAddress(d).enum.pDevice = d.enum.pDevice
<1> DEFINE a == Min(Addresses \ d.abmAddress)
           n == [d EXCEPT !.enum.bAddress = a]
           e == [n EXCEPT !.abmAddress = @ \cup {a}]
<1>1. a \in Addresses
  <2>1. Addresses \ d.abmAddress # {} /\ Addresses \ d.abmAddress \subseteq Nat
    BY HostAssumption DEF Sound
  <2>2. a \in Addresses \ d.abmAddress
    BY <2>1, MinIn
  <2> QED
    BY <2>2
<1>2. AllocateAddress(d) = [d EXCEPT !.enum.bAddress = a, !.abmAddress = @ \cup {a}]
  BY DEF AllocateAddress
<1>3. Shape(d)
  BY DEF Sound
<1> HIDE DEF a
<1>4. e = AllocateAddress(d)
  BY <1>2
<1>5. SameButEnum(d, n) /\ DOMAIN n = DOMAIN d /\ n.enum = [d.enum EXCEPT !.bAddress = a]
  BY <1>3 DEF Shape, SameBus, SameMemory, SameButEnum
<1> HIDE DEF n
<1>6. EnumBut(d, n, {"bAddress"}) /\ n.enum.bAddress = a
  BY <1>3, <1>5, EnumButIs DEF Shape, EnumFields
<1>7. EnumSettable("bAddress", n.enum.bAddress)
  BY <1>1, <1>6 DEF EnumSettable
<1>8. Sound(n) /\ n.enum.pDevice = d.enum.pDevice
  BY <1>6, <1>7, EnumSetSound
<1>9. /\ SameBus(n, e) /\ e.hw = n.hw /\ e.ep0 = n.ep0 /\ e.queue = n.queue /\ e.enum = n.enum
      /\ e.device = n.device /\ e.connected = n.connected
      /\ e.abmAddress = n.abmAddress \cup {a} /\ DOMAIN e = DOMAIN n
  BY <1>8 DEF Sound, Shape, SameBus
<1> HIDE DEF e
<1>10. Shape(e)
  BY <1>8, <1>9 DEF Sound, Shape, SameBus
<1>11. FifoOk(e) /\ (Enumerates(e) <=> Enumerates(n))
  BY <1>8, <1>9 DEF Sound, FifoOk, Enumerates, SameBus
<1>12. Sound(e)
  BY <1>1, <1>8, <1>9, <1>10, <1>11 DEF Sound, Hosts, SameBus
<1> QED
  BY <1>4, <1>8, <1>9, <1>12

\* An address that no device of the list has.
LEMMA AddressFine ==
  ASSUME NEW d, Fine(d, TRUE), Works(d, "none"), d.enum.bState = "GetMinDevice",
         d.abmAddress # Addresses, Surprises \/ d.hw.clean
  PROVE  Fine(AllocateAddress(d), TRUE) /\ Works(AllocateAddress(d), "SetDeviceAddress")
<1> DEFINE x == Min(Addresses \ d.abmAddress)
           n == [d EXCEPT !.enum.bAddress = x]
           e == [n EXCEPT !.abmAddress = @ \cup {x}]
<1>0. Sound(d) /\ Shape(d)
  BY DEF Fine, Sound
<1>1. x \in Addresses /\ x \notin d.abmAddress /\ x # 0
  <2>1. Addresses \ d.abmAddress # {} /\ Addresses \ d.abmAddress \subseteq Nat \ {0}
    BY <1>0, HostAssumption DEF Sound
  <2>2. x \in Addresses \ d.abmAddress
    BY <2>1, MinIn
  <2> QED
    BY <2>1, <2>2
<1>2. AllocateAddress(d) = [d EXCEPT !.enum.bAddress = x, !.abmAddress = @ \cup {x}]
  BY DEF AllocateAddress
<1> HIDE DEF x
<1>3. e = AllocateAddress(d)
  BY <1>2
<1>4. SameButEnum(d, n) /\ DOMAIN n = DOMAIN d /\ n.enum = [d.enum EXCEPT !.bAddress = x]
  BY <1>0 DEF Shape, SameBus, SameMemory, SameButEnum
<1> HIDE DEF n
<1>5. EnumBut(d, n, {"bAddress"}) /\ n.enum.bAddress = x
  BY <1>0, <1>4, EnumButIs DEF Shape, EnumFields
<1>6. EnumSettable("bAddress", n.enum.bAddress)
  BY <1>1, <1>5 DEF EnumSettable
<1>7. Sound(n)
  BY <1>0, <1>5, <1>6, EnumSetSound
<1>8. /\ n.enum.bState = d.enum.bState /\ n.enum.pDevice = d.enum.pDevice
      /\ n.enum.bIndex = d.enum.bIndex /\ n.enum.bRetries = d.enum.bRetries
      /\ n.enum.bFatalRetries = d.enum.bFatalRetries
      /\ n.device = d.device /\ n.connected = d.connected /\ n.abmAddress = d.abmAddress
      /\ n.hw = d.hw
  BY <1>5 DEF EnumBut, EnumFields, SameButEnum, SameMemory
<1>9. Surprises \/ Bounds(n)
  BY <1>8 DEF Fine, Alone, Bounds
<1>10. Fine(n, TRUE)
  BY <1>5, <1>7, <1>9, EnumSetsFine
<1>11. /\ SameBus(n, e) /\ e.hw = n.hw /\ e.ep0 = n.ep0 /\ e.queue = n.queue
       /\ e.enum = n.enum /\ e.device = n.device /\ e.connected = n.connected
       /\ e.abmAddress = n.abmAddress \cup {x}
  BY <1>7 DEF Sound, Shape, SameBus
<1>12. Sound(e)
  BY <1>0, <1>3, AddressSound
<1> HIDE DEF e
<1>13. InMemory(n, e)
  BY <1>11 DEF InMemory, SameBus
<1>14. Surprises \/ ListOk(e)
  BY <1>10, <1>11 DEF Fine, Alone, ListOk, Listed, Address
<1>15. Fine(e, TRUE)
  BY <1>10, <1>12, <1>13, <1>14, MemoryFine
<1>16. ASSUME ~Surprises PROVE Owns(e) /\ Staged(e, "SetDeviceAddress")
  <2>1. Owns(d) /\ Staged(d, "none") /\ ListOk(d)
    BY <1>16 DEF Works, Fine, Alone
  <2>2. Address(d, d.enum.pDevice) = 0
    BY <2>1 DEF Staged, Address
  <2>3. \A c \in Listed(e) : c \in Listed(d) /\ Address(e, c) = Address(d, c) /\ Address(d, c) # x
    BY <1>1, <1>8, <1>11, <2>1 DEF Listed, Address, ListOk
  <2>4. Owns(e)
    BY <1>1, <1>5, <1>8, <1>11, <2>1, <2>2, <2>3 DEF Owns, Listed, Address
  <2>5. Staged(e, "SetDeviceAddress")
    BY <1>1, <1>5, <1>8, <1>11, <2>1 DEF Staged
  <2> QED
    BY <2>4, <2>5
<1>17. e.enum.pDevice # NoDevice
  BY <1>8, <1>11 DEF Works
<1> QED
  BY <1>3, <1>15, <1>16, <1>17 DEF Works

\* The pipes of the class driver.  An end that nobody has claimed has room for them; if it is
\* claimed, nothing becomes of them.
LEMMA OpenedIs ==
  ASSUME NEW e, Tidy(e), NEW k \in KindsOrNone
  PROVE  /\ Tidy(BothOpened(e, wInSize[k], wOutSize[k]))
         /\ BothAllocate(e, wInSize[k], wOutSize[k]) =>
              Apart(BothOpened(e, wInSize[k], wOutSize[k]))
         /\ ~BothAllocate(e, wInSize[k], wOutSize[k]) =>
              e["rx"].claimed /\ BothOpened(e, wInSize[k], wOutSize[k]) = e
<1> DEFINE in == wInSize[k]
           out == wOutSize[k]
<1>1. in \in PacketSizes /\ out \in PacketSizes /\ in \in Nat /\ out \in Nat
  <2>1. wInSize \in [KindsOrNone -> PacketSizes] /\ wOutSize \in [KindsOrNone -> PacketSizes]
    BY HostAssumption DEF KindsOrNone
  <2>2. in \in PacketSizes /\ out \in PacketSizes
    BY <2>1
  <2> HIDE DEF in, out
  <2>3. \A w \in PacketSizes : w \in Nat
    BY DEF PacketSizes
  <2> QED
    BY <2>2, <2>3
<1>2. BothAllocate(NewBulkEnd, in, out)
  BY RoomForOne DEF KindsOrNone
<1> HIDE DEF in, out
<1>3. Compact(e) = e
  BY NeverMoves DEF Tidy
<1>4. ASSUME e["rx"].claimed  PROVE BothOpened(e, in, out) = e
  <2>1. ~Allocates(e, "rx", in)
    BY <1>4 DEF Allocates
  <2> QED
    BY <1>3, <2>1 DEF BothOpened, Allocated
<1>5. ASSUME ~e["rx"].claimed  PROVE BothAllocate(e, in, out)
  <2> DEFINE n == NewBulkEnd
             f == Allocated(e, "rx", in)
             m == Allocated(n, "rx", in)
  <2>1. Tidy(n) /\ ~n["rx"].claimed
    BY StaysTidy DEF NewBulkEnd, Sides
  <2>2. /\ e["tx"].wMax = 0 /\ e["rx"].wMax = 0 /\ ~e["tx"].claimed
        /\ n["tx"].wMax = 0 /\ n["rx"].wMax = 0
    BY <1>5, <2>1 DEF Tidy
  <2>3. UsedSize(e) = End0Size /\ UsedSize(n) = End0Size
    BY <2>2 DEF UsedSize, Share, End0Size
  <2>4. Allocates(n, "rx", in) /\ Allocates(m, "tx", out)
    BY <1>2 DEF BothAllocate
  <2> HIDE DEF n
  <2>5. Allocates(e, "rx", in)
    BY <1>5, <2>3, <2>4 DEF Allocates, Fits
  <2>6. UsedSize(f) = UsedSize(m)
    BY <1>1, <2>1, <2>4, <2>5, RxOpened
  <2>7. ~f["tx"].claimed
    <3>1. f = [e EXCEPT !["rx"] = Sized(End0Size, FifoSize(in))]
      BY <1>1, <2>5, RxOpened
    <3>2. DOMAIN e = Sides /\ "tx" \in Sides /\ "tx" # "rx"
      BY DEF Tidy, Placed, BulkEnds, Sides
    <3>3. f["tx"] = e["tx"]
      <4> HIDE DEF f
      <4> QED
        BY <3>1, <3>2
    <3> QED
      BY <2>2, <3>3
  <2> HIDE DEF f, m
  <2>8. Allocates(f, "tx", out)
    BY <2>4, <2>6, <2>7 DEF Allocates, Fits
  <2> QED
    BY <2>5, <2>8 DEF BothAllocate, f
<1>6. Tidy(BothOpened(e, in, out))
  BY <1>1, StaysTidy
<1>7. BothAllocate(e, in, out) => Apart(BothOpened(e, in, out))
  BY <1>1, OpenedApart
<1> QED
  BY <1>4, <1>5, <1>6, <1>7 DEF in, out

\* The class driver opens its pipes, and asks for a configuration.
LEMMA CleanSound ==
  ASSUME NEW d, Sound(d)
  PROVE  Sound([d EXCEPT !.hw.clean = FALSE])
<1> DEFINE e == [d EXCEPT !.hw.clean = FALSE]
<1>1. Shape(d)
  BY DEF Sound
<1>2. /\ SameBus(d, e) /\ SameMemory(d, e) /\ e.enum = d.enum /\ e.ep0 = d.ep0
      /\ e.queue = d.queue /\ e.wild = d.wild /\ DOMAIN e = DOMAIN d
      /\ e.hw = [d.hw EXCEPT !.clean = FALSE]
  BY <1>1 DEF Shape, SameBus, SameMemory
<1> HIDE DEF e
<1>3. Shape(e)
  BY <1>1, <1>2 DEF Shape, SameBus, SameMemory
<1>4. SameWires(d.hw, e.hw) /\ e.hw.wire = d.hw.wire /\ e.hw.clean = FALSE
  BY <1>1, <1>2 DEF Shape, BusFields, SameWires
<1>5. BusOk(e.hw)
  BY <1>4 DEF Sound, BusOk, SameWires
<1>6. FifoOk(e) /\ (Enumerates(e) <=> Enumerates(d))
  BY <1>2 DEF Sound, FifoOk, Enumerates, SameBus, SameMemory
<1>7. Sound(e)
  BY <1>2, <1>3, <1>4, <1>5, <1>6 DEF Sound, Hosts, SameBus, SameMemory
<1> QED
  BY <1>7 DEF e

LEMMA OpenSound ==
  ASSUME NEW d, Sound(d), NEW k \in KindsOrNone, NEW e,
         e = [d EXCEPT !.bulk = BothOpened(@, wInSize[k], wOutSize[k])]
  PROVE  /\ Sound(e) /\ e.enum = d.enum
         /\ BothAllocate(d.bulk, wInSize[k], wOutSize[k]) => Apart(e.bulk)
<1> DEFINE o == BothOpened(d.bulk, wInSize[k], wOutSize[k])
<1>1. Shape(d) /\ Tidy(d.bulk)
  BY DEF Sound, FifoOk
<1>2. /\ e.port = d.port /\ e.timer = d.timer /\ SameMemory(d, e) /\ e.enum = d.enum
      /\ e.ep0 = d.ep0 /\ e.queue = d.queue /\ e.wild = d.wild /\ e.hw = d.hw
      /\ e.bulk = o /\ DOMAIN e = DOMAIN d
  BY <1>1 DEF Shape, SameMemory
<1>3. /\ Tidy(o)
      /\ BothAllocate(d.bulk, wInSize[k], wOutSize[k]) => Apart(o)
      /\ ~BothAllocate(d.bulk, wInSize[k], wOutSize[k]) => o = d.bulk
  BY <1>1, OpenedIs
<1> HIDE DEF o
<1>4. Shape(e)
  BY <1>1, <1>2 DEF Shape, SameMemory
<1>5. FifoOk(e)
  BY <1>2, <1>3 DEF Sound, FifoOk, SameMemory
<1>6. Enumerates(e) <=> Enumerates(d)
  BY <1>2 DEF Enumerates
<1>7. Sound(e)
  BY <1>2, <1>4, <1>5, <1>6 DEF Sound, Hosts, SameMemory
<1> QED
  BY <1>2, <1>3, <1>7

LEMMA MsdConnectFine ==
  ASSUME NEW d, Fine(d, TRUE), NEW b \in Devices, b \in Listed(d)
  PROVE  Fine(MsdConnect(d, b), FALSE)
<1> DEFINE s == ReadBusState(d)
           k == d.device[b].kind
           in == wInSize[k]
           out == wOutSize[k]
           o == [s EXCEPT !.bulk = BothOpened(@, in, out)]
           f == "msd"
           m == [o EXCEPT !.device[b][f] = TRUE]
           t == [o EXCEPT !.enum.outcome = "end taken"]
           c == [t EXCEPT !.hw.clean = FALSE]
           e == MsdConnect(d, b)
<1>0. c = [o EXCEPT !.enum.outcome = "end taken", !.hw.clean = FALSE]
  OBVIOUS
<1>1. k \in KindsOrNone
  BY DEF Fine, Sound, BlocksOk
<1>2. \/ /\ BothAllocate(s.bulk, in, out)
         /\ e = StartControlTransfer(m, ConfigIrp(b))
      \/ e \in {s, o, c}
  BY <1>0 DEF MsdConnect
<1> HIDE DEF e, k
<1>3. Fine(s, TRUE) /\ BusMoves(d, s)
  <2>1. BusMoves(d, s)
    BY ReadIs DEF Fine, Sound
  <2> QED
    BY <2>1, MoveFine
<1>4. b \in Listed(s)
  BY <1>3 DEF BusMoves, Outside, Listed
<1> HIDE DEF s
<1>5. Sound(o) /\ (BothAllocate(s.bulk, in, out) => Apart(o.bulk))
  BY <1>1, <1>3, OpenSound DEF Fine
<1>6. Aside(s, o) /\ o.connected = s.connected
  <2>1. /\ o.port = s.port /\ o.timer = s.timer /\ SameMemory(s, o) /\ o.enum = s.enum
        /\ o.ep0 = s.ep0 /\ o.queue = s.queue /\ o.hw = s.hw
    BY <1>3 DEF Fine, Sound, Shape, SameMemory
  <2> HIDE DEF o
  <2> QED
    BY <2>1 DEF Aside, SameMemory
<1> HIDE DEF o
<1>7. Fine(o, TRUE) /\ b \in Listed(o)
  BY <1>3, <1>4, <1>5, <1>6, AsideFine DEF Listed
<1>8. f \in BlockFields  BY DEF BlockFields
<1> HIDE DEF f
<1>9. BlockSet(o, b, f, TRUE, m)
  <2>1. Shape(o)  BY <1>5 DEF Sound
  <2> QED  BY <1>8, <2>1, BlockSetIs
<1> HIDE DEF m
<1>10. ASSUME Apart(o.bulk)  PROVE Fine(StartControlTransfer(m, ConfigIrp(b)), FALSE)
  <2>1. \A x \in Devices : /\ m.device[x].bBusAddress = o.device[x].bBusAddress
                           /\ m.device[x].kind = o.device[x].kind
                           /\ m.device[x].used = o.device[x].used
                           /\ m.device[x].pPrivateData = o.device[x].pPrivateData
    BY <1>9 DEF BlockSet, BlockFields, f
  <2>2. BlocksOk(m.device)
    BY <1>5, <2>1 DEF Sound, BlocksOk
  <2>3. FifoOk(m) /\ (Enumerates(m) <=> Enumerates(o))
    BY <1>5, <1>9, <1>10 DEF Sound, FifoOk, Enumerates, BlockSet, SameBus
  <2>4. Sound(m)
    BY <1>5, <1>9, <2>2, <2>3 DEF Sound, Hosts, BlockSet, SameBus
  <2>5. Listed(m) = Listed(o) /\ Listed(o) \subseteq Devices
    BY <1>5, <1>9 DEF Listed, BlockSet, Sound
  <2>6. Surprises \/ ListOk(m)
    BY <1>7, <1>9, <2>1, <2>5 DEF Fine, Alone, ListOk, Address, BlockSet
  <2>7. InMemory(o, m)
    BY <1>9 DEF InMemory, BlockSet, SameBus
  <2>8. Fine(m, TRUE)
    BY <1>7, <2>4, <2>6, <2>7, MemoryFine
  <2>9. ConfigIrp(b) \in Newcomers /\ ConfigIrp(b) # EnumIrp
        /\ \A x : ConfigIrp(b) = ConfigIrp(x) => x = b
    BY DEF Newcomers, Irps, ConfigIrp, EnumIrp, HnpIrp
  <2>10. \A x : ConfigIrp(b) = ConfigIrp(x) => x \in Listed(m)
    BY <1>7, <2>5, <2>9
  <2> QED
    BY <2>8, <2>9, <2>10, StartFine
<1>11. Fine(c, FALSE)
  <2>1. "end taken" \in Outcomes  BY Zenon DEF Outcomes
  <2> DEFINE v == "end taken"
  <2>2. t = [o EXCEPT !.enum.outcome = v] /\ v \in Outcomes  BY <2>1
  <2> HIDE DEF v, t
  <2>3. Fine(t, FALSE) /\ SameButEnum(o, t)
    BY <1>7, <2>2, OutcomeFine
  <2>4. Sound(t) /\ Shape(t)
    BY <2>3 DEF Fine, Sound
  <2>5. Sound([t EXCEPT !.hw.clean = FALSE])
    BY <2>4, CleanSound
  <2>6. Sound(c)
    BY <2>5
  <2>7. c.hw = [t.hw EXCEPT !.clean = FALSE]
    BY <2>4 DEF Shape
  <2>8. c.hw.clean = FALSE
    BY <2>4, <2>7 DEF Shape, BusFields
  <2>9. /\ c.enum = t.enum /\ SameMemory(t, c) /\ c.ep0 = t.ep0 /\ c.queue = t.queue
        /\ c.timer = t.timer
    BY <2>4 DEF Shape, SameMemory
  <2>10. /\ Alone(t, FALSE) => Alone(c, FALSE)
    <3> HIDE DEF c
    <3> QED
      BY <2>8, <2>9 DEF Alone, ListOk, Bounds, Owns, Enumerates, SameMemory, Listed, Address
  <2> QED
    BY <2>3, <2>6, <2>10 DEF Fine
<1> HIDE DEF c
<1>12. Fine(s, FALSE) /\ Fine(o, FALSE)
  BY <1>3, <1>7, Weaker
<1>13. Fine(e, FALSE)
  BY <1>2, <1>5, <1>10, <1>11, <1>12
<1> QED
  BY <1>13 DEF e

LEMMA IdleFine ==
  ASSUME NEW d, Fine(d, FALSE)
  PROVE  Fine([d EXCEPT !.enum.bState = "Idle"], FALSE)
<1> DEFINE e == [d EXCEPT !.enum.bState = "Idle"]
<1>0. Sound(d) /\ Shape(d)
  BY DEF Fine, Sound
<1>1. Sound(e)
  BY <1>0, EnumSetsSound, Zenon DEF EnumStates
<1>2. /\ SameButEnum(d, e) /\ e.enum.bState = "Idle" /\ e.enum.pDevice = d.enum.pDevice
      /\ e.enum.bAddress = d.enum.bAddress /\ e.enum.bIndex = d.enum.bIndex
      /\ e.enum.bRetries = d.enum.bRetries /\ e.enum.bFatalRetries = d.enum.bFatalRetries
      /\ e.enum.outcome = d.enum.outcome
  BY <1>0, StateIs
<1> HIDE DEF e
<1>3. SUFFICES ASSUME ~Surprises PROVE Alone(e, FALSE)
  BY <1>1 DEF Fine, e
<1>4. Alone(d, FALSE)
  BY <1>3 DEF Fine
<1>5. /\ e.timer = d.timer /\ e.device = d.device /\ e.connected = d.connected
      /\ e.abmAddress = d.abmAddress /\ e.hw = d.hw /\ e.ep0 = d.ep0 /\ e.queue = d.queue
  BY <1>2 DEF SameButEnum, SameBus, SameMemory
<1>6. Enumerates(e) <=> Enumerates(d)
  BY <1>5 DEF Enumerates
<1>7. ListOk(e) /\ Bounds(e) /\ (Enumerates(e) => Owns(e))
  BY <1>2, <1>4, <1>5, <1>6 DEF Alone, ListOk, Owns, Bounds, Listed, Address
<1>8. SUFFICES ASSUME e.hw.clean PROVE Calm(e)
  BY <1>7 DEF Alone
<1>9. Calm(d)
  BY <1>4, <1>5, <1>8 DEF Alone
<1>10. /\ AtIntr(e) <=> AtIntr(d)
       /\ AtItem(e) <=> AtItem(d)
       /\ AtTimer(e) <=> AtTimer(d)
       /\ AtEnd0(e) <=> AtEnd0(d)
       /\ AtList(e) <=> AtList(d)
  BY <1>5 DEF AtIntr, AtItem, AtTimer, AtEnd0, AtList
<1>11. One(e) /\ (Coming(e) <=> Coming(d))
  BY <1>5, <1>9, <1>10 DEF Calm, One, Coming
<1>12. /\ Leaves(e) <=> Leaves(d)
       /\ \A b \in Devices : Configures(e, b) => b \in Listed(e)
  BY <1>5, <1>9 DEF Calm, Leaves, Configures, Listed
<1>13. Enumerates(e) => Staged(e, e.timer)
  BY <1>2, <1>5, <1>6, <1>9 DEF Calm, Staged
<1> QED
  BY <1>2, <1>5, <1>9, <1>11, <1>12, <1>13 DEF Calm

\* The device is described: it comes into the list, or is refused.
LEMMA ReadyFine ==
  ASSUME NEW d, Fine(d, TRUE), d.enum.pDevice # NoDevice,
         Surprises \/ (/\ Owns(d) /\ d.enum.bAddress # 0
                       /\ Address(d, d.enum.pDevice) = d.enum.bAddress)
  PROVE  Fine(DeviceReady(d), FALSE)
<1> DEFINE b == d.enum.pDevice
           v == IF d.port.pRootDevice = NoDevice THEN b ELSE d.port.pRootDevice
           n == [d EXCEPT !.connected = Append(@, b)]
           s == [n EXCEPT !.port.pRootDevice = v]
           o == [d EXCEPT !.enum.outcome = "refused"]
           q == RelinquishHost(o)
           a == d.device[b].bBusAddress
           r == ReleaseAddress(q, a)
           x == IF AcceptDevice(d, b) THEN MsdConnect(s, b) ELSE MemFree(r, b)
<1>0. b \in Devices /\ v \in Devices \cup {NoDevice} /\ d.connected \in Seq(Devices)
  BY DEF Fine, Sound, EnumOk, PortOk
<1>1. s = [d EXCEPT !.connected = Append(@, b), !.port.pRootDevice =
                      IF @ = NoDevice THEN b ELSE @]
  OBVIOUS
<1>2. DeviceReady(d) = [x EXCEPT !.enum.bState = "Idle"]
  BY <1>1 DEF DeviceReady
<1>3. Shape(d) /\ Sound(d)
  BY DEF Fine, Sound
<1>4. Surprises \/ (/\ Owns(d) /\ ListOk(d) /\ b \notin Listed(d)
                    /\ Address(d, b) = a /\ a = d.enum.bAddress /\ a # 0)
  BY DEF Fine, Alone, Owns, Address
<1>5. Surprises \/ (a \in d.abmAddress /\ \A c \in Listed(d) : Address(d, c) # a)
  BY <1>4 DEF Owns
<1> HIDE DEF b, v, a
<1>6. /\ SameBus(d, n) /\ n.hw = d.hw /\ n.enum = d.enum /\ n.ep0 = d.ep0 /\ n.queue = d.queue
      /\ n.device = d.device /\ n.abmAddress = d.abmAddress
      /\ n.connected = Append(d.connected, b) /\ DOMAIN n = DOMAIN d
  BY <1>3 DEF Shape, SameBus
<1> HIDE DEF n
<1>7. Sound(n)
  <2>1. Shape(n)
    BY <1>3, <1>6 DEF Shape, SameBus
  <2>2. FifoOk(n) /\ (Enumerates(n) <=> Enumerates(d))
    BY <1>3, <1>6 DEF Sound, FifoOk, Enumerates, SameBus
  <2>3. n.connected \in Seq(Devices)
    BY <1>0, <1>6
  <2> QED
    BY <1>3, <1>6, <2>1, <2>2, <2>3 DEF Sound, Hosts, SameBus
<1>8. /\ DOMAIN n.connected = 1 .. Len(d.connected) + 1 /\ Len(d.connected) \in Nat
      /\ DOMAIN d.connected = 1 .. Len(d.connected)
      /\ \A k \in 1 .. Len(d.connected) : n.connected[k] = d.connected[k]
      /\ n.connected[Len(d.connected) + 1] = b
  BY <1>0, <1>6
<1>9. Listed(n) = Listed(d) \cup {b}
  BY <1>8 DEF Listed
<1>10. ASSUME ~Surprises PROVE ListOk(n)
  <2>1. ListOk(d) /\ b \notin Listed(d) /\ Owns(d)
    BY <1>4, <1>10
  <2>2. \A j, k \in DOMAIN n.connected : n.connected[j] = n.connected[k] => j = k
    <3>1. \A k \in 1 .. Len(d.connected) : d.connected[k] # b
      BY <1>8, <2>1 DEF Listed
    <3>2. \A j, k \in 1 .. Len(d.connected) : d.connected[j] = d.connected[k] => j = k
      BY <1>8, <2>1 DEF ListOk
    <3> QED
      BY <1>8, <3>1, <3>2
  <2>3. n.device[b].used /\ n.device[b].pPrivateData
    BY <1>6, <2>1 DEF Owns, b
  <2>4. \A c : Address(n, c) = Address(d, c)
    BY <1>6 DEF Address
  <2>5. \A c \in Listed(n) : /\ n.device[c].used /\ n.device[c].pPrivateData
                             /\ Address(n, c) \in n.abmAddress
    BY <1>4, <1>5, <1>6, <1>9, <1>10, <2>1, <2>3, <2>4 DEF ListOk
  <2>6. \A c, e \in Listed(n) : Address(n, c) = Address(n, e) => c = e
    BY <1>4, <1>5, <1>9, <1>10, <2>1, <2>4 DEF ListOk
  <2> QED
    BY <2>2, <2>5, <2>6 DEF ListOk
<1>11. Fine(n, TRUE)
  <2>1. InMemory(d, n)
    BY <1>6 DEF InMemory, SameBus
  <2> QED
    BY <1>7, <1>10, <2>1, MemoryFine
<1>12. Fine(s, TRUE) /\ b \in Listed(s)
  <2>1. SameButPort(n, s) /\ DOMAIN s = DOMAIN n /\ s.port = [n.port EXCEPT !.pRootDevice = v]
    BY <1>7 DEF Sound, Shape, Outside, SameButPort
  <2>2. Shape(n)
    BY <1>7 DEF Sound
  <2> HIDE DEF s
  <2>3. PortBut(n, s, {"pRootDevice"}) /\ s.port.pRootDevice = v
    BY <2>1, <2>2, PortButIs DEF Shape, PortFields
  <2>4. Settable("pRootDevice", s.port.pRootDevice)
    BY <1>0, <2>3 DEF Settable
  <2>5. Fine(s, TRUE)
    BY <1>11, <2>3, <2>4, SetFine
  <2>6. s.connected = n.connected
    BY <2>1 DEF SameButPort, Outside
  <2>7. Listed(s) = Listed(n)
    BY <2>6 DEF Listed
  <2> QED
    BY <1>9, <2>5, <2>7
<1> HIDE DEF s
<1>13. Fine(MsdConnect(s, b), FALSE)
  BY <1>0, <1>12, MsdConnectFine
<1>14. /\ Fine(o, FALSE) /\ SameButEnum(d, o) /\ o.enum.outcome = "refused"
  <2>1. "refused" \in Outcomes  BY DEF Outcomes
  <2> DEFINE word == "refused"
  <2>2. word \in Outcomes /\ o = [d EXCEPT !.enum.outcome = word]  BY <2>1
  <2> HIDE DEF o
  <2>3. o.enum.outcome = word /\ Fine(o, FALSE) /\ SameButEnum(d, o)
    <3> HIDE DEF word
    <3> QED
      BY <2>2, OutcomeFine, Zenon
  <2> QED
    BY <2>3
<1> HIDE DEF o
<1>15. Fine(q, FALSE) /\ Quits(o, q)
  BY <1>14, RelinquishFine, RelinquishQuits
<1> HIDE DEF q
<1>16. Fine(MemFree(r, b), FALSE)
  <2>1. /\ q.device = d.device /\ q.connected = d.connected
        /\ q.enum.outcome = "refused"
    BY <1>14, <1>15 DEF Quits, SameButEnum, SameMemory
  <2>2. Surprises \/ (b \notin Listed(q) /\ \A c \in Listed(q) : Address(q, c) # a)
    BY <1>4, <1>5, <2>1 DEF Listed, Address
  <2>3. Surprises \/ ~Enumerates(q)
    <3>1. Surprises \/ ~Enumerates(d)
      BY DEF Fine, Alone
    <3>2. Enumerates(o) => Enumerates(d)
      BY <1>14 DEF SameButEnum, SameBus, Enumerates
    <3> QED
      BY <1>15, <3>1, <3>2 DEF Quits
  <2>4. Surprises \/ (q.hw.clean => ~Coming(q))
    BY <1>15, <2>1 DEF Fine, Alone, Calm
  <2>5. Surprises \/ (~Enumerates(q) /\ (q.hw.clean => ~Coming(q)))
    BY <2>3, <2>4
  <2> QED
    BY <1>0, <1>15, <2>2, <2>5, GiveUpFine
<1>17. Fine(x, FALSE)
  BY <1>13, <1>16
<1> HIDE DEF x
<1>18. Fine([x EXCEPT !.enum.bState = "Idle"], FALSE)
  BY <1>17, IdleFine
<1> QED
  BY <1>2, <1>18

LEMMA ContinuesFine ==
  ASSUME NEW d, Fine(d, TRUE)
  PROVE  /\ Works(d, "GetConfig") => Fine(NextConfig(d), FALSE)
         /\ Works(d, "SetDeviceAddress") =>
              Fine(After(d, "SetDeviceAddress", SetDeviceAddress(d)), FALSE)
         /\ Works(d, "GetFullDescriptor") =>
              Fine(After(d, "GetFullDescriptor", GetFullDescriptor(d)), FALSE)
<1>1. {"GetConfig", "SetDeviceAddress", "GetFullDescriptor"} \subseteq EnumTimers
  BY DEF EnumTimers
<1>2. ASSUME Works(d, "GetConfig") PROVE Fine(NextConfig(d), FALSE)
  <2>1. Fine(GetConfig(d), FALSE)  BY <1>2, SendFine
  <2> QED
    BY <1>1, <1>2, <2>1, WaitsFine DEF NextConfig
<1>3. ASSUME Works(d, "SetDeviceAddress")
      PROVE  Fine(After(d, "SetDeviceAddress", SetDeviceAddress(d)), FALSE)
  <2>1. Fine(SetDeviceAddress(d), FALSE)  BY <1>3, SendFine
  <2> QED
    BY <1>1, <1>3, <2>1, WaitsFine
<1>4. ASSUME Works(d, "GetFullDescriptor")
      PROVE  Fine(After(d, "GetFullDescriptor", GetFullDescriptor(d)), FALSE)
  <2>1. Fine(GetFullDescriptor(d), FALSE)  BY <1>4, SendFine
  <2> QED
    BY <1>1, <1>4, <2>1, WaitsFine
<1> QED
  BY <1>2, <1>3, <1>4

LEMMA SucceededFine ==
  ASSUME NEW d, Fine(d, TRUE), Works(d, "none"), Surprises \/ d.hw.clean
  PROVE  Fine(EnumSucceeded(d), FALSE)
<1> DEFINE b == d.enum.pDevice
           s == [d EXCEPT !.enum.bRetries = 0, !.enum.bFatalRetries = 0]
           a == AllocateAddress(s)
           none == [s EXCEPT !.enum.outcome = "no address"]
           fa == "bBusAddress"
           fk == "kind"
           addressed == [s EXCEPT !.device[b][fa] = d.enum.bAddress]
           z == [s EXCEPT !.enum.bState = "SizeConfigs", !.enum.bIndex = 0]
           sizing == [z EXCEPT !.device[b][fk] = d.hw.kind]
           next == [s EXCEPT !.enum.bIndex = @ + 1]
           getting == [s EXCEPT !.enum.bState = "GetConfigs", !.enum.bIndex = 0]
           e == EnumSucceeded(d)
<1>0. /\ Sound(d) /\ b \in Devices /\ d.enum.bAddress \in Addresses \cup {0}
      /\ d.hw.kind \in KindsOrNone /\ b # NoDevice /\ d.enum.bIndex \in Nat
  BY DEF Fine, Works, Sound, EnumOk, BusOk
<1>1. sizing = [s EXCEPT !.enum.bState = "SizeConfigs", !.enum.bIndex = 0,
                         !.device[b].kind = d.hw.kind]
  OBVIOUS
<1>2. addressed = [s EXCEPT !.device[b].bBusAddress = d.enum.bAddress]
  OBVIOUS
<1>3. \/ e \in {s, none}
      \/ /\ d.enum.bState = "GetMinDevice" /\ s.abmAddress # Addresses
         /\ e = After(a, "SetDeviceAddress", SetDeviceAddress(a))
      \/ /\ d.enum.bState = "SetAddress"
         /\ e = After(addressed, "GetFullDescriptor", GetFullDescriptor(addressed))
      \/ d.enum.bState = "GetFullDevice" /\ e = NextConfig(sizing)
      \/ /\ d.enum.bState \in {"SizeConfigs", "GetConfigs"} /\ next.enum.bIndex < Configs
         /\ e = NextConfig(next)
      \/ d.enum.bState = "SizeConfigs" /\ e = NextConfig(getting)
      \/ d.enum.bState = "GetConfigs" /\ e = DeviceReady(next)
  BY <1>1, <1>2, ZenonT(60) DEF EnumSucceeded
<1>4. Surprises \/ (Owns(d) /\ Staged(d, "none"))
  BY DEF Works
<1>5. /\ EnumBut(d, s, {"bRetries", "bFatalRetries"}) /\ Sound(s)
      /\ s.enum.bRetries = 0 /\ s.enum.bFatalRetries = 0
  <2>1. Shape(d)  BY <1>0 DEF Sound
  <2>2. EnumBut(d, s, {"bRetries", "bFatalRetries"})  BY <2>1, EnumSetsIs, Zenon
  <2>3. s.enum.bRetries = 0 /\ s.enum.bFatalRetries = 0  BY <2>1, EnumSetsIs, Zenon
  <2>4. Sound(s)  BY <1>0, EnumSetsSound, Zenon
  <2> QED  BY <2>2, <2>3, <2>4
<1> HIDE DEF b, s, e
<1>6. /\ s.enum.bState = d.enum.bState /\ s.enum.pDevice = b
      /\ s.enum.bAddress = d.enum.bAddress /\ s.enum.bIndex = d.enum.bIndex
      /\ s.device = d.device /\ s.connected = d.connected /\ s.abmAddress = d.abmAddress
      /\ s.hw = d.hw
  BY <1>5 DEF EnumBut, EnumFields, SameButEnum, SameMemory, b
<1>7. /\ MaxEnumRetries \in Nat /\ Configs \in Nat \ {0}
      /\ 0 <= MaxEnumRetries + 1 /\ 0 <= MaxEnumRetries /\ 0 < Configs
  BY HostAssumption
<1>8. Fine(s, TRUE)
  <2>1. Surprises \/ Bounds(s)
    BY <1>5, <1>6, <1>7 DEF Fine, Alone, Bounds
  <2> QED
    BY <1>5, <2>1, EnumSetsFine
<1>9. Surprises \/ (Owns(s) /\ Staged(s, "none"))
  <2>1. s.enum.pDevice = d.enum.pDevice /\ Listed(s) = Listed(d)
    BY <1>6 DEF b, Listed
  <2>2. ASSUME Owns(d) PROVE Owns(s)
    BY <1>6, <2>1, <2>2 DEF Owns, Address
  <2>3. ASSUME Staged(d, "none") PROVE Staged(s, "none")
    BY <1>5, <1>6, <1>7, <2>1, <2>3 DEF Staged, Address
  <2> QED
    BY <1>4, <2>2, <2>3
<1>10. Works(s, "none") /\ (Surprises \/ s.hw.clean)
  BY <1>0, <1>6, <1>9 DEF Works
<1>11. Fine(none, FALSE)
  <2>1. "no address" \in Outcomes  BY Zenon DEF Outcomes
  <2> DEFINE v == "no address"
  <2>2. none = [s EXCEPT !.enum.outcome = v] /\ v \in Outcomes  BY <2>1
  <2> HIDE DEF v, none
  <2> QED
    BY <1>8, <2>2, OutcomeFine
<1> HIDE DEF none
<1>12. fa \in BlockFields /\ fk \in BlockFields  BY DEF BlockFields
<1>13. ASSUME d.enum.bState = "GetMinDevice", s.abmAddress # Addresses
       PROVE  Fine(After(a, "SetDeviceAddress", SetDeviceAddress(a)), FALSE)
  <2>1. s.enum.bState = "GetMinDevice"
    BY <1>6, <1>13
  <2>2. Fine(a, TRUE) /\ Works(a, "SetDeviceAddress")
    BY <1>8, <1>10, <1>13, <2>1, AddressFine
  <2> HIDE DEF a
  <2> QED
    BY <2>2, ContinuesFine
<1> HIDE DEF a
<1>14. ASSUME d.enum.bState = "SetAddress"
       PROVE  Fine(After(addressed, "GetFullDescriptor", GetFullDescriptor(addressed)), FALSE)
  <2>1. fa \in BlockFields /\ Shape(s)  BY <1>5, <1>12 DEF Sound
  <2> HIDE DEF fa
  <2>2. BlockSet(s, b, fa, d.enum.bAddress, addressed)  BY <2>1, BlockSetIs
  <2> HIDE DEF addressed
  <2>3. fa = "bBusAddress"  BY DEF fa
  <2>4. Sound(addressed) /\ addressed.enum = s.enum
    BY <1>0, <1>5, <2>2, <2>3, BlockSetSound
  <2>5. InMemory(s, addressed)
    BY <2>2 DEF InMemory, BlockSet, SameBus
  <2>6. /\ addressed.device[b].bBusAddress = d.enum.bAddress
        /\ addressed.device[b].used = s.device[b].used
        /\ addressed.device[b].pPrivateData = s.device[b].pPrivateData
        /\ \A c \in Devices : c # b => addressed.device[c] = s.device[c]
        /\ Listed(addressed) = Listed(s) /\ Listed(s) \subseteq Devices
        /\ addressed.abmAddress = s.abmAddress /\ addressed.connected = s.connected
        /\ addressed.hw = s.hw
    BY <1>0, <1>5, <2>2, <2>3 DEF BlockSet, BlockFields, Listed, Sound
  <2>7. ASSUME ~Surprises
        PROVE  ListOk(addressed) /\ Owns(addressed) /\ Staged(addressed, "GetFullDescriptor")
    <3>1. Owns(s) /\ Staged(s, "none") /\ ListOk(s)
      BY <1>8, <1>9, <2>7 DEF Fine, Alone
    <3>2. b \notin Listed(s) /\ \A c \in Listed(s) : addressed.device[c] = s.device[c]
      BY <1>6, <2>6, <3>1 DEF Owns
    <3>3. ListOk(addressed)
      BY <2>6, <3>1, <3>2 DEF ListOk, Address
    <3>4. Owns(addressed)
      <4>1. addressed.enum.pDevice = b /\ s.enum.pDevice = b
        BY <1>6, <2>4
      <4>2. addressed.enum.bAddress = s.enum.bAddress /\ s.enum.bAddress = d.enum.bAddress
        BY <1>6, <2>4
      <4> HIDE DEF b
      <4>3. /\ s.device[b].used /\ s.device[b].pPrivateData /\ b \notin Listed(s)
            /\ s.enum.bAddress # 0 =>
                 /\ s.enum.bAddress \in s.abmAddress
                 /\ \A c \in Listed(s) : Address(s, c) # s.enum.bAddress
        BY <3>1, <4>1 DEF Owns
      <4>4. \A c \in Listed(addressed) : Address(addressed, c) = Address(s, c)
        BY <2>6, <3>2 DEF Address
      <4>5. Address(addressed, b) = addressed.enum.bAddress
        BY <2>6, <4>2 DEF Address
      <4> QED
        BY <2>6, <4>1, <4>2, <4>3, <4>4, <4>5 DEF Owns
    <3>5. s.enum.bAddress # 0 /\ s.enum.bState = "SetAddress"
      BY <1>6, <1>14, <3>1 DEF Staged
    <3>6. Staged(addressed, "GetFullDescriptor")
      BY <1>6, <2>4, <2>6, <3>1, <3>5 DEF Staged
    <3> QED
      BY <3>3, <3>4, <3>6
  <2>8. Fine(addressed, TRUE)
    BY <1>8, <2>4, <2>5, <2>7, MemoryFine
  <2>9. Works(addressed, "GetFullDescriptor")
    BY <1>0, <1>6, <2>4, <2>7 DEF Works
  <2> QED
    BY <2>8, <2>9, ContinuesFine
<1> HIDE DEF addressed
<1>15. ASSUME d.enum.bState = "GetFullDevice"
       PROVE  Fine(NextConfig(sizing), FALSE)
  <2>1. /\ EnumBut(s, z, {"bState", "bIndex"}) /\ Sound(z)
        /\ z.enum.bState = "SizeConfigs" /\ z.enum.bIndex = 0
    <3>1. Shape(s)  BY <1>5 DEF Sound
    <3>2. EnumBut(s, z, {"bState", "bIndex"})  BY <3>1, EnumSetsIs, Zenon
    <3>3. z.enum.bState = "SizeConfigs" /\ z.enum.bIndex = 0  BY <3>1, EnumSetsIs, Zenon
    <3>4. Sound(z)  BY <1>5, EnumSetsSound, Zenon
    <3> QED  BY <3>2, <3>3, <3>4
  <2> HIDE DEF z
  <2>2. /\ z.enum.pDevice = b /\ z.enum.bAddress = s.enum.bAddress
        /\ z.enum.bRetries = s.enum.bRetries /\ z.enum.bFatalRetries = s.enum.bFatalRetries
        /\ z.device = s.device /\ z.connected = s.connected /\ z.abmAddress = s.abmAddress
        /\ z.hw = s.hw
    BY <1>6, <2>1 DEF EnumBut, EnumFields, SameButEnum, SameMemory
  <2>3. Surprises \/ Bounds(z)
    BY <1>5, <1>7, <2>1, <2>2 DEF Bounds
  <2>4. Fine(z, TRUE)
    BY <1>8, <2>1, <2>3, EnumSetsFine
  <2>5. fk \in BlockFields /\ Shape(z)  BY <1>12, <2>1 DEF Sound
  <2> HIDE DEF fk
  <2>6. BlockSet(z, b, fk, d.hw.kind, sizing)  BY <2>5, BlockSetIs
  <2> HIDE DEF sizing
  <2>7. fk = "kind"  BY DEF fk
  <2>8. Sound(sizing) /\ sizing.enum = z.enum
    BY <1>0, <2>1, <2>6, <2>7, BlockSetSound
  <2>9. InMemory(z, sizing)
    BY <2>6 DEF InMemory, BlockSet, SameBus
  <2>10. /\ \A c \in Devices : /\ sizing.device[c].used = z.device[c].used
                               /\ sizing.device[c].pPrivateData = z.device[c].pPrivateData
                               /\ sizing.device[c].bBusAddress = z.device[c].bBusAddress
         /\ Listed(sizing) = Listed(z) /\ Listed(z) \subseteq Devices
         /\ sizing.abmAddress = z.abmAddress /\ sizing.connected = z.connected
         /\ sizing.hw = z.hw
    <3>1. ASSUME NEW c \in Devices
          PROVE  /\ sizing.device[c].used = z.device[c].used
                 /\ sizing.device[c].pPrivateData = z.device[c].pPrivateData
                 /\ sizing.device[c].bBusAddress = z.device[c].bBusAddress
      <4>1. CASE c = b
        <5>1. {"used", "pPrivateData", "bBusAddress"} \subseteq BlockFields \ {fk}
          BY <2>7 DEF BlockFields
        <5> QED
          BY <2>6, <3>1, <4>1, <5>1 DEF BlockSet
      <4>2. CASE c # b
        BY <2>6, <3>1, <4>2 DEF BlockSet
      <4> QED
        BY <4>1, <4>2
    <3>2. /\ sizing.abmAddress = z.abmAddress /\ sizing.connected = z.connected
          /\ sizing.hw = z.hw
      BY <2>6 DEF BlockSet
    <3>3. z.connected \in Seq(Devices)
      BY <2>1 DEF Sound
    <3>4. Listed(sizing) = Listed(z) /\ Listed(z) \subseteq Devices
      BY <3>2, <3>3 DEF Listed
    <3> QED
      BY <3>1, <3>2, <3>4
  <2>11. ASSUME ~Surprises
         PROVE  ListOk(sizing) /\ Owns(sizing) /\ Staged(sizing, "GetConfig")
    <3>1. Owns(s) /\ Staged(s, "none") /\ ListOk(z)
      BY <1>9, <2>4, <2>11 DEF Fine, Alone
    <3>2. ListOk(sizing)
      BY <2>10, <3>1 DEF ListOk, Address
    <3>3. Listed(sizing) = Listed(s)
      BY <2>2, <2>10 DEF Listed
    <3>4. Owns(sizing)
      BY <1>0, <1>6, <2>2, <2>8, <2>10, <3>1, <3>3 DEF Owns, Address
    <3>5. /\ s.enum.bAddress # 0 /\ s.device[b].bBusAddress = s.enum.bAddress
          /\ s.enum.bRetries <= MaxEnumRetries /\ s.enum.bFatalRetries = 0
      BY <1>6, <1>15, <3>1 DEF Staged
    <3>6. sizing.device[b].bBusAddress = s.enum.bAddress
      BY <1>0, <2>2, <2>10, <3>5
    <3>7. Staged(sizing, "GetConfig")
      BY <1>7, <2>1, <2>2, <2>8, <3>5, <3>6 DEF Staged
    <3> QED
      BY <3>2, <3>4, <3>7
  <2>12. Fine(sizing, TRUE)
    BY <2>4, <2>8, <2>9, <2>11, MemoryFine
  <2>13. Works(sizing, "GetConfig")
    BY <1>0, <2>2, <2>8, <2>11 DEF Works
  <2> QED
    BY <2>12, <2>13, ContinuesFine
<1> HIDE DEF sizing
<1>16. ASSUME NEW n, NEW F, EnumBut(s, n, F), F \subseteq {"bState", "bIndex"}, Sound(n),
              n.enum.bState \in {"SizeConfigs", "GetConfigs"},
              Surprises \/ n.enum.bIndex <= Configs,
              d.enum.bState \in {"SizeConfigs", "GetConfigs"}
       PROVE  /\ n.enum.bIndex < Configs => Fine(NextConfig(n), FALSE)
              /\ Fine(DeviceReady(n), FALSE)
  <2>1. /\ n.enum.pDevice = b /\ n.enum.bAddress = s.enum.bAddress
        /\ n.enum.bRetries = s.enum.bRetries /\ n.enum.bFatalRetries = s.enum.bFatalRetries
        /\ n.device = s.device /\ n.connected = s.connected /\ n.abmAddress = s.abmAddress
        /\ n.hw = s.hw
    BY <1>6, <1>16 DEF EnumBut, EnumFields, SameButEnum, SameMemory
  <2>2. Surprises \/ Bounds(n)
    BY <1>5, <1>7, <1>16, <2>1 DEF Bounds
  <2>3. Fine(n, TRUE)
    BY <1>8, <1>16, <2>2, EnumSetsFine
  <2>4. Surprises \/ (/\ s.enum.bAddress # 0 /\ s.device[b].bBusAddress = s.enum.bAddress
                      /\ s.enum.bRetries <= MaxEnumRetries /\ s.enum.bFatalRetries = 0)
    BY <1>6, <1>9, <1>16 DEF Staged
  <2>5. Surprises \/ Owns(n)
    BY <1>6, <1>9, <2>1 DEF Owns, Listed, Address
  <2>6. ASSUME n.enum.bIndex < Configs PROVE Fine(NextConfig(n), FALSE)
    <3>1. Surprises \/ Staged(n, "GetConfig")
      BY <1>16, <2>1, <2>4, <2>6 DEF Staged
    <3>2. Works(n, "GetConfig")
      BY <1>0, <2>1, <2>5, <3>1 DEF Works
    <3> QED
      BY <2>3, <3>2, ContinuesFine
  <2>7. Fine(DeviceReady(n), FALSE)
    <3>1. Surprises \/ (/\ Owns(n) /\ n.enum.bAddress # 0
                        /\ Address(n, n.enum.pDevice) = n.enum.bAddress)
      BY <2>1, <2>4, <2>5 DEF Address
    <3> QED
      BY <1>0, <2>1, <2>3, <3>1, ReadyFine
  <2> QED
    BY <2>6, <2>7
<1>17. ASSUME d.enum.bState \in {"SizeConfigs", "GetConfigs"}
       PROVE  /\ next.enum.bIndex < Configs => Fine(NextConfig(next), FALSE)
              /\ Fine(DeviceReady(next), FALSE)
  <2>1. /\ EnumBut(s, next, {"bIndex"}) /\ Sound(next)
        /\ next.enum.bIndex = s.enum.bIndex + 1
    <3>1. Shape(s)  BY <1>5 DEF Sound
    <3>2. EnumBut(s, next, {"bIndex"})  BY <3>1, EnumSetsIs, Zenon
    <3>3. next.enum.bIndex = s.enum.bIndex + 1  BY <3>1, EnumSetsIs, Zenon
    <3>4. Sound(next)  BY <1>5, EnumSetsSound, Zenon
    <3> QED  BY <3>2, <3>3, <3>4
  <2> HIDE DEF next
  <2>2. next.enum.bState = s.enum.bState
    BY <2>1 DEF EnumBut, EnumFields
  <2>3. Surprises \/ s.enum.bIndex < Configs
    BY <1>6, <1>9, <1>17 DEF Staged
  <2>4. Surprises \/ next.enum.bIndex <= Configs
    BY <1>0, <1>6, <1>7, <2>1, <2>3
  <2>5. {"bIndex"} \subseteq {"bState", "bIndex"}
    OBVIOUS
  <2> QED
    BY <1>6, <1>16, <1>17, <2>1, <2>2, <2>4, <2>5
<1>18. ASSUME d.enum.bState = "SizeConfigs"
       PROVE  Fine(NextConfig(getting), FALSE)
  <2>1. /\ EnumBut(s, getting, {"bState", "bIndex"}) /\ Sound(getting)
        /\ getting.enum.bState = "GetConfigs" /\ getting.enum.bIndex = 0
    <3>1. Shape(s)  BY <1>5 DEF Sound
    <3>2. EnumBut(s, getting, {"bState", "bIndex"})  BY <3>1, EnumSetsIs, Zenon
    <3>3. getting.enum.bState = "GetConfigs" /\ getting.enum.bIndex = 0
      BY <3>1, EnumSetsIs, Zenon
    <3>4. Sound(getting)  BY <1>5, EnumSetsSound, Zenon
    <3> QED  BY <3>2, <3>3, <3>4
  <2> HIDE DEF getting
  <2>2. getting.enum.bIndex <= Configs /\ getting.enum.bIndex < Configs
    BY <1>7, <2>1
  <2> QED
    BY <1>16, <1>18, <2>1, <2>2
<1> HIDE DEF next, getting
<1>19. Fine(s, FALSE)
  BY <1>8, Weaker
<1>20. Fine(e, FALSE)
  BY <1>3, <1>11, <1>13, <1>14, <1>15, <1>17, <1>18, <1>19
<1> QED
  BY <1>20 DEF e

-----------------------------------------------------------------------------
(* Completions, interrupts and timers *)

LEMMA WildFine ==
  ASSUME NEW d, NEW h \in BOOLEAN, Fine(d, h), NEW v
  PROVE  Fine([d EXCEPT !.wild = v], h)
<1> DEFINE e == [d EXCEPT !.wild = v]
<1>1. Shape(d) /\ Sound(d)
  BY DEF Fine, Sound
<1>2. Sound(e)
  BY <1>1, WildSound
<1>3. Aside(d, e)
  BY <1>1, WildIs DEF Aside, SameBus
<1> HIDE DEF e
<1>4. Fine(e, h)
  BY <1>2, <1>3, AsideFine
<1> QED
  BY <1>4 DEF e

LEMMA ConfiguredFine ==
  ASSUME NEW d, Fine(d, TRUE), NEW b \in Devices, Surprises \/ b \in Listed(d)
  PROVE  Fine(SetConfigComplete(d, b), FALSE)
<1> DEFINE v == d.wild \cup {"called back late"}
           l == [d EXCEPT !.wild = v]
           r == [d EXCEPT !.enum.outcome = "rejected"]
           c == [d EXCEPT !.enum.outcome = "configured"]
<1>1. SetConfigComplete(d, b) \in {l, RejectDevice(r, b), c}
  BY DEF SetConfigComplete
<1> HIDE DEF v
<1>2. Fine(l, FALSE)
  BY Weaker, WildFine
<1>3. Fine(r, FALSE) /\ SameButEnum(d, r) /\ Fine(c, FALSE)
  <2>1. "rejected" \in Outcomes /\ "configured" \in Outcomes
    BY DEF Outcomes
  <2>2. Fine(r, FALSE) /\ SameButEnum(d, r)
    BY <2>1, OutcomeFine, Zenon
  <2>3. Fine(c, FALSE)
    BY <2>1, OutcomeFine, Zenon
  <2> QED
    BY <2>2, <2>3
<1> HIDE DEF l, r, c
<1>4. Surprises \/ (~Enumerates(d) /\ (d.hw.clean => ~Coming(d)))
  BY DEF Fine, Alone, Hand
<1>5. /\ Enumerates(r) <=> Enumerates(d)
      /\ Coming(r) <=> Coming(d)
      /\ Listed(r) = Listed(d) /\ r.hw = d.hw
  BY <1>3 DEF SameButEnum, SameBus, SameMemory, Enumerates, Coming, AtIntr, AtItem, AtTimer,
              AtEnd0, AtList, Listed
<1>6. Fine(RejectDevice(r, b), FALSE)
  BY <1>3, <1>4, <1>5, RejectFine
<1> QED
  BY <1>1, <1>2, <1>3, <1>6

LEMMA HnpFine ==
  ASSUME NEW d, NEW h \in BOOLEAN, Fine(d, h)
  PROVE  Fine(SetHnpEnableComplete(d), h)
<1> DEFINE p == [d EXCEPT !.port.bWantSuspend = TRUE]
           s == ProgramBusState(p)
<1>1. Fine(p, h)
  BY SetsFine, Zenon
<1> HIDE DEF p
<1>2. Fine(s, h)
  BY <1>1, MoveFine
<1> HIDE DEF s
<1>3. "AidlBdis" \in Timers /\ "AidlBdis" \notin EnumTimers \cup ResetTimers
  BY DEF Timers, EnumTimers, ResetTimers
<1>4. Fine(After(s, "AidlBdis", s), h)
  BY <1>2, <1>3, AfterFine
<1>5. SetHnpEnableComplete(d) = IF HnpIrp \in d.ep0.failed THEN d ELSE After(s, "AidlBdis", s)
  BY DEF SetHnpEnableComplete, s, p
<1> QED
  BY <1>4, <1>5

\* The completion of a transfer that the driver has been told of.
Told(d, i) ==
  /\ Surprises \/ d.hw.clean
  /\ i \in Newcomers => Fine(d, TRUE)
  /\ i = EnumIrp => Works(d, "none")
  /\ \A b \in Devices : i = ConfigIrp(b) => Surprises \/ b \in Listed(d)

LEMMA CompleteFine ==
  ASSUME NEW d, Fine(d, FALSE), NEW i \in Irps, Told(d, i)
  PROVE  Fine(StartNextIrp(IrpComplete(d, i)), FALSE)
<1> DEFINE e == IrpComplete(d, i)
           v == e.wild \cup {"no pipe"}
<1>1. Fine(e, FALSE)
  <2>1. CASE i = EnumIrp
    <3>1. e = IF EnumIrp \in d.ep0.failed THEN EnumFailed(d) ELSE EnumSucceeded(d)
      BY <2>1 DEF IrpComplete, EnumIrp, HnpIrp
    <3>2. i \in Newcomers
      BY <2>1 DEF Newcomers, Irps, EnumIrp, HnpIrp
    <3>3. Fine(d, TRUE) /\ Works(d, "none") /\ (Surprises \/ d.hw.clean)
      BY <2>1, <3>2 DEF Told
    <3> QED
      BY <3>1, <3>3, FailedFine, SucceededFine
  <2>2. CASE i = HnpIrp
    <3>1. i # EnumIrp
      BY <2>2 DEF HnpIrp, EnumIrp
    <3>2. e = SetHnpEnableComplete(d)
      BY <2>2, <3>1 DEF IrpComplete
    <3> QED
      BY <3>2, HnpFine
  <2>3. CASE i # EnumIrp /\ i # HnpIrp
    <3>1. i.dev \in Devices /\ i = ConfigIrp(i.dev) /\ i \in Newcomers
      BY <2>3 DEF Irps, ConfigIrp, Newcomers
    <3>2. Fine(d, TRUE) /\ (Surprises \/ i.dev \in Listed(d))
      BY <3>1 DEF Told
    <3>3. e = SetConfigComplete(d, i.dev)
      BY <2>3 DEF IrpComplete
    <3> QED
      BY <3>1, <3>2, <3>3, ConfiguredFine
  <2> QED
    BY <2>1, <2>2, <2>3
<1> HIDE DEF e
<1>2. StartNextIrp(e) \in {e, [e EXCEPT !.wild = v]}
  BY DEF StartNextIrp
<1> HIDE DEF v
<1>3. Fine([e EXCEPT !.wild = v], FALSE)
  BY <1>1, WildFine
<1> QED
  BY <1>1, <1>2, <1>3 DEF e

-----------------------------------------------------------------------------
(* The controller and the queue *)

LEMMA HwSound ==
  ASSUME NEW d, Sound(d), NEW h, BusFields \subseteq DOMAIN h, BusOk(h),
         h.wire # "idle" => d.ep0.pTxIrp # NoIrp,
         h.clean => /\ h.joined /\ "CONNECT" \notin h.intr => d.port.bIsHost
                    /\ d.ep0.pTxIrp # NoIrp => h.joined /\ h.wire # "idle"
  PROVE  Sound([d EXCEPT !.hw = h])
<1> DEFINE e == [d EXCEPT !.hw = h]
<1>1. Shape(d)
  BY DEF Sound
<1>2. /\ SameBus(d, e) /\ SameMemory(d, e) /\ e.enum = d.enum /\ e.ep0 = d.ep0
      /\ e.queue = d.queue /\ e.wild = d.wild /\ DOMAIN e = DOMAIN d /\ e.hw = h
  BY <1>1 DEF Shape, SameBus, SameMemory
<1> HIDE DEF e
<1>3. Shape(e)
  BY <1>1, <1>2 DEF Shape, SameBus, SameMemory
<1>4. FifoOk(e) /\ (Enumerates(e) <=> Enumerates(d))
  BY <1>2 DEF Sound, FifoOk, Enumerates, SameBus, SameMemory
<1>5. Sound(e)
  BY <1>2, <1>3, <1>4 DEF Sound, Hosts, SameBus, SameMemory
<1> QED
  BY <1>5 DEF e

\* What is reported goes from the controller to the queue, or from the queue to its end.
InQueue(d, i) == \E k \in DOMAIN d.queue : d.queue[k].irp = i
Turns(d, e) ==
  /\ e.enum = d.enum /\ e.ep0 = d.ep0 /\ SameMemory(d, e) /\ e.timer = d.timer
  /\ (e.hw.clean => d.hw.clean) /\ e.hw.joined = d.hw.joined
  /\ AtIntr(e) \/ AtItem(e) => AtIntr(d) \/ AtItem(d)
  /\ One(d) => ~(AtIntr(e) /\ AtItem(e)) /\ OneItem(e.queue)
  /\ Leaves(e) => Leaves(d)
  /\ \A i \in Irps : InQueue(e, i) => InQueue(d, i)

LEMMA TurnsFine ==
  ASSUME NEW d, NEW h \in BOOLEAN, Fine(d, h), NEW e, Sound(e), Turns(d, e)
  PROVE  Fine(e, h)
<1>1. EnumIrp \in Irps /\ \A b \in Devices : ConfigIrp(b) \in Irps
  BY DEF Irps
<1>2. /\ Enumerates(e) => Enumerates(d)
      /\ \A b \in Devices : Configures(e, b) => Configures(d, b)
  BY <1>1 DEF Turns, Enumerates, Configures, InQueue
<1>3. SUFFICES ASSUME ~Surprises PROVE Alone(e, h)
  BY DEF Fine
<1>4. Alone(d, h)
  BY <1>3 DEF Fine
<1>5. ListOk(e) /\ Bounds(e) /\ (Enumerates(e) => Owns(e)) /\ (h => ~Enumerates(e))
  BY <1>2, <1>4 DEF Alone, Turns, SameMemory, ListOk, Owns, Bounds, Listed, Address
<1>6. SUFFICES ASSUME e.hw.clean PROVE Calm(e) /\ (h => Hand(e))
  BY <1>5 DEF Alone
<1>7. Calm(d) /\ (h => Hand(d))
  BY <1>4, <1>6 DEF Turns, Alone
<1>8. /\ AtTimer(e) <=> AtTimer(d)
      /\ AtEnd0(e) <=> AtEnd0(d)
      /\ AtList(e) <=> AtList(d)
      /\ AtIntr(e) \/ AtItem(e) => AtIntr(d) \/ AtItem(d)
      /\ ~(AtIntr(e) /\ AtItem(e)) /\ OneItem(e.queue) /\ OneWaits(e.ep0.list)
  BY <1>7 DEF Turns, AtTimer, AtEnd0, AtList, Calm, One
<1>9. One(d)
  BY <1>7 DEF Calm
<1>10. One(e) /\ (Coming(e) => Coming(d))
  BY <1>8, <1>9 DEF One, Coming
<1>11. /\ Leaves(e) => ~e.hw.joined
       /\ \A b \in Devices : Configures(e, b) => b \in Listed(e)
       /\ Enumerates(e) => Staged(e, e.timer)
  BY <1>2, <1>7 DEF Turns, Calm, Staged, SameMemory, Listed
<1> QED
  BY <1>7, <1>10, <1>11 DEF Turns, Calm, Hand

LEMMA QueueSound ==
  ASSUME NEW d, Sound(d), NEW q \in Seq(Items),
         (\E k \in DOMAIN q : q[k].irp = EnumIrp) => d.enum.pDevice # NoDevice
  PROVE  Sound([d EXCEPT !.queue = q])
<1> DEFINE e == [d EXCEPT !.queue = q]
<1>1. Shape(d)
  BY DEF Sound
<1>2. /\ SameBus(d, e) /\ SameMemory(d, e) /\ e.enum = d.enum /\ e.ep0 = d.ep0
      /\ e.queue = q /\ e.wild = d.wild /\ DOMAIN e = DOMAIN d /\ e.hw = d.hw
  BY <1>1 DEF Shape, SameBus, SameMemory
<1> HIDE DEF e
<1>3. Shape(e)
  BY <1>1, <1>2 DEF Shape, SameBus, SameMemory
<1>4. FifoOk(e)
  BY <1>2 DEF Sound, FifoOk, SameBus, SameMemory
<1>5. Enumerates(e) => e.enum.pDevice # NoDevice
  BY <1>2 DEF Sound, Enumerates, SameBus
<1>6. Sound(e)
  BY <1>2, <1>3, <1>4, <1>5 DEF Sound, Hosts, SameBus, SameMemory
<1> QED
  BY <1>6 DEF e

LEMMA IsHostSound ==
  ASSUME NEW d, Sound(d), NEW v \in BOOLEAN, d.port.bIsHost => v
  PROVE  Sound([d EXCEPT !.port.bIsHost = v])
<1> DEFINE e == [d EXCEPT !.port.bIsHost = v]
<1>1. Shape(d) /\ PortOk(d.port)
  BY DEF Sound
<1>2. SameButPort(d, e) /\ DOMAIN e = DOMAIN d /\ e.port = [d.port EXCEPT !.bIsHost = v]
  BY <1>1 DEF Shape, Outside, SameButPort
<1> HIDE DEF e
<1>3. PortBut(d, e, {"bIsHost"}) /\ e.port.bIsHost = v
  BY <1>1, <1>2, PortButIs DEF Shape, PortFields
<1>4. Shape(e) /\ PortOk(e.port)
  BY <1>1, <1>3 DEF PortBut, PortOk, PortFields
<1>5. Sound(e)
  BY <1>2, <1>3, <1>4, PortSound
<1> QED
  BY <1>5 DEF e

\* Items that say what the controller has reported.
Reports == [cause : Causes \cup {"RESET"}, irp : {NoIrp}]

LEMMA ReportsSound ==
  ASSUME NEW d, Sound(d), NEW q \in Seq(Reports)
  PROVE  Sound([d EXCEPT !.queue = q])
<1>1. \A k \in DOMAIN q : q[k] \in Reports
  OBVIOUS
<1>2. q \in Seq(Items)
  <2>1. Reports \subseteq Items
    BY DEF Items, Reports
  <2> QED
    BY <2>1
<1>3. \A k \in DOMAIN q : q[k].irp # EnumIrp
  BY <1>1 DEF Reports, NoIrp, EnumIrp
<1> QED
  BY <1>2, <1>3, QueueSound

LEMMA FlushedSound ==
  ASSUME NEW d, Sound(d)
  PROVE  Sound([d EXCEPT !.bulk = FlushedAll(@)])
<1>1. Shape(d)
  BY DEF Sound
<1> QED
  BY <1>1, FlushedIs, BusSound

\* A transfer that has been answered or has failed is then taken for one of a host.
Answers(d) == d.hw.clean /\ d.ep0.pTxIrp # NoIrp => d.port.bIsHost

\* What the ISR does about a reset, when there is nothing but reports in the queue.
LEMMA ResetIsrFine ==
  ASSUME NEW d, Fine(d, FALSE), d.queue \in Seq(Reports)
  PROVE  Fine(ResetIsr(d), FALSE) /\ Answers(ResetIsr(d))
<1> DEFINE s == ReadBusState(d)
           it == [cause |-> "RESET", irp |-> NoIrp]
           v == s.hw.session
           w == [s EXCEPT !.port.bWantSession = v]
           p == [s EXCEPT !.port.bWantSession = v, !.bulk = FlushedAll(@)]
           r == [s EXCEPT !.queue = Append(@, it)]
<1>1. IF s.port.bIsHost THEN ResetIsr(d) = r ELSE ResetIsr(d) \in {p, OtgStateGetId(p)}
  BY DEF ResetIsr
<1>2. Fine(s, FALSE)
  BY MoveFine
<1>3. Shape(d)
  BY DEF Fine, Sound
<1>4. s.queue = d.queue /\ s.hw = d.hw /\ s.port.bIsHost = HostMode(d.hw)
  BY <1>3, ReadIs DEF BusMoves, Outside
<1> HIDE DEF s
<1>5. v \in BOOLEAN /\ Sound(s) /\ Shape(s)
  BY <1>2 DEF Fine, Sound, BusOk
<1>6. Fine(r, FALSE)
  <2> DEFINE q == Append(s.queue, it)
  <2>1. it \in Reports /\ it.irp = NoIrp /\ it.cause = "RESET"
    BY DEF Reports
  <2>2. NoIrp \notin Irps
    BY DEF Irps, NoIrp, EnumIrp, HnpIrp, ConfigIrp
  <2>3. ~IsNew(it) /\ it.cause # "DISCONNECT" /\ it.irp \notin Irps
    BY <2>1, <2>2 DEF IsNew, Newcomers
  <2> HIDE DEF it
  <2>4. q \in Seq(Reports)
    BY <1>4, <2>1
  <2>5. /\ DOMAIN q = 1 .. Len(s.queue) + 1 /\ DOMAIN s.queue = 1 .. Len(s.queue)
        /\ q[Len(s.queue) + 1] = it /\ \A k \in 1 .. Len(s.queue) : q[k] = s.queue[k]
        /\ Len(s.queue) \in Nat
    BY <1>4
  <2> HIDE DEF q
  <2> DEFINE e == [s EXCEPT !.queue = q]
  <2>6. e = r
    BY DEF q
  <2>7. /\ e.queue = q /\ e.enum = s.enum /\ e.ep0 = s.ep0 /\ SameMemory(s, e)
        /\ e.timer = s.timer /\ e.hw = s.hw
    BY <1>5 DEF Shape, SameMemory
  <2>8. Sound(e)
    BY <1>5, <2>4, ReportsSound
  <2> HIDE DEF e, r
  <2>9. \A k \in DOMAIN q : IsNew(q[k]) \/ q[k].cause = "DISCONNECT" \/ q[k].irp \in Irps =>
                             k \in DOMAIN s.queue /\ q[k] = s.queue[k]
    BY <2>3, <2>5
  <2>10. AtItem(e) => AtItem(s)
    BY <2>7, <2>9 DEF AtItem
  <2>11. OneItem(s.queue) => OneItem(e.queue)
    BY <2>7, <2>9 DEF OneItem
  <2>12. Leaves(e) => Leaves(s)
    BY <2>7, <2>9 DEF Leaves
  <2>13. \A i \in Irps : InQueue(e, i) => InQueue(s, i)
    BY <2>7, <2>9 DEF InQueue
  <2>14. AtIntr(e) <=> AtIntr(s)
    BY <2>7 DEF AtIntr
  <2>15. Turns(s, e)
    BY <2>7, <2>10, <2>11, <2>12, <2>13, <2>14 DEF Turns, One
  <2> QED
    BY <1>2, <2>6, <2>8, <2>15, TurnsFine
<1>7. Fine(p, FALSE)
  <2> HIDE DEF v
  <2>1. Fine(w, FALSE)
    BY <1>2, <1>5, MoveFine
  <2> DEFINE x == [w EXCEPT !.bulk = FlushedAll(@)]
  <2>2. x = p
    OBVIOUS
  <2> HIDE DEF w
  <2>3. Fine(x, FALSE)
    BY <2>1, MoveFine
  <2> HIDE DEF x
  <2> QED
    BY <2>2, <2>3
<1>8. r.port.bIsHost = s.port.bIsHost /\ p.hw = s.hw /\ p.ep0 = s.ep0
  BY <1>5 DEF Shape
<1> HIDE DEF p, r
<1>9. Fine(OtgStateGetId(p), FALSE) /\ Idles(p, OtgStateGetId(p))
  BY <1>7, GetIdFine, GetIdIdles
<1>10. ASSUME ~s.port.bIsHost PROVE ~s.hw.clean \/ s.ep0.pTxIrp = NoIrp
  <2>1. ~s.hw.joined
    BY <1>4, <1>5, <1>10 DEF Sound, BusOk, HostMode
  <2> QED
    BY <1>5, <2>1 DEF Sound, Hosts
<1>11. CASE s.port.bIsHost
  BY <1>1, <1>6, <1>8, <1>11 DEF Answers
<1>12. CASE ~s.port.bIsHost
  BY <1>1, <1>7, <1>8, <1>9, <1>10, <1>12 DEF Answers, Idles
<1> QED
  BY <1>11, <1>12

\* Reports of what is in I; and of no new device.
Of(q, I) == q \in Seq(Reports) /\ \A k \in DOMAIN q : q[k].cause \in I
Old(q) == \A k \in DOMAIN q : q[k].cause # "CONNECT"

LEMMA Chained ==
  ASSUME NEW a, NEW c, NEW I, Of(a, I), Of(c, I)
  PROVE  /\ Of(a \o c, I)
         /\ Old(a) /\ Old(c) => Old(a \o c) /\ OneItem(a \o c)
         /\ Old(a) /\ OneItem(c) => OneItem(a \o c)
         /\ OneItem(a) /\ Old(c) => OneItem(a \o c)
<1> DEFINE q == a \o c
<1>1. a \in Seq(Reports) /\ c \in Seq(Reports)
  BY DEF Of
<1>2. /\ q \in Seq(Reports) /\ Len(a) \in Nat /\ Len(c) \in Nat
      /\ DOMAIN q = 1 .. Len(a) + Len(c) /\ DOMAIN a = 1 .. Len(a) /\ DOMAIN c = 1 .. Len(c)
      /\ \A k \in 1 .. Len(a) + Len(c) : q[k] = IF k <= Len(a) THEN a[k] ELSE c[k - Len(a)]
  BY <1>1
<1> HIDE DEF q
<1>3. ASSUME NEW k \in DOMAIN q
      PROVE  \/ k \in DOMAIN a /\ q[k] = a[k]
             \/ k - Len(a) \in DOMAIN c /\ q[k] = c[k - Len(a)] /\ k > Len(a)
  BY <1>2
<1>4. Of(q, I)
  BY <1>2, <1>3 DEF Of
<1>5. Old(a) /\ Old(c) => Old(q)
  BY <1>3 DEF Old
<1>6. \A r \in Reports : IsNew(r) <=> r.cause = "CONNECT"
  BY DEF Reports, IsNew, Newcomers, Irps, NoIrp, EnumIrp, HnpIrp, ConfigIrp
<1>7. /\ \A k \in DOMAIN q : IsNew(q[k]) <=> q[k].cause = "CONNECT"
      /\ \A k \in DOMAIN a : IsNew(a[k]) <=> a[k].cause = "CONNECT"
      /\ \A k \in DOMAIN c : IsNew(c[k]) <=> c[k].cause = "CONNECT"
  BY <1>1, <1>2, <1>6
<1>8. Old(q) => OneItem(q)
  BY <1>7 DEF Old, OneItem
<1>9. ASSUME Old(a), OneItem(c) PROVE OneItem(q)
  <2>1. ASSUME NEW k \in DOMAIN q, IsNew(q[k])
        PROVE  k - Len(a) \in DOMAIN c /\ IsNew(c[k - Len(a)])
    BY <1>3, <1>7, <1>9, <2>1 DEF Old
  <2>2. ASSUME NEW k \in DOMAIN q, NEW m \in DOMAIN q, IsNew(q[k]), IsNew(q[m])
        PROVE  k = m
    <3>1. k - Len(a) = m - Len(a)
      BY <1>9, <2>1, <2>2 DEF OneItem
    <3> QED
      BY <1>2, <3>1
  <2> QED
    BY <2>2 DEF OneItem
<1>10. ASSUME OneItem(a), Old(c) PROVE OneItem(q)
  <2>1. ASSUME NEW k \in DOMAIN q, IsNew(q[k])
        PROVE  k \in DOMAIN a /\ IsNew(a[k])
    BY <1>3, <1>7, <1>10, <2>1 DEF Old
  <2> QED
    BY <1>10, <2>1 DEF OneItem
<1> QED
  BY <1>4, <1>5, <1>8, <1>9, <1>10 DEF q

LEMMA UsbIsrFine ==
  ASSUME NEW d, Fine(d, FALSE), d.queue = <<>>
  PROVE  Fine(UsbIsr(d), FALSE) /\ Answers(UsbIsr(d))
<1> DEFINE raised(c) == c \in d.hw.intr /\ ~(c = "DISCONNECT" /\ d.port.bWantReset)
           item(c) == IF raised(c) THEN <<[cause |-> c, irp |-> NoIrp]>> ELSE <<>>
           v == d.port.bIsHost \/ "CONNECT" \in d.hw.intr
           b == IF raised("DISCONNECT") THEN FlushedAll(d.bulk) ELSE d.bulk
           q == item("RESUME") \o item("SESSREQ") \o item("VBUSERROR")
                  \o item("SUSPEND") \o item("CONNECT") \o item("DISCONNECT")
           I == d.hw.intr
           s == [d EXCEPT !.port.bIsHost = v, !.hw.intr = {}, !.bulk = b, !.queue = q]
<1>1. UsbIsr(d) \in {ResetIsr(s), s}
  BY DEF UsbIsr
<1>2. Of(q, I) /\ OneItem(q)
  <2>1. ASSUME NEW c \in Causes
        PROVE  Of(item(c), I) /\ (c # "CONNECT" => Old(item(c))) /\ OneItem(item(c))
    <3>1. [cause |-> c, irp |-> NoIrp] \in Reports
      BY DEF Reports
    <3>2. CASE raised(c)
      <4>1. item(c) = <<[cause |-> c, irp |-> NoIrp]>>
        BY <3>2
      <4>2. c \in I
        BY <3>2
      <4> HIDE DEF item, raised, I
      <4>3. item(c) \in Seq(Reports) /\ DOMAIN item(c) = {1} /\ item(c)[1].cause = c
        BY <3>1, <4>1
      <4> QED
        BY <4>2, <4>3 DEF Of, Old, OneItem
    <3>3. CASE ~raised(c)
      <4>1. item(c) = <<>>
        BY <3>3
      <4> HIDE DEF item, raised, I
      <4>2. item(c) \in Seq(Reports) /\ DOMAIN item(c) = {}
        BY <4>1
      <4> QED
        BY <4>2 DEF Of, Old, OneItem
    <3> QED
      BY <3>2, <3>3
  <2> HIDE DEF item
  <2> DEFINE q2 == item("RESUME") \o item("SESSREQ")
             q3 == q2 \o item("VBUSERROR")
             q4 == q3 \o item("SUSPEND")
             q5 == q4 \o item("CONNECT")
  <2>2. /\ "RESUME" \in Causes /\ "SESSREQ" \in Causes /\ "VBUSERROR" \in Causes
        /\ "SUSPEND" \in Causes /\ "CONNECT" \in Causes /\ "DISCONNECT" \in Causes
        /\ "RESUME" # "CONNECT" /\ "SESSREQ" # "CONNECT" /\ "VBUSERROR" # "CONNECT"
        /\ "SUSPEND" # "CONNECT" /\ "DISCONNECT" # "CONNECT"
    BY DEF Causes
  <2> HIDE DEF I
  <2>3. Of(q2, I) /\ Old(q2)
    BY <2>1, <2>2, Chained, Zenon
  <2> HIDE DEF q2
  <2>4. Of(q3, I) /\ Old(q3)
    BY <2>1, <2>2, <2>3, Chained, Zenon
  <2> HIDE DEF q3
  <2>5. Of(q4, I) /\ Old(q4)
    BY <2>1, <2>2, <2>4, Chained, Zenon
  <2> HIDE DEF q4
  <2>6. Of(q5, I) /\ OneItem(q5)
    BY <2>1, <2>2, <2>5, Chained, Zenon
  <2> HIDE DEF q5
  <2>7. Of(q5 \o item("DISCONNECT"), I) /\ OneItem(q5 \o item("DISCONNECT"))
    BY <2>1, <2>2, <2>6, Chained, Zenon
  <2> QED
    BY <2>7 DEF q5, q4, q3, q2
<1>17. q \in Seq(Reports)
  BY <1>2 DEF Of
<1> DEFINE d1 == [d EXCEPT !.port.bIsHost = v]
           h == [d1.hw EXCEPT !.intr = {}]
           d2 == [d1 EXCEPT !.hw = h]
           d3 == [d2 EXCEPT !.bulk = b]
           d4 == [d3 EXCEPT !.queue = q]
<1> HIDE DEF q
<1>3. Shape(d) /\ Sound(d)
  BY DEF Fine, Sound
<1>4. v \in BOOLEAN
  BY DEF Fine, Sound, PortOk
<1>5. d4 = s
  BY <1>3 DEF Shape
<1>6. b \in {d2.bulk, FlushedAll(d2.bulk)}
  BY <1>3 DEF Shape
<1>13. d1.hw = d.hw /\ d1.ep0 = d.ep0 /\ d1.port.bIsHost = v
  BY <1>3 DEF Shape, PortFields
<1>14. d.hw.clean => (d.hw.joined => v) /\ (d.ep0.pTxIrp # NoIrp => v)
  BY <1>3 DEF Sound, Hosts
<1>15. d.port.bIsHost => v
  OBVIOUS
<1>16. Answers(s)
  <2>1. s.hw.clean = d.hw.clean /\ s.ep0 = d.ep0 /\ s.port.bIsHost = v
    BY <1>3 DEF Shape, PortFields, BusFields
  <2> HIDE DEF s, v
  <2> QED
    BY <1>14, <2>1 DEF Answers
<1>18. Turns(d, s)
  <2>1. /\ s.enum = d.enum /\ s.ep0 = d.ep0 /\ SameMemory(d, s) /\ s.timer = d.timer
        /\ s.hw.clean = d.hw.clean /\ s.hw.joined = d.hw.joined /\ s.hw.intr = {}
        /\ s.queue = q
    BY <1>3 DEF Shape, SameMemory, BusFields
  <2> HIDE DEF s
  <2>2. ASSUME NEW k \in DOMAIN q
        PROVE  q[k].cause \in d.hw.intr /\ q[k].irp = NoIrp
    <3>1. q[k] \in Reports
      BY <1>17
    <3>2. q[k].irp = NoIrp
      BY <3>1 DEF Reports
    <3> QED
      BY <1>2, <3>2 DEF Of
  <2>3. NoIrp \notin Irps
    BY DEF Irps, NoIrp, EnumIrp, HnpIrp, ConfigIrp
  <2>4. ~AtIntr(s) /\ (AtItem(s) => AtIntr(d))
    BY <2>1, <2>2, <2>3 DEF AtIntr, AtItem, IsNew, Newcomers
  <2>5. Leaves(s) => Leaves(d)
    BY <2>1, <2>2 DEF Leaves
  <2>6. \A i \in Irps : ~InQueue(s, i)
    BY <2>1, <2>2, <2>3 DEF InQueue
  <2> QED
    BY <1>2, <2>1, <2>4, <2>5, <2>6 DEF Turns
<1> HIDE DEF v, s, b
<1>7. Sound(d1)
  BY <1>3, <1>4, <1>15, IsHostSound
<1> HIDE DEF d1
<1>8. Sound(d2)
  <2>1. Shape(d1) /\ BusOk(d1.hw) /\ (d1.hw.wire # "idle" => d1.ep0.pTxIrp # NoIrp)
    BY <1>7 DEF Sound
  <2>2. /\ BusFields \subseteq DOMAIN h /\ BusOk(h) /\ h.wire = d1.hw.wire
        /\ h.joined = d1.hw.joined /\ h.clean = d1.hw.clean
    BY <2>1 DEF Shape, BusOk, BusFields
  <2>3. h.clean => /\ h.joined => d1.port.bIsHost
                   /\ d1.ep0.pTxIrp # NoIrp => h.joined /\ h.wire # "idle"
    BY <1>7, <1>13, <1>14, <2>2 DEF Sound, Hosts
  <2> HIDE DEF h
  <2> QED
    BY <1>7, <2>1, <2>2, <2>3, HwSound
<1> HIDE DEF d2
<1>9. Sound(d3)
  <2>1. Sound([d2 EXCEPT !.bulk = FlushedAll(@)])
    BY <1>8, FlushedSound
  <2>2. d2 = [d2 EXCEPT !.bulk = d2.bulk] \/ b = FlushedAll(d2.bulk)
    <3> SUFFICES ASSUME b = d2.bulk PROVE d2 = [d2 EXCEPT !.bulk = d2.bulk]
      BY <1>6
    <3> QED
      BY DEF d2
  <2> QED
    BY <1>6, <1>8, <2>1, <2>2
<1> HIDE DEF d3
<1>10. Sound(d4)
  BY <1>9, <1>17, ReportsSound
<1>11. d4.queue \in Seq(Reports)
  BY <1>9, <1>17 DEF Sound, Shape
<1> HIDE DEF d4
<1>12. Fine(s, FALSE)
  BY <1>5, <1>10, <1>18, TurnsFine
<1>19. Fine(ResetIsr(s), FALSE) /\ Answers(ResetIsr(s))
  BY <1>5, <1>11, <1>12, ResetIsrFine
<1> QED
  BY <1>1, <1>12, <1>16, <1>19

\* A turn of the interrupt handler.
LEMMA PollFine ==
  ASSUME NEW d, Fine(d, FALSE), d.queue = <<>>
  PROVE  LET s == UsbIsr(d)
         IN  Fine(IF s.hw.wire \in {"ok", "failed"} THEN ServiceDefaultEnd(s) ELSE s, FALSE)
<1> DEFINE s == UsbIsr(d)
<1>1. Fine(s, FALSE) /\ Answers(s)
  BY UsbIsrFine
<1> HIDE DEF s
<1>2. s.hw.wire \in {"ok", "failed"} => s.ep0.pTxIrp # NoIrp
  BY <1>1 DEF Fine, Sound
<1>3. s.hw.wire \in {"ok", "failed"} => Fine(ServiceDefaultEnd(s), FALSE)
  BY <1>1, <1>2, ServiceFine DEF Answers
<1> QED
  BY <1>1, <1>3 DEF s

\* An item is taken from the queue.
LEMMA TakenFine ==
  ASSUME NEW d, Fine(d, FALSE), d.queue # <<>>, Surprises \/ d.hw.clean,
         NEW e, e = [d EXCEPT !.queue = Tail(@)]
  PROVE  /\ Fine(e, FALSE) /\ Head(d.queue) \in Items
         /\ IsNew(Head(d.queue)) => Fine(e, TRUE)
         /\ Told(e, Head(d.queue).irp)
         /\ Head(d.queue).cause = "DISCONNECT" =>
              Surprises \/ (~Enumerates(e) /\ ~Coming(e))
         /\ SameBus(d, e)
<1> DEFINE q == Tail(d.queue)
<1>1. /\ d.queue \in Seq(Items) /\ Shape(d) /\ (Enumerates(d) => d.enum.pDevice # NoDevice)
      /\ Sound(d)
  BY DEF Fine, Sound
<1>2. q \in Seq(Items) /\ Head(d.queue) \in Items
  BY <1>1
<1>3. \A k \in DOMAIN q : k + 1 \in DOMAIN d.queue /\ d.queue[k + 1] = q[k] /\ k \in Nat /\ k > 0
  BY <1>1
<1>4. 1 \in DOMAIN d.queue /\ Head(d.queue) = d.queue[1]
  BY <1>1
<1>5. /\ e = [d EXCEPT !.queue = q] /\ e.enum = d.enum /\ e.queue = q /\ e.ep0 = d.ep0
      /\ SameMemory(d, e) /\ SameBus(d, e) /\ e.timer = d.timer /\ e.hw = d.hw
  BY <1>1 DEF Shape, SameMemory, SameBus
<1> HIDE DEF q
<1>6. (\E k \in DOMAIN q : q[k].irp = EnumIrp) => d.enum.pDevice # NoDevice
  BY <1>1, <1>3 DEF Enumerates
<1>7. Sound(e)
  <2>1. Sound([d EXCEPT !.queue = q])
    BY <1>1, <1>2, <1>6, QueueSound, Zenon
  <2> QED
    BY <1>5, <2>1
<1>8. Head(d.queue).irp = EnumIrp => Enumerates(d)
  BY <1>4 DEF Enumerates
<1>9. Turns(d, e)
  <2>1. AtItem(e) => AtItem(d)
    BY <1>3, <1>5 DEF AtItem
  <2>2. ASSUME OneItem(d.queue) PROVE OneItem(e.queue)
    <3>1. ASSUME NEW j \in DOMAIN q, NEW k \in DOMAIN q, IsNew(q[j]), IsNew(q[k])
          PROVE  j = k
      <4>1. j + 1 = k + 1
        BY <1>3, <2>2, <3>1 DEF OneItem
      <4> QED
        BY <1>3, <4>1
    <3> QED
      BY <1>5, <3>1 DEF OneItem
  <2>3. Leaves(e) => Leaves(d)
    BY <1>3, <1>5 DEF Leaves
  <2>4. \A i \in Irps : InQueue(e, i) => InQueue(d, i)
    BY <1>3, <1>5 DEF InQueue
  <2>5. AtIntr(e) <=> AtIntr(d)
    BY <1>5 DEF AtIntr
  <2> QED
    BY <1>5, <2>1, <2>2, <2>3, <2>4, <2>5 DEF Turns, One
<1>10. Fine(e, FALSE)
  BY <1>7, <1>9, TurnsFine
<1>11. ASSUME IsNew(Head(d.queue)) PROVE Fine(e, TRUE)
  <2>1. SUFFICES ASSUME ~Surprises PROVE Alone(e, TRUE)
    BY <1>7 DEF Fine
  <2>2. Alone(d, FALSE) /\ Alone(e, FALSE)
    BY <1>10, <2>1 DEF Fine
  <2>3. Calm(d)
    BY <2>1, <2>2 DEF Alone
  <2>4. AtItem(d)
    BY <1>4, <1>11 DEF AtItem
  <2>5. ~AtIntr(d) /\ ~AtTimer(d) /\ ~AtEnd0(d) /\ ~AtList(d) /\ OneItem(d.queue)
    BY <2>3, <2>4 DEF Calm, One
  <2>6. ASSUME NEW k \in DOMAIN q, IsNew(q[k]) PROVE FALSE
    <3>1. k + 1 = 1
      BY <1>3, <1>4, <1>11, <2>5, <2>6 DEF OneItem
    <3> QED
      BY <1>3, <3>1
  <2>7. ~Coming(e)
    BY <1>5, <2>5, <2>6 DEF Coming, AtIntr, AtItem, AtTimer, AtEnd0, AtList
  <2>8. Coming(d)
    BY <2>4 DEF Coming
  <2>9. Hand(e)
    BY <1>5, <2>3, <2>7, <2>8 DEF Hand, Calm
  <2>10. ~Enumerates(e)
    BY <2>7, EnumeratesComing
  <2> QED
    BY <2>2, <2>9, <2>10 DEF Alone
<1>12. ASSUME Head(d.queue).irp = EnumIrp PROVE Works(e, "none")
  <2>1. d.enum.pDevice # NoDevice
    BY <1>1, <1>8, <1>12
  <2>2. SUFFICES ASSUME ~Surprises PROVE Owns(e) /\ Staged(e, "none")
    BY <1>5, <2>1 DEF Works
  <2>3. Owns(d) /\ Staged(d, d.timer) /\ One(d)
    BY <1>8, <1>12, <2>2 DEF Fine, Alone, Calm
  <2>4. AtItem(d)
    BY <1>4, <1>12 DEF AtItem, IsNew, Newcomers, Irps, EnumIrp, HnpIrp
  <2>5. d.timer \notin EnumTimers
    BY <2>3, <2>4 DEF One, AtTimer
  <2>6. Staged(e, "none")
    BY <1>5, <2>3, <2>5 DEF Staged, EnumTimers, SameMemory
  <2>7. Owns(e)
    BY <1>5, <2>3 DEF Owns, SameMemory, Listed, Address
  <2> QED
    BY <2>6, <2>7
<1>13. ASSUME NEW b \in Devices, Head(d.queue).irp = ConfigIrp(b)
       PROVE  Surprises \/ b \in Listed(e)
  <2>1. Configures(d, b)
    BY <1>4, <1>13 DEF Configures
  <2>2. Surprises \/ b \in Listed(d)
    BY <1>13, <2>1 DEF Fine, Alone, Calm
  <2> QED
    BY <1>5, <2>2 DEF SameMemory, Listed
<1>14. ASSUME Head(d.queue).cause = "DISCONNECT", ~Surprises
       PROVE  ~Enumerates(e) /\ ~Coming(e)
  <2>1. Leaves(d)
    BY <1>4, <1>14 DEF Leaves
  <2>2. Calm(d)
    BY <1>14 DEF Fine, Alone
  <2>3. ~Coming(d)
    BY <2>1, <2>2 DEF Calm
  <2>4. AtIntr(e) \/ AtItem(e) => AtIntr(d) \/ AtItem(d)
    BY <1>9 DEF Turns
  <2>5. ~Coming(e)
    BY <1>5, <2>3, <2>4 DEF Coming, AtTimer, AtEnd0, AtList
  <2> QED
    BY <2>5, EnumeratesComing
<1>15. ASSUME Head(d.queue).irp \in Newcomers PROVE Fine(e, TRUE)
  BY <1>11, <1>15 DEF IsNew
<1>16. Told(e, Head(d.queue).irp)
  BY <1>5, <1>12, <1>13, <1>15 DEF Told
<1> QED
  BY <1>2, <1>5, <1>10, <1>11, <1>14, <1>16

-----------------------------------------------------------------------------
(* The actions *)

LEMMA BecomesFine ==
  ASSUME NEW d, Fine(d, FALSE), Becomes(d)
  PROVE  Fine(Driver', FALSE)
<1> DEFINE e == [port |-> d.port, enum |-> d.enum, ep0 |-> d.ep0, bulk |-> d.bulk,
                 timer |-> d.timer, device |-> d.device, connected |-> d.connected,
                 abmAddress |-> d.abmAddress, queue |-> d.queue, hw |-> d.hw, wild |-> d.wild]
<1>1. Driver' = e
  BY DEF Becomes, Driver
<1>2. /\ SameBus(d, e) /\ SameMemory(d, e) /\ e.enum = d.enum /\ e.ep0 = d.ep0
      /\ e.queue = d.queue /\ e.wild = d.wild /\ e.hw = d.hw
      /\ {"port", "enum", "ep0", "bulk", "timer", "device", "connected", "abmAddress", "queue",
          "hw", "wild"} \subseteq DOMAIN e
  BY DEF SameBus, SameMemory
<1> HIDE DEF e
<1>3. Sound(d)
  BY DEF Fine
<1>4. Shape(e)
  BY <1>2, <1>3 DEF Sound, Shape, SameBus, SameMemory
<1>5. FifoOk(e) /\ (Enumerates(e) <=> Enumerates(d))
  BY <1>2, <1>3 DEF Sound, FifoOk, Enumerates, SameBus, SameMemory
<1>6. Sound(e)
  BY <1>2, <1>3, <1>4, <1>5 DEF Sound, Hosts, SameBus, SameMemory
<1>7. Aside(d, e)
  BY <1>2 DEF Aside, SameBus
<1>8. Fine(e, FALSE)
  BY <1>6, <1>7, AsideFine
<1> QED
  BY <1>1, <1>8

LEMMA FieldsOf ==
  /\ Driver.port = port /\ Driver.enum = enum /\ Driver.ep0 = ep0 /\ Driver.bulk = bulk
  /\ Driver.timer = timer /\ Driver.device = device /\ Driver.connected = connected
  /\ Driver.abmAddress = abmAddress /\ Driver.queue = queue /\ Driver.hw = hw
  /\ Driver.wild = wild
BY DEF Driver

\* The state that a step starts from.
Ready == Fine(Driver, FALSE) /\ (Surprises \/ hw.clean)

LEMMA NextItem ==
  ASSUME Ready, NEW c, Item(c)
  PROVE  /\ Fine(Taken, FALSE) /\ Head(queue) \in Items
         /\ c = "CONNECT" => Fine(Taken, TRUE)
         /\ Told(Taken, Head(queue).irp)
         /\ c = "DISCONNECT" => Surprises \/ (~Enumerates(Taken) /\ ~Coming(Taken))
         /\ Taken.port = port
<1> DEFINE d == Driver
<1>1. d.queue = queue /\ d.queue # <<>> /\ d.hw = hw /\ d.port = port /\ Head(queue).cause = c
  BY FieldsOf DEF Item
<1>2. Taken = [d EXCEPT !.queue = Tail(@)]
  BY DEF Taken
<1> HIDE DEF d
<1>3. Fine(d, FALSE) /\ (Surprises \/ d.hw.clean)
  BY <1>1 DEF d, Ready
<1>4. c = "CONNECT" => IsNew(Head(queue))
  BY <1>1 DEF IsNew
<1> DEFINE t == Taken
<1>5. t = [d EXCEPT !.queue = Tail(@)]
  BY <1>2
<1> HIDE DEF t
<1>6. /\ Fine(t, FALSE) /\ Head(d.queue) \in Items
      /\ IsNew(Head(d.queue)) => Fine(t, TRUE)
      /\ Told(t, Head(d.queue).irp)
      /\ Head(d.queue).cause = "DISCONNECT" => Surprises \/ (~Enumerates(t) /\ ~Coming(t))
      /\ SameBus(d, t)
  BY <1>1, <1>3, <1>5, TakenFine
<1> QED
  BY <1>1, <1>4, <1>6 DEF t, SameBus

LEMMA ResumeFine ==
  ASSUME Ready, Resume
  PROVE  Fine(Driver', FALSE)
<1> DEFINE t == Taken
           s == ProgramBusState(ToHost(t))
           f == FinishResume(s)
<1>1. Fine(t, FALSE) /\ t.port = port
  BY NextItem DEF Resume
<1>2. Becomes(IF port.bOtgState = "A_SUSPEND" THEN f ELSE t)
  BY DEF Resume
<1> HIDE DEF t
<1>3. CASE port.bOtgState = "A_SUSPEND"
  <2>1. Fine(ToHost(t), FALSE)
    BY <1>1, <1>3, ToHostFine
  <2>2. Fine(s, FALSE)
    BY <2>1, MoveFine
  <2> HIDE DEF s
  <2>3. Fine(f, FALSE)
    BY <2>2, ResumesFine
  <2> HIDE DEF f
  <2> QED
    BY <1>2, <1>3, <2>3, BecomesFine
<1> HIDE DEF f, s
<1>4. CASE port.bOtgState # "A_SUSPEND"
  BY <1>1, <1>2, <1>4, BecomesFine
<1> QED
  BY <1>3, <1>4

LEMMA SessionReqFine ==
  ASSUME Ready, SessionReq
  PROVE  Fine(Driver', FALSE)
<1> DEFINE t == Taken
           w == ToWaitBcon(t)
           p == [w EXCEPT !.port.bWantSession = TRUE]
           s == ProgramBusState(p)
<1>1. Fine(t, FALSE)
  BY NextItem DEF SessionReq
<1>2. Becomes(IF port.bOtgState = "AB_IDLE" THEN s ELSE t)
  BY DEF SessionReq
<1> HIDE DEF t
<1>3. Fine(w, FALSE)
  BY <1>1, ToWaitBconFine
<1> HIDE DEF w
<1>4. Fine(p, FALSE)
  BY <1>3, MoveFine
<1> HIDE DEF p
<1>5. Fine(s, FALSE)
  BY <1>4, MoveFine
<1> HIDE DEF s
<1> QED
  BY <1>1, <1>2, <1>5, BecomesFine

LEMMA VbusErrorFine ==
  ASSUME Ready, VbusError
  PROVE  Fine(Driver', FALSE)
<1> DEFINE t == Taken
           r == [t EXCEPT !.port.bVbusErrorRetries = @ - 1]
           g == OtgStateGetId(ToIdle(r))
           i == ToIdle(t)
<1>1. Fine(t, FALSE) /\ t.port = port
  BY NextItem DEF VbusError
<1>2. Becomes(IF port.bVbusErrorRetries > 0 THEN g ELSE i)
  BY DEF VbusError
<1> HIDE DEF t
<1>3. FALSE \in BOOLEAN
  OBVIOUS
<1>4. Fine(i, FALSE)
  BY <1>1, <1>3, ToIdleFine, Zenon
<1>5. port.bVbusErrorRetries > 0 => Fine(r, FALSE)
  BY <1>1, SetsFine, Zenon
<1> HIDE DEF r, i
<1>6. port.bVbusErrorRetries > 0 => Fine(g, FALSE)
  BY <1>5, ToIdleFine, GetIdFine
<1> HIDE DEF g
<1> QED
  BY <1>2, <1>4, <1>6, BecomesFine

LEMMA SuspendFine ==
  ASSUME Ready, Suspend
  PROVE  Fine(Driver', FALSE)
<1> DEFINE t == Taken
           p == [t EXCEPT !.port.bIsSuspend = TRUE]
           s == ToSuspend(p)
           w == ToWaitBcon(t)
<1>1. Fine(t, FALSE)
  BY NextItem DEF Suspend
<1>2. \E e \in {s, w, p, t} : Becomes(e)
  BY SMTT(60) DEF Suspend
<1> HIDE DEF t
<1>3. Fine(w, FALSE)
  BY <1>1, ToWaitBconFine
<1>4. Fine(p, FALSE)
  BY <1>1, SetsFine, Zenon
<1> HIDE DEF p
<1>5. Fine(s, FALSE)
  BY <1>4, ToSuspendFine
<1> HIDE DEF s, w
<1> QED
  BY <1>1, <1>2, <1>3, <1>4, <1>5, BecomesFine

LEMMA ConnectFine ==
  ASSUME Ready, Connect
  PROVE  Fine(Driver', FALSE)
<1> DEFINE t == Taken
           r == ReadBusState(t)
           s == [r EXCEPT !.port.pRootDevice = NoDevice]
           ignored == "ignored"
           i == [s EXCEPT !.enum.outcome = ignored]
<1>1. Fine(t, TRUE) /\ t.port = port
  BY NextItem DEF Connect
<1>2. \/ \E e \in {ToBHost(s), ToHost(s)} : Becomes(e)
      \/ port.bOtgState = "A_SUSPEND" /\ Becomes(ToHost(i))
  BY DEF Connect
<1> HIDE DEF t
<1>3. Fine(r, TRUE)
  BY <1>1, MoveFine, Zenon
<1>4. r.port.bOtgState = port.bOtgState
  <2>1. Shape(t)
    BY <1>1 DEF Fine, Sound
  <2> QED
    BY <1>1, <2>1, ReadIs DEF BusMoves, BusPort
<1> HIDE DEF r
<1>5. Fine(s, TRUE)
  BY <1>3, SetsFine, Zenon
<1>6. s.port.bOtgState = port.bOtgState
  <2>1. Shape(r)
    BY <1>3 DEF Fine, Sound
  <2>2. PortBut(r, s, {"pRootDevice"})
    BY <2>1, SetsIs, Zenon
  <2> QED
    BY <1>4, <2>2 DEF PortBut, PortFields
<1> HIDE DEF s
<1>7. ignored \in Outcomes
  BY DEF Outcomes
<1> HIDE DEF ignored
<1>8. Fine(i, FALSE) /\ i.port = s.port
  <2>1. Fine(i, FALSE) /\ SameButEnum(s, i)
    BY <1>5, <1>7, OutcomeFine, Zenon
  <2> HIDE DEF i
  <2> QED
    BY <2>1 DEF SameButEnum, SameBus
<1> HIDE DEF i
<1>9. Fine(ToBHost(s), FALSE) /\ Fine(ToHost(s), FALSE)
  BY <1>5, ToHostFine
<1>10. port.bOtgState = "A_SUSPEND" => Fine(ToHost(i), FALSE)
  BY <1>6, <1>8, ToHostFine
<1> QED
  BY <1>2, <1>9, <1>10, BecomesFine

\* When nothing comes any more the devices may go, the root device a second time.
LEMMA EmptiedFine ==
  ASSUME NEW d, Fine(d, FALSE), Surprises \/ (~Enumerates(d) /\ ~Coming(d)),
         NEW s, s = HostDestroy(d)
  PROVE  /\ Fine(s, FALSE)
         /\ \A b \in Devices \cup {NoDevice} : Fine(DeviceDisconnected(s, b), FALSE)
<1>1. Sound(d) /\ Shape(d) /\ d.connected \in Seq(Devices)
  BY DEF Fine, Sound
<1>2. GivesBack(d, s)
  BY <1>1, DestroyGivesBack
<1>3. Sound(s) /\ Shape(s) /\ s.connected \in Seq(Devices)
  BY <1>1, <1>2, GivesBackSound DEF Sound
<1>4. Surprises \/ Listed(s) = {}
  <2>1. Surprises \/ Once(d.connected)
    BY DEF Fine, Alone, ListOk, Once
  <2> QED
    BY <1>1, <2>1, DestroyEmpties
<1>5. \A e : Listed(e) = {} => ListOk(e)
  BY DEF Listed, ListOk
<1>6. ASSUME NEW e, GivesBack(d, e), Surprises \/ Listed(e) = {}
      PROVE  Fine(e, FALSE)
  <2>1. Sound(e)
    BY <1>1, <1>6, GivesBackSound
  <2>2. InMemory(d, e)
    BY <1>6 DEF GivesBack, InMemory
  <2> QED
    BY <1>5, <1>6, <2>1, <2>2, MemoryFine
<1>7. ASSUME NEW b \in Devices \cup {NoDevice}
      PROVE  Fine(DeviceDisconnected(s, b), FALSE)
  <2> DEFINE e == DeviceDisconnected(s, b)
  <2>1. GivesBack(s, e)
    BY <1>3, <1>7, DisconnectedGivesBack
  <2>2. GivesBack(d, e)
    BY <1>2, <2>1, GivesBackTrans
  <2>3. ASSUME Listed(s) = {} PROVE Listed(e) = {}
    <3>1. CASE b = NoDevice
      BY <2>3, <3>1 DEF DeviceDisconnected
    <3>2. CASE b \in Devices
      <4>1. e.connected = Without(s.connected, b)
        BY <1>3, <3>2, DisconnectedLists
      <4>2. Once(s.connected) /\ Members(s.connected) = {}
        BY <2>3 DEF Once, Members, Listed
      <4> HIDE DEF e
      <4>3. Members(e.connected) = Members(s.connected) \ {b}
        BY <1>3, <4>1, <4>2, WithoutLeaves
      <4> QED
        BY <4>2, <4>3 DEF Members, Listed
    <3> QED
      BY <1>7, <3>1, <3>2
  <2> HIDE DEF e
  <2>4. Fine(e, FALSE)
    BY <1>4, <1>6, <2>2, <2>3
  <2> QED
    BY <2>4 DEF e
<1> QED
  BY <1>2, <1>4, <1>6, <1>7

LEMMA DisconnectFine ==
  ASSUME Ready, Disconnect
  PROVE  Fine(Driver', FALSE)
<1> DEFINE t == Taken
           a == [t EXCEPT !.port.bIsSuspend = FALSE]
           s == HostDestroy(a)
           r == DeviceDisconnected(s, s.port.pRootDevice)
           Results == {ToWaitBcon(r), ToPeripheral(r, "A_PERIPHERAL"), ToWaitBcon(s),
                       ToPeripheral(r, "B_PERIPHERAL"), s}
<1>1. Fine(t, FALSE) /\ (Surprises \/ (~Enumerates(t) /\ ~Coming(t)))
  <2>1. Item("DISCONNECT")
    BY Zenon DEF Disconnect
  <2> QED
    BY <2>1, NextItem, Zenon
<1>2. \E e \in Results : Becomes([e EXCEPT !.port.pRootDevice = NoDevice])
  <2> DEFINE hnp == s.port.bRelinquish /\ HnpIrp \notin s.ep0.failed
             e == CASE s.port.bOtgState = "A_HOST" -> ToWaitBcon(r)
                [] s.port.bOtgState = "A_SUSPEND" /\ hnp -> ToPeripheral(r, "A_PERIPHERAL")
                [] s.port.bOtgState = "A_SUSPEND" /\ ~hnp -> ToWaitBcon(s)
                [] s.port.bOtgState = "B_HOST" -> ToPeripheral(r, "B_PERIPHERAL")
                [] OTHER -> s
  <2>1. Becomes([e EXCEPT !.port.pRootDevice = NoDevice])
    BY Zenon DEF Disconnect
  <2> HIDE DEF s, r, hnp
  <2>2. e \in Results
    BY SMTT(60)
  <2> HIDE DEF e
  <2> QED
    BY <2>1, <2>2, SMTT(60)
<1> HIDE DEF t
<1>3. Fine(a, FALSE)
  BY <1>1, SetsFine, Zenon
<1>4. Surprises \/ (~Enumerates(a) /\ ~Coming(a))
  <2>1. Shape(t)
    BY <1>1 DEF Fine, Sound
  <2>2. SameButPort(t, a)
    BY <2>1, SetsIs, Zenon DEF PortBut
  <2> HIDE DEF a
  <2> QED
    BY <1>1, <2>2 DEF SameButPort, Outside, Enumerates, Coming, AtIntr, AtItem, AtTimer, AtEnd0,
                      AtList
<1> HIDE DEF a
<1>5. Fine(s, FALSE) /\ \A b \in Devices \cup {NoDevice} : Fine(DeviceDisconnected(s, b), FALSE)
  BY <1>3, <1>4, EmptiedFine
<1> HIDE DEF s
<1>6. s.port.pRootDevice \in Devices \cup {NoDevice}
  BY <1>5 DEF Fine, Sound, PortOk
<1>7. Fine(r, FALSE)
  BY <1>5, <1>6
<1> HIDE DEF r
<1>8. "A_PERIPHERAL" \in OtgStates /\ "B_PERIPHERAL" \in OtgStates
  BY DEF OtgStates
<1>9. Fine(ToWaitBcon(r), FALSE) /\ Fine(ToWaitBcon(s), FALSE)
  BY <1>5, <1>7, ToWaitBconFine
<1>10. Fine(ToPeripheral(r, "A_PERIPHERAL"), FALSE) /\ Fine(ToPeripheral(r, "B_PERIPHERAL"), FALSE)
  BY <1>7, <1>8, ToPeripheralFine
<1>11. \A e \in Results : Fine(e, FALSE)
  BY <1>5, <1>9, <1>10
<1> HIDE DEF Results
<1>12. PICK e \in Results : Becomes([e EXCEPT !.port.pRootDevice = NoDevice])
  BY <1>2, Zenon
<1>13. Fine([e EXCEPT !.port.pRootDevice = NoDevice], FALSE)
  BY <1>11, SetsFine, Zenon
<1> QED
  BY <1>12, <1>13, BecomesFine

LEMMA ResetFine ==
  ASSUME Ready, Reset
  PROVE  Fine(Driver', FALSE)
<1> DEFINE t == Taken
           s == ReadBusState(t)
           r == [s EXCEPT !.port.bBabbleRetries = @ - 1]
           g == OtgStateGetId(ToIdle(r))
           i == ToIdle(ProgramBusState(ResetPort(s)))
<1>1. Fine(t, FALSE) /\ t.port = port
  BY NextItem DEF Reset
<1>2. \/ Becomes(s) \/ Becomes(i)
      \/ port.bBabbleRetries > 0 /\ Becomes(g)
  BY DEF Reset
<1> HIDE DEF t
<1>4. Shape(t)
  BY <1>1 DEF Fine, Sound
<1>5. Fine(s, FALSE)
  BY <1>1, MoveFine
<1>6. s.port.bBabbleRetries = port.bBabbleRetries
  BY <1>1, <1>4, Zenon DEF ReadBusState, Shape, PortFields
<1> HIDE DEF s
<1>7. port.bBabbleRetries > 0 => Fine(r, FALSE)
  BY <1>5, <1>6, SetsFine, Zenon
<1> HIDE DEF r
<1>8. port.bBabbleRetries > 0 => Fine(g, FALSE)
  BY <1>7, ToIdleFine, GetIdFine
<1>9. Fine(i, FALSE)
  BY <1>5, ResetPortFine, MoveFine, ToIdleFine
<1> HIDE DEF g, i
<1> QED
  BY <1>2, <1>5, <1>8, <1>9, BecomesFine

LEMMA CompletesFine ==
  ASSUME Ready, Complete
  PROVE  Fine(Driver', FALSE)
<1> DEFINE t == Taken
           i == Head(queue).irp
<1>1. Item("IRP")
  BY DEF Complete
<1>2. Fine(t, FALSE) /\ Head(queue) \in Items /\ Told(t, i)
  BY <1>1, NextItem
<1>3. i \in Irps
  BY <1>1, <1>2 DEF Items, Item, Causes
<1>4. Becomes(StartNextIrp(IrpComplete(t, i)))
  BY DEF Complete
<1> HIDE DEF t, i
<1>5. Fine(StartNextIrp(IrpComplete(t, i)), FALSE)
  BY <1>2, <1>3, CompleteFine
<1> QED
  BY <1>4, <1>5, BecomesFine

\* A timer that has run down: what waited for it goes on.
LEMMA ExpiringFine ==
  ASSUME NEW d, Fine(d, FALSE), Surprises \/ d.hw.clean, NEW t, t = [d EXCEPT !.timer = "none"]
  PROVE  /\ Fine(t, FALSE)
         /\ d.timer \in EnumTimers \cup ResetTimers => Fine(t, TRUE)
         /\ d.timer \in EnumTimers => Works(t, d.timer)
<1>1. Sound(d) /\ Shape(d)
  BY DEF Fine, Sound
<1>2. Fine(t, FALSE)
  BY MoveFine
<1>3. BusMoves(d, t) /\ t.hw = d.hw /\ t.timer = "none" /\ t.port = d.port
  BY <1>1, NoTimerIs
<1>4. /\ t.enum = d.enum /\ t.ep0 = d.ep0 /\ t.device = d.device /\ t.connected = d.connected
      /\ t.abmAddress = d.abmAddress /\ t.queue = d.queue
  BY <1>3 DEF BusMoves, Outside
<1>5. ASSUME d.timer \in EnumTimers \cup ResetTimers PROVE Fine(t, TRUE)
  <2>1. Sound(t)
    BY <1>2 DEF Fine
  <2>2. SUFFICES ASSUME ~Surprises PROVE Alone(t, TRUE)
    BY <2>1 DEF Fine
  <2>3. Alone(t, FALSE) /\ Calm(d)
    BY <1>2, <2>2 DEF Fine, Alone
  <2>4. AtTimer(d)
    BY <1>5 DEF AtTimer
  <2>5. ~AtIntr(d) /\ ~AtItem(d) /\ ~AtEnd0(d) /\ ~AtList(d)
    BY <2>3, <2>4 DEF Calm, One
  <2>6. ~AtTimer(t)
    BY <1>3 DEF AtTimer, EnumTimers, ResetTimers
  <2>7. ~Coming(t)
    BY <1>3, <1>4, <2>5, <2>6 DEF Coming, AtIntr, AtItem, AtEnd0, AtList
  <2>8. Hand(t)
    BY <1>3, <1>4, <2>3, <2>4, <2>7 DEF Calm, Coming, Hand
  <2>9. ~Enumerates(t)
    BY <2>7, EnumeratesComing
  <2> QED
    BY <2>3, <2>8, <2>9 DEF Alone
<1>6. ASSUME d.timer \in EnumTimers PROVE Works(t, d.timer)
  <2>1. Enumerates(d)
    BY <1>6 DEF Enumerates
  <2>2. t.enum.pDevice # NoDevice
    BY <1>1, <1>4, <2>1 DEF Sound
  <2>3. SUFFICES ASSUME ~Surprises PROVE Owns(t) /\ Staged(t, d.timer)
    BY <2>2 DEF Works
  <2>4. Owns(d) /\ Staged(d, d.timer)
    BY <2>1, <2>3 DEF Fine, Alone, Calm
  <2> QED
    BY <1>4, <2>4 DEF Owns, Staged, Listed, Address
<1> QED
  BY <1>2, <1>5, <1>6

LEMMA ExpireFine ==
  ASSUME Ready, Expire
  PROVE  Fine(Driver', FALSE)
<1> DEFINE d == Driver
           t == [d EXCEPT !.timer = "none"]
           e == Expired(t, timer)
<1>1. Becomes(e) /\ timer # "none"
  BY DEF Expire
<1>2. d.timer = timer /\ d.hw = hw
  BY FieldsOf
<1>3. Fine(d, FALSE) /\ (Surprises \/ d.hw.clean)
  BY <1>2 DEF Ready
<1> HIDE DEF d
<1>4. /\ Fine(t, FALSE)
      /\ timer \in EnumTimers \cup ResetTimers => Fine(t, TRUE)
      /\ timer \in EnumTimers => Works(t, timer)
  BY <1>2, <1>3, ExpiringFine
<1>5. timer \in Timers
  BY <1>2, <1>3 DEF Fine, Sound
<1> HIDE DEF t
<1>6. /\ Fine(WaitSessReqTimeout(t), FALSE) /\ Fine(HostRetryEnum(t), FALSE)
      /\ Fine(CompleteResume(t), FALSE) /\ Fine(RemoveSuspend(t), FALSE)
  BY <1>4, ToIdleFine, ResetsFine, ResumesFine
<1>7. ASSUME timer \in ResetTimers
      PROVE  Fine(HostResetStart(t), FALSE) /\ Fine(HostResetComplete(t), FALSE)
  BY <1>4, <1>7, ResetsFine
<1>8. ASSUME timer \in EnumTimers
      PROVE  /\ timer = "GetShortDescriptor" => Fine(GetShortDescriptor(t), FALSE)
             /\ timer = "SetDeviceAddress" => Fine(SetDeviceAddress(t), FALSE)
             /\ timer = "GetFullDescriptor" => Fine(GetFullDescriptor(t), FALSE)
             /\ timer = "GetConfig" => Fine(GetConfig(t), FALSE)
  BY <1>4, <1>8, SendFine
<1>9. Fine(e, FALSE)
  BY <1>1, <1>4, <1>5, <1>6, <1>7, <1>8 DEF Timers, EnumTimers, ResetTimers, Expired
<1> HIDE DEF e
<1> QED
  BY <1>1, <1>9, BecomesFine

LEMMA RequestBusFine ==
  ASSUME Ready, RequestBus
  PROVE  Fine(Driver', FALSE)
<1> DEFINE e == OtgStateGetId(Driver)
<1>1. Fine(e, FALSE) /\ Becomes(e)
  BY GetIdFine DEF RequestBus, Ready
<1> HIDE DEF e
<1> QED
  BY <1>1, BecomesFine

LEMMA ResumeBusFine ==
  ASSUME Ready, ResumeBus
  PROVE  Fine(Driver', FALSE)
<1> DEFINE d == Driver
           p == [d EXCEPT !.port.bWantSuspend = FALSE]
           r == ReadBusState(ProgramBusState(p))
           e == FinishResume(r)
<1>1. Becomes(e)
  BY SMTT(60) DEF ResumeBus
<1>2. Fine(d, FALSE)
  BY DEF Ready
<1> HIDE DEF d
<1>3. Fine(p, FALSE)
  BY <1>2, SetsFine, Zenon
<1> HIDE DEF p
<1>4. Fine(r, FALSE)
  BY <1>3, MoveFine
<1> HIDE DEF r
<1>5. Fine(e, FALSE)
  BY <1>4, ResumesFine
<1> HIDE DEF e
<1> QED
  BY <1>1, <1>5, BecomesFine

LEMMA RelinquishesFine ==
  ASSUME Ready, Relinquish
  PROVE  Fine(Driver', FALSE)
<1> DEFINE e == RelinquishHost(Driver)
<1>1. Fine(e, FALSE) /\ Becomes(e)
  BY RelinquishFine DEF Relinquish, Ready
<1> HIDE DEF e
<1> QED
  BY <1>1, BecomesFine

LEMMA RestartFine ==
  ASSUME Ready, Restart
  PROVE  Fine(Driver', FALSE)
<1> DEFINE c == DeactivateClient(Driver)
           e == RegisterOtgClient(c)
<1>1. Becomes(e)
  BY DEF Restart
<1>2. Fine(c, FALSE)
  BY RegisterFine DEF Ready
<1> HIDE DEF c
<1>3. Fine(e, FALSE)
  BY <1>2, RegisterFine
<1> HIDE DEF e
<1> QED
  BY <1>1, <1>3, BecomesFine

\* A device that leaves, and the end of a session, are moves of the bus.
LEMMA GoneFine ==
  ASSUME NEW d, Fine(d, FALSE)
  PROVE  /\ \A r : Fine(Gone(d, r), FALSE) /\ ~Gone(d, r).hw.joined
         /\ Fine(SessionEnds(d), FALSE)
<1>1. Shape(d) /\ PortOk(d.port) /\ BusOk(d.hw) /\ FALSE \in BOOLEAN
  BY DEF Fine, Sound
<1>2. ASSUME NEW e, Shape(e), Outside(d, e), e.port = d.port, e.bulk = d.bulk, e.timer = d.timer,
             Wires(d, e), ~e.hw.joined, e.hw.suspendm = d.hw.suspendm
      PROVE  Fine(e, FALSE)
  <2>1. BusPort(d, e)
    BY <1>1, <1>2 DEF BusPort
  <2>2. BusMoves(d, e)
    BY <1>2, <2>1 DEF BusMoves, BusBulk, BusTimer, Flushes
  <2> QED
    BY <1>1, <2>2, BusFine, Zenon
<1>3. ASSUME NEW r PROVE Fine(Gone(d, r), FALSE) /\ ~Gone(d, r).hw.joined
  <2> DEFINE e == Gone(d, r)
  <2>3. e = Gone(d, r)
    OBVIOUS
  <2> HIDE DEF e
  <2>1. /\ Shape(e) /\ Outside(d, e) /\ e.port = d.port /\ e.bulk = d.bulk /\ e.timer = d.timer
        /\ Wires(d, e) /\ ~e.hw.joined /\ e.hw.suspendm = d.hw.suspendm
    BY <1>1, <2>3, GoneIs
  <2>2. Fine(e, FALSE)
    BY <1>2, <2>1
  <2> QED
    BY <2>1, <2>2, <2>3
<1>4. Fine(SessionEnds(d), FALSE)
  <2> DEFINE e == SessionEnds(d)
  <2>3. e = SessionEnds(d)
    OBVIOUS
  <2> HIDE DEF e
  <2>1. /\ Shape(e) /\ Outside(d, e) /\ e.port = d.port /\ e.bulk = d.bulk /\ e.timer = d.timer
        /\ Wires(d, e) /\ ~e.hw.joined /\ e.hw.suspendm = d.hw.suspendm
    BY <1>1, <2>3, SessionEndsIs
  <2>2. Fine(e, FALSE)
    BY <1>2, <2>1
  <2> QED
    BY <2>2, <2>3
<1> QED
  BY <1>3, <1>4

\* The controller's registers and the wire change, and the driver does not.
Others == (Causes \cup {"RESET"}) \ {"CONNECT", "DISCONNECT"}
Connects(c, i) ==
  /\ "CONNECT" \in c <=> "CONNECT" \in i
  /\ "DISCONNECT" \in c => "DISCONNECT" \in i

LEMMA WireFine ==
  ASSUME NEW d, Fine(d, FALSE), NEW h, BusFields \subseteq DOMAIN h, h.kind \in KindsOrNone,
         h.session = d.hw.session, h.joined = d.hw.joined,
         h.remote = d.hw.remote \/ ~h.remote \/ ~h.joined,
         h.suspendm \in BOOLEAN, h.reset = d.hw.reset,
         h.wire = d.hw.wire \/ (d.hw.wire = "busy" /\ h.wire # "idle"),
         h.clean = d.hw.clean, Connects(h.intr, d.hw.intr)
  PROVE  Fine([d EXCEPT !.hw = h], FALSE)
<1> DEFINE e == [d EXCEPT !.hw = h]
<1>1. Sound(d) /\ Shape(d) /\ BusOk(d.hw) /\ (d.hw.wire # "idle" => d.ep0.pTxIrp # NoIrp)
  BY DEF Fine, Sound
<1>2. BusOk(h) /\ (h.wire # "idle" => d.ep0.pTxIrp # NoIrp)
  BY <1>1, SMTT(60) DEF BusOk
<1>3. h.clean => /\ h.joined /\ "CONNECT" \notin h.intr => d.port.bIsHost
                 /\ d.ep0.pTxIrp # NoIrp => h.joined /\ h.wire # "idle"
  BY <1>1 DEF Sound, Hosts, Connects
<1>4. Sound(e)
  BY <1>1, <1>2, <1>3, HwSound
<1>5. /\ e.hw = h /\ e.enum = d.enum /\ e.ep0 = d.ep0 /\ e.device = d.device
      /\ e.connected = d.connected /\ e.abmAddress = d.abmAddress /\ e.queue = d.queue
      /\ e.timer = d.timer
  BY <1>1 DEF Shape
<1> HIDE DEF e
<1>6. Aside(d, e)
  BY <1>5 DEF Aside, SameMemory, Connects
<1>7. FALSE \in BOOLEAN
  OBVIOUS
<1> QED
  BY <1>4, <1>6, <1>7, AsideFine, Zenon DEF e

LEMMA WiresFine ==
  ASSUME NEW d, Fine(d, FALSE)
  PROVE  /\ \A k \in KindsOrNone : Fine([d EXCEPT !.hw.plugged = TRUE, !.hw.kind = k], FALSE)
         /\ \A c \in Others : Fine([d EXCEPT !.hw.intr = @ \cup {c}], FALSE)
         /\ \A c : Connects(c, d.hw.intr) => Fine([d EXCEPT !.hw.plugged = FALSE, !.hw.intr = c], FALSE)
         /\ d.hw.wire = "busy" => \A w \in {"ok", "failed"} : Fine([d EXCEPT !.hw.wire = w], FALSE)
         /\ \A c \in Others, v \in BOOLEAN : Fine([d EXCEPT !.hw.intr = @ \cup {c}, !.hw.babble = v], FALSE)
         /\ \A v : Fine([d EXCEPT !.hw.babble = v], FALSE)
         /\ \A c \in Others : Fine([d EXCEPT !.hw.intr = @ \cup {c}, !.hw.suspendm = FALSE], FALSE)
         /\ \A c \in Others : Fine([d EXCEPT !.hw.remote = FALSE, !.hw.intr = @ \cup {c}], FALSE)
         /\ ~d.hw.joined => Fine([d EXCEPT !.hw.remote = TRUE], FALSE)
<1>1. Shape(d) /\ BusFields \subseteq DOMAIN d.hw /\ BusOk(d.hw)
  BY DEF Fine, Sound, Shape
<1>2. ASSUME NEW k \in KindsOrNone
      PROVE  Fine([d EXCEPT !.hw.plugged = TRUE, !.hw.kind = k], FALSE)
  <2> DEFINE h == [d.hw EXCEPT !.plugged = TRUE, !.kind = k]
  <2>1. [d EXCEPT !.hw.plugged = TRUE, !.hw.kind = k] = [d EXCEPT !.hw = h]
    BY <1>1 DEF Shape
  <2>2. /\ BusFields \subseteq DOMAIN h /\ h.kind \in KindsOrNone
        /\ h.session = d.hw.session /\ h.joined = d.hw.joined /\ h.remote = d.hw.remote
        /\ h.suspendm \in BOOLEAN /\ h.reset = d.hw.reset /\ h.wire = d.hw.wire
        /\ h.clean = d.hw.clean /\ Connects(h.intr, d.hw.intr)
    BY <1>1 DEF BusFields, BusOk, Connects, Others
  <2> HIDE DEF h
  <2> QED
    BY <2>1, <2>2, WireFine
<1>3. ASSUME NEW c \in Others
      PROVE  Fine([d EXCEPT !.hw.intr = @ \cup {c}], FALSE)
  <2> DEFINE h == [d.hw EXCEPT !.intr = @ \cup {c}]
  <2>1. [d EXCEPT !.hw.intr = @ \cup {c}] = [d EXCEPT !.hw = h]
    BY <1>1 DEF Shape
  <2>2. /\ BusFields \subseteq DOMAIN h /\ h.kind \in KindsOrNone
        /\ h.session = d.hw.session /\ h.joined = d.hw.joined /\ h.remote = d.hw.remote
        /\ h.suspendm \in BOOLEAN /\ h.reset = d.hw.reset /\ h.wire = d.hw.wire
        /\ h.clean = d.hw.clean /\ Connects(h.intr, d.hw.intr)
    BY <1>1 DEF BusFields, BusOk, Connects, Others
  <2> HIDE DEF h
  <2> QED
    BY <2>1, <2>2, WireFine
<1>4. ASSUME NEW c, Connects(c, d.hw.intr)
      PROVE  Fine([d EXCEPT !.hw.plugged = FALSE, !.hw.intr = c], FALSE)
  <2> DEFINE h == [d.hw EXCEPT !.plugged = FALSE, !.intr = c]
  <2>1. [d EXCEPT !.hw.plugged = FALSE, !.hw.intr = c] = [d EXCEPT !.hw = h]
    BY <1>1 DEF Shape
  <2>2. /\ BusFields \subseteq DOMAIN h /\ h.kind \in KindsOrNone
        /\ h.session = d.hw.session /\ h.joined = d.hw.joined /\ h.remote = d.hw.remote
        /\ h.suspendm \in BOOLEAN /\ h.reset = d.hw.reset /\ h.wire = d.hw.wire
        /\ h.clean = d.hw.clean /\ Connects(h.intr, d.hw.intr)
    BY <1>1, <1>4 DEF BusFields, BusOk, Connects, Others
  <2> HIDE DEF h
  <2> QED
    BY <2>1, <2>2, WireFine
<1>5. ASSUME d.hw.wire = "busy", NEW w \in {"ok", "failed"}
      PROVE  Fine([d EXCEPT !.hw.wire = w], FALSE)
  <2> DEFINE h == [d.hw EXCEPT !.wire = w]
  <2>1. [d EXCEPT !.hw.wire = w] = [d EXCEPT !.hw = h]
    BY <1>1 DEF Shape
  <2>2. /\ BusFields \subseteq DOMAIN h /\ h.kind \in KindsOrNone
        /\ h.session = d.hw.session /\ h.joined = d.hw.joined /\ h.remote = d.hw.remote
        /\ h.suspendm \in BOOLEAN /\ h.reset = d.hw.reset /\ h.wire = w
        /\ h.clean = d.hw.clean /\ Connects(h.intr, d.hw.intr)
    BY <1>1 DEF BusFields, BusOk, Connects, Others
  <2> HIDE DEF h
  <2> QED
    BY <1>5, <2>1, <2>2, WireFine
<1>6. ASSUME NEW c \in Others, NEW v \in BOOLEAN
      PROVE  Fine([d EXCEPT !.hw.intr = @ \cup {c}, !.hw.babble = v], FALSE)
  <2> DEFINE h == [d.hw EXCEPT !.intr = @ \cup {c}, !.babble = v]
  <2>1. [d EXCEPT !.hw.intr = @ \cup {c}, !.hw.babble = v] = [d EXCEPT !.hw = h]
    BY <1>1 DEF Shape
  <2>2. /\ BusFields \subseteq DOMAIN h /\ h.kind \in KindsOrNone
        /\ h.session = d.hw.session /\ h.joined = d.hw.joined /\ h.remote = d.hw.remote
        /\ h.suspendm \in BOOLEAN /\ h.reset = d.hw.reset /\ h.wire = d.hw.wire
        /\ h.clean = d.hw.clean /\ Connects(h.intr, d.hw.intr)
    BY <1>1 DEF BusFields, BusOk, Connects, Others
  <2> HIDE DEF h
  <2> QED
    BY <2>1, <2>2, WireFine
<1>7. ASSUME NEW v
      PROVE  Fine([d EXCEPT !.hw.babble = v], FALSE)
  <2> DEFINE h == [d.hw EXCEPT !.babble = v]
  <2>1. [d EXCEPT !.hw.babble = v] = [d EXCEPT !.hw = h]
    BY <1>1 DEF Shape
  <2>2. /\ BusFields \subseteq DOMAIN h /\ h.kind \in KindsOrNone
        /\ h.session = d.hw.session /\ h.joined = d.hw.joined /\ h.remote = d.hw.remote
        /\ h.suspendm \in BOOLEAN /\ h.reset = d.hw.reset /\ h.wire = d.hw.wire
        /\ h.clean = d.hw.clean /\ Connects(h.intr, d.hw.intr)
    BY <1>1 DEF BusFields, BusOk, Connects, Others
  <2> HIDE DEF h
  <2> QED
    BY <2>1, <2>2, WireFine
<1>8. ASSUME NEW c \in Others
      PROVE  Fine([d EXCEPT !.hw.intr = @ \cup {c}, !.hw.suspendm = FALSE], FALSE)
  <2> DEFINE h == [d.hw EXCEPT !.intr = @ \cup {c}, !.suspendm = FALSE]
  <2>1. [d EXCEPT !.hw.intr = @ \cup {c}, !.hw.suspendm = FALSE] = [d EXCEPT !.hw = h]
    BY <1>1 DEF Shape
  <2>2. /\ BusFields \subseteq DOMAIN h /\ h.kind \in KindsOrNone
        /\ h.session = d.hw.session /\ h.joined = d.hw.joined /\ h.remote = d.hw.remote
        /\ h.suspendm \in BOOLEAN /\ h.reset = d.hw.reset /\ h.wire = d.hw.wire
        /\ h.clean = d.hw.clean /\ Connects(h.intr, d.hw.intr)
    BY <1>1 DEF BusFields, BusOk, Connects, Others
  <2> HIDE DEF h
  <2> QED
    BY <2>1, <2>2, WireFine
<1>9. ASSUME NEW c \in Others
      PROVE  Fine([d EXCEPT !.hw.remote = FALSE, !.hw.intr = @ \cup {c}], FALSE)
  <2> DEFINE h == [d.hw EXCEPT !.remote = FALSE, !.intr = @ \cup {c}]
  <2>1. [d EXCEPT !.hw.remote = FALSE, !.hw.intr = @ \cup {c}] = [d EXCEPT !.hw = h]
    BY <1>1 DEF Shape
  <2>2. /\ BusFields \subseteq DOMAIN h /\ h.kind \in KindsOrNone
        /\ h.session = d.hw.session /\ h.joined = d.hw.joined /\ ~h.remote
        /\ h.suspendm \in BOOLEAN /\ h.reset = d.hw.reset /\ h.wire = d.hw.wire
        /\ h.clean = d.hw.clean /\ Connects(h.intr, d.hw.intr)
    BY <1>1 DEF BusFields, BusOk, Connects, Others
  <2> HIDE DEF h
  <2> QED
    BY <2>1, <2>2, WireFine
<1>10. ASSUME ~d.hw.joined
       PROVE  Fine([d EXCEPT !.hw.remote = TRUE], FALSE)
  <2> DEFINE h == [d.hw EXCEPT !.remote = TRUE]
  <2>1. [d EXCEPT !.hw.remote = TRUE] = [d EXCEPT !.hw = h]
    BY <1>1 DEF Shape
  <2>2. /\ BusFields \subseteq DOMAIN h /\ h.kind \in KindsOrNone
        /\ h.session = d.hw.session /\ h.joined = d.hw.joined /\ ~h.joined
        /\ h.suspendm \in BOOLEAN /\ h.reset = d.hw.reset /\ h.wire = d.hw.wire
        /\ h.clean = d.hw.clean /\ Connects(h.intr, d.hw.intr)
    BY <1>1, <1>10 DEF BusFields, BusOk, Connects, Others
  <2> HIDE DEF h
  <2> QED
    BY <2>1, <2>2, WireFine
<1> QED
  BY <1>2, <1>3, <1>4, <1>5, <1>6, <1>7, <1>8, <1>9, <1>10, Zenon

LEMMA BusActsFine ==
  ASSUME Fine(Driver, FALSE), Bus
  PROVE  Fine(Driver', FALSE)
<1> DEFINE d == Driver
<1>1. CASE Plug
  <2>1. PICK k \in Kinds : Becomes([d EXCEPT !.hw.plugged = TRUE, !.hw.kind = k])
    BY <1>1, Zenon DEF Plug
  <2>2. k \in KindsOrNone
    BY HostAssumption, SMTT(60) DEF KindsOrNone
  <2> HIDE DEF d
  <2>3. Fine([d EXCEPT !.hw.plugged = TRUE, !.hw.kind = k], FALSE)
    BY <2>2, WiresFine, Zenon DEF d
  <2> QED
    BY <2>1, <2>3, BecomesFine
<1>2. CASE Join
  <2> DEFINE e == Joined(d)
  <2>1. Fine(e, FALSE) /\ Becomes(e)
    BY <1>2, JoinedFine DEF Join
  <2> HIDE DEF e
  <2> QED
    BY <2>1, BecomesFine
<1>3. CASE Unplug
  <2> DEFINE s == Gone(d, TRUE)
             c == IF hw.remote THEN s.hw.intr \cup {"SUSPEND"} ELSE s.hw.intr
             e == [s EXCEPT !.hw.plugged = FALSE, !.hw.intr = c]
  <2>1. Becomes(e)
    BY <1>3 DEF Unplug
  <2>2. Fine(s, FALSE)
    BY GoneFine
  <2>4. Connects(c, s.hw.intr)
    BY DEF Connects
  <2> HIDE DEF s, c
  <2>3. Fine(e, FALSE)
    BY <2>2, <2>4, WiresFine, Zenon
  <2> HIDE DEF e
  <2> QED
    BY <2>1, <2>3, BecomesFine
<1>4. CASE Answer \/ NoAnswer
  <2>1. \E w \in {"ok", "failed"} : Becomes([d EXCEPT !.hw.wire = w])
    BY <1>4 DEF Answer, NoAnswer
  <2>2. d.hw.wire = "busy"
    BY <1>4, FieldsOf, SMTT(60) DEF Answer, NoAnswer
  <2>3. \A w \in {"ok", "failed"} : Fine([d EXCEPT !.hw.wire = w], FALSE)
    BY <2>2, WiresFine, Zenon
  <2> HIDE DEF d
  <2> QED
    BY <2>1, <2>3, BecomesFine
<1>5. CASE VbusFails
  <2> DEFINE s == SessionEnds(d)
             c == "VBUSERROR"
             e == [s EXCEPT !.hw.intr = @ \cup {c}]
  <2>1. Becomes(e)
    BY <1>5 DEF VbusFails
  <2>2. Fine(s, FALSE)
    BY GoneFine, Zenon
  <2>4. c \in Others
    BY DEF Others, Causes
  <2> HIDE DEF s, c
  <2>3. Fine(e, FALSE)
    BY <2>2, <2>4, WiresFine, Zenon
  <2> HIDE DEF e
  <2> QED
    BY <2>1, <2>3, BecomesFine
<1>6. CASE Babble
  <2> DEFINE c == "RESET"
             v == TRUE
             e == [d EXCEPT !.hw.intr = @ \cup {c}, !.hw.babble = v]
  <2>1. Becomes(e)
    BY <1>6, SMTT(60) DEF Babble
  <2>3. c \in Others /\ v \in BOOLEAN
    BY DEF Others, Causes
  <2> HIDE DEF c, v
  <2>2. Fine(e, FALSE)
    BY <2>3, WiresFine, Zenon
  <2> HIDE DEF e
  <2> QED
    BY <2>1, <2>2, BecomesFine
<1>7. CASE SessionBlown
  <2> DEFINE v == FALSE
             b == [d EXCEPT !.hw.babble = v]
             e == SessionEnds(b)
  <2>1. Becomes(e)
    BY <1>7, SMTT(60) DEF SessionBlown
  <2> HIDE DEF v
  <2>2. Fine(b, FALSE)
    BY WiresFine, Zenon
  <2> HIDE DEF b
  <2>3. Fine(e, FALSE)
    BY <2>2, GoneFine
  <2> HIDE DEF e
  <2> QED
    BY <2>1, <2>3, BecomesFine
<1>8. CASE SessionRequested
  <2> DEFINE c == "SESSREQ"
             e == [d EXCEPT !.hw.intr = @ \cup {c}]
  <2>1. Becomes(e)
    BY <1>8, SMTT(60) DEF SessionRequested
  <2>3. c \in Others
    BY DEF Others, Causes
  <2> HIDE DEF c
  <2>2. Fine(e, FALSE)
    BY <2>3, WiresFine, Zenon
  <2> HIDE DEF e
  <2> QED
    BY <2>1, <2>2, BecomesFine
<1>9. CASE RemoteWakeup
  <2> DEFINE c == "RESUME"
             e == [d EXCEPT !.hw.intr = @ \cup {c}, !.hw.suspendm = FALSE]
  <2>1. Becomes(e)
    BY <1>9, SMTT(60) DEF RemoteWakeup
  <2>3. c \in Others
    BY DEF Others, Causes
  <2> HIDE DEF c
  <2>2. Fine(e, FALSE)
    BY <2>3, WiresFine, Zenon
  <2> HIDE DEF e
  <2> QED
    BY <2>1, <2>2, BecomesFine
<1>10. CASE TakeRole
  <2> DEFINE s == Gone(d, TRUE)
             e == [s EXCEPT !.hw.remote = TRUE]
  <2>1. Becomes(e)
    BY <1>10 DEF TakeRole
  <2>2. Fine(s, FALSE) /\ ~s.hw.joined
    BY GoneFine
  <2> HIDE DEF s
  <2>3. Fine(e, FALSE)
    BY <2>2, WiresFine, Zenon
  <2> HIDE DEF e
  <2> QED
    BY <2>1, <2>3, BecomesFine
<1>11. CASE GiveRoleBack
  <2> DEFINE c == "SUSPEND"
             e == [d EXCEPT !.hw.remote = FALSE, !.hw.intr = @ \cup {c}]
  <2>1. Becomes(e)
    BY <1>11, SMTT(60) DEF GiveRoleBack
  <2>3. c \in Others
    BY DEF Others, Causes
  <2> HIDE DEF c
  <2>2. Fine(e, FALSE)
    BY <2>3, WiresFine, Zenon
  <2> HIDE DEF e
  <2> QED
    BY <2>1, <2>2, BecomesFine
<1> QED
  BY <1>1, <1>2, <1>3, <1>4, <1>5, <1>6, <1>7, <1>8, <1>9, <1>10, <1>11 DEF Bus

\* The background, the timers and the application.
LEMMA NextFine ==
  ASSUME Fine(Driver, FALSE), [Next]_vars
  PROVE  Fine(Driver', FALSE)
<1>1. CASE UNCHANGED vars
  <2>1. Driver' = Driver
    BY <1>1 DEF vars, Driver
  <2> QED
    BY <2>1
<1>2. CASE Next
  <2>1. hw.clean \/ Surprises
    BY <1>2 DEF Next
  <2>2. Ready
    BY <2>1 DEF Ready
  <2>3. CASE Poll
    <3> DEFINE d == Driver
               s == UsbIsr(d)
               e == IF s.hw.wire \in {"ok", "failed"} THEN ServiceDefaultEnd(s) ELSE s
    <3>1. queue = <<>> /\ Becomes(e)
      BY <2>3 DEF Poll
    <3>2. d.queue = <<>>
      BY <3>1, FieldsOf
    <3> HIDE DEF d
    <3>3. Fine(e, FALSE)
      BY <3>2, PollFine DEF d
    <3> HIDE DEF e
    <3> QED
      BY <3>1, <3>3, BecomesFine
  <2>4. CASE Bsr
    BY <2>2, <2>4, ResumeFine, SessionReqFine, VbusErrorFine, SuspendFine, ConnectFine,
       DisconnectFine, ResetFine, CompletesFine DEF Bsr
  <2>5. CASE User
    BY <2>2, <2>5, RequestBusFine, ResumeBusFine, RelinquishesFine, RestartFine DEF User
  <2>6. CASE Expire
    BY <2>2, <2>6, ExpireFine
  <2>7. CASE Bus
    BY <2>7, BusActsFine
  <2> QED
    BY <1>2, <2>3, <2>4, <2>5, <2>6, <2>7 DEF Next
<1> QED
  BY <1>1, <1>2

LEMMA InitFine ==
  Init => Fine(Driver, FALSE)
<1> SUFFICES ASSUME Init PROVE Fine(Driver, FALSE)
  OBVIOUS
<1> DEFINE bus(early, reports, blocks) ==
             [plugged |-> FALSE, kind |-> "none", session |-> FALSE, joined |-> FALSE,
              remote |-> FALSE, suspendm |-> FALSE, reset |-> FALSE, babble |-> FALSE,
              intr |-> {}, wire |-> "idle", clean |-> TRUE, blocks |-> blocks,
              early |-> early, reports |-> reports]
<1>1. PICK early, reports \in BOOLEAN, blocks \in Blocking :
        LET d == RegisterOtgClient(NewController(bus(early, reports, blocks)))
        IN  /\ port = d.port /\ enum = d.enum /\ ep0 = d.ep0 /\ bulk = d.bulk /\ timer = d.timer
            /\ device = d.device /\ connected = d.connected /\ abmAddress = d.abmAddress
            /\ queue = d.queue /\ hw = d.hw /\ wild = d.wild
  BY DEF Init
<1> DEFINE h == bus(early, reports, blocks)
           n == NewController(h)
           d == RegisterOtgClient(n)
<1>2. Fine(n, FALSE)
  <2>1. /\ BusFields \subseteq DOMAIN h /\ BusOk(h) /\ h.wire = "idle"
    BY DEF BusFields, BusOk, KindsOrNone
  <2>10. ~h.joined
    OBVIOUS
  <2>18. h.intr = {}
    OBVIOUS
  <2> HIDE DEF h
  <2>2. /\ n.hw = h /\ n.timer = "none" /\ n.connected = <<>> /\ n.abmAddress = {}
        /\ n.queue = <<>> /\ n.bulk = NewBulkEnd
        /\ n.ep0 = [pTxIrp |-> NoIrp, list |-> <<>>, failed |-> {}]
        /\ \A b \in Devices : n.device[b] = [used |-> FALSE, pPrivateData |-> FALSE,
                                             bBusAddress |-> 0, msd |-> FALSE, kind |-> "none"]
    BY DEF NewController
  <2>3. Shape(n)
    BY <2>1 DEF NewController, Shape, PortFields, EnumFields, BlockFields
  <2>4. PortOk(n.port) /\ EnumOk(n.enum)
    <3>1. "none" \in Outcomes
      BY DEF Outcomes
    <3>2. VbusRetries \in Nat /\ BabbleRetries \in Nat
      BY HostAssumption
    <3>3. n.port = [bOtgState |-> "AB_IDLE", bWantSession |-> FALSE, bWantSuspend |-> FALSE,
                    bWantReset |-> FALSE, bIsHost |-> FALSE, bConnectorId |-> "unknown",
                    bIsSuspend |-> FALSE, bIsReset |-> FALSE, bRelinquish |-> FALSE,
                    pRootDevice |-> NoDevice, bVbusErrorRetries |-> 0, bBabbleRetries |-> 0]
      BY DEF NewController
    <3>4. n.enum = [bState |-> "Idle", pDevice |-> NoDevice, bAddress |-> 0, bIndex |-> 0,
                    bRetries |-> 0, bFatalRetries |-> 0, outcome |-> "none"]
      BY DEF NewController
    <3> HIDE DEF n
    <3>5. PortOk(n.port)
      BY <3>2, <3>3 DEF PortOk, OtgStates
    <3>6. EnumOk(n.enum)
      BY <3>1, <3>4 DEF EnumOk, EnumStates
    <3> QED
      BY <3>5, <3>6
  <2>14. /\ n.enum.bIndex = 0 /\ n.enum.bRetries = 0 /\ n.enum.bFatalRetries = 0
         /\ n.hw.intr = {} /\ n.queue = <<>> /\ n.ep0.list = <<>>
    BY <2>2, <2>18 DEF NewController
  <2> HIDE DEF n
  <2>5. End0Ok(n.ep0)
    BY <2>2 DEF End0Ok
  <2>6. BlocksOk(n.device)
    BY <2>2 DEF BlocksOk, KindsOrNone
  <2>7. FifoOk(n)
    <3>1. Tidy(NewBulkEnd)
      BY StaysTidy
    <3> QED
      BY <2>2, <3>1 DEF FifoOk
  <2>8. ~Enumerates(n)
    BY <2>2 DEF Enumerates, NoIrp, EnumIrp, EnumTimers
  <2>9. Hosts(n)
    BY <2>2, <2>10 DEF Hosts
  <2>11. Sound(n)
    BY <2>1, <2>2, <2>3, <2>4, <2>5, <2>6, <2>7, <2>8, <2>9 DEF Sound, Timers
  <2>12. ListOk(n)
    BY <2>2 DEF ListOk, Listed
  <2>13. Bounds(n)
    BY <2>14, HostAssumption DEF Bounds
  <2>19. NoIrp \notin Irps
    BY DEF NoIrp, Irps, EnumIrp, HnpIrp, ConfigIrp
  <2>20. ~AtIntr(n) /\ ~AtItem(n) /\ ~AtTimer(n) /\ ~AtEnd0(n) /\ ~AtList(n)
    BY <2>2, <2>14, <2>19 DEF AtIntr, AtItem, AtTimer, AtEnd0, AtList, EnumTimers, ResetTimers,
       Newcomers
  <2>15. ~Coming(n) /\ One(n)
    BY <2>2, <2>14, <2>20 DEF Coming, One, OneItem, OneWaits
  <2>16. ~Leaves(n) /\ \A b \in Devices : ~Configures(n, b)
    BY <2>2, <2>14 DEF Leaves, Configures, NoIrp, ConfigIrp
  <2>17. Alone(n, FALSE)
    BY <2>8, <2>12, <2>13, <2>15, <2>16 DEF Alone, Calm
  <2> QED
    BY <2>11, <2>17 DEF Fine
<1> HIDE DEF n
<1>3. Fine(d, FALSE) /\ Sound(d)
  BY <1>2, RegisterFine DEF Fine
<1>4. /\ port = d.port /\ enum = d.enum /\ ep0 = d.ep0 /\ bulk = d.bulk /\ timer = d.timer
      /\ device = d.device /\ connected = d.connected /\ abmAddress = d.abmAddress
      /\ queue = d.queue /\ hw = d.hw /\ wild = d.wild
  BY <1>1 DEF n
<1> HIDE DEF d
<1> DEFINE e == Driver
<1>5. /\ SameBus(d, e) /\ SameMemory(d, e) /\ e.enum = d.enum /\ e.ep0 = d.ep0
      /\ e.queue = d.queue /\ e.wild = d.wild /\ e.hw = d.hw
      /\ {"port", "enum", "ep0", "bulk", "timer", "device", "connected", "abmAddress", "queue",
          "hw", "wild"} \subseteq DOMAIN e
  BY <1>4 DEF SameBus, SameMemory, Driver
<1> HIDE DEF e
<1>6. Shape(e)
  BY <1>3, <1>5 DEF Sound, Shape, SameBus, SameMemory
<1>7. FifoOk(e) /\ (Enumerates(e) <=> Enumerates(d))
  BY <1>3, <1>5 DEF Sound, FifoOk, Enumerates, SameBus, SameMemory
<1>8. Sound(e)
  BY <1>3, <1>5, <1>6, <1>7 DEF Sound, Hosts, SameBus, SameMemory
<1>9. Aside(d, e)
  BY <1>5 DEF Aside, SameBus, SameMemory
<1>10. FALSE \in BOOLEAN
  OBVIOUS
<1> QED
  BY <1>3, <1>8, <1>9, <1>10, AsideFine, Zenon DEF e

-----------------------------------------------------------------------------

\* The invariant, of the state.
FineNow == Fine(Driver, FALSE)

LEMMA AlwaysFine ==
  Spec => []FineNow
<1>1. Init => FineNow
  BY InitFine DEF FineNow
<1>2. FineNow /\ [Next]_vars => FineNow'
  BY NextFine DEF FineNow
<1> QED
  BY <1>1, <1>2, PTL DEF Spec

LEMMA FineIsSound ==
  FineNow => Sound(Driver)
BY DEF FineNow, Fine

\* However devices are plugged in and pulled out, with whatever packets, and however their
\* pipes are closed or flushed: while the class driver has an instance the FIFOs of its pipes
\* lie apart, and the allocator never has to move one.
THEOREM FifosAlwaysApart ==
  Spec => []FifosApart
<1>1. FineNow => FifosApart
  <2> SUFFICES ASSUME FineNow PROVE FifosApart
    OBVIOUS
  <2>1. FifoOk(Driver) /\ connected \in Seq(Devices)
    BY FineIsSound, FieldsOf DEF Sound
  <2>2. Tidy(bulk) /\ ((\E b \in Devices : device[b].msd) => Apart(bulk))
    BY <2>1, FieldsOf DEF FifoOk
  <2>3. Compact(bulk) = bulk
    BY <2>2, NeverMoves DEF Tidy
  <2>4. ToSet(connected) \subseteq Devices
    BY <2>1 DEF ToSet
  <2> QED
    BY <2>2, <2>3, <2>4 DEF FifosApart
<1> QED
  BY <1>1, AlwaysFine, PTL

\* Until a device leaves early, a control transfer is never left with endpoint 0 while the bus
\* has nothing of it: every interrupt of endpoint 0 finds the driver host, so MGC_DrcBsr gets
\* its completion, and only a controller that has no device any more is stopped.
THEOREM TransfersComeBack ==
  Spec => []UntilSurprised
<1>1. FineNow => UntilSurprised
  <2> SUFFICES ASSUME FineNow PROVE UntilSurprised
    OBVIOUS
  <2>1. Hosts(Driver) /\ End0Ok(Driver.ep0)
    BY FineIsSound DEF Sound
  <2> QED
    BY <2>1, FieldsOf DEF Hosts, End0Ok, UntilSurprised, End0Lives
<1> QED
  BY <1>1, AlwaysFine, PTL

LEMMA QuietBus ==
  ASSUME Surprises = FALSE, FineNow
  PROVE  Sound(Driver) /\ Alone(Driver, FALSE)
BY DEF FineNow, Fine

LEMMA EnumeratesIs ==
  ASSUME Sound(Driver)
  PROVE  Enumerating <=> Enumerates(Driver)
BY FieldsOf DEF Sound, Enumerating, Enumerates, EnumTimers, ToSet

LEMMA ListedIs ==
  ToSet(connected) = Listed(Driver)
BY FieldsOf DEF ToSet, Listed

\* Where no device surprises the host, every field stays in its range: the retries and the
\* index of the configuration are bounded, and endpoint 0 and the queue hold only packets of
\* the driver.
THEOREM TypeCorrect ==
  ASSUME Surprises = FALSE
  PROVE  Spec => []TypeOK
<1>1. FineNow => TypeOK
  <2> SUFFICES ASSUME FineNow PROVE TypeOK
    OBVIOUS
  <2>1. Sound(Driver) /\ Bounds(Driver)
    BY QuietBus DEF Alone
  <2>2. /\ PortOk(port) /\ EnumOk(enum) /\ End0Ok(ep0) /\ BlocksOk(device)
        /\ timer \in Timers /\ connected \in Seq(Devices) /\ abmAddress \subseteq Addresses
        /\ queue \in Seq(Items) /\ Tidy(bulk)
    BY <2>1, FieldsOf DEF Sound, FifoOk
  <2>3. /\ enum.bIndex \in 0 .. Configs /\ enum.bRetries \in 0 .. MaxEnumRetries + 1
        /\ enum.bFatalRetries \in 0 .. 1
    <3>1. /\ enum.bIndex <= Configs /\ enum.bRetries <= MaxEnumRetries + 1
          /\ enum.bFatalRetries <= 1
      BY <2>1, FieldsOf DEF Bounds
    <3>2. enum.bIndex \in Nat /\ enum.bRetries \in Nat /\ enum.bFatalRetries \in Nat
      BY <2>2 DEF EnumOk
    <3>3. Configs \in Nat /\ MaxEnumRetries \in Nat
      BY HostAssumption
    <3> QED
      BY <3>1, <3>2, <3>3
  <2>4. ToSet(ep0.list) \subseteq Irps /\ ToSet(connected) \subseteq Devices
    BY <2>2 DEF ToSet, End0Ok
  <2>5. bulk \in BulkEnds
    BY <2>2 DEF Tidy, Placed
  <2>6. ASSUME NEW k \in DOMAIN queue
        PROVE  queue[k].cause \in Causes \cup {"RESET", "IRP"} /\ queue[k].irp \in Irps \cup {NoIrp}
    <3>1. queue[k] \in Items
      BY <2>2
    <3> QED
      BY <3>1 DEF Items
  <2>7. /\ port.bOtgState \in OtgStates
        /\ {port.bWantSession, port.bWantSuspend, port.bWantReset, port.bIsHost,
            port.bIsSuspend, port.bIsReset, port.bRelinquish} \subseteq BOOLEAN
        /\ port.bConnectorId \in {"A", "unknown"}
        /\ port.pRootDevice \in Devices \cup {NoDevice}
        /\ port.bVbusErrorRetries \in 0 .. VbusRetries
        /\ port.bBabbleRetries \in 0 .. BabbleRetries
    BY <2>2 DEF PortOk
  <2>8. /\ enum.bState \in EnumStates /\ enum.pDevice \in Devices \cup {NoDevice}
        /\ enum.bAddress \in Addresses \cup {0}
        /\ \A b \in Devices : device[b].bBusAddress \in Addresses \cup {0}
    BY <2>2 DEF EnumOk, BlocksOk
  <2>9. enum.outcome \in {"none", "configured", "rejected", "refused", "ignored",
                          "no block", "no address", "end taken"}
    BY <2>2, Zenon DEF EnumOk, Outcomes
  <2> QED
    BY <2>2, <2>3, <2>4, <2>5, <2>6, <2>7, <2>8, <2>9, Zenon DEF TypeOK, End0Ok
<1> QED
  BY <1>1, AlwaysFine, PTL

\* Where no device surprises the host, the enumerator always works on a block of its own: it
\* has one, the block is taken, and no driver has been given it.
THEOREM BlockIsItsOwn ==
  ASSUME Surprises = FALSE
  PROVE  Spec => []EnumeratesItsOwn
<1>1. FineNow => EnumeratesItsOwn
  <2> SUFFICES ASSUME FineNow, Enumerating
      PROVE  /\ enum.pDevice # NoDevice /\ device[enum.pDevice].used
             /\ enum.pDevice \notin ToSet(connected)
    BY DEF EnumeratesItsOwn
  <2>1. Sound(Driver) /\ Alone(Driver, FALSE)
    BY QuietBus
  <2>2. Enumerates(Driver)
    BY <2>1, EnumeratesIs
  <2>3. Owns(Driver) /\ Driver.enum.pDevice # NoDevice
    BY <2>1, <2>2 DEF Sound, Alone
  <2> QED
    BY <2>3, FieldsOf, ListedIs DEF Owns
<1> QED
  BY <1>1, AlwaysFine, PTL

\* Where no device surprises the host, the addresses of the devices that were configured
\* differ, each is taken in the bitmap, and so is the one being given out, which none of
\* them has.
THEOREM AddressesDiffer ==
  ASSUME Surprises = FALSE
  PROVE  Spec => []AddressesAreOwned
<1>1. FineNow => AddressesAreOwned
  <2> SUFFICES ASSUME FineNow PROVE AddressesAreOwned
    OBVIOUS
  <2>1. Sound(Driver) /\ Alone(Driver, FALSE)
    BY QuietBus
  <2>2. ListOk(Driver) /\ (Enumerates(Driver) => Owns(Driver))
    BY <2>1 DEF Alone
  <2>3. /\ \A b \in ToSet(connected) : device[b].bBusAddress \in abmAddress
        /\ \A b, c \in ToSet(connected) :
             device[b].bBusAddress = device[c].bBusAddress => b = c
    BY <2>2, FieldsOf, ListedIs DEF ListOk, Address
  <2>4. ASSUME Enumerating, enum.bAddress # 0
        PROVE  enum.bAddress \in abmAddress \ {device[b].bBusAddress : b \in ToSet(connected)}
    <3>1. Owns(Driver)
      BY <2>1, <2>2, <2>4, EnumeratesIs
    <3> QED
      BY <2>4, <3>1, FieldsOf, ListedIs DEF Owns, Address
  <2> QED
    BY <2>3, <2>4 DEF AddressesAreOwned
<1> QED
  BY <1>1, AlwaysFine, PTL
=============================================================================
