-------------------------------- MODULE Host --------------------------------
(***************************************************************************)
(* The OTG state machine of cd/mu_drc.c as an A-device, the bus part of    *)
(* cd/mu_hdr.c, and the host of cd/mu_hst.c: enumeration, addresses, the   *)
(* control transfers of endpoint 0, and removal, with the connect and      *)
(* disconnect callbacks of drivers/msd/mu_mapi.c.  The calls nest, so they *)
(* are operators from a driver state to the next one, and an action is one *)
(* turn of the polled ISR, one background item or one timer.               *)
(***************************************************************************)
EXTENDS Naturals, SequencesExt, BulkEnd, TargetList

CONSTANTS
  Devices,          \* the MGC_Device blocks of the heap, 1 .. n
  Addresses,        \* what abmAddress has bits for, 1 .. 127 in the code
  Configs,          \* bNumConfigurations of every device
  MaxEnumRetries,   \* MGC_MAX_ENUM_RETRIES (10)
  MaxFatalRetries,  \* MGC_MAX_FATAL_RETRIES (3)
  VbusRetries,      \* MUSB_VBUS_ERROR_RETRIES (4)
  BabbleRetries,    \* MUSB_BABBLE_RETRIES (4)
  Kinds,            \* the kinds of devices that are plugged in
  wInSize, wOutSize,\* per kind: wMaxPacketSize of its bulk endpoints; for "none", what is
                    \* found in a block before the device's descriptors are
  Blocking,         \* subset of BOOLEAN: does MUSB_BoardArmTimer call back itself?
  Surprises,        \* bound: is a run followed after a device has left early?
  MaxPlugs,         \* bound: devices plugged in
  MaxErrors,        \* bound: control transfers that fail although a device is there
  MaxFaults         \* bound: Vbus errors, babble, and the user's requests

NoDevice == 0
AllKinds == {"disk",    \* mass storage with SCSI
             "dual",    \* mass storage with SFF-8070i, and an OTG descriptor with HNP
             "other"}   \* no mass storage

ASSUME HostAssumption ==
  /\ Devices \subseteq Nat \ {NoDevice} /\ Addresses \subseteq Nat \ {0}
  /\ Configs \in Nat \ {0}
  /\ Kinds \subseteq AllKinds
  /\ {wInSize, wOutSize} \subseteq [AllKinds \cup {"none"} -> PacketSizes]
  /\ Blocking \subseteq BOOLEAN /\ Surprises \in BOOLEAN
  /\ {MaxEnumRetries, MaxFatalRetries, VbusRetries, BabbleRetries,
      MaxPlugs, MaxErrors, MaxFaults} \subseteq Nat

\* The RAM has room for both pipes of a device (MGC_DFIFO_TOTAL is 16384).
ASSUME RoomForOne ==
  \A k \in AllKinds \cup {"none"} : BothAllocate(NewBulkEnd, wInSize[k], wOutSize[k])

VARIABLES
  port,       \* MGC_Port
  enum,       \* its EnumerationData
  ep0,        \* its LocalEnds[0]
  bulk,       \* its LocalEnds[1]
  timer,      \* what timer 0, the only one of them all, will call
  device,     \* per block: MGC_Device, with its MUSB_Device
  connected,  \* ConnectedDeviceList
  abmAddress, \* the addresses in use
  queue,      \* the items of the BSR
  hw,         \* the controller, the bus and the board
  wild,       \* what has been done to memory that was free by then
  left        \* what the environment may still do

vars == <<port, enum, ep0, bulk, timer, device, connected, abmAddress, queue, hw, wild, left>>

OtgStates == {"AB_IDLE", "A_WAIT_BCON", "A_HOST", "A_SUSPEND", "A_PERIPHERAL",
              "B_PERIPHERAL", "B_HOST"}
EnumStates == {"Idle", "GetMinDevice", "SetAddress", "GetFullDevice", "SizeConfigs",
               "GetConfigs"}
Timers == {"none", "WaitSessReq", "HostResetStart", "HostResetComplete",
           "GetShortDescriptor", "SetDeviceAddress", "GetFullDescriptor", "GetConfig",
           "HostRetryEnum", "CompleteResume", "RemoveSuspend", "AidlBdis"}
Causes == {"RESUME", "SESSREQ", "VBUSERROR", "SUSPEND", "CONNECT", "DISCONNECT"}
NoIrp == [what |-> "none", dev |-> NoDevice]
EnumIrp == [what |-> "enum", dev |-> NoDevice]
HnpIrp == [what |-> "hnp", dev |-> NoDevice]
ConfigIrp(b) == [what |-> "config", dev |-> b]
Irps == {EnumIrp, HnpIrp} \cup {ConfigIrp(b) : b \in Devices}

\* The driver: what the operators below take and return.
Driver == [port |-> port, enum |-> enum, ep0 |-> ep0, bulk |-> bulk, timer |-> timer,
           device |-> device, connected |-> connected, abmAddress |-> abmAddress,
           queue |-> queue, hw |-> hw, wild |-> wild]
Becomes(d) ==
  /\ port' = d.port /\ enum' = d.enum /\ ep0' = d.ep0 /\ bulk' = d.bulk /\ timer' = d.timer
  /\ device' = d.device /\ connected' = d.connected /\ abmAddress' = d.abmAddress
  /\ queue' = d.queue /\ hw' = d.hw /\ wild' = d.wild

-----------------------------------------------------------------------------
(* The controller.  hw.session and hw.joined are DEVCTL.SESSION and whether *)
(* a device is attached to the powered bus; hw.early says that DEVCTL.HM is *)
(* set as soon as the session begins, hw.reports that the end of a session  *)
(* is reported as a disconnect; hw.remote, that the other side is host.     *)

HostMode(h) == h.session /\ ~h.remote /\ (h.joined \/ h.early)

\* The device has left the bus.  A control transfer on its way fails.  hw.clean
\* remembers that none has left while it was enumerated or under a control transfer,
\* and that none came back before the driver had seen it leave.
Gone(d, reported) ==
  [d EXCEPT !.hw.joined = FALSE, !.hw.remote = FALSE,
            !.hw.intr = IF d.hw.joined /\ reported THEN @ \cup {"DISCONNECT"} ELSE @,
            !.hw.wire = IF @ = "busy" THEN "failed" ELSE @,
            !.hw.clean = @ /\ ~(d.hw.joined /\ (d.ep0.pTxIrp # NoIrp \/ d.enum.outcome = "none"))]

SessionEnds(d) == Gone([d EXCEPT !.hw.session = FALSE, !.hw.babble = FALSE], d.hw.reports)

Unseen(d) ==
  \/ "DISCONNECT" \in d.hw.intr
  \/ \E k \in DOMAIN d.queue : d.queue[k].cause = "DISCONNECT"

Joined(d) ==
  IF d.hw.session /\ d.hw.plugged /\ ~d.hw.joined /\ ~d.hw.remote
  THEN [d EXCEPT !.hw.joined = TRUE, !.hw.intr = @ \cup {"CONNECT"},
                 !.hw.clean = @ /\ ~Unseen(d), !.enum.outcome = "none"]
  ELSE d

ReadBusState(d) ==
  [d EXCEPT !.port.bConnectorId = IF d.hw.session THEN "A" ELSE "unknown",
            !.port.bIsHost = HostMode(d.hw), !.port.bIsSuspend = d.hw.suspendm,
            !.port.bIsReset = d.hw.reset]

ProgramBusState(d) ==
  LET p == d.port
      s == [d EXCEPT !.hw.suspendm = p.bWantSuspend /\ (@ \/ p.bIsHost),
                     !.hw.reset = p.bWantReset]
  IN  IF p.bWantSession THEN [s EXCEPT !.hw.session = TRUE] ELSE SessionEnds(s)

\* MUSB_BoardArmTimer: the board's version waits and calls back before it
\* returns; r is what the callback makes of d.
After(d, callback, r) == IF d.hw.blocks THEN r ELSE [d EXCEPT !.timer = callback]

-----------------------------------------------------------------------------
(* Memory and addresses *)

\* Mutation of AllocateAddress: the bit is not set.
AllocateAddressUnmarked(d) == [d EXCEPT !.enum.bAddress = Min(Addresses \ d.abmAddress)]

\* The first bit that is clear.
AllocateAddress(d) ==
  LET a == Min(Addresses \ d.abmAddress)
  IN  [d EXCEPT !.enum.bAddress = a, !.abmAddress = @ \cup {a}]

ReleaseAddress(d, a) == [d EXCEPT !.abmAddress = @ \ {a}]

MemFree(d, b) ==
  IF d.device[b].used THEN [d EXCEPT !.device[b].used = FALSE]
  ELSE [d EXCEPT !.wild = @ \cup {"freed twice"}]

\* MUSB_ListRemoveItem; of an item that is not there, see RemoveFaults of Lists.
Without(l, i) ==
  IF Contains(l, i) THEN RemoveAt(l, CHOOSE n \in 1 .. Len(l) : l[n] = i) ELSE l

\* Mutation of RejectDevice: pPrivateData survives.
RejectDeviceKeep(d, b) ==
  LET s == [ReleaseAddress(d, d.device[b].bBusAddress) EXCEPT !.connected = Without(@, b)]
  IN  IF d.device[b].pPrivateData THEN MemFree(s, b) ELSE s

\* Mutation of RejectDevice: it stays in the list.
RejectDeviceListed(d, b) ==
  LET s == [ReleaseAddress(d, d.device[b].bBusAddress) EXCEPT !.device[b].pPrivateData = FALSE]
  IN  IF d.device[b].pPrivateData THEN MemFree(s, b) ELSE s

\* The MUSB_Device is part of the block, and keeps what it says after the block
\* is freed, until the block is allocated again.
RejectDevice(d, b) ==
  LET s == [ReleaseAddress(d, d.device[b].bBusAddress)
              EXCEPT !.connected = Without(@, b), !.device[b].pPrivateData = FALSE]
  IN  IF d.device[b].pPrivateData THEN MemFree(s, b) ELSE s

MsdDisconnect(d, b) ==
  IF d.device[b].msd THEN [d EXCEPT !.device[b].msd = FALSE, !.bulk = BothClosed(@)]
  ELSE [d EXCEPT !.wild = @ \cup {"no instance"}]

DeviceDisconnected(d, b) ==
  IF b = NoDevice THEN d
  ELSE RejectDevice(IF d.device[b].pPrivateData THEN MsdDisconnect(d, b) ELSE d, b)

HostDestroy(d) == FoldLeft(DeviceDisconnected, d, d.connected)

-----------------------------------------------------------------------------
(* Control transfers *)

Transmit(d, i) ==
  [d EXCEPT !.ep0.pTxIrp = i, !.ep0.failed = @ \ {i},
            !.hw.wire = IF d.hw.joined THEN "busy" ELSE "failed",
            !.hw.clean = @ /\ d.hw.joined]

StartControlTransfer(d, i) ==
  IF d.ep0.pTxIrp = NoIrp THEN Transmit(d, i)
  ELSE [d EXCEPT !.ep0.list = Append(@, i), !.ep0.failed = @ \ {i}]

\* Mutation of StartNextControlTransfer: a list is left waiting.
StartNextNone(d) == [d EXCEPT !.ep0.pTxIrp = NoIrp]

StartNextControlTransfer(d) ==
  IF d.ep0.list = <<>> THEN [d EXCEPT !.ep0.pTxIrp = NoIrp]
  ELSE Transmit([d EXCEPT !.ep0.list = Tail(@)], Head(d.ep0.list))

CompleteIrp(d) ==
  StartNextControlTransfer([d EXCEPT !.queue = Append(@, [cause |-> "IRP", irp |-> d.ep0.pTxIrp])])

\* The end of the status phase.
DrcServiceDefaultEnd(d) == CompleteIrp([d EXCEPT !.ep0.failed = @ \ {d.ep0.pTxIrp}])

\* MGC_HdrcServiceDefaultEnd, when the transfer has been answered or has failed;
\* with bIsHost FALSE the interrupt is taken for one of a peripheral.
ServiceDefaultEnd(d) ==
  LET s == [d EXCEPT !.hw.wire = "idle"]
  IN  CASE ~d.port.bIsHost -> s
        [] d.port.bIsHost /\ d.hw.wire = "failed" ->
             CompleteIrp([s EXCEPT !.ep0.failed = @ \cup {d.ep0.pTxIrp}])
        [] OTHER -> DrcServiceDefaultEnd(s)

-----------------------------------------------------------------------------
(* Enumeration *)

SendRequest(d, state) == StartControlTransfer([d EXCEPT !.enum.bState = state], EnumIrp)

GetShortDescriptor(d) == SendRequest(d, "GetMinDevice")
GetFullDescriptor(d) == SendRequest(d, "GetFullDevice")
GetConfig(d) == StartControlTransfer(d, EnumIrp)
SetDeviceAddress(d) == SendRequest(ProgramBusState(d), "SetAddress")

\* MGC_EnumerateDevice.  MUSB_MemAlloc finds the lowest block; bState stays.
EnumerateDevice(d) ==
  LET free == {b \in Devices : ~d.device[b].used}
      b == Min(free)
      s == [d EXCEPT !.device[b] = [used |-> TRUE, pPrivateData |-> TRUE, bBusAddress |-> 0,
                                    msd |-> FALSE, kind |-> "none"],
                     !.enum.pDevice = b, !.enum.bAddress = 0, !.enum.bRetries = 0,
                     !.enum.bFatalRetries = 0, !.enum.outcome = "none"]
  IN  IF free = {} THEN [d EXCEPT !.enum.outcome = "no block"]
      ELSE After(s, "GetShortDescriptor", GetShortDescriptor(s))

\* Mutation of HostResetComplete: the request for the reset stays.
HostResetCompleteStays(d) == EnumerateDevice(ReadBusState(ProgramBusState(d)))

HostResetComplete(d) ==
  EnumerateDevice(ReadBusState(ProgramBusState([d EXCEPT !.port.bWantReset = FALSE])))

HostResetStart(d) ==
  LET s == ProgramBusState([d EXCEPT !.port.bWantReset = TRUE, !.port.bWantSuspend = FALSE])
  IN  After(s, "HostResetComplete", HostResetComplete(s))

HostRetryEnum(d) == ProgramBusState([d EXCEPT !.port.bWantSession = TRUE])

-----------------------------------------------------------------------------
(* MGC_DrcChangeOtgState, one operator per state it goes to.  Leave is what *)
(* it does first.                                                           *)

Leave(d, toOtg) ==
  LET s == [ReadBusState(d) EXCEPT !.timer = "none"]
      from == d.port.bOtgState
      f == [s EXCEPT !.bulk = FlushedAll(@)]
      exitingHost == toOtg = "A_PERIPHERAL" \/ (toOtg # "A_SUSPEND" /\ from \in {"A_HOST", "B_HOST"})
  IN  IF exitingHost \/ from \in {"A_PERIPHERAL", "B_PERIPHERAL"} THEN ProgramBusState(f) ELSE s

Enter(d, toOtg) == [d EXCEPT !.port.bOtgState = toOtg]

ToIdle(d) ==
  Enter(ProgramBusState([Leave(d, "AB_IDLE") EXCEPT !.port.bWantSession = FALSE]), "AB_IDLE")

\* Mutation of WaitSessReqTimeout: the session goes, the state stays.
WaitSessReqStay(d) == ProgramBusState([d EXCEPT !.port.bWantSession = FALSE])

WaitSessReqTimeout(d) == IF d.port.bIsSuspend \/ d.port.bIsReset THEN d ELSE ToIdle(d)

\* Eight seconds: a device that is plugged in joins.
ToWaitBcon(d) ==
  LET s == ProgramBusState([Leave(d, "A_WAIT_BCON") EXCEPT !.port.bWantSession = TRUE])
  IN  Enter(After(s, "WaitSessReq", WaitSessReqTimeout(Joined(s))), "A_WAIT_BCON")

ToHost(d) ==
  LET s == Leave(d, "A_HOST")
  IN  Enter(IF d.port.bOtgState = "A_SUSPEND" THEN s
            ELSE After(s, "HostResetStart", HostResetStart(s)), "A_HOST")

ToBHost(d) ==
  LET s == ProgramBusState(Leave(d, "B_HOST"))
  IN  Enter(After(s, "HostResetComplete", HostResetComplete(s)), "B_HOST")

ToPeripheral(d, toOtg) == Enter(Leave(d, toOtg), toOtg)

SuspendBus(d) ==
  ProgramBusState([d EXCEPT !.port.bRelinquish = FALSE, !.port.bWantSuspend = TRUE])

ToSuspend(d) ==
  LET s == Leave(d, "A_SUSPEND")
      root == d.port.pRootDevice
      t == CASE root = NoDevice -> s
             [] root # NoDevice /\ d.device[root].kind = "dual" -> StartControlTransfer(s, HnpIrp)
             [] OTHER -> SuspendBus(s)
  IN  Enter(t, "A_SUSPEND")

\* MGC_DrcCompleteResume; the mass-storage driver has no callback for a bus that resumes.
CompleteResume(d) == ProgramBusState(d)

\* What is done to end the resume signal, by the driver's user and by remote wakeup.
FinishResume(d) == After(d, "CompleteResume", CompleteResume(d))

RemoveSuspend(d) == ProgramBusState([d EXCEPT !.port.bWantSuspend = FALSE])

RelinquishHost(d) ==
  LET s == [d EXCEPT !.port.bRelinquish = TRUE]
      t == ProgramBusState([ReadBusState(s) EXCEPT !.port.bWantSuspend = TRUE])
      p == ToPeripheral(t, "B_PERIPHERAL")
  IN  IF d.port.bConnectorId = "A" THEN ToSuspend(s)
      ELSE After(p, "RemoveSuspend", RemoveSuspend(p))

\* MGC_OtgStateGetId.  The connector is an A plug, so bIsReset does not matter.
OtgStateGetId(d) ==
  LET s == ReadBusState(ProgramBusState([d EXCEPT !.port.bWantSuspend = FALSE,
                                                  !.port.bWantSession = TRUE]))
  IN  IF s.port.bIsHost THEN s ELSE ToWaitBcon(s)

\* MGC_HdrcStop takes the interrupts that are pending.
StopController(d) == [d EXCEPT !.hw.intr = {}, !.hw.wire = "idle"]

ResetPort(d) ==
  LET s == ProgramBusState([d EXCEPT !.timer = "none", !.port.bWantSession = FALSE])
      t == [StopController(s) EXCEPT !.queue = <<>>, !.bulk = FlushedAll(@)]
  IN  [ReadBusState(t) EXCEPT !.port.bWantReset = FALSE, !.port.bOtgState = "AB_IDLE"]

\* MUSB_RegisterOtgClient after MUSB_DeactivateClient.
RegisterOtgClient(d) ==
  OtgStateGetId(ResetPort([d EXCEPT !.port.bVbusErrorRetries = VbusRetries,
                                    !.port.bBabbleRetries = BabbleRetries]))
DeactivateClient(d) == ProgramBusState([d EXCEPT !.port.bWantSession = FALSE])

-----------------------------------------------------------------------------
(* MGC_HostEnumerator, and the callbacks of the other control transfers *)

Abort(d) ==
  LET b == d.enum.pDevice
      s == MemFree(ReleaseAddress([d EXCEPT !.enum.bState = "Idle", !.enum.bFatalRetries = @ + 1],
                                  d.device[b].bBusAddress), b)
      t == ProgramBusState([s EXCEPT !.port.bWantSession = FALSE])
  IN  IF s.enum.bFatalRetries < MaxFatalRetries THEN After(t, "HostRetryEnum", HostRetryEnum(t))
      ELSE s

\* Mutations of EnumFailed: the transfer is not repeated; no return after the abort.
EnumFailedStop(d) ==
  LET s == [d EXCEPT !.enum.bRetries = @ + 1]
  IN  IF s.enum.bRetries > MaxEnumRetries THEN Abort(s) ELSE s
EnumFailedOn(d) ==
  LET s == [d EXCEPT !.enum.bRetries = @ + 1]
  IN  StartControlTransfer(IF s.enum.bRetries > MaxEnumRetries THEN Abort(s) ELSE s, EnumIrp)

EnumFailed(d) ==
  LET s == [d EXCEPT !.enum.bRetries = @ + 1]
  IN  IF s.enum.bRetries > MaxEnumRetries THEN Abort(s) ELSE StartControlTransfer(s, EnumIrp)

\* What the test program tells the host of the drivers it has, which is one.
PeripheralList == FillMsdPeripheralList(0, 256)

\* What a device of a kind says of itself.  A human interface is what has no driver.
Descriptors(kind) ==
  [idVendor |-> 0, idProduct |-> 0, bcdDevice |-> 0, bClass |-> 0, bSubClass |-> 0, bProtocol |-> 0,
   configs |-> [c \in 1 .. Configs |->
     <<[bClass |-> IF kind = "other" THEN 3 ELSE MassStorage, bProtocol |-> Bot,
        bSubClass |-> IF kind = "dual" THEN Sff8070i ELSE Scsi]>>]]

HasDriver(kind) ==
  LET desc == Descriptors(kind)
  IN  \E config \in ToSet(desc.configs) :
        FindDriver(PeripheralList, 1, desc, config).driver # NoDriver

\* MGC_DrcAcceptDevice: for the first device of a connection, pRootDevice is
\* NULL, and a_hnp_support is not sent.
AcceptDevice(d, b) == HasDriver(d.device[b].kind)

\* MUSB_MsdConnect and MGC_MsdConfigureDevice.  Nobody looks whether it succeeds: hw.clean
\* remembers that a device found the end taken by one the driver still lists.  If the
\* controller is no longer host, the allocator wants an end with the number of the device's,
\* which this controller does not have.
MsdConnect(d, b) ==
  LET s == ReadBusState(d)
      in == wInSize[d.device[b].kind]
      out == wOutSize[d.device[b].kind]
      opened == [s EXCEPT !.bulk = BothOpened(@, in, out)]
      taken == \E c \in ToSet(d.connected) \ {b} : d.device[c].msd
  IN  CASE s.port.bIsHost /\ BothAllocate(s.bulk, in, out) ->
             StartControlTransfer([opened EXCEPT !.device[b].msd = TRUE], ConfigIrp(b))
        [] s.port.bIsHost /\ ~BothAllocate(s.bulk, in, out) ->
             IF taken THEN [opened EXCEPT !.enum.outcome = "end taken", !.hw.clean = FALSE]
             ELSE opened
        [] OTHER -> s

DeviceReady(d) ==
  LET b == d.enum.pDevice
      s == [d EXCEPT !.connected = Append(@, b),
                     !.port.pRootDevice = IF @ = NoDevice THEN b ELSE @]
      r == ReleaseAddress(RelinquishHost([d EXCEPT !.enum.outcome = "refused"]),
                          d.device[b].bBusAddress)
  IN  [(IF AcceptDevice(d, b) THEN MsdConnect(s, b) ELSE MemFree(r, b))
         EXCEPT !.enum.bState = "Idle"]

NextConfig(d) == After(d, "GetConfig", GetConfig(d))

EnumSucceeded(d) ==
  LET b == d.enum.pDevice
      s == [d EXCEPT !.enum.bRetries = 0, !.enum.bFatalRetries = 0]
      a == AllocateAddress(s)
      addressed == [s EXCEPT !.device[b].bBusAddress = d.enum.bAddress]
      sizing == [s EXCEPT !.enum.bState = "SizeConfigs", !.enum.bIndex = 0,
                          !.device[b].kind = d.hw.kind]
      next == [s EXCEPT !.enum.bIndex = @ + 1]
      getting == [s EXCEPT !.enum.bState = "GetConfigs", !.enum.bIndex = 0]
      more == next.enum.bIndex < Configs
  IN  CASE d.enum.bState = "GetMinDevice" ->
             IF s.abmAddress = Addresses THEN [s EXCEPT !.enum.outcome = "no address"]
             ELSE After(a, "SetDeviceAddress", SetDeviceAddress(a))
        [] d.enum.bState = "SetAddress" ->
             After(addressed, "GetFullDescriptor", GetFullDescriptor(addressed))
        [] d.enum.bState = "GetFullDevice" -> NextConfig(sizing)
        [] d.enum.bState = "SizeConfigs" -> NextConfig(IF more THEN next ELSE getting)
        [] d.enum.bState = "GetConfigs" -> IF more THEN NextConfig(next) ELSE DeviceReady(next)
        [] OTHER -> s

\* MGC_MsdSetConfigCallback.  The transfer and the instance are one block, which
\* MUSB_MsdDisconnect frees.
SetConfigComplete(d, b) ==
  CASE ~d.device[b].msd -> [d EXCEPT !.wild = @ \cup {"called back late"}]
    [] d.device[b].msd /\ ConfigIrp(b) \in d.ep0.failed ->
         RejectDevice([d EXCEPT !.enum.outcome = "rejected"], b)
    [] OTHER -> [d EXCEPT !.enum.outcome = "configured"]

SetHnpEnableComplete(d) ==
  LET s == ProgramBusState([d EXCEPT !.port.bWantSuspend = TRUE])
  IN  IF HnpIrp \in d.ep0.failed THEN d ELSE After(s, "AidlBdis", s)

IrpComplete(d, i) ==
  CASE i = EnumIrp -> IF EnumIrp \in d.ep0.failed THEN EnumFailed(d) ELSE EnumSucceeded(d)
    [] i = HnpIrp -> SetHnpEnableComplete(d)
    [] OTHER -> SetConfigComplete(d, i.dev)

\* MGC_StartNextIrp, called after every completion, is made for bulk IRPs: it reads
\* the pipe of the next IRP of the end, which a control transfer does not have.
StartNextIrp(d) ==
  IF d.ep0.pTxIrp = NoIrp /\ d.ep0.list # <<>> THEN [d EXCEPT !.wild = @ \cup {"no pipe"}] ELSE d

-----------------------------------------------------------------------------
(* The ISR, polled by the main loop when the queue is empty *)

\* The RESET bit: of a host, babble; otherwise the bus reset of a peripheral.
ResetIsr(d) ==
  LET s == ReadBusState(d)
      p == [s EXCEPT !.port.bWantSession = s.hw.session, !.bulk = FlushedAll(@)]
  IN  CASE s.port.bIsHost -> [s EXCEPT !.queue = Append(@, [cause |-> "RESET", irp |-> NoIrp])]
        [] ~s.port.bIsHost /\ s.port.bOtgState = "AB_IDLE" -> OtgStateGetId(p)
        [] OTHER -> p

\* MGC_DrcUsbIsr; a disconnect is only handled if we are not resetting.
UsbIsr(d) ==
  LET raised(c) == c \in d.hw.intr /\ ~(c = "DISCONNECT" /\ d.port.bWantReset)
      item(c) == IF raised(c) THEN <<[cause |-> c, irp |-> NoIrp]>> ELSE <<>>
      s == [d EXCEPT !.port.bIsHost = @ \/ "CONNECT" \in d.hw.intr,
                     !.hw.intr = {},
                     !.bulk = IF raised("DISCONNECT") THEN FlushedAll(@) ELSE @,
                     !.queue = item("RESUME") \o item("SESSREQ") \o item("VBUSERROR")
                                \o item("SUSPEND") \o item("CONNECT") \o item("DISCONNECT")]
  IN  IF "RESET" \in d.hw.intr THEN ResetIsr(s) ELSE s

Poll ==
  /\ queue = <<>>
  /\ hw.intr # {} \/ hw.wire \in {"ok", "failed"}
  /\ LET s == UsbIsr(Driver)
     IN  Becomes(IF s.hw.wire \in {"ok", "failed"} THEN ServiceDefaultEnd(s) ELSE s)
  /\ UNCHANGED left

-----------------------------------------------------------------------------
(* MGC_DrcBsr, one item at a time.  The item is gone when it is handled. *)

Taken == [Driver EXCEPT !.queue = Tail(@)]
Item(cause) == queue # <<>> /\ Head(queue).cause = cause

Resume ==
  /\ Item("RESUME")
  /\ LET s == ProgramBusState(ToHost(Taken))
     IN  Becomes(IF port.bOtgState = "A_SUSPEND"
                 THEN FinishResume(s) ELSE Taken)
  /\ UNCHANGED left

SessionReq ==
  /\ Item("SESSREQ")
  /\ Becomes(IF port.bOtgState = "AB_IDLE"
             THEN ProgramBusState([ToWaitBcon(Taken) EXCEPT !.port.bWantSession = TRUE])
             ELSE Taken)
  /\ UNCHANGED left

\* Mutation of VbusError: retries without end.
VbusErrorAlways ==
  /\ Item("VBUSERROR")
  /\ Becomes(OtgStateGetId(ToIdle([Taken EXCEPT !.port.bVbusErrorRetries = @ - 1])))
  /\ UNCHANGED left

VbusError ==
  /\ Item("VBUSERROR")
  /\ Becomes(IF port.bVbusErrorRetries > 0
             THEN OtgStateGetId(ToIdle([Taken EXCEPT !.port.bVbusErrorRetries = @ - 1]))
             ELSE ToIdle(Taken))
  /\ UNCHANGED left

Suspend ==
  /\ Item("SUSPEND")
  /\ Becomes(CASE port.bOtgState = "A_HOST" -> ToSuspend([Taken EXCEPT !.port.bIsSuspend = TRUE])
               [] port.bOtgState = "A_PERIPHERAL" -> ToWaitBcon(Taken)
               [] port.bOtgState = "B_PERIPHERAL" -> [Taken EXCEPT !.port.bIsSuspend = TRUE]
               [] OTHER -> Taken)
  /\ UNCHANGED left

Connect ==
  /\ Item("CONNECT")
  /\ LET s == [ReadBusState(Taken) EXCEPT !.port.pRootDevice = NoDevice]
     IN  Becomes(CASE port.bOtgState = "B_PERIPHERAL" -> ToBHost(s)
                   [] port.bOtgState = "A_SUSPEND" -> ToHost([s EXCEPT !.enum.outcome = "ignored"])
                   [] OTHER -> ToHost(s))
  /\ UNCHANGED left

\* The root device is in the list and has been disconnected with it: the second
\* call finds what the first has left of the block.
Disconnect ==
  /\ Item("DISCONNECT")
  /\ LET s == HostDestroy([Taken EXCEPT !.port.bIsSuspend = FALSE])
         r == DeviceDisconnected(s, s.port.pRootDevice)
         hnp == s.port.bRelinquish /\ HnpIrp \notin s.ep0.failed
         t == CASE s.port.bOtgState = "A_HOST" -> ToWaitBcon(r)
                [] s.port.bOtgState = "A_SUSPEND" /\ hnp -> ToPeripheral(r, "A_PERIPHERAL")
                [] s.port.bOtgState = "A_SUSPEND" /\ ~hnp -> ToWaitBcon(s)
                [] s.port.bOtgState = "B_HOST" -> ToPeripheral(r, "B_PERIPHERAL")
                [] OTHER -> s
     IN  Becomes([t EXCEPT !.port.pRootDevice = NoDevice])
  /\ UNCHANGED left

\* Babble: the controller has dropped the session, or will.
Reset ==
  /\ Item("RESET")
  /\ LET s == ReadBusState(Taken)
     IN  Becomes(CASE hw.session -> s
                   [] ~hw.session /\ port.bBabbleRetries > 0 ->
                        OtgStateGetId(ToIdle([s EXCEPT !.port.bBabbleRetries = @ - 1]))
                   [] OTHER -> ToIdle(ProgramBusState(ResetPort(s))))
  /\ UNCHANGED left

Complete ==
  /\ Item("IRP")
  /\ Becomes(StartNextIrp(IrpComplete(Taken, Head(queue).irp)))
  /\ UNCHANGED left

Bsr == Resume \/ SessionReq \/ VbusError \/ Suspend \/ Connect \/ Disconnect \/ Reset \/ Complete

-----------------------------------------------------------------------------
(* Timers that the board calls back later.  All of them run for 10 ms or more, *)
(* in which the main loop has emptied the queue.                              *)

Expired(d, callback) ==
  CASE callback = "WaitSessReq" -> WaitSessReqTimeout(d)
    [] callback = "HostResetStart" -> HostResetStart(d)
    [] callback = "HostResetComplete" -> HostResetComplete(d)
    [] callback = "GetShortDescriptor" -> GetShortDescriptor(d)
    [] callback = "SetDeviceAddress" -> SetDeviceAddress(d)
    [] callback = "GetFullDescriptor" -> GetFullDescriptor(d)
    [] callback = "GetConfig" -> GetConfig(d)
    [] callback = "HostRetryEnum" -> HostRetryEnum(d)
    [] callback = "CompleteResume" -> CompleteResume(d)
    [] callback = "RemoveSuspend" -> RemoveSuspend(d)
    [] callback = "AidlBdis" -> d

Expire ==
  /\ timer # "none" /\ queue = <<>>
  /\ Becomes(Expired([Driver EXCEPT !.timer = "none"], timer))
  /\ UNCHANGED left

-----------------------------------------------------------------------------
(* The application: the prompts of MGC_MsdNewOtgState and the menu, which a   *)
(* device has to be configured for.                                           *)

Spend(what) == left[what] > 0 /\ left' = [left EXCEPT ![what] = @ - 1]

RequestBus ==
  /\ port.bOtgState = "AB_IDLE" \/ port.bConnectorId = "unknown"
  /\ Becomes(OtgStateGetId(Driver))
  /\ Spend("faults")

ResumeBus ==
  /\ port.bOtgState = "A_SUSPEND" /\ port.bIsHost
  /\ Becomes(FinishResume(ReadBusState(
       ProgramBusState([Driver EXCEPT !.port.bWantSuspend = FALSE]))))
  /\ Spend("faults")

Relinquish ==
  /\ enum.outcome = "configured"
  /\ Becomes(RelinquishHost(Driver))
  /\ Spend("faults")

Restart ==
  /\ enum.outcome = "configured"
  /\ Becomes(RegisterOtgClient(DeactivateClient(Driver)))
  /\ Spend("faults")

-----------------------------------------------------------------------------
(* The bus and the device *)

Plug ==
  /\ ~hw.plugged
  /\ \E k \in Kinds : Becomes([Driver EXCEPT !.hw.plugged = TRUE, !.hw.kind = k])
  /\ Spend("plugs")

Join ==
  /\ Joined(Driver) # Driver
  /\ Becomes(Joined(Driver))
  /\ UNCHANGED left

\* Without its host, a peripheral sees the bus idle.
Unplug ==
  /\ hw.plugged
  /\ LET s == Gone(Driver, TRUE)
     IN  Becomes([s EXCEPT !.hw.plugged = FALSE,
                           !.hw.intr = IF hw.remote THEN @ \cup {"SUSPEND"} ELSE @])
  /\ UNCHANGED left

Answer ==
  /\ hw.wire = "busy" /\ ~hw.suspendm
  /\ Becomes([Driver EXCEPT !.hw.wire = "ok"])
  /\ UNCHANGED left

NoAnswer ==
  /\ hw.wire = "busy"
  /\ Becomes([Driver EXCEPT !.hw.wire = "failed"])
  /\ Spend("errors")

VbusFails ==
  /\ hw.session
  /\ LET s == SessionEnds(Driver) IN Becomes([s EXCEPT !.hw.intr = @ \cup {"VBUSERROR"}])
  /\ Spend("faults")

Babble ==
  /\ hw.joined /\ ~hw.reset /\ ~hw.suspendm /\ "CONNECT" \notin hw.intr
  /\ Becomes([Driver EXCEPT !.hw.intr = @ \cup {"RESET"}, !.hw.babble = TRUE])
  /\ Spend("faults")

SessionBlown ==
  /\ hw.babble
  /\ Becomes(SessionEnds([Driver EXCEPT !.hw.babble = FALSE]))
  /\ UNCHANGED left

SessionRequested ==
  /\ hw.plugged /\ ~hw.session
  /\ Becomes([Driver EXCEPT !.hw.intr = @ \cup {"SESSREQ"}])
  /\ Spend("faults")

RemoteWakeup ==
  /\ hw.joined /\ hw.suspendm
  /\ Becomes([Driver EXCEPT !.hw.intr = @ \cup {"RESUME"}, !.hw.suspendm = FALSE])
  /\ Spend("faults")

\* HNP: a dual-role device turns a suspended bus round.
TakeRole ==
  /\ hw.joined /\ hw.suspendm /\ hw.kind = "dual" /\ HnpIrp \notin ep0.failed
  /\ Becomes([Gone(Driver, TRUE) EXCEPT !.hw.remote = TRUE])
  /\ UNCHANGED left

GiveRoleBack ==
  /\ hw.remote
  /\ Becomes([Driver EXCEPT !.hw.remote = FALSE, !.hw.intr = @ \cup {"SUSPEND"}])
  /\ UNCHANGED left

User == RequestBus \/ ResumeBus \/ Relinquish \/ Restart
Bus ==
  \/ Plug \/ Join \/ Unplug \/ Answer \/ NoAnswer \/ VbusFails \/ Babble \/ SessionBlown
  \/ SessionRequested \/ RemoteWakeup \/ TakeRole \/ GiveRoleBack

-----------------------------------------------------------------------------
(* MUSB_NewController clears the controller; MUSB_RegisterOtgClient starts it. *)

NewController(h) ==
  [port |-> [bOtgState |-> "AB_IDLE", bWantSession |-> FALSE, bWantSuspend |-> FALSE,
             bWantReset |-> FALSE, bIsHost |-> FALSE, bConnectorId |-> "unknown",
             bIsSuspend |-> FALSE, bIsReset |-> FALSE, bRelinquish |-> FALSE,
             pRootDevice |-> NoDevice, bVbusErrorRetries |-> 0, bBabbleRetries |-> 0],
   enum |-> [bState |-> "Idle", pDevice |-> NoDevice, bAddress |-> 0, bIndex |-> 0,
             bRetries |-> 0, bFatalRetries |-> 0, outcome |-> "none"],
   ep0 |-> [pTxIrp |-> NoIrp, list |-> <<>>, failed |-> {}], bulk |-> NewBulkEnd,
   timer |-> "none",
   device |-> [b \in Devices |-> [used |-> FALSE, pPrivateData |-> FALSE, bBusAddress |-> 0,
                                  msd |-> FALSE, kind |-> "none"]],
   connected |-> <<>>, abmAddress |-> {}, queue |-> <<>>, hw |-> h, wild |-> {}]

Init ==
  /\ \E early, reports \in BOOLEAN, blocks \in Blocking :
       LET d == RegisterOtgClient(NewController(
                  [plugged |-> FALSE, kind |-> "none", session |-> FALSE, joined |-> FALSE,
                   remote |-> FALSE, suspendm |-> FALSE, reset |-> FALSE, babble |-> FALSE,
                   intr |-> {}, wire |-> "idle", clean |-> TRUE, blocks |-> blocks,
                   early |-> early, reports |-> reports]))
       IN  /\ port = d.port /\ enum = d.enum /\ ep0 = d.ep0 /\ bulk = d.bulk /\ timer = d.timer
           /\ device = d.device /\ connected = d.connected /\ abmAddress = d.abmAddress
           /\ queue = d.queue /\ hw = d.hw /\ wild = d.wild
  /\ left = [plugs |-> MaxPlugs, errors |-> MaxErrors, faults |-> MaxFaults]

\* Nothing is said of what happens after memory has been misused.
Next == wild = {} /\ (hw.clean \/ Surprises) /\ (Poll \/ Bsr \/ Expire \/ User \/ Bus)

Spec == Init /\ [][Next]_vars

-----------------------------------------------------------------------------
(* Properties *)

\* The types of the driver's state, with the retry counters within their limits.
TypeOK ==
  /\ port.bOtgState \in OtgStates
  /\ {port.bWantSession, port.bWantSuspend, port.bWantReset, port.bIsHost,
      port.bIsSuspend, port.bIsReset, port.bRelinquish} \subseteq BOOLEAN
  /\ port.bConnectorId \in {"A", "unknown"}
  /\ port.pRootDevice \in Devices \cup {NoDevice}
  /\ port.bVbusErrorRetries \in 0 .. VbusRetries /\ port.bBabbleRetries \in 0 .. BabbleRetries
  /\ enum.bState \in EnumStates /\ enum.pDevice \in Devices \cup {NoDevice}
  /\ enum.bAddress \in Addresses \cup {0} /\ enum.bIndex \in 0 .. Configs
  /\ enum.bRetries \in 0 .. MaxEnumRetries + 1 /\ enum.bFatalRetries \in 0 .. 1
  /\ enum.outcome \in {"none", "configured", "rejected", "refused", "ignored",
                       "no block", "no address", "end taken"}
  /\ ep0.pTxIrp \in Irps \cup {NoIrp} /\ ToSet(ep0.list) \subseteq Irps /\ ep0.failed \subseteq Irps
  /\ bulk \in BulkEnds /\ timer \in Timers
  /\ \A b \in Devices : device[b].bBusAddress \in Addresses \cup {0}
  /\ ToSet(connected) \subseteq Devices /\ abmAddress \subseteq Addresses
  /\ \A k \in DOMAIN queue :
       /\ queue[k].cause \in Causes \cup {"RESET", "IRP"}
       /\ queue[k].irp \in Irps \cup {NoIrp}

\* A device in ConnectedDeviceList is there once, its block is in use, and the class
\* driver has an instance for it, unless it found the bulk endpoint taken: what
\* MGC_HostDestroy hands to the driver.
ListedAreAlive ==
  /\ IsInjective(connected)
  /\ \A b \in ToSet(connected) :
       /\ device[b].used /\ device[b].pPrivateData
       /\ device[b].msd \/ enum.outcome = "end taken"

\* The enumerator has a transfer, a completion or a timer under way.
Enumerating ==
  \/ EnumIrp \in {ep0.pTxIrp} \cup ToSet(ep0.list)
  \/ \E k \in DOMAIN queue : queue[k].irp = EnumIrp
  \/ timer \in {"GetShortDescriptor", "SetDeviceAddress", "GetFullDescriptor", "GetConfig"}

\* The enumerator never works on a block that has been freed, or that a driver has.
EnumeratesItsOwn ==
  Enumerating =>
    /\ enum.pDevice # NoDevice /\ device[enum.pDevice].used
    /\ enum.pDevice \notin ToSet(connected)

\* No two devices answer to the same address, and those in use are not free.
AddressesAreOwned ==
  LET a(b) == device[b].bBusAddress
  IN  /\ \A b \in ToSet(connected) : a(b) \in abmAddress
      /\ \A b, c \in ToSet(connected) : a(b) = a(c) => b = c
      /\ Enumerating /\ enum.bAddress # 0 =>
           enum.bAddress \in abmAddress \ {a(b) : b \in ToSet(connected)}

\* While the class driver has an instance, the FIFOs of its pipes lie apart in the RAM,
\* whatever packets the devices before had and however their pipes were closed.
\* The allocator never has to move one: it would wait for a transfer of that endpoint
\* to end, which in the polled system nothing would bring about (mu_cntlr.c:1040).
FifosApart ==
  /\ (\E b \in ToSet(connected) : device[b].msd) => Apart(bulk)
  /\ Compact(bulk) = bulk

\* Unless a device leaves early, a block is freed once, a driver is told once of its
\* device although a disconnected root device is disconnected a second time, and no
\* instance is called back after it was freed.
MemoryIsSafe == wild = {}

\* Endpoint 0 holds a transfer only if the bus has it or has answered it: every
\* other control transfer waits for this one.
End0Lives == hw.wire = "idle" => ep0.pTxIrp = NoIrp /\ ep0.list = <<>>

\* Until a device leaves early, that is so.
UntilSurprised == hw.clean => End0Lives

\* MGC_DrcFlushAll promises to kill all pending IRPs when the host role ends.
FlushKillsAll ==
  [][ port.bOtgState = "A_HOST" /\ port'.bOtgState \in {"AB_IDLE", "A_WAIT_BCON"} =>
        ep0'.pTxIrp = NoIrp /\ ep0'.list = <<>> ]_vars

\* No control transfer while the bus is being reset.
ResetIsQuiet == port.bWantReset => ep0.pTxIrp = NoIrp

\* The port waits for a device on a bus without power, and the wait is not about to end.
Unpowered ==
  /\ port.bOtgState = "A_WAIT_BCON" /\ ~port.bWantSession
  /\ timer \notin {"WaitSessReq", "HostRetryEnum"}

\* The session of a port that waits for a device ends only together with the wait, whatever
\* timers, faults and requests come in between (mu_drc.c:790-835, 1049-1054).  A port comes
\* to wait without one only in the step that arms the timeout of the wait, on a board whose
\* timers call back inside the arming, as the shipped one's do (board.c:572-573).
WaitsWithSession ==
  /\ Unpowered => hw.blocks
  /\ [][Unpowered' => Unpowered \/ (hw.blocks /\ port.bOtgState # "A_WAIT_BCON")]_vars

\* The timeout of the wait promises "exit back to IDLE" if neither role came of it
\* (mu_drc.c:812-814): no step leaves the port waiting on a bus without power.
WaitEndsIdle == [][Unpowered' => Unpowered]_vars

\* Nothing is left for the driver or the bus to do.
Quiet == queue = <<>> /\ hw.intr = {} /\ timer = "none" /\ hw.wire = "idle"

\* The host does not come to rest, on a bus that is not suspended, before it has
\* configured, rejected or refused the device there, or found no block or address for it; but a device that
\* connects in A_SUSPEND is ignored.
PlugIsResolved == Quiet /\ hw.joined /\ ~hw.suspendm /\ hw.clean => enum.outcome # "none"

\* What the list is made to say: mass storage over BOT, with one of two command sets.
MsdCriteria(bSubClass) ==
  LET c(op, arg) == [op |-> op, arg |-> arg]
  IN  <<c(Target.CLASS, 0), c(Target.INTERFACE, 0), c(Target.CLASS, MassStorage),
        c(Target.SUBCLASS, bSubClass), c(Target.PROTOCOL, Bot)>>
MsdEntries == [k \in 1 .. 2 |-> [pad |-> 0, criteria |-> MsdCriteria(<<Scsi, Sff8070i>>[k]), verdict |-> 0]]
Meant(kind) ==
  LET desc == Descriptors(kind)
  IN  \E config \in ToSet(desc.configs) : Meaning(MsdEntries, desc, config).driver = 0

\* The class driver gets every device that the list of the test program is made to say, also
\* by its second entry, and no other (tst_msd.c:1119-1132, mu_hst.c:916-981).
DriverIsMeant ==
  [][ /\ \A b \in ToSet(connected') \ ToSet(connected) : Meant(device'[b].kind)
      /\ enum.outcome # "refused" /\ enum'.outcome = "refused" =>
           ~Meant(device'[enum'.pDevice].kind) ]_vars
=============================================================================
