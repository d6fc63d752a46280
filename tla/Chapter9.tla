------------------------------ MODULE Chapter9 ------------------------------
(***************************************************************************)
(* Endpoint 0 of a function: the service of cd/mu_hdr.c and cd/mu_drc.c,   *)
(* the standard requests of cd/mu_fun.c, and the requests of the client of *)
(* examples/msd/mu_msdfn.c.  Operators from a driver state to the next     *)
(* one.  A request is a record; what is the feature or the type of the     *)
(* descriptor, wValue a number that wValue holds, wIndex the side of       *)
(* endpoint 1 or the language of a string.  The controller is at full      *)
(* speed, and all wIndex but those of endpoints and strings are zero.      *)
(***************************************************************************)
EXTENDS MsdFn, Descriptors

CONSTANTS
  TotalSize,            \* of the FIFO RAM
  nVendorBytes          \* of descriptors that follow those of the example, which has none

ASSUME Chapter9Assumption == TotalSize \in Nat /\ nVendorBytes \in Nat

Request(op, recip, what, wValue, wIndex, wLength) ==
  [op |-> op, recip |-> recip, what |-> what, wValue |-> wValue, wIndex |-> wIndex,
   wLength |-> wLength]
NoRequest == Request("none", "none", "none", 0, "none", 0)
DataPacket(n) == Request("data", "none", "none", 0, "none", n)
DirIn(r) == r.op \in {"GET_STATUS", "GET_DESCRIPTOR", "GET_CONFIGURATION", "GET_INTERFACE",
                      "GET_MAXLUN", "VENDOR"}

\* What pSetupData points at.
Content(what, n) == [what |-> what, n |-> n]
NoContent == Content("none", 0)
NoReply == [data |-> NoContent, at |-> 0, len |-> 0]
SetupSize == 8
SmallFifo == 64

\* Endpoint 0 of the controller: the FIFO in both directions, CSR0, and FADDR.  busy says
\* that a transfer has begun whose end has not been seen.
NewEp0 == [rx |-> NoRequest, tx |-> NoReply, setupend |-> FALSE, sentstall |-> FALSE,
           sendstall |-> FALSE, dataend |-> FALSE, busy |-> FALSE, faddr |-> 0]

\* MGC_Port
NewPort == [pFunctionClient |-> FALSE, apConfigDescriptors |-> FALSE,
            bUsbState |-> "POWER_OFF", bFuncAddr |-> 0, bSetAddress |-> FALSE,
            bConfigValue |-> 0, pCurrentConfig |-> 0, bCanWakeup |-> FALSE,
            bEnd0Status |-> FALSE, wSetupDataIndex |-> 0, wSetupDataSize |-> 0,
            pSetupData |-> NoContent, request |-> NoRequest]

ChangeState(d, s) == [d EXCEPT !.port.bUsbState = s]
Addressed(d) == d.port.bUsbState \in {"ADDRESS", "CONFIGURED"}
Allowed(d, r) == Addressed(d) \/ r.recip # "endpoint"

-----------------------------------------------------------------------------
(* MGC_HdrcDefaultEndResponse.  More than one packet is left to the interrupts. *)

\* n bytes of what pSetupData points at.
Load0(d, at, n) == [d EXCEPT !.ep0.tx = [data |-> d.port.pSetupData, at |-> at, len |-> n]]
Acked(d) == [d EXCEPT !.ep0.rx = NoRequest, !.ep0.setupend = FALSE]
NoSetupData(d) == [d EXCEPT !.port.wSetupDataIndex = 0, !.port.wSetupDataSize = 0]
End0(d) == [d EXCEPT !.ep0.dataend = TRUE, !.port.bEnd0Status = TRUE]

DefaultEndResponse(d, bStall) ==
  LET a == Acked(d)
      n == Least(SmallFifo, d.port.wSetupDataSize)
      t == [Load0(a, 0, n) EXCEPT !.port.wSetupDataIndex = n]
  IN  CASE bStall -> [a EXCEPT !.ep0.sendstall = TRUE]
        [] ~bStall /\ n = 0 -> End0(a)
        [] OTHER -> IF n = d.port.wSetupDataSize THEN NoSetupData(End0(t)) ELSE t

-----------------------------------------------------------------------------
(* Configurations *)

ConfigValues == {1}     \* of the configurations there are

\* MGC_FunctionBindConfig with bBind TRUE: the IN and the OUT endpoint of interface 0.
BindConfig(d) == Bound(Bound(Unbound(d), "tx", TotalSize), "rx", TotalSize)

\* MGC_FunctionVerifyResources, when a client is registered, of its configurations for both
\* speeds: each endpoint is checked alone.
VerifyResources(d) ==
  \A wSize \in {wPacketSize, wHighPacketSize} : Checks(Unbound(d), TotalSize, wSize)

\* MGC_FunctionRegisterClient
RegisterClient(d) ==
  [Unbound(d) EXCEPT !.port.pFunctionClient = VerifyResources(d), !.port.apConfigDescriptors = FALSE]

\* MGC_FunctionSpeedSet: the configurations are those of the speed.
SpeedSet(d) == [d EXCEPT !.port.apConfigDescriptors = d.port.pFunctionClient]

\* Mutation of ConfigSelected: the value is recorded before it is looked up.
ConfigSelectedAnyway(d, v) ==
  LET b == BindConfig([d EXCEPT !.port.bConfigValue = v, !.port.pCurrentConfig = v])
  IN  [ok |-> v \in ConfigValues,
       d |-> IF v \in ConfigValues THEN ChangeState(MsdDeviceConfigSelected(b), "CONFIGURED") ELSE b]

\* MGC_FunctionConfigSelected
ConfigSelected(d, v) ==
  LET b == BindConfig([d EXCEPT !.port.pCurrentConfig = v])
      ok == b.end["tx"].claimed /\ b.end["rx"].claimed
      none == [d EXCEPT !.port.pCurrentConfig = 0]
      found == d.port.apConfigDescriptors /\ v \in ConfigValues
  IN  CASE ~found -> [ok |-> FALSE, d |-> none]
        [] found /\ ~ok -> [ok |-> FALSE, d |-> b]
        [] OTHER -> [ok |-> TRUE,
                     d |-> ChangeState(MsdDeviceConfigSelected([b EXCEPT !.port.bConfigValue = v]),
                                       "CONFIGURED")]

-----------------------------------------------------------------------------
(* MGC_FunctionParseSetup: how a request ends.  The ones of the last kind go on to the   *)
(* client.                                                                               *)

Ok(d) == [how |-> "ok", d |-> d]
Stalled(d) == [how |-> "stalled", d |-> d]
NotOurs(d) == [how |-> "client", d |-> d]
Sends(d, what, n, len) ==
  [d EXCEPT !.port.pSetupData = Content(what, n), !.port.wSetupDataSize = len]
SendsNothing(d) == [d EXCEPT !.port.wSetupDataSize = 0]

\* There are two sides of endpoint 1, and no other endpoint.
IsEnd(r) == r.wIndex \in Sides
Flag(b) == IF b THEN 1 ELSE 0

\* Status of an interface is prepared, but left to the client.
GetStatus(d, r) ==
  CASE ~Allowed(d, r) -> NotOurs(d)
    [] Allowed(d, r) /\ r.recip = "device" -> Ok(Sends(d, "status", 1 + 2 * Flag(d.port.bCanWakeup), 2))
    [] Allowed(d, r) /\ r.recip = "endpoint" ->
         IF IsEnd(r) THEN Ok(Sends(d, "status", Flag(d.bIsHalted), 2)) ELSE Stalled(d)
    [] OTHER -> NotOurs(Sends(d, "status", 0, 2))

\* The IRP that the halt kept back is started; from its beginning.
ClearHalt(d, s) ==
  LET h == ProgramHalt([d EXCEPT !.bIsHalted = FALSE], s, FALSE)
      i == h.end["tx"].irp
  IN  IF i = NoIrp THEN h ELSE StartTx(h, i, 0, h.irp[i].dwLength)

ClearFeature(d, r) ==
  LET s == SendsNothing(d)
  IN  CASE ~Allowed(d, r) -> NotOurs(d)
        [] Allowed(d, r) /\ r.recip = "device" ->
             Ok(IF r.what = "REMOTE_WAKEUP" THEN [s EXCEPT !.port.bCanWakeup = FALSE] ELSE s)
        [] Allowed(d, r) /\ r.recip = "endpoint" ->
             IF IsEnd(r) THEN Ok(ClearHalt(s, r.wIndex)) ELSE Stalled(s)
        [] OTHER -> NotOurs(s)

SetFeature(d, r) ==
  LET s == SendsNothing(d)
  IN  CASE ~Allowed(d, r) -> NotOurs(d)
        [] Allowed(d, r) /\ r.recip = "device" ->
             IF r.what = "REMOTE_WAKEUP" THEN Ok([s EXCEPT !.port.bCanWakeup = TRUE])
             ELSE Stalled(s)
        [] Allowed(d, r) /\ r.recip = "endpoint" ->
             IF IsEnd(r) THEN Ok(ProgramHalt([s EXCEPT !.bIsHalted = TRUE], r.wIndex, TRUE))
             ELSE Stalled(s)
        [] OTHER -> Ok(s)

\* The address is used when the host has acknowledged.
SetAddress(d, r) ==
  LET s == SendsNothing(d)
      a == [s EXCEPT !.port.bSetAddress = TRUE, !.port.bFuncAddr = r.wValue]
  IN  IF ~Addressed(d) \/ d.port.bSetAddress THEN Ok(ChangeState(a, "ADDRESS")) ELSE Stalled(s)

GetDescriptorRequest(d, r) ==
  LET g == GetDescriptor(FALSE, r.what, r.wValue, r.wIndex, r.wLength)
      more == IF r.what = "CONFIG" THEN nVendorBytes ELSE 0
  IN  IF g.of = "none" THEN Stalled(d)
      ELSE Ok(Sends(d, g.of, 0, Least(g.len + more, r.wLength)))

GetConfiguration(d) == Ok(Sends(d, "configuration", d.port.bConfigValue, 1))

SetConfiguration(d, r) ==
  LET s == SendsNothing(d)
      c == ConfigSelected(s, r.wValue)
  IN  CASE ~Addressed(d) -> Stalled(s)
        [] Addressed(d) /\ r.wValue = 0 ->
             Ok(ChangeState([s EXCEPT !.port.bConfigValue = 0], "ADDRESS"))
        [] OTHER -> [how |-> IF c.ok THEN "ok" ELSE "stalled", d |-> c.d]

\* An interface's setting is the client's to tell.
GetInterface(d) ==
  LET s == SendsNothing(d)
  IN  IF d.port.bUsbState = "CONFIGURED" THEN NotOurs(s) ELSE Stalled(s)

ParseSetup(d, r) ==
  CASE r.op = "GET_STATUS" -> GetStatus(d, r)
    [] r.op = "CLEAR_FEATURE" -> ClearFeature(d, r)
    [] r.op = "SET_FEATURE" -> SetFeature(d, r)
    [] r.op = "SET_ADDRESS" -> SetAddress(d, r)
    [] r.op = "GET_DESCRIPTOR" -> GetDescriptorRequest(d, r)
    [] r.op = "GET_CONFIGURATION" -> GetConfiguration(d)
    [] r.op = "SET_CONFIGURATION" -> SetConfiguration(d, r)
    [] r.op = "GET_INTERFACE" -> GetInterface(d)
    [] OTHER -> NotOurs(d)

\* MGC_MsdDeviceRequest, with MUSB_DeviceResponse.
MsdDeviceRequest(d, r) ==
  CASE r.op \in {"GET_INTERFACE", "GET_MAXLUN"} ->
         DefaultEndResponse(Sends(d, "byte", 0, 1), FALSE)
    [] r.op = "BOT_RESET" -> DefaultEndResponse(SendsNothing(BotReset(d)), FALSE)
    [] OTHER -> DefaultEndResponse(d, TRUE)

-----------------------------------------------------------------------------
(* MGC_HdrcServiceDefaultEnd and MGC_DrcServiceDefaultEnd as a peripheral *)

\* The request is whole: what was received of it counts as the size of an answer until
\* somebody sets that.
Received(d) ==
  LET r == d.port.request
      s == [d EXCEPT !.port.wSetupDataSize = d.port.wSetupDataIndex, !.port.wSetupDataIndex = 0]
      p == ParseSetup([s EXCEPT !.port.pSetupData = Content("request", 0)], r)
  IN  CASE p.how = "ok" -> DefaultEndResponse(p.d, FALSE)
        [] p.how = "stalled" -> DefaultEndResponse(NoSetupData(p.d), TRUE)
        [] p.how = "client" -> MsdDeviceRequest(p.d, r)

\* RXPKTRDY: a SETUP packet at index 0 is the beginning of a request.
Receive0(d) ==
  LET rx == d.ep0.rx
      n == d.port.wSetupDataIndex + IF rx.op = "data" THEN rx.wLength ELSE SetupSize
      r == IF d.port.wSetupDataIndex = 0 THEN rx ELSE d.port.request
      s == [d EXCEPT !.port.bEnd0Status = FALSE, !.port.wSetupDataIndex = n, !.port.request = r]
  IN  IF DirIn(r) \/ n - SetupSize >= r.wLength THEN Received(s)
      ELSE [s EXCEPT !.ep0.rx = NoRequest]

\* Mutation of Transmit0: the last packet is taken for one that others follow.
Transmit0More(d) ==
  LET at == d.port.wSetupDataIndex
      n == Least(SmallFifo, d.port.wSetupDataSize - at)
      t == [Load0(d, at, n) EXCEPT !.port.wSetupDataIndex = at + n]
  IN  CASE n = 0 -> NoSetupData(d)
        [] OTHER -> IF at + n > d.port.wSetupDataSize
                    THEN NoSetupData([t EXCEPT !.ep0.dataend = TRUE]) ELSE t

Transmit0(d) ==
  LET at == d.port.wSetupDataIndex
      n == Least(SmallFifo, d.port.wSetupDataSize - at)
      t == [Load0(d, at, n) EXCEPT !.port.wSetupDataIndex = at + n]
  IN  CASE n = 0 -> NoSetupData(d)
        [] OTHER -> IF at + n >= d.port.wSetupDataSize
                    THEN NoSetupData([t EXCEPT !.ep0.dataend = TRUE]) ELSE t

DrcServiceDefaultEnd(d) ==
  CASE d.ep0.rx # NoRequest -> Receive0(d)
    [] d.ep0.rx = NoRequest /\ d.ep0.tx = NoReply -> Transmit0(d)
    [] OTHER -> d

\* The interrupt of the status stage.
StatusAck(d) ==
  [d EXCEPT !.port.bEnd0Status = FALSE, !.port.bSetAddress = FALSE,
            !.ep0.faddr = IF d.port.bSetAddress THEN d.port.bFuncAddr ELSE @]

\* Mutation of ServiceDefaultEnd: SETUPEND is not seen.
ServiceDefaultEndOn(d) ==
  CASE d.ep0.sentstall -> [d EXCEPT !.ep0.sentstall = FALSE]
    [] ~d.ep0.sentstall /\ d.ep0.rx = NoRequest /\ d.port.bEnd0Status -> StatusAck(d)
    [] OTHER -> DrcServiceDefaultEnd(d)

ServiceDefaultEnd(d) ==
  CASE d.ep0.sentstall -> [d EXCEPT !.ep0.sentstall = FALSE]
    [] ~d.ep0.sentstall /\ d.ep0.setupend -> DrcServiceDefaultEnd(NoSetupData(d))
    [] ~d.ep0.sentstall /\ ~d.ep0.setupend /\ d.ep0.rx = NoRequest /\ d.port.bEnd0Status ->
         StatusAck(d)
    [] OTHER -> DrcServiceDefaultEnd(d)

\* Mutation of BusReset: the address that was to be set is kept.
BusResetKeep(d) == SpeedSet(ChangeState(FlushAll(NoSetupData(d)), "DEFAULT"))

\* A bus reset, as a peripheral; the configuration's value and the wakeup flag stay.
BusReset(d) ==
  SpeedSet(ChangeState(FlushAll(NoSetupData([d EXCEPT !.port.bFuncAddr = 0])), "DEFAULT"))
=============================================================================
