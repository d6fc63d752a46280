------------------------------ MODULE Function ------------------------------
(***************************************************************************)
(* The driver as a peripheral, with the disk of examples/msd/mu_msdfn.c,   *)
(* and a USB host.  The board polls: MGC_DrcIsr serves all interrupts that *)
(* are there, and the background queue is empty before it runs again.  The *)
(* controller's bus side and the host are external.                        *)
(***************************************************************************)
EXTENDS Chapter9

CONSTANTS
  Hosts,            \* the kinds of hosts
  Requests,         \* what explorers ask
  Commands,         \* the command blocks a disk's host sends
  Address,          \* the one that hosts assign
  Patient,          \* do hosts keep from what the driver is known to lose its way by?
  MaxRequests,      \* bound: control transfers of an explorer
  MaxCommands,      \* bound: commands
  MaxAbandons,      \* bound: control transfers, and commands, that are given up
  MaxBusResets      \* bound: bus resets after the first one

AllHosts == {"early",   \* explores; may end data stages and transfers early
             "sender",  \* explores; its transfers may have OUT data, and end as they should
             "hasty",   \* explores; a SETUP may follow a STALL at once
             "disk"}    \* enumerates, and sends commands

ASSUME FunctionAssumption ==
  /\ Hosts \subseteq AllHosts /\ Patient \in BOOLEAN /\ Address \in Nat \ {0}
  /\ {MaxRequests, MaxCommands, MaxAbandons, MaxBusResets} \subseteq Nat

\* What explorers ask are requests of chapter 9, or of the client: an address is the one that
\* hosts assign, what is set has no data, and data to receive fit into the buffer behind the
\* SETUP packet, 256 bytes.
ASSUME RequestsAssumption ==
  \A r \in Requests :
    /\ r.op \notin {"none", "data"} /\ r.wLength \in Nat
    /\ r.op \in {"SET_ADDRESS", "SET_CONFIGURATION"} => r.wLength = 0
    /\ r.op = "SET_ADDRESS" => r.wValue = Address
    /\ DirIn(r) \/ SetupSize + r.wLength <= 256

VARIABLES
  port,     \* MGC_Port
  ep0,      \* endpoint 0 of the controller
  end,      \* LocalEnds[1]: its two sides
  csr,      \* endpoint 1 of the controller
  bIsHalted,
  dwTxSize,
  irp,      \* the four IRPs of the client
  msd,      \* its statics
  cbw,      \* MGC_Cbw
  queue,    \* the items of the BSR
  intr,     \* the interrupts that are pending
  spin,     \* the IRP that MGC_MhdrcStartRx polls for
  host      \* the USB host

driver == <<port, ep0, end, csr, bIsHalted, dwTxSize, irp, msd, cbw, queue, intr, spin>>
vars == <<driver, host>>

Driver == [port |-> port, ep0 |-> ep0, end |-> end, csr |-> csr, bIsHalted |-> bIsHalted,
           dwTxSize |-> dwTxSize, irp |-> irp, msd |-> msd, cbw |-> cbw, queue |-> queue,
           intr |-> intr, spin |-> spin]
Becomes(d) ==
  /\ port' = d.port /\ ep0' = d.ep0 /\ end' = d.end /\ csr' = d.csr
  /\ bIsHalted' = d.bIsHalted /\ dwTxSize' = d.dwTxSize /\ irp' = d.irp /\ msd' = d.msd
  /\ cbw' = d.cbw /\ queue' = d.queue /\ intr' = d.intr /\ spin' = d.spin

-----------------------------------------------------------------------------
(* The driver *)

Ready == queue = <<>> /\ spin = NoIrp
Quiet == Ready /\ intr = {}

\* MUSB_RegisterOtgClient of the disk.  The session begins, and the host resets the bus.
Register ==
  /\ ~port.pFunctionClient
  /\ LET d == RegisterClient(Driver)
     IN  Becomes([d EXCEPT !.intr = IF d.port.pFunctionClient THEN {"reset"} ELSE {}])
  /\ UNCHANGED host

\* MGC_DrcIsr
Served(d, causes) ==
  LET a == IF "reset" \in causes THEN BusReset(d) ELSE d
      b == IF "ep0" \in causes THEN ServiceDefaultEnd(a) ELSE a
      c == IF "tx" \in causes THEN ServiceTransmitAvail(b) ELSE b
  IN  IF "rx" \in causes THEN ServiceReceiveReady(c) ELSE c

Poll ==
  /\ Ready /\ intr # {}
  /\ Becomes(Served([Driver EXCEPT !.intr = {}], intr))
  /\ UNCHANGED host

\* MGC_DrcBsr: the callback, and the next IRP if the side has none.
Completed(d) ==
  LET i == Head(d.queue)
      s == Dir[i]
      c == IrpComplete([d EXCEPT !.queue = Tail(@)], i)
  IN  IF c.end[s].irp = NoIrp THEN StartNextIrp(c, s) ELSE c

Bsr ==
  /\ queue # <<>> /\ spin = NoIrp
  /\ Becomes(Completed(Driver)) /\ UNCHANGED host

\* MGC_MhdrcStartRx polls, and a packet has come.
Spin ==
  /\ spin # NoIrp /\ csr["rx"].pkt # NoPacket
  /\ LET r == PacketReceived(Driver, spin)
     IN  Becomes([r EXCEPT !.spin = IF IsLast(Driver, spin) THEN NoIrp ELSE spin])
  /\ UNCHANGED host

-----------------------------------------------------------------------------
(* The host.  wrong is history: what it got that it should not have got. *)

Get(what, n, lang, wLength) == Request("GET_DESCRIPTOR", "device", what, n, lang, wLength)
Simple(op, n) == Request(op, "device", "none", n, "none", 0)
GetMaxLun == Request("GET_MAXLUN", "interface", "none", 0, "none", 1)
BotResetRequest == Request("BOT_RESET", "interface", "none", 0, "none", 0)
ClearHaltRequest(s) == Request("CLEAR_FEATURE", "endpoint", "HALT", 0, s, 0)
Enumeration ==
  << Get("DEVICE", 0, "none", 64), Simple("SET_ADDRESS", Address), Get("CONFIG", 0, "none", 255),
     Simple("SET_CONFIGURATION", 1), GetMaxLun >>
Recovery == <<BotResetRequest, ClearHaltRequest("tx"), ClearHaltRequest("rx")>>

NewHost(kind) ==
  [kind |-> kind, addr |-> 0, config |-> 0, tog |-> [s \in Sides |-> 0],
   stage |-> "idle", req |-> NoRequest, got |-> 0,
   script |-> IF kind = "disk" THEN Enumeration ELSE <<>>,
   bot |-> "none", cmd |-> NoCommand, tag |-> 0, taken |-> 0, cleared |-> FALSE,
   ready |-> {TRUE}, wrong |-> {},
   requests |-> IF kind = "disk" THEN 0 ELSE MaxRequests,
   commands |-> IF kind = "disk" THEN MaxCommands ELSE 0,
   abandons |-> MaxAbandons, resets |-> MaxBusResets]

Wrong(h, bad, what) == IF bad THEN [h EXCEPT !.wrong = @ \cup {what}] ELSE h
Is(h, stage) == h.stage = stage

\* What the controller does when the bus is reset; which a patient host does not do while
\* MGC_MhdrcStartRx polls.
ResetBus ==
  /\ host.resets > 0 /\ port.pFunctionClient
  /\ Patient => spin = NoIrp
  /\ ep0' = NewEp0 /\ csr' = [s \in Sides |-> NewCsr] /\ intr' = intr \cup {"reset"}
  /\ host' = [NewHost(host.kind) EXCEPT
                !.requests = host.requests, !.commands = host.commands, !.tag = host.tag,
                !.abandons = host.abandons, !.resets = host.resets - 1, !.wrong = host.wrong]
  /\ UNCHANGED <<port, end, bIsHalted, dwTxSize, irp, msd, cbw, queue, spin>>

\* A SETUP packet is always taken by the device that has the address.
Setup(r) ==
  /\ Is(host, "idle") /\ ep0.faddr = host.addr /\ "reset" \notin intr
  /\ port.pFunctionClient
  /\ host.kind = "hasty" \/ ~ep0.sentstall
  /\ ep0' = [ep0 EXCEPT !.rx = r, !.tx = NoReply, !.dataend = FALSE, !.sendstall = FALSE,
                        !.setupend = @ \/ (ep0.busy /\ ~ep0.dataend), !.busy = TRUE]
  /\ intr' = intr \cup {"ep0"}
  /\ UNCHANGED <<port, end, csr, bIsHalted, dwTxSize, irp, msd, cbw, queue, spin>>

Sent(r) == [host EXCEPT !.req = r, !.got = 0, !.stage = IF r.wLength = 0 THEN "status" ELSE "data"]

\* Requests to the interface are for a device that is configured.
Explore ==
  /\ host.requests > 0
  /\ \E r \in Requests :
       /\ r.recip = "interface" => host.config # 0
       /\ r.wLength > 0 /\ ~DirIn(r) => host.kind = "sender"
       /\ Setup(r) /\ host' = [Sent(r) EXCEPT !.requests = @ - 1]
NextOfScript ==
  /\ host.script # <<>>
  /\ Setup(Head(host.script)) /\ host' = [Sent(Head(host.script)) EXCEPT !.script = Tail(@)]

\* The rest of a control transfer changes nothing but this.
Bus0(f, causes, h) ==
  /\ ep0' = f /\ intr' = intr \cup causes /\ host' = h
  /\ UNCHANGED <<port, end, csr, bIsHalted, dwTxSize, irp, msd, cbw, queue, spin>>

\* What a request is answered with, and its length.
Reply9(r) ==
  CASE r.op = "GET_STATUS" -> [what |-> {"status"}, len |-> 2]
    [] r.op = "GET_CONFIGURATION" -> [what |-> {"configuration"}, len |-> 1]
    [] r.op \in {"GET_INTERFACE", "GET_MAXLUN"} -> [what |-> {"byte"}, len |-> 1]
    [] r.what = "DEVICE" -> [what |-> {"device"}, len |-> 18]
    [] r.what = "CONFIG" -> [what |-> {"config"}, len |-> 35 + nVendorBytes]
    [] r.what = "DEVICE_QUALIFIER" -> [what |-> {"qualifier"}, len |-> 10]
    [] r.what = "OTHER_SPEED" -> [what |-> {"high config"}, len |-> 35]
    [] r.what = "STRING" /\ r.wValue = 0 -> [what |-> {"languages"}, len |-> 6]
    [] r.what = "STRING" /\ r.wValue = 2 /\ r.wIndex = "us" -> [what |-> {"us product"}, len |-> 10]
    [] r.what = "STRING" /\ r.wValue = 2 /\ r.wIndex = "au" -> [what |-> {"au product"}, len |-> 22]
    [] OTHER -> [what |-> {}, len |-> 0]

\* A packet of the data stage.  A short one, or the last byte, ends it.
TakeReply ==
  LET p == ep0.tx
      total == host.got + p.len
      over == p.len < SmallFifo \/ total >= host.req.wLength
      good == /\ p.data.what \in Reply9(host.req).what /\ p.at = host.got
              /\ over => total = Least(host.req.wLength, Reply9(host.req).len)
              /\ host.req.op = "GET_CONFIGURATION" /\ host.config # 0 => p.data.n = host.config
  IN  /\ Is(host, "data") /\ DirIn(host.req) /\ p # NoReply /\ ~ep0.sendstall
      /\ Bus0([ep0 EXCEPT !.tx = NoReply], IF ep0.dataend THEN {} ELSE {"ep0"},
              Wrong([host EXCEPT !.got = total, !.stage = IF over THEN "status" ELSE @],
                    ~good, "reply"))

SendData0 ==
  LET n == Least(SmallFifo, host.req.wLength - host.got)
      over == host.got + n = host.req.wLength
  IN  /\ Is(host, "data") /\ ~DirIn(host.req) /\ ep0.rx = NoRequest /\ ~ep0.sendstall
      /\ Bus0([ep0 EXCEPT !.rx = DataPacket(n)], {"ep0"},
              [host EXCEPT !.got = @ + n, !.stage = IF over THEN "status" ELSE @])

\* What the host has learnt when the status stage is over.
Learnt(h) ==
  LET r == h.req
  IN  CASE r.op = "SET_ADDRESS" -> [h EXCEPT !.addr = r.wValue]
        [] r.op = "SET_CONFIGURATION" ->
             [h EXCEPT !.config = r.wValue, !.tog = [s \in Sides |-> 0], !.ready = {TRUE},
                       !.bot = IF h.kind = "disk" THEN "ready" ELSE @]
        [] r.op = "CLEAR_FEATURE" /\ r.recip = "endpoint" -> [h EXCEPT !.tog[r.wIndex] = 0]
        [] OTHER -> h
Done(h) == [h EXCEPT !.stage = "idle", !.req = NoRequest, !.got = 0]

StatusStage ==
  /\ Is(host, "status") /\ ep0.dataend /\ ~ep0.sendstall
  /\ Bus0([ep0 EXCEPT !.dataend = FALSE, !.busy = FALSE], {"ep0"}, Done(Learnt(host)))

\* The data stage is ended by the status stage before the device has sent all.
EndEarly ==
  /\ host.kind = "early" /\ Is(host, "data") /\ DirIn(host.req)
  /\ host.got > 0 /\ ~ep0.dataend /\ ~ep0.sendstall
  /\ Bus0([ep0 EXCEPT !.tx = NoReply, !.setupend = TRUE, !.busy = FALSE], {"ep0"}, Done(host))

TakeStall0 ==
  /\ host.stage # "idle" /\ ep0.sendstall
  /\ Bus0([ep0 EXCEPT !.sendstall = FALSE, !.sentstall = TRUE, !.busy = FALSE], {"ep0"},
          Wrong(Done(host), host.kind = "disk", "refused"))

\* A transfer that is given up.  A host that has lost SET_ADDRESS or SET_CONFIGURATION
\* resets the bus.
Abandon ==
  /\ host.kind = "early" /\ host.stage # "idle" /\ host.abandons > 0
  /\ host.req.op \notin {"SET_ADDRESS", "SET_CONFIGURATION"}
  /\ host' = [Done(host) EXCEPT !.abandons = @ - 1]
  /\ UNCHANGED driver

-----------------------------------------------------------------------------
(* The host of a disk: the Bulk-Only Transport *)

Bulk(s, c, h) ==
  /\ csr' = [csr EXCEPT ![s] = c] /\ intr' = intr \cup {s} /\ host' = h
  /\ UNCHANGED <<port, ep0, end, bIsHalted, dwTxSize, irp, msd, cbw, queue, spin>>
AtBot(phases) == host.bot \in phases /\ Is(host, "idle") /\ host.script = <<>>

\* A packet of the host is kept if its toggle is the one that is expected.
Put(p, h) ==
  /\ csr["rx"].pkt = NoPacket /\ ~csr["rx"].sendstall
  /\ LET c == csr["rx"]
         g == [h EXCEPT !.tog["rx"] = 1 - @]
     IN  IF c.tog = host.tog["rx"]
         THEN Bulk("rx", [c EXCEPT !.pkt = p, !.tog = 1 - @], g)
         ELSE /\ host' = g /\ UNCHANGED driver

SendCbw ==
  /\ AtBot({"ready"}) /\ host.commands > 0
  /\ \E c \in Commands :
       LET next == CASE c.xfer = 0 -> "csw" [] c.xfer > 0 /\ c.dirIn -> "in" [] OTHER -> "out"
       IN  Put([NoPacket EXCEPT !.kind = "cbw", !.tag = host.tag + 1, !.len = CbwSize, !.cmd = c],
               [host EXCEPT !.bot = next, !.cmd = c, !.tag = @ + 1, !.taken = 0,
                            !.cleared = FALSE, !.commands = @ - 1])

\* A patient host has the driver refuse a command before it sends the data.
SendDataOut ==
  LET n == Least(wPacketSize, host.cmd.xfer - host.taken)
      over == host.taken + n = host.cmd.xfer
  IN  /\ AtBot({"out"})
      /\ Patient /\ host.cmd.page = "beyond" => Quiet
      /\ Put([NoPacket EXCEPT !.kind = "data", !.tag = host.tag, !.at = host.taken, !.len = n],
             [host EXCEPT !.taken = @ + n, !.bot = IF over THEN "csw" ELSE @])

\* A packet of the device; a wrong toggle makes it a repetition, which is dropped.
Take(h) ==
  LET c == csr["tx"]
      i == end["tx"].irp
      fresh == c.tog = host.tog["tx"]
  IN  /\ c.pkt # NoPacket /\ ~c.sendstall
      /\ csr' = [csr EXCEPT !["tx"].pkt = NoPacket, !["tx"].tog = 1 - @]
      /\ intr' = intr \cup {"tx"}
      /\ irp' = IF i = NoIrp THEN irp ELSE [irp EXCEPT ![i].sent = @ + c.pkt.len]
      /\ host' = IF fresh THEN [h EXCEPT !.tog["tx"] = 1 - @] ELSE host
      /\ UNCHANGED <<port, ep0, end, bIsHalted, dwTxSize, msd, cbw, queue, spin>>

TakeDataIn ==
  LET p == csr["tx"].pkt
      total == host.taken + p.len
      good == p.kind = "data" /\ p.tag = host.tag /\ p.at = host.taken
      over == p.len < wPacketSize \/ total >= host.cmd.xfer
  IN  /\ AtBot({"in"})
      /\ Take(Wrong([host EXCEPT !.taken = total, !.bot = IF over THEN "csw" ELSE @],
                    ~good, "data"))

\* What a command that is understood should send, and whether it should fail if the medium
\* is ready, or is not.
Sized(c) ==
  CASE c.op = "INQUIRY" -> Least(c.alloc, InquiryData[c.page])
    [] c.op = "REQUEST_SENSE" -> Least(c.alloc, SenseSize)
    [] c.op = "MODE_SENSE" -> Least(c.alloc, 4)
    [] c.op = "READ_CAPACITY" -> 8
    [] c.op = "RD_FMT_CAPC" -> 12
    [] OTHER -> c.xfer
Fails(c, ready) ==
  \/ c.op = "UNKNOWN" \/ c.page \in {"unknown", "beyond"}
  \/ c.op = "TEST_UNIT_READY" /\ ~ready
\* The commands whose residue is told as it is.  Of the others, the CSW of START_STOP_UNIT,
\* WRITE_BUFFER, VERIFY without data and an unknown opcode has the residue of an earlier
\* command, and an INQUIRY of an unknown page counts with the length of an earlier reply;
\* dwRxCount is not reset for MODE_SELECT; READ_FORMAT_CAPACITIES takes its length from the
\* wrong byte; a WRITE beyond the end tells nothing of the data that it has not taken.
Tells(c) ==
  /\ c.op \notin {"START_STOP_UNIT", "WRITE_BUFFER", "MODE_SELECT", "UNKNOWN", "RD_FMT_CAPC"}
  /\ c.op = "VERIFY" => c.page = "bytes"
  /\ c.op = "INQUIRY" => c.page # "unknown"
  /\ c.page # "beyond"

CswIsRight(c) ==
  /\ \E ready \in host.ready : msd.bCswStatus = 1 <=> Fails(c, ready)
  /\ msd.bCswStatus = 0 => host.taken = Sized(c)
  /\ Tells(c) => msd.dCswDataResidue = c.xfer - host.taken

TakeCsw ==
  LET p == csr["tx"].pkt
      mine == p.kind = "csw" /\ p.tag = host.tag
      c == host.cmd
      h == [host EXCEPT !.bot = "ready", !.cmd = NoCommand, !.taken = 0, !.cleared = FALSE,
                        !.ready = CASE c.op = "START_STOP_UNIT" -> {c.page = "start"}
                                    [] c.op = "TEST_UNIT_READY" -> {msd.bCswStatus = 0}
                                    [] OTHER -> @]
  IN  /\ AtBot({"csw"})
      /\ Take(IF mine THEN Wrong(h, ~CswIsRight(c), "status")
              ELSE [h EXCEPT !.script = Recovery, !.wrong = @ \cup {"csw"}])

\* A command that is given up may have been executed.
Failed(h) ==
  [h EXCEPT !.bot = "ready", !.cmd = NoCommand, !.taken = 0, !.cleared = FALSE,
            !.script = Recovery,
            !.ready = IF h.cmd.op = "START_STOP_UNIT" THEN @ \cup {h.cmd.page = "start"} ELSE @]

\* A STALL of the data stage is cleared, and the CSW read; so is the first STALL of the CSW.
\* Another one, and one of the CBW, leads to a reset of the transport.
TakeStall(s) ==
  LET phases == IF s = "tx" THEN {"in", "csw"} ELSE {"ready", "out"}
      clears == host.bot \in {"in", "out"} \/ (host.bot = "csw" /\ ~host.cleared)
      h == [host EXCEPT !.bot = "csw", !.script = <<ClearHaltRequest(s)>>,
                        !.cleared = (host.bot = "csw")]
  IN  /\ AtBot(phases) /\ csr[s].sendstall
      /\ host.bot = "ready" => host.commands > 0
      /\ Patient /\ ~clears => Quiet
      /\ Bulk(s, [csr[s] EXCEPT !.sentstall = TRUE], IF clears THEN h ELSE Failed(host))

\* The host gives a command up and resets the transport: when the driver has taken the CBW,
\* and a patient one when it has dealt with all that was moved, and not between two packets.
Recover ==
  /\ AtBot({"in", "out", "csw"}) /\ host.abandons > 0
  /\ Ready /\ "rx" \notin intr
  /\ Patient => Quiet /\ (host.taken = 0 \/ host.bot = "csw")
  /\ host' = [Failed(host) EXCEPT !.abandons = @ - 1]
  /\ UNCHANGED driver

\* Whether the host waits in vain.
Stuck ==
  /\ Quiet
  /\ \/ Is(host, "data") /\ DirIn(host.req) /\ ep0.tx = NoReply /\ ~ep0.sendstall
     \/ Is(host, "data") /\ ~DirIn(host.req) /\ ep0.rx # NoRequest /\ ~ep0.sendstall
     \/ Is(host, "status") /\ ~ep0.dataend /\ ~ep0.sendstall
     \/ Is(host, "idle") /\ (host.script # <<>> \/ host.requests > 0)
        /\ (ep0.faddr # host.addr \/ (host.kind # "hasty" /\ ep0.sentstall))
     \/ AtBot({"in", "csw"}) /\ csr["tx"].pkt = NoPacket /\ ~csr["tx"].sendstall
     \/ AtBot({"out"}) /\ csr["rx"].pkt # NoPacket /\ ~csr["rx"].sendstall
     \/ AtBot({"ready"}) /\ host.commands > 0
        /\ csr["rx"].pkt # NoPacket /\ ~csr["rx"].sendstall

\* The host's timeout.
GiveUp ==
  /\ Stuck
  /\ host' = IF Is(host, "idle") /\ host.bot \in {"in", "out", "csw"} THEN Failed(host)
             ELSE [Done(host) EXCEPT !.requests = 0, !.commands = 0, !.script = <<>>, !.bot = "none"]
  /\ UNCHANGED driver

-----------------------------------------------------------------------------
Init ==
  /\ host \in {NewHost(kind) : kind \in Hosts}
  /\ port = NewPort /\ ep0 = NewEp0
  /\ end = [s \in Sides |-> NewSide] /\ csr = [s \in Sides |-> NewCsr]
  /\ bIsHalted = FALSE /\ dwTxSize = 0 /\ irp = NewIrps /\ msd = NewMsd /\ cbw = NoPacket
  /\ queue = <<>> /\ intr = {} /\ spin = NoIrp

HostStep ==
  \/ Explore \/ NextOfScript \/ TakeReply \/ SendData0 \/ StatusStage \/ TakeStall0
  \/ SendCbw \/ SendDataOut \/ TakeDataIn \/ TakeCsw \/ TakeStall("tx") \/ TakeStall("rx")
Next ==
  \/ Register \/ Poll \/ Bsr \/ Spin \/ HostStep
  \/ EndEarly \/ Abandon \/ Recover \/ GiveUp \/ ResetBus

\* The board polls, the background runs, and the host goes on with what it has begun.  The
\* first three are weak fairness with the guards written out.
Fairness ==
  /\ WF_vars(Register)
  /\ []<>~(Ready /\ intr # {}) \/ []<><<Poll>>_vars
  /\ []<>~(spin = NoIrp /\ queue # <<>>) \/ []<><<Bsr>>_vars
  /\ []<>~(spin # NoIrp /\ csr["rx"].pkt # NoPacket) \/ []<><<Spin>>_vars
  /\ WF_vars(HostStep)
Spec == Init /\ [][Next]_vars /\ Fairness

-----------------------------------------------------------------------------
(* Properties *)

\* Everything has its type; the history of the IRPs is bounded by what they ask for.
TypeOK ==
  /\ port.bUsbState \in {"POWER_OFF", "DEFAULT", "ADDRESS", "CONFIGURED"}
  /\ {port.bFuncAddr, ep0.faddr, host.addr} \subseteq {0, Address}
  /\ {port.bConfigValue, port.pCurrentConfig, host.config} \subseteq ConfigValues \cup {0}
  /\ port.wSetupDataIndex \in 0 .. 256 /\ port.wSetupDataSize \in 0 .. 256
  /\ \A s \in Sides : end[s].irp \in {NoIrp} \cup {i \in Irps : Dir[i] = s}
  /\ queue \in Seq(Irps) /\ Len(queue) <= 2
  /\ intr \subseteq {"reset", "ep0", "tx", "rx"} /\ spin \in RxIrps \cup {NoIrp}
  /\ bIsHalted \in BOOLEAN /\ dwTxSize \in 0 .. wPacketSize
  /\ host.kind \in Hosts /\ host.stage \in {"idle", "data", "status"}

\* The reply to a control request is the one of that request, whole, in place, and a
\* request that every device must grant is never refused; whatever transfers came before
\* were ended early or given up, and at whatever stage.
AnswersItsRequest == host.wrong \cap {"reply", "refused"} = {}

\* Once all is served, the driver and the host agree on the address and on whether the
\* device is configured.
BusAgreed ==
  Quiet /\ Is(host, "idle") =>
    /\ ep0.faddr = host.addr
    /\ host.config # 0 <=> port.bUsbState = "CONFIGURED"
    /\ host.config # 0 => port.bConfigValue = host.config

\* The data and the status a host gets are those of the command it has sent, in place and
\* whole, and the status is the one the command should have, whatever was given up, reset or
\* failed before.  The residue is what was not moved for the commands in Tells only: for the
\* others the driver tells a stale or a wrong one, against "transfer length minus amount
\* processed/sent" (mu_bot.h:116; mu_msdfn.c:824-838, 873-879, 894-905, 948-955, 1046-1051).
AnswersItsCommand == host.wrong \cap {"data", "csw", "status"} = {}

\* Once all is served a configured disk waits for exactly one thing, nothing is queued
\* behind it, and its two FIFOs lie apart, above that of endpoint 0.
AlwaysListening ==
  Quiet /\ port.bUsbState = "CONFIGURED" =>
    /\ (end["tx"].irp = NoIrp) # (end["rx"].irp = NoIrp)
    /\ \A s \in Sides : end[s].list = <<>> /\ end[s].claimed
    /\ SmallFifo <= end["tx"].base /\ end["tx"].base + end["tx"].wMax <= end["rx"].base

\* What the driver tells its client that was transferred has been transferred.
ActualLengthIsTrue == \A i \in TxIrps : irp[i].honest

\* Whatever a host asks for gets done or is refused, until it wants nothing more; but for
\* a hasty one, and one that wants to send the data of a command that is not understood.
Wants ==
  \/ host.stage # "idle" \/ host.script # <<>> \/ host.requests > 0
  \/ host.bot \in {"in", "out", "csw"} \/ (host.bot = "ready" /\ host.commands > 0)
Exempt == host.kind = "hasty" \/ (host.cmd.op = "UNKNOWN" /\ ~host.cmd.dirIn)
EveryoneIsServed == Wants ~> (~Wants \/ Exempt)
=============================================================================
