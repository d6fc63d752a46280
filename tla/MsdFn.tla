-------------------------------- MODULE MsdFn --------------------------------
(***************************************************************************)
(* The function client of examples/msd/mu_msdfn.c: a Bulk-Only disk.  Its  *)
(* callbacks are operators from a driver state to the next one.  A command *)
(* block is a record: its opcode, what it selects (page), the direction of *)
(* the transfer, dCbwDataTransferLength and the length field of the CDB.   *)
(***************************************************************************)
EXTENDS FunctionPipes

CbwSize == 31
CswSize == 13
SenseSize == 13
JunkSize == 512

Cbw(op, page, dirIn, xfer, alloc) ==
  [op |-> op, page |-> page, dirIn |-> dirIn, xfer |-> xfer, alloc |-> alloc]

\* What INQUIRY sends: MGC_MsdRbcInquiryData, the VPD pages, and the command support data.
StandardInquiry == [standard |-> 36]
VpdPages == [pages |-> 7, serial |-> 8, id |-> 4]
CommandSupport ==
  [READ10 |-> 16, WRITE10 |-> 16, VERIFY |-> 16, WRITE_BUFFER |-> 16, READ_CAPACITY |-> 16,
   TEST_UNIT_READY |-> 12, REQUEST_SENSE |-> 12, INQUIRY |-> 12, MODE_SENSE |-> 12,
   MODE_SELECT |-> 12, START_STOP_UNIT |-> 12, unsupported |-> 6]
InquiryData == StandardInquiry @@ VpdPages @@ CommandSupport

\* The statics of the client.
NewMsd == [bIsReady |-> TRUE, dwRxCount |-> 0, dCswDataResidue |-> 0, bCswStatus |-> 0,
           next |-> "TxCsw"]
NewIrp(n) == [dwLength |-> n, dwActualLength |-> 0, tag |-> 0, sent |-> 0, honest |-> TRUE]
NewIrps == [TxData |-> NewIrp(0), TxCsw |-> NewIrp(CswSize),
            RxCbw |-> NewIrp(CbwSize), RxData |-> NewIrp(0)]

-----------------------------------------------------------------------------
(* The commands, one operator each.  next is what is started then. *)

Residue(d, n) == [d EXCEPT !.msd.dCswDataResidue = n]
Status(d, n) == [d EXCEPT !.msd.bCswStatus = n, !.msd.next = "TxCsw"]
Reply(d, n) ==
  [d EXCEPT !.msd.bCswStatus = 0, !.msd.next = "TxData", !.irp["TxData"].dwLength = n]
Receive(d, n) ==
  [d EXCEPT !.msd.bCswStatus = 0, !.msd.next = "RxData", !.irp["RxData"].dwLength = n]

StartStopUnit(d, c) == Status([d EXCEPT !.msd.bIsReady = (c.page = "start")], 0)
TestUnitReady(d) == Status(Residue(d, 0), IF d.msd.bIsReady THEN 0 ELSE 1)
RequestSense(d, c) ==
  LET n == Least(c.alloc, SenseSize) IN Reply(Residue(d, c.alloc - n), n)

\* A page that is not there leaves the length of the reply before.
Inquiry(d, c) ==
  IF c.page \in DOMAIN InquiryData
  THEN LET n == Least(c.alloc, InquiryData[c.page]) IN Reply(Residue(d, c.alloc - n), n)
  ELSE Status(Residue(d, c.alloc - d.irp["TxData"].dwLength), 1)

\* The capacity, and the format capacity: the CDB's length field is not obeyed.
Capacity(d, c, size) ==
  Reply(Residue(d, IF c.alloc = 0 THEN 0 ELSE c.alloc - size), size)

ModeSense(d, c) ==
  LET n == Least(c.alloc, 4)
      none == [Status(Residue(d, c.alloc), 1) EXCEPT !.irp["TxData"].dwLength = 0]
  IN  IF c.page = "known" THEN Reply(Residue(d, c.alloc - n), n) ELSE none
ModeSelect(d, c) == Receive(d, Least(c.alloc, JunkSize))

Read(d, c) == Reply(Residue(d, 0), c.xfer)

\* Of a range beyond the last block nothing is received, and the OUT pipe is halted.
Write(d, c) ==
  LET s == [Residue(d, 0) EXCEPT !.msd.dwRxCount = 0, !.irp["RxData"].dwLength = c.xfer]
  IN  IF c.page = "inside" THEN Receive(s, c.xfer) ELSE SetPipeHalt(Status(s, 1), "rx", TRUE)

Verify(d, c) ==
  IF c.page = "bytes" THEN Receive(Residue([d EXCEPT !.msd.dwRxCount = 0], 0), c.xfer)
  ELSE Status(d, 0)

Executed(d, c) ==
  CASE c.op = "START_STOP_UNIT" -> StartStopUnit(d, c)
    [] c.op = "REQUEST_SENSE" -> RequestSense(d, c)
    [] c.op = "TEST_UNIT_READY" -> TestUnitReady(d)
    [] c.op = "INQUIRY" -> Inquiry(d, c)
    [] c.op = "READ_CAPACITY" -> Capacity(d, c, 8)
    [] c.op = "RD_FMT_CAPC" -> Capacity(d, c, 12)
    [] c.op = "PREVENT_ALLOW" -> Status(Residue(d, 0), 0)
    [] c.op = "MODE_SENSE" -> ModeSense(d, c)
    [] c.op = "MODE_SELECT" -> ModeSelect(d, c)
    [] c.op \in {"READ6", "READ10"} -> Read(d, c)
    [] c.op \in {"WRITE6", "WRITE10"} -> Write(d, c)
    [] c.op = "VERIFY" -> Verify(d, c)
    [] c.op = "WRITE_BUFFER" -> Status(d, 0)
    [] OTHER -> Status(d, 1)

\* StartTransfer of an IRP that begins.  sent is history.
Begin(d, i) ==
  StartTransfer([d EXCEPT !.irp[i].dwActualLength = 0, !.irp[i].sent = 0], i)

\* MGC_MsdCommand.  A command that fails halts the IN pipe if the host expects data.
MsdCommand(d, c, tag) ==
  LET e == Executed(d, c)
      h == IF e.msd.bCswStatus # 0 /\ c.dirIn THEN SetPipeHalt(e, "tx", TRUE) ELSE e
  IN  Begin([h EXCEPT !.irp["TxCsw"].tag = tag, !.irp["TxData"].tag = tag], h.msd.next)

-----------------------------------------------------------------------------
(* The callbacks *)

\* A CBW that is none halts both pipes.
RxCbwComplete(d) ==
  IF d.cbw.kind = "cbw" /\ d.irp["RxCbw"].dwActualLength = CbwSize
  THEN MsdCommand(d, d.cbw.cmd, d.cbw.tag)
  ELSE Begin(SetPipeHalt(SetPipeHalt(d, "rx", TRUE), "tx", TRUE), "RxCbw")

RxDataComplete(d) ==
  LET n == d.msd.dwRxCount + d.irp["RxData"].dwActualLength
  IN  Begin(Residue([d EXCEPT !.msd.dwRxCount = n], d.cbw.cmd.xfer - n), "TxCsw")

TxDataComplete(d) == Begin(d, "TxCsw")
TxCswComplete(d) == Begin(d, "RxCbw")

\* pfIrpComplete
IrpComplete(d, i) ==
  CASE i = "RxCbw" -> RxCbwComplete(d)
    [] i = "RxData" -> RxDataComplete(d)
    [] i = "TxData" -> TxDataComplete(d)
    [] i = "TxCsw" -> TxCswComplete(d)

\* MGC_MsdDeviceConfigSelected
MsdDeviceConfigSelected(d) == StartTransfer([d EXCEPT !.msd.bIsReady = TRUE], "RxCbw")

\* The pipes are flushed, and the disk waits for a command.
Restarted(d) == StartTransfer(FlushPipe(FlushPipe(d, "tx"), "rx"), "RxCbw")

\* Mutation of BotReset: what is being sent goes on.
BotResetRx(d) == Restarted(CancelTransfer(CancelTransfer(d, "RxData"), "RxCbw"))

\* MGC_MSD_BOT_RESET
BotReset(d) ==
  LET sends == CancelTransfer(CancelTransfer(d, "TxCsw"), "TxData")
  IN  Restarted(CancelTransfer(CancelTransfer(sends, "RxData"), "RxCbw"))
=============================================================================
