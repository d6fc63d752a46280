-------------------------------- MODULE Scsi --------------------------------
(***************************************************************************)
(* drivers/msd/mu_mscsi.c and mu_8070i.c, the two command sets, with the   *)
(* part of mu_mbot.c that stands between them and the file system (the     *)
(* volumes), and the file system of test/msd/tst_msd.c.  A step is the     *)
(* whole callback of one command: the calls it makes in both directions    *)
(* nest, so they are operators from a driver state to the next one.  The   *)
(* transport below is what MsdTransport promises, per unit: a command that *)
(* was accepted is answered once.  Reads that the file system starts       *)
(* inside a callback are actions of their own.  The sets are one machine:  *)
(* where they differ, an instance's `set' decides.                         *)
(***************************************************************************)
EXTENDS Naturals, SequencesExt

CONSTANTS
  LunCount,            \* bLunCount
  Kind,                \* per unit: what INQUIRY says of it
  CmdSets,             \* the command sets the device's subclass may stand for
  TestUnitRetries,     \* MGC_MSD_SCSI_TEST_UNIT_RETRIES (100)
  CapacityRetries,     \* MGC_MSD_CAPACITY_RETRIES (400)
  FmtCapacityRetries,  \* MGC_MSD_FMT_CAPACITY_RETRIES (2)
  Polled,              \* the units the file system polls for a medium
  MaxChanges           \* bound: how often media are put in or taken out

Luns == 0 .. LunCount - 1
Kinds == {"fixed",      \* a disk whose RMB bit is 0
          "removable",  \* a disk whose RMB bit is 1
          "reader"}     \* a card reader that leaves its RMB bit 0

ASSUME ScsiAssumption ==
  /\ LunCount \in Nat \ {0}
  /\ Kind \in [Luns -> Kinds]
  /\ CmdSets \subseteq {"SCSI", "SFF-8070i"} /\ CmdSets # {}
  /\ "SFF-8070i" \in CmdSets => \A l \in Luns : Kind[l] # "reader"
  /\ Polled \subseteq Luns
  /\ {TestUnitRetries, CapacityRetries, FmtCapacityRetries, MaxChanges} \subseteq Nat

VARIABLES
  phase,       \* "starting", "running" or "gone"
  inst,        \* per unit: MGC_ScsiCmdSetData of its pCmdSetInstance
  volume,      \* per unit: MGC_MsdBotVolume
  command,     \* per unit: the command in flight and the instance it is for
  hfi,         \* the file system
  unit,        \* per unit of the device: its medium
  changes      \* of media, for the bound

vars == <<phase, inst, volume, command, hfi, unit, changes>>

NoUnit == LunCount
FileSystem == LunCount
Idle == [op |-> "none", by |-> FileSystem]
Ops == {"none", "INQUIRY", "READ_FMT_CAPACITY", "READ_CAPACITY", "TEST_UNIT_READY",
        "READ10", "REQUEST_SENSE", "PREVENT", "ALLOW", "START_STOP_UNIT", "DATA"}
States == {"NONE", "INQUIRY", "READ_FMT_CAPACITY", "READ_CAPACITY", "FIRST_TEST",
           "READ_BLOCK0", "TEST_UNIT_READY", "PREVENT_MEDIUM_REMOVE",
           "ALLOW_MEDIUM_REMOVE", "STOP_UNIT"}
\* What sense data say, as far as MGC_ScsiCmdComplete tells it apart.
Senses == {"none", "other", "not ready", "start unit", "medium change", "no medium"}

\* aInquiryData is the unit it came from, aCapacityData whether it names a size,
\* aSenseData what it says.
Instances ==
  [set : CmdSets, bState : States, bError : BOOLEAN, bRemovable : BOOLEAN, bAnnounced : BOOLEAN,
   bNoMedium : BOOLEAN, bLun : Luns, bLunScan : BOOLEAN, bLunIndex : Luns,
   dwRetries : 0 .. TestUnitRetries + 1, dwCapacityRetries : 0 .. CapacityRetries,
   bFmtCapacityRetries : 0 .. FmtCapacityRetries,
   inquiry : Luns \cup {NoUnit}, capacity : BOOLEAN, sense : Senses]
\* DeviceInfo is the unit it describes; mediumIn is its InitialMedium.
Volumes ==
  [bIsReady : BOOLEAN, bAnnounced : BOOLEAN, bGotMedium : BOOLEAN,
   bMediumAnnounced : BOOLEAN, pfMediumCheckComplete : BOOLEAN,
   info : Luns \cup {NoUnit}, removable : BOOLEAN, mediumIn : BOOLEAN]
\* The file system: the mounts it waits for, what is mounted, MGC_pHfiDevice and
\* whether MGC_pHfiMediumInfo is set; and a history, the units that no fault
\* and no change of medium has disturbed since their last check began.
FileSystems == [mounting : SUBSET Luns, mounted : SUBSET Luns,
                last : Luns \cup {NoUnit}, sawMedium : BOOLEAN, steady : SUBSET Luns]
Units == [medium : BOOLEAN, attention : BOOLEAN]

\* The driver: what the operators below take and return.
Driver == [inst |-> inst, volume |-> volume, command |-> command, hfi |-> hfi]
Becomes(d) ==
  /\ inst' = d.inst
  /\ volume' = d.volume
  /\ command' = d.command
  /\ hfi' = d.hfi

\* Of INQUIRY data, zero when there are none.
Rmb(u) == u # NoUnit /\ Kind[u] = "removable"
Removable(u) == u # NoUnit /\ Kind[u] # "fixed"

-----------------------------------------------------------------------------
\* MGC_BotProtocolSendCmd: a unit that is busy refuses, and nobody tries again.
SendCmd(d, l, op, i) ==
  IF d.command[l] # Idle THEN d ELSE [d EXCEPT !.command[l] = [op |-> op, by |-> i]]

\* Mutation of Begin: bNoMedium survives a new check.
BeginStale(s, l) ==
  [s EXCEPT !.bState = "INQUIRY", !.bLun = l, !.dwRetries = 0, !.dwCapacityRetries = 0,
            !.bFmtCapacityRetries = 0, !.bRemovable = FALSE, !.bLunScan = FALSE]

\* MGC_ScsiCmdSetDiscoverDevice and ...CheckMedium begin alike.
Begin(s, l) ==
  [s EXCEPT !.bState = "INQUIRY", !.bLun = l, !.dwRetries = 0, !.dwCapacityRetries = 0,
            !.bFmtCapacityRetries = 0, !.bRemovable = FALSE, !.bNoMedium = FALSE,
            !.bLunScan = FALSE]

DiscoverDevice(d, i, l) ==
  LET scan == l = 0 /\ LunCount > 1
      s == [Begin(d.inst[i], l) EXCEPT !.bAnnounced = FALSE, !.bLunScan = scan,
                                       !.bLunIndex = IF scan THEN 0 ELSE @]
  IN  SendCmd([d EXCEPT !.inst[i] = s], l, "INQUIRY", i)

\* The instance begins again even if the unit is busy and refuses.
CheckMedium(d, l) ==
  SendCmd([d EXCEPT !.inst[l] = Begin(@, l),
                    !.hfi.steady = IF d.command[l] = Idle THEN @ \cup {l} ELSE @ \ {l}],
          l, "INQUIRY", l)

MountComplete(d, l) ==
  [d EXCEPT !.hfi.mounting = @ \ {l}, !.hfi.mounted = @ \cup {l}]

\* Mutation of MountDevice: a refused command counts as an answer.
MountDeviceAnyway(d, l) ==
  LET p == [d EXCEPT !.inst[l].bState = "PREVENT_MEDIUM_REMOVE"]
  IN  IF ~Rmb(d.inst[l].inquiry) \/ d.command[l] # Idle THEN MountComplete(d, l)
      ELSE [SendCmd(p, l, "PREVENT", l) EXCEPT !.hfi.mounting = @ \cup {l}]

\* A disk that is not removable is mounted at once.
MountDevice(d, l) ==
  LET p == [d EXCEPT !.inst[l].bState = "PREVENT_MEDIUM_REMOVE"]
  IN  IF ~Rmb(d.inst[l].inquiry) THEN MountComplete(d, l)
      ELSE [SendCmd(p, l, "PREVENT", l)
              EXCEPT !.hfi.mounting = IF d.command[l] = Idle THEN @ \cup {l} ELSE @]

\* MGC_MsdBotMountVolume.
MountVolume(d, l) == IF d.volume[l].bIsReady THEN MountDevice(d, l) ELSE d

\* The file system mounts what has a medium and checks what has none.
HfiAddDevice(d, l) ==
  LET e == [d EXCEPT !.hfi.last = l]
      v == d.volume[l]
  IN  IF ~v.removable \/ v.mediumIn THEN MountVolume(e, l) ELSE CheckMedium(e, l)

HfiMediumInserted(d, l) ==
  MountVolume([d EXCEPT !.volume[l].bMediumAnnounced = TRUE, !.hfi.sawMedium = TRUE], l)

-----------------------------------------------------------------------------
\* MGC_BotProtocolSetDeviceInfo, which goes on to the next unit.
SetDeviceInfo(d, l, i, mediumIn) ==
  LET s == d.inst[i]
      e == [d EXCEPT !.volume[l].info = s.inquiry, !.volume[l].removable = s.bRemovable,
                     !.volume[l].mediumIn = mediumIn]
  IN  IF ~e.volume[l].bAnnounced /\ l < LunCount - 1 THEN DiscoverDevice(e, l, l + 1) ELSE e

SetMediumInfo(d, l) == [d EXCEPT !.volume[l].bGotMedium = TRUE]

\* MGC_BotProtocolSetReady.  No driver of the build formats.
SetReady(d, l, isReady) ==
  LET e == [d EXCEPT !.volume[l].bIsReady = isReady]
      added == HfiAddDevice([e EXCEPT !.volume[l].bAnnounced = TRUE], l)
      v == e.volume[l]
      f == CASE isReady /\ ~v.bAnnounced ->
                  IF v.bGotMedium THEN HfiMediumInserted(added, l) ELSE added
             [] isReady /\ v.bAnnounced /\ v.bGotMedium /\ ~v.bMediumAnnounced ->
                  HfiMediumInserted(e, l)
             [] ~isReady /\ v.bAnnounced ->
                  [e EXCEPT !.volume[l].bGotMedium = FALSE, !.volume[l].bMediumAnnounced = FALSE]
             [] OTHER -> e
  IN  [f EXCEPT !.volume[l].pfMediumCheckComplete = FALSE]

\* What an announcement says of the unit: the RMB bit is believed, and a medium
\* without a capacity is none.
DeviceInfo(known, i, isReady) ==
  LET d == [known EXCEPT !.inst[i].bRemovable = Removable(known.inst[i].inquiry)]
      e == SetDeviceInfo(d, d.inst[i].bLun, i, isReady)
  IN  IF e.inst[i].bRemovable /\ isReady THEN SetMediumInfo(e, e.inst[i].bLun) ELSE e

\* The end of MGC_ScsiCmdComplete when it has something to announce.  The
\* last unit announces all of them.
Announce(d, i, ready) ==
  LET isReady == ready /\ d.inst[i].capacity
      f == DeviceInfo(d, i, isReady)
      l == f.inst[i].bLun
      g == [f EXCEPT !.inst[i].bAnnounced = TRUE]
  IN  CASE f.inst[i].bAnnounced -> SetReady(f, l, isReady)
        [] ~f.inst[i].bAnnounced /\ l = LunCount - 1 ->
             FoldLeft(LAMBDA x, k : SetReady(x, k - 1, TRUE), g, [k \in 1 .. LunCount |-> k])
        [] OTHER -> g

-----------------------------------------------------------------------------
(* MGC_ScsiCmdComplete: what each state makes of an answer.  A step is the  *)
(* instance's new state and its next command, or what it announces.         *)

SendNext(s, op) == [s |-> s, op |-> op, lun |-> s.bLun, announce |-> FALSE, ready |-> FALSE]
Announces(s, ready) ==
  [s |-> s, op |-> "none", lun |-> s.bLun, announce |-> TRUE, ready |-> ready]

InquiryStep(s) ==
  LET n == SendNext([s EXCEPT !.bState = "READ_FMT_CAPACITY"], "READ_FMT_CAPACITY")
  IN  IF s.bLunScan THEN [n EXCEPT !.lun = s.bLunIndex] ELSE n

\* A device with several units is asked INQUIRY and READ_FMT_CAPACITY for each
\* of them first; a retry goes to bLun, whichever unit it was that failed.
FmtCapacityStep(s, failed) ==
  LET next == s.bLunIndex + 1
      inquire == [s EXCEPT !.bState = "INQUIRY"]
  IN  CASE failed /\ s.bFmtCapacityRetries < FmtCapacityRetries ->
             SendNext([s EXCEPT !.bFmtCapacityRetries = @ + 1], "READ_FMT_CAPACITY")
        [] ~(failed /\ s.bFmtCapacityRetries < FmtCapacityRetries) /\ ~s.bLunScan ->
             SendNext([s EXCEPT !.bState = "READ_CAPACITY"], "READ_CAPACITY")
        [] OTHER ->
             IF next < LunCount
             THEN [SendNext([inquire EXCEPT !.bLunIndex = next], "INQUIRY") EXCEPT !.lun = next]
             ELSE SendNext([inquire EXCEPT !.bLunScan = FALSE], "INQUIRY")

CapacityStep(s, failed, bUsbError, sense) ==
  LET z == [s EXCEPT !.capacity = @ /\ ~failed]
  IN  CASE sense = "medium change" -> SendNext(z, "READ_CAPACITY")
        [] sense # "medium change" /\ (s.bNoMedium \/ bUsbError) ->
             SendNext([z EXCEPT !.bState = "TEST_UNIT_READY"], "TEST_UNIT_READY")
        [] OTHER -> SendNext([z EXCEPT !.bState = "FIRST_TEST"], "TEST_UNIT_READY")

\* SCSI reads block 0 when the capacity is unknown; SFF-8070i tests once more.
FirstTestStep(s, failed) ==
  CASE failed /\ s.dwRetries < TestUnitRetries ->
         SendNext([s EXCEPT !.dwRetries = @ + 1], "TEST_UNIT_READY")
    [] failed /\ s.dwRetries >= TestUnitRetries ->
         SendNext([s EXCEPT !.dwRetries = 0, !.bState = "TEST_UNIT_READY"], "TEST_UNIT_READY")
    [] ~failed /\ s.capacity -> Announces([s EXCEPT !.bState = "TEST_UNIT_READY"], TRUE)
    [] ~failed /\ ~s.capacity /\ s.set = "SFF-8070i" ->
         SendNext([s EXCEPT !.dwRetries = 0, !.bState = "TEST_UNIT_READY"], "TEST_UNIT_READY")
    [] OTHER -> SendNext([s EXCEPT !.dwRetries = 0, !.bState = "READ_BLOCK0"], "READ10")

\* Mutation of Block0Step: the retries are not counted.
Block0Uncounted(s, bError) ==
  IF bError \/ s.capacity THEN SendNext([s EXCEPT !.bState = "TEST_UNIT_READY"], "TEST_UNIT_READY")
  ELSE SendNext([s EXCEPT !.bState = "READ_CAPACITY"], "READ_CAPACITY")

\* A read that passes although the capacity is unknown asks for it again.
Block0Step(s, bError) ==
  LET test == [s EXCEPT !.bState = "TEST_UNIT_READY", !.bRemovable = @ \/ bError]
  IN  IF ~bError /\ s.dwCapacityRetries < CapacityRetries /\ ~s.capacity
      THEN SendNext([s EXCEPT !.dwCapacityRetries = @ + 1, !.bState = "READ_CAPACITY"],
                 "READ_CAPACITY")
      ELSE SendNext(test, "TEST_UNIT_READY")

\* Mutation of TestUnitStep: no limit on the retries.
TestUnitForever(s, bError) ==
  IF bError THEN SendNext([s EXCEPT !.dwRetries = @ + 1], "TEST_UNIT_READY")
  ELSE Announces(s, ~s.bNoMedium)

TestUnitStep(s, bError) ==
  CASE ~bError -> Announces(s, ~s.bNoMedium)
    [] bError /\ s.dwRetries > TestUnitRetries ->
         Announces([s EXCEPT !.dwRetries = 0, !.bRemovable = TRUE], FALSE)
    [] OTHER -> SendNext([s EXCEPT !.dwRetries = @ + 1], "TEST_UNIT_READY")

AllowStep(s) == SendNext([s EXCEPT !.bState = "STOP_UNIT"], "START_STOP_UNIT")

\* The sense data, old ones if REQUEST_SENSE was refused.  A unit that asks to
\* be started is not: the START_STOP_UNIT prepared here gives way to the state's
\* own command.
Sensed(s) ==
  IF ~s.bError THEN s
  ELSE [s EXCEPT !.bError = FALSE,
                 !.bRemovable = @ \/ s.sense \in {"not ready", "start unit"},
                 !.bNoMedium = @ \/ s.sense = "no medium"]

-----------------------------------------------------------------------------
(* The device, and the commands it answers.                                *)

Media == {"READ_CAPACITY", "TEST_UNIT_READY", "READ10"}
Failing(l) ==
  /\ command[l].op \notin {"INQUIRY", "REQUEST_SENSE"}
  /\ unit[l].attention \/ (command[l].op \in Media /\ ~unit[l].medium)
\* Without a medium a unit may refuse to say how it could be formatted.
Fault(l) == ~Failing(l) /\ (command[l].op = "READ_FMT_CAPACITY" => unit[l].medium)

SensesOf(l) ==
  CASE unit[l].attention /\ unit[l].medium -> {"medium change"}
    [] unit[l].attention /\ ~unit[l].medium -> {"medium change", "no medium"}
    [] ~unit[l].attention /\ unit[l].medium -> {"other", "not ready"}
    [] OTHER -> {"other", "not ready", "start unit"}

\* How the transport calls back with status 0: the sense data are read from
\* units that answer REQUEST_SENSE, as they must; the data stage may fail.
Answers(l) ==
  IF command[l].op = "REQUEST_SENSE" THEN [bUsbError : {FALSE}, sense : SensesOf(l)]
  ELSE [bUsbError : {FALSE} \cup {usb \in BOOLEAN :
                      command[l].op \in {"READ_FMT_CAPACITY", "READ_CAPACITY"}},
        sense : {"none"}]

\* The data of the answer are in the buffers of the instance that asked.
Received(l, a) ==
  LET i == command[l].by
      d == [Driver EXCEPT !.command[l] = Idle,
                          !.hfi.steady = IF a.bUsbError THEN @ \ {l} ELSE @]
  IN  CASE command[l].op = "INQUIRY" -> [d EXCEPT !.inst[i].inquiry = l]
        [] command[l].op = "READ_CAPACITY" /\ ~a.bUsbError -> [d EXCEPT !.inst[i].capacity = TRUE]
        [] command[l].op = "REQUEST_SENSE" -> [d EXCEPT !.inst[i].sense = a.sense]
        [] OTHER -> d

InFlight(l) == phase = "running" /\ command[l].op \notin {"none", "DATA"}

\* A command is answered while its instance is in the given state.
Answered(l, state, Step(_, _)) ==
  /\ InFlight(l)
  /\ ~Failing(l)
  /\ inst[command[l].by].bState = state
  /\ \E a \in Answers(l) :
       LET i == command[l].by
           d == Received(l, a)
           bError == d.inst[i].bError
           sense == IF bError THEN d.inst[i].sense ELSE "none"
           n == Step(Sensed(d.inst[i]),
                     [bError |-> bError, bUsbError |-> a.bUsbError,
                      failed |-> bError \/ a.bUsbError, sense |-> sense])
           e == [d EXCEPT !.inst[i] = n.s]
       IN  Becomes(IF n.announce \/ sense = "not ready"
                   THEN Announce(e, i, n.ready) ELSE SendCmd(e, n.lun, n.op, i))
  /\ unit' = [unit EXCEPT ![l].attention = @ /\ command[l].op # "REQUEST_SENSE"]
  /\ UNCHANGED <<phase, changes>>

InquiryComplete(l) == Answered(l, "INQUIRY", LAMBDA s, a : InquiryStep(s))
FmtCapacityComplete(l) ==
  Answered(l, "READ_FMT_CAPACITY", LAMBDA s, a : FmtCapacityStep(s, a.failed))
CapacityComplete(l) ==
  Answered(l, "READ_CAPACITY", LAMBDA s, a : CapacityStep(s, a.failed, a.bUsbError, a.sense))
FirstTestComplete(l) == Answered(l, "FIRST_TEST", LAMBDA s, a : FirstTestStep(s, a.failed))
Block0Complete(l) == Answered(l, "READ_BLOCK0", LAMBDA s, a : Block0Step(s, a.bError))
TestUnitComplete(l) == Answered(l, "TEST_UNIT_READY", LAMBDA s, a : TestUnitStep(s, a.bError))
AllowComplete(l) == Answered(l, "ALLOW_MEDIUM_REMOVE", LAMBDA s, a : AllowStep(s))

\* PREVENT is done, and START_STOP_UNIT: the states that return early.
LastAnswered(l, state, End(_, _)) ==
  /\ InFlight(l)
  /\ ~Failing(l)
  /\ inst[command[l].by].bState = state
  /\ \E a \in Answers(l) :
       LET i == command[l].by
           d == Received(l, a)
       IN  Becomes(End([d EXCEPT !.inst[i] = Sensed(@)], i))
  /\ unit' = [unit EXCEPT ![l].attention = @ /\ command[l].op # "REQUEST_SENSE"]
  /\ UNCHANGED <<phase, changes>>

PreventComplete(l) == LastAnswered(l, "PREVENT_MEDIUM_REMOVE", MountComplete)
StopComplete(l) == LastAnswered(l, "STOP_UNIT", LAMBDA d, i : d)

\* The status says that the command failed: find out why.
CommandFailed(l) ==
  /\ InFlight(l)
  /\ command[l].op \notin {"INQUIRY", "REQUEST_SENSE"}
  /\ LET i == command[l].by
         d == [Driver EXCEPT
                 !.command[l] = Idle, !.inst[i].bError = TRUE,
                 !.inst[i].dwCapacityRetries =
                    IF inst[i].set = "SCSI" /\ inst[i].bState = "READ_BLOCK0"
                    THEN CapacityRetries ELSE @,
                 !.hfi.steady = IF Fault(l) THEN @ \ {l} ELSE @]
     IN  Becomes(SendCmd(d, inst[i].bLun, "REQUEST_SENSE", i))
  /\ UNCHANGED <<phase, unit, changes>>

\* MGC_MsdBotDataTransferComplete.
DataComplete(l) ==
  /\ phase = "running"
  /\ command[l].op = "DATA"
  /\ command' = [command EXCEPT ![l] = Idle]
  /\ UNCHANGED <<phase, inst, volume, hfi, unit, changes>>

ChangeMedium(l) ==
  /\ phase # "gone"
  /\ changes < MaxChanges
  /\ Kind[l] # "fixed"
  /\ changes' = changes + 1
  /\ unit' = [unit EXCEPT ![l] = [medium |-> ~@.medium, attention |-> TRUE]]
  /\ hfi' = [hfi EXCEPT !.steady = @ \ {l}]
  /\ UNCHANGED <<phase, inst, volume, command>>

-----------------------------------------------------------------------------
(* The file system and the bus.                                            *)

\* MGC_BotControlIrpComplete has read the serial number.  The first unit is
\* discovered with the instance of the last one, and each next one with the
\* instance of the one before it.
SerialComplete ==
  /\ phase = "starting"
  /\ phase' = "running"
  /\ Becomes(DiscoverDevice(Driver, LunCount - 1, 0))
  /\ UNCHANGED <<unit, changes>>

\* Mutation of CheckMediumNotify: the main loop polls whether it has seen a medium or not.
CheckMediumAlways(l) ==
  /\ phase = "running"
  /\ volume[l].bAnnounced
  /\ (l \in Polled /\ command[l] = Idle) \/ l = hfi.last
  /\ Becomes(CheckMedium([Driver EXCEPT !.volume[l].pfMediumCheckComplete = TRUE], l))
  /\ UNCHANGED <<phase, unit, changes>>

\* MGC_MsdBotCheckMediumNotify.  The file system polls units it has no request
\* on; the main loop polls the last one it was given at any time, until it has
\* seen a medium.
CheckMediumNotify(l) ==
  /\ phase = "running"
  /\ volume[l].bAnnounced
  /\ (l \in Polled /\ command[l] = Idle) \/ (l = hfi.last /\ ~hfi.sawMedium)
  /\ Becomes(CheckMedium([Driver EXCEPT !.volume[l].pfMediumCheckComplete = TRUE], l))
  /\ UNCHANGED <<phase, unit, changes>>

\* MGC_MsdBotReadDevice and MGC_MsdBotWriteDevice.
ReadDevice(l) ==
  /\ phase = "running"
  /\ l \in hfi.mounted
  /\ volume[l].bIsReady
  /\ Becomes(SendCmd(Driver, l, "DATA", FileSystem))
  /\ UNCHANGED <<phase, unit, changes>>

\* MGC_ScsiCmdSetUnmountDevice.
UnmountDevice(d, l) == SendCmd([d EXCEPT !.inst[l].bState = "ALLOW_MEDIUM_REMOVE"], l, "ALLOW", l)

\* MGC_MsdBotUnmountVolume.
UnmountVolume(l) ==
  /\ phase = "running"
  /\ l \in hfi.mounted
  /\ volume[l].bIsReady
  /\ command[l] = Idle
  /\ Becomes(UnmountDevice([Driver EXCEPT !.hfi.mounted = @ \ {l}], l))
  /\ UNCHANGED <<phase, unit, changes>>

\* MGC_DestroyBotInstance: every command is forgotten with its device.
DestroyBotInstance ==
  /\ phase = "running"
  /\ phase' = "gone"
  /\ command' = [l \in Luns |-> Idle]
  /\ UNCHANGED <<inst, volume, hfi, unit, changes>>

-----------------------------------------------------------------------------
Init ==
  /\ phase = "starting"
  /\ \E set \in CmdSets : inst = [i \in Luns |->
       [set |-> set, bState |-> "NONE", bError |-> FALSE, bRemovable |-> FALSE, bAnnounced |-> FALSE,
        bNoMedium |-> FALSE, bLun |-> 0, bLunScan |-> FALSE, bLunIndex |-> 0,
        dwRetries |-> 0, dwCapacityRetries |-> 0, bFmtCapacityRetries |-> 0,
        inquiry |-> NoUnit, capacity |-> FALSE, sense |-> "none"]]
  /\ volume = [l \in Luns |->
       [bIsReady |-> FALSE, bAnnounced |-> FALSE, bGotMedium |-> FALSE,
        bMediumAnnounced |-> FALSE, pfMediumCheckComplete |-> FALSE,
        info |-> NoUnit, removable |-> FALSE, mediumIn |-> FALSE]]
  /\ command = [l \in Luns |-> Idle]
  /\ hfi = [mounting |-> {}, mounted |-> {}, last |-> NoUnit, sawMedium |-> FALSE,
            steady |-> {}]
  /\ unit \in [Luns -> [medium : BOOLEAN, attention : {FALSE}]]
  /\ \A l \in Luns : Kind[l] = "fixed" => unit[l].medium
  /\ changes = 0

Completion(l) ==
  \/ InquiryComplete(l) \/ FmtCapacityComplete(l) \/ CapacityComplete(l)
  \/ FirstTestComplete(l) \/ Block0Complete(l) \/ TestUnitComplete(l)
  \/ PreventComplete(l) \/ AllowComplete(l) \/ StopComplete(l)
  \/ CommandFailed(l) \/ DataComplete(l)

FileSystemStep(l) == CheckMediumNotify(l) \/ ReadDevice(l) \/ UnmountVolume(l)

Next ==
  \/ SerialComplete
  \/ \E l \in Luns : Completion(l) \/ FileSystemStep(l) \/ ChangeMedium(l)
  \/ DestroyBotInstance

\* The transport answers every command; nothing else is owed.  The second
\* conjunct is weak fairness of Completion(l), which is enabled just when a
\* command is in flight.
Owed(l) == phase = "running" /\ command[l].op # "none"
Fairness ==
  /\ WF_vars(SerialComplete)
  /\ \A l \in Luns : []<>~Owed(l) \/ []<><<Completion(l)>>_vars

Spec == Init /\ [][Next]_vars /\ Fairness

-----------------------------------------------------------------------------
TypeOK ==
  /\ phase \in {"starting", "running", "gone"}
  /\ inst \in [Luns -> Instances]
  /\ volume \in [Luns -> Volumes]
  /\ command \in [Luns -> [op : Ops, by : Luns \cup {FileSystem}]]
  /\ hfi \in FileSystems
  /\ unit \in [Luns -> Units]
  /\ changes \in 0 .. MaxChanges

\* What the file system is told of a unit is about that unit: the INQUIRY data
\* come from it, although instances and units are paired another way round and
\* one instance has asked every unit before (mu_mscsi.c:353-369, 537-673).
InfoAboutUnit == \A l \in Luns : volume[l].mediumIn => volume[l].info = l

\* A disk with the RMB bit is mounted only by the answer to a PREVENT that its
\* instance sent, or to the REQUEST_SENSE after it, and not by an answer to
\* something else that finds the instance in the state of the mount
\* (mu_mscsi.c:503-506, 742-755).
PreventedBeforeMounted ==
  [][\A l \in hfi'.mounted \ hfi.mounted :
       Kind[l] = "removable" =>
         \E k \in Luns : command[k] \in [op : {"PREVENT", "REQUEST_SENSE"}, by : {l}]]_vars

\* A medium check that nothing disturbed tells the file system whether there is
\* a medium, whatever attention condition or sense data the unit began with
\* (mu_mbot.c:568-636, mu_mscsi.c:866-889).
CheckTellsTruth ==
  [][\A l \in hfi.steady :
       volume[l].pfMediumCheckComplete /\ ~volume'[l].pfMediumCheckComplete
         => volume'[l].bMediumAnnounced = (unit[l].medium /\ Kind[l] # "fixed")]_vars

\* The file system hears of every unit, however its commands fail: the three
\* retry counters let the discovery end (mu_mscsi.c:343, 419, 461, 488).
EveryUnitAnnounced ==
  phase = "running" ~> phase = "gone" \/ \A l \in Luns : volume[l].bAnnounced

\* A mount that was accepted is answered (mu_hfi.h:204-207).
MountAnswered ==
  \A l \in Luns : l \in hfi.mounting ~> phase = "gone" \/ l \notin hfi.mounting
=============================================================================
