------------------------------- MODULE MsdBot -------------------------------
(***************************************************************************)
(* drivers/msd/mu_mbot.c: the Bulk-Only Transport.  A command is a CBW on  *)
(* the OUT pipe, an optional data stage and a CSW on the IN pipe; errors   *)
(* are recovered through ControlIrp, which MGC_BotControlIrpComplete       *)
(* dispatches on flags.  Starting an IRP and its completion callback are   *)
(* the steps; the device, the bus and the client choose their outcomes.    *)
(* The completion of an IRP by the ISR and its callback from the BSR are   *)
(* one step here.                                                          *)
(***************************************************************************)
EXTENDS Integers, Sequences, FiniteSets

CONSTANTS
  MaxLuns,            \* most logical units a device has
  MaxDataRetries,     \* MGC_BOT_DATA_MAX_RETRIES (16)
  TagMod,             \* CBW tags wrap at this value (2^32)
  Concurrent,         \* TRUE: the client may use several units at once
  CswAsData           \* TRUE: a data-in stage may bring exactly 13 bytes

ASSUME MsdBotAssumption ==
  /\ MaxLuns \in Nat \ {0}
  /\ MaxDataRetries \in Nat
  /\ TagMod \in Nat
  /\ TagMod > 1
  /\ Concurrent \in BOOLEAN
  /\ CswAsData \in BOOLEAN

VARIABLES
  open,               \* aVolume is set up and commands are accepted
  bLunCount, dwTag,
  bInit, bGetLang, bGetSerial, bCswRetry, bResetStage, pCurrentVolume,
  volume,             \* per unit: the fields of MGC_MsdBotVolume a command uses
  control,            \* what ControlIrp was submitted with, per submission in flight
  pipe,               \* per direction: IRPs in flight, the endpoint's current one first
  device,             \* the device: unit and tag of the command it works on
  csw,                \* how the CSW transfer ended, before its callback runs
  pending, served, done     \* history: see MsdTransport

flags == <<bInit, bGetLang, bGetSerial, bCswRetry, bResetStage>>
history == <<pending, served, done>>
vars == <<open, bLunCount, dwTag, flags, pCurrentVolume, volume, control, pipe,
          device, csw, history>>

Luns == 0 .. MaxLuns - 1
Tags == 0 .. TagMod - 1
Kinds == {"nodata", "in", "out"}
Stages == {"none", "cbw", "datain", "dataout", "csw"}
ResetStages == {"none", "cmd", "clearin", "clearout"}
Requests == {"maxlun", "lang", "serial", "clearhalt", "reset", "clearin", "clearout"}
Volumes == [bBusy : BOOLEAN, bError : BOOLEAN, bTransferStage : Stages,
            kind : Kinds, dCbwTag : Tags, bRetries : 0 .. MaxDataRetries + 1]

\* An IRP: the CBW or the data stage of a unit, or the one CSW IRP.
Cbw(l) == [name |-> "cbw", lun |-> l]
Data(l) == [name |-> "data", lun |-> l]
Csw == [name |-> "csw", lun |-> 0]
Irps == [name : {"cbw", "data", "csw"}, lun : Luns]

\* What the device works on, and whether it still holds the CSW of the
\* command before.
Commands == [lun : Luns, tag : Tags, active : BOOLEAN, leftover : BOOLEAN]
NoCommand == [lun |-> 0, tag |-> 0, active |-> FALSE, leftover |-> FALSE]

\* How a transfer may end, and the CSWs a device may send: the one it owes,
\* the one left over, or something of a wrong length.
Statuses == {"ok", "stalled", "error"}
NoCsw == [dwStatus |-> "none", whole |-> FALSE, dCswTag |-> 0, bCswStatus |-> 0]
TagBefore(tag) == (tag + TagMod - 1) % TagMod
CswAnswers(d) ==
  [dwStatus : {"ok"}, whole : {TRUE}, bCswStatus : 0 .. 2,
   dCswTag : {d.tag} \cup (IF d.leftover THEN {TagBefore(d.tag)} ELSE {})]
  \cup [dwStatus : Statuses, whole : {FALSE}, dCswTag : {0}, bCswStatus : {0}]

NewVolume == [bBusy |-> FALSE, bError |-> FALSE, bTransferStage |-> "none",
              kind |-> "nodata", dCbwTag |-> 1, bRetries |-> 0]
NoCallback == [lun |-> 0, good |-> FALSE]

-----------------------------------------------------------------------------
\* MGC_CreateBotInstance: zeroed instance data, pipes just opened.
Init ==
  /\ open = FALSE
  /\ bLunCount = 0
  /\ dwTag = 0
  /\ bInit = FALSE
  /\ bGetLang = FALSE
  /\ bGetSerial = FALSE
  /\ bCswRetry = FALSE
  /\ bResetStage = "none"
  /\ pCurrentVolume = 0
  /\ volume = [l \in Luns |-> NewVolume]
  /\ control = <<>>
  /\ pipe = [p \in {"in", "out"} |-> <<>>]
  /\ device = NoCommand
  /\ csw = NoCsw
  /\ pending = {}
  /\ served = {}
  /\ done = NoCallback

\* MUSB_StartTransfer: the IRP becomes the endpoint's current one or queues.
Started(p, irp) == Append(p, irp)

\* The pipes once the current IRP of pipe p is finished and its callback has
\* started irp on pipe q: p has no current IRP while the callback runs.
Advanced(p, q, irp) ==
  IF p = q THEN [pipe EXCEPT ![p] = <<irp>> \o Tail(@)]
           ELSE [pipe EXCEPT ![p] = Tail(@), ![q] = Started(@, irp)]

\* MGC_MsdBotReset: submit the class-specific reset request.
StartReset ==
  /\ bResetStage' = "cmd"
  /\ control' = Append(control, "reset")

\* The callback of unit l's command.
CallBack(l, bUsbError, bWrapperStatus) ==
  /\ pending' = pending \ {l}
  /\ served' = served \ {l}
  /\ done' = [lun |-> l, good |-> ~bUsbError /\ bWrapperStatus = 0]

-----------------------------------------------------------------------------
(* The client.                                                             *)

\* MGC_BotProtocolStartDevice: ask for the highest unit number.
StartDevice ==
  /\ ~open /\ control = <<>> /\ bLunCount = 0
  /\ bInit' = TRUE
  /\ control' = <<"maxlun">>
  /\ UNCHANGED <<open, bLunCount, dwTag, bGetLang, bGetSerial, bCswRetry,
                 bResetStage, pCurrentVolume, volume, pipe, device, csw, history>>

\* MGC_BotProtocolSendCmd; refused without any change while bBusy is set.
SendCmd(l, kind) ==
  /\ open /\ l < bLunCount
  /\ Concurrent \/ pending = {}
  /\ ~volume[l].bBusy
  /\ dwTag' = (dwTag + 1) % TagMod
  /\ volume' = [volume EXCEPT ![l].bBusy = TRUE, ![l].bError = FALSE,
                  ![l].bTransferStage = "cbw", ![l].dCbwTag = dwTag',
                  ![l].kind = kind]
  /\ pCurrentVolume' = l
  /\ pipe' = [pipe EXCEPT !["out"] = Started(@, Cbw(l))]
  /\ pending' = pending \cup {l}
  /\ UNCHANGED <<open, bLunCount, flags, control, device, csw, served, done>>

\* MGC_DestroyBotInstance, after the disconnect interrupt has dropped the
\* bulk endpoints' IRPs; the client is told by MUSB_HfiDeviceRemoved.  The
\* next device gets a new, zeroed instance.
Remove ==
  /\ control # <<>> \/ bLunCount > 0
  /\ open' = FALSE
  /\ bLunCount' = 0
  /\ dwTag' = 0
  /\ bInit' = FALSE
  /\ bGetLang' = FALSE
  /\ bGetSerial' = FALSE
  /\ bCswRetry' = FALSE
  /\ bResetStage' = "none"
  /\ pCurrentVolume' = 0
  /\ volume' = [l \in Luns |-> NewVolume]
  /\ control' = <<>>
  /\ pipe' = [p \in {"in", "out"} |-> <<>>]
  /\ device' = NoCommand
  /\ csw' = NoCsw
  /\ pending' = {}
  /\ served' = {}
  /\ UNCHANGED done

-----------------------------------------------------------------------------
(* MGC_BotControlIrpComplete, which tells by the flags what was completed. *)

\* A stalled GetMaxLUN means one unit.
MaxLunComplete(status, top) ==
  /\ control # <<>> /\ bInit
  /\ bInit' = FALSE
  /\ bLunCount' = IF status = "ok" THEN top + 1 ELSE 1
  /\ bGetLang' = TRUE
  /\ control' = Append(Tail(control), "lang")
  /\ UNCHANGED <<open, dwTag, bGetSerial, bCswRetry, bResetStage,
                 pCurrentVolume, volume, pipe, device, csw, history>>

LangComplete ==
  /\ control # <<>> /\ ~bInit /\ bGetLang
  /\ bGetLang' = FALSE
  /\ bGetSerial' = TRUE
  /\ control' = Append(Tail(control), "serial")
  /\ UNCHANGED <<open, bLunCount, dwTag, bInit, bCswRetry, bResetStage,
                 pCurrentVolume, volume, pipe, device, csw, history>>

\* The volumes are allocated and discovery begins; without memory, nothing.
SerialComplete ==
  /\ control # <<>> /\ ~bInit /\ ~bGetLang /\ bGetSerial
  /\ bGetSerial' = FALSE
  /\ open' \in BOOLEAN
  /\ control' = Tail(control)
  /\ UNCHANGED <<bLunCount, dwTag, bInit, bGetLang, bCswRetry, bResetStage,
                 pCurrentVolume, volume, pipe, device, csw, history>>

\* ControlIrp is done and the driver is past its initialisation.  Without
\* bCswRetry and a reset stage nothing is left to do; FlagsNameRequest below
\* shows that this cannot be.
ControlDone == control # <<>> /\ ~bInit /\ ~bGetLang /\ ~bGetSerial

\* Mutation of ClearHaltComplete: the CSW is not asked for again.
ClearHaltForgets ==
  /\ ControlDone /\ bCswRetry
  /\ control' = Tail(control)
  /\ UNCHANGED <<open, bLunCount, dwTag, flags, pCurrentVolume, volume, pipe,
                 device, csw, history>>

\* An endpoint's halt is cleared, whatever the status: try the CSW again.
ClearHaltComplete ==
  /\ ControlDone /\ bCswRetry
  /\ control' = Tail(control)
  /\ pipe' = [pipe EXCEPT !["in"] = Started(@, Csw)]
  /\ UNCHANGED <<open, bLunCount, dwTag, flags, pCurrentVolume, volume, device,
                 csw, history>>

\* Reset done, or failed: the status is not looked at.
ResetComplete(status) ==
  /\ ControlDone /\ ~bCswRetry
  /\ bResetStage = "cmd"
  /\ bResetStage' = "clearin"
  /\ control' = Append(Tail(control), "clearin")
  /\ device' = IF status = "ok" THEN NoCommand ELSE device
  /\ UNCHANGED <<open, bLunCount, dwTag, bInit, bGetLang, bGetSerial, bCswRetry,
                 pCurrentVolume, volume, pipe, csw, history>>

ClearInComplete ==
  /\ ControlDone /\ ~bCswRetry
  /\ bResetStage = "clearin"
  /\ bResetStage' = "clearout"
  /\ control' = Append(Tail(control), "clearout")
  /\ UNCHANGED <<open, bLunCount, dwTag, bInit, bGetLang, bGetSerial, bCswRetry,
                 pCurrentVolume, volume, pipe, device, csw, history>>

\* Recovered: the command of the current volume has failed.
ClearOutComplete ==
  /\ ControlDone /\ ~bCswRetry
  /\ bResetStage = "clearout"
  /\ bResetStage' = "none"
  /\ control' = Tail(control)
  /\ volume' = [volume EXCEPT ![pCurrentVolume].bBusy = FALSE]
  /\ CallBack(pCurrentVolume, TRUE, 1)
  /\ UNCHANGED <<open, bLunCount, dwTag, bInit, bGetLang, bGetSerial, bCswRetry,
                 pCurrentVolume, pipe, device, csw>>

-----------------------------------------------------------------------------
(* MGC_BotCbwComplete.                                                     *)

CbwDone(l) == pipe["out"] # <<>> /\ Head(pipe["out"]) = Cbw(l)

TakenCommand(l, leftover) ==
  [lun |-> l, tag |-> volume[l].dCbwTag, active |-> TRUE, leftover |-> leftover]

\* The CBW did not go out; the device may have taken it all the same.
CbwFailed(l) ==
  /\ CbwDone(l)
  /\ device' \in {device, TakenCommand(l, FALSE)}
  /\ volume' = [volume EXCEPT ![l].bError = TRUE]
  /\ StartReset
  /\ pipe' = [pipe EXCEPT !["out"] = Tail(@)]
  /\ UNCHANGED <<open, bLunCount, dwTag, bInit, bGetLang, bGetSerial, bCswRetry,
                 pCurrentVolume, csw, history>>

\* The device has the command: go on with its data stage, or its status.
CbwComplete(l, leftover) ==
  /\ CbwDone(l)
  /\ device' = TakenCommand(l, leftover)
  /\ pCurrentVolume' = l
  /\ \/ /\ volume[l].kind = "in"
        /\ volume' = [volume EXCEPT ![l].bTransferStage = "datain"]
        /\ pipe' = Advanced("out", "in", Data(l))
     \/ /\ volume[l].kind = "out"
        /\ volume' = [volume EXCEPT ![l].bTransferStage = "dataout"]
        /\ pipe' = Advanced("out", "out", Data(l))
     \/ /\ volume[l].kind = "nodata"
        /\ pipe' = Advanced("out", "in", Csw)
        /\ UNCHANGED volume
  /\ UNCHANGED <<open, bLunCount, dwTag, flags, control, csw, history>>

-----------------------------------------------------------------------------
(* MGC_BotDataComplete.                                                    *)

DataPipe(l) == IF volume[l].kind = "in" THEN "in" ELSE "out"

DataDone(l) == pipe[DataPipe(l)] # <<>> /\ Head(pipe[DataPipe(l)]) = Data(l)

\* Mutation of DataStalled: asks for the CSW at once as well.
DataStalledHasty(l) ==
  /\ DataDone(l)
  /\ volume' = [volume EXCEPT ![l].bError = TRUE]
  /\ bCswRetry' = TRUE
  /\ control' = Append(control, "clearhalt")
  /\ pipe' = Advanced(DataPipe(l), "in", Csw)
  /\ UNCHANGED <<open, bLunCount, dwTag, bInit, bGetLang, bGetSerial,
                 bResetStage, pCurrentVolume, device, csw, history>>

\* STALL: clear the halt, then ask for the CSW.
DataStalled(l) ==
  /\ DataDone(l)
  /\ volume' = [volume EXCEPT ![l].bError = TRUE]
  /\ bCswRetry' = TRUE
  /\ control' = Append(control, "clearhalt")
  /\ pipe' = [pipe EXCEPT ![DataPipe(l)] = Tail(@)]
  /\ UNCHANGED <<open, bLunCount, dwTag, bInit, bGetLang, bGetSerial,
                 bResetStage, pCurrentVolume, device, csw, history>>

\* Mutation of DataRetried: one retry more.
DataRetriedOften(l) ==
  /\ DataDone(l)
  /\ volume[l].bRetries <= MaxDataRetries
  /\ volume' = [volume EXCEPT ![l].bError = TRUE,
                              ![l].bRetries = @ + 1]
  /\ pipe' = Advanced(DataPipe(l), DataPipe(l), Data(l))
  /\ UNCHANGED <<open, bLunCount, dwTag, flags, pCurrentVolume, control, device,
                 csw, history>>

\* Any other error: the whole data stage again.
DataRetried(l) ==
  /\ DataDone(l)
  /\ volume[l].bRetries < MaxDataRetries
  /\ volume' = [volume EXCEPT ![l].bError = TRUE,
                              ![l].bRetries = @ + 1]
  /\ pipe' = Advanced(DataPipe(l), DataPipe(l), Data(l))
  /\ UNCHANGED <<open, bLunCount, dwTag, flags, pCurrentVolume, control, device,
                 csw, history>>

\* Mutation of DataGivenUp: goes on to the CSW after the callback.
DataGivenUpGoesOn(l) ==
  /\ DataDone(l)
  /\ volume[l].bRetries >= MaxDataRetries
  /\ volume' = [volume EXCEPT ![l].bError = TRUE,
                              ![l].bRetries = @ + 1]
  /\ pipe' = Advanced(DataPipe(l), "in", Csw)
  /\ CallBack(l, TRUE, 0)
  /\ UNCHANGED <<open, bLunCount, dwTag, flags, pCurrentVolume, control, device,
                 csw>>

\* Too many errors: call back, and leave bBusy set.
DataGivenUp(l) ==
  /\ DataDone(l)
  /\ volume[l].bRetries >= MaxDataRetries
  /\ volume' = [volume EXCEPT ![l].bError = TRUE,
                              ![l].bRetries = @ + 1]
  /\ pipe' = [pipe EXCEPT ![DataPipe(l)] = Tail(@)]
  /\ CallBack(l, TRUE, 0)
  /\ UNCHANGED <<open, bLunCount, dwTag, flags, pCurrentVolume, control, device,
                 csw>>

\* All of the data, or less of it, has moved: ask for the CSW.
DataComplete(l) ==
  /\ DataDone(l)
  /\ volume' = [volume EXCEPT ![l].bRetries = 0,
                              ![l].bTransferStage = "csw"]
  /\ pipe' = Advanced(DataPipe(l), "in", Csw)
  /\ UNCHANGED <<open, bLunCount, dwTag, flags, pCurrentVolume, control, device,
                 csw, history>>

\* 13 bytes of data: MGC_BotCswComplete is called with the volume where it
\* expects the protocol data, fails its self test and returns.
DataLooksLikeCsw(l) ==
  /\ CswAsData
  /\ DataDone(l)
  /\ volume[l].bTransferStage = "datain"
  /\ volume' = [volume EXCEPT ![l].bRetries = 0]
  /\ pipe' = [pipe EXCEPT ![DataPipe(l)] = Tail(@)]
  /\ UNCHANGED <<open, bLunCount, dwTag, flags, pCurrentVolume, control, device,
                 csw, history>>

-----------------------------------------------------------------------------
(* The CSW transfer: the device answers, then MGC_BotCswComplete runs.     *)

CswStarted == pipe["in"] # <<>> /\ Head(pipe["in"]) = Csw

DeviceAnswers(a) ==
  /\ CswStarted
  /\ csw = NoCsw
  /\ csw' = a
  /\ served' = IF /\ a.dwStatus = "ok" /\ a.whole /\ device.active
                  /\ a.dCswTag = device.tag /\ a.bCswStatus = 0
                 THEN served \cup {device.lun}
                 ELSE served
  /\ device' = [device EXCEPT !.leftover = @ /\ ~(a.whole /\ a.dCswTag # device.tag)]
  /\ UNCHANGED <<open, bLunCount, dwTag, flags, pCurrentVolume, volume, control,
                 pipe, pending, done>>

CswDone == CswStarted /\ csw # NoCsw

\* The current volume after a failed CSW.
CswError(stage) ==
  volume' = [volume EXCEPT ![pCurrentVolume].bError = TRUE,
                           ![pCurrentVolume].bTransferStage = stage]

\* The first STALL is cleared and the CSW asked for again.
CswStalled ==
  /\ CswDone
  /\ csw.dwStatus = "stalled" /\ ~bCswRetry
  /\ CswError("none")
  /\ bCswRetry' = TRUE
  /\ control' = Append(control, "clearhalt")
  /\ pipe' = [pipe EXCEPT !["in"] = Tail(@)]
  /\ csw' = NoCsw
  /\ UNCHANGED <<open, bLunCount, dwTag, bInit, bGetLang, bGetSerial,
                 bResetStage, pCurrentVolume, device, history>>

\* The first other error is retried at once.
CswRetried ==
  /\ CswDone
  /\ csw.dwStatus = "error" /\ ~bCswRetry
  /\ CswError("csw")
  /\ bCswRetry' = TRUE
  /\ pipe' = Advanced("in", "in", Csw)
  /\ csw' = NoCsw
  /\ UNCHANGED <<open, bLunCount, dwTag, bInit, bGetLang, bGetSerial,
                 bResetStage, pCurrentVolume, control, device, history>>

\* A second USB error, a wrong length, a wrong tag not seen on a retry, and a
\* phase error all reset the device.
BadCsw ==
  \/ csw.dwStatus # "ok" /\ bCswRetry
  \/ csw.dwStatus = "ok" /\ ~csw.whole
  \/ /\ csw.dwStatus = "ok" /\ csw.whole /\ ~bCswRetry
     /\ csw.dCswTag # volume[pCurrentVolume].dCbwTag
  \/ /\ csw.dwStatus = "ok" /\ csw.whole /\ csw.bCswStatus = 2
     /\ csw.dCswTag = volume[pCurrentVolume].dCbwTag

\* Mutation of CswFailed: bCswRetry survives into the reset.
CswFailedRetrying ==
  /\ CswDone
  /\ BadCsw
  /\ CswError("none")
  /\ StartReset
  /\ pipe' = [pipe EXCEPT !["in"] = Tail(@)]
  /\ csw' = NoCsw
  /\ UNCHANGED <<open, bLunCount, dwTag, bInit, bGetLang, bGetSerial, bCswRetry,
                 pCurrentVolume, device, history>>

CswFailed ==
  /\ CswDone
  /\ BadCsw
  /\ CswError("none")
  /\ bCswRetry' = FALSE
  /\ StartReset
  /\ pipe' = [pipe EXCEPT !["in"] = Tail(@)]
  /\ csw' = NoCsw
  /\ UNCHANGED <<open, bLunCount, dwTag, bInit, bGetLang, bGetSerial,
                 pCurrentVolume, device, history>>

\* On a retry, a CSW with another tag is skipped, once.
CswSkipped ==
  /\ CswDone
  /\ csw.dwStatus = "ok" /\ csw.whole /\ bCswRetry
  /\ csw.dCswTag # volume[pCurrentVolume].dCbwTag
  /\ volume' = [volume EXCEPT ![pCurrentVolume].bTransferStage = "csw"]
  /\ bCswRetry' = FALSE
  /\ pipe' = Advanced("in", "in", Csw)
  /\ csw' = NoCsw
  /\ UNCHANGED <<open, bLunCount, dwTag, bInit, bGetLang, bGetSerial,
                 bResetStage, pCurrentVolume, control, device, history>>

\* Mutation of CswComplete: any CSW will do, whatever its tag.
CswCompleteUntagged ==
  /\ CswDone
  /\ csw.dwStatus = "ok" /\ csw.whole /\ csw.bCswStatus # 2
  /\ bCswRetry' = FALSE
  /\ volume' = [volume EXCEPT ![pCurrentVolume].bTransferStage = "none",
                              ![pCurrentVolume].bBusy = FALSE]
  /\ pipe' = [pipe EXCEPT !["in"] = Tail(@)]
  /\ csw' = NoCsw
  /\ CallBack(pCurrentVolume, volume[pCurrentVolume].bError, csw.bCswStatus)
  /\ UNCHANGED <<open, bLunCount, dwTag, bInit, bGetLang, bGetSerial,
                 bResetStage, pCurrentVolume, control, device>>

\* The command is over; success is no USB error on the way and status 0.
CswComplete ==
  /\ CswDone
  /\ csw.dwStatus = "ok" /\ csw.whole /\ csw.bCswStatus # 2
  /\ csw.dCswTag = volume[pCurrentVolume].dCbwTag
  /\ bCswRetry' = FALSE
  /\ volume' = [volume EXCEPT ![pCurrentVolume].bTransferStage = "none",
                              ![pCurrentVolume].bBusy = FALSE]
  /\ pipe' = [pipe EXCEPT !["in"] = Tail(@)]
  /\ csw' = NoCsw
  /\ CallBack(pCurrentVolume, volume[pCurrentVolume].bError, csw.bCswStatus)
  /\ UNCHANGED <<open, bLunCount, dwTag, bInit, bGetLang, bGetSerial,
                 bResetStage, pCurrentVolume, control, device>>

-----------------------------------------------------------------------------
ControlComplete ==
  \/ \E status \in Statuses, top \in Luns : MaxLunComplete(status, top)
  \/ LangComplete
  \/ SerialComplete
  \/ ClearHaltComplete
  \/ \E status \in Statuses : ResetComplete(status)
  \/ ClearInComplete
  \/ ClearOutComplete

BulkComplete ==
  \/ \E l \in Luns : \/ CbwFailed(l)
                     \/ \E leftover \in BOOLEAN : CbwComplete(l, leftover)
                     \/ DataStalled(l)
                     \/ DataRetried(l)
                     \/ DataGivenUp(l)
                     \/ DataComplete(l)
                     \/ DataLooksLikeCsw(l)
  \/ \E a \in CswAnswers(device) : DeviceAnswers(a)
  \/ CswStalled
  \/ CswRetried
  \/ CswFailed
  \/ CswSkipped
  \/ CswComplete

Next ==
  \/ StartDevice
  \/ \E l \in Luns, kind \in Kinds : SendCmd(l, kind)
  \/ Remove
  \/ ControlComplete
  \/ BulkComplete

Spec == Init /\ [][Next]_vars

\* Every transfer ends: endpoints 0 and bulk have a NAK limit (mu_mbot.c:286,
\* mu_hdr.c:634, 698), and the controller gives up after three errors.
FairSpec == Spec /\ WF_vars(ControlComplete) /\ WF_vars(BulkComplete)

-----------------------------------------------------------------------------
(* Properties                                                              *)

TypeOK ==
  /\ open \in BOOLEAN
  /\ bLunCount \in 0 .. MaxLuns
  /\ dwTag \in Tags
  /\ bInit \in BOOLEAN /\ bGetLang \in BOOLEAN /\ bGetSerial \in BOOLEAN
  /\ bCswRetry \in BOOLEAN
  /\ bResetStage \in ResetStages
  /\ pCurrentVolume \in Luns
  /\ volume \in [Luns -> Volumes]
  /\ control \in Seq(Requests)
  /\ pipe \in [{"in", "out"} -> Seq(Irps)]
  /\ device \in Commands
  /\ csw \in {NoCsw} \cup UNION {CswAnswers(d) : d \in Commands}
  /\ pending \subseteq Luns /\ served \subseteq Luns
  /\ done \in [lun : Luns, good : BOOLEAN]

\* A command is called back at most once, and success is reported only when
\* the device has said, in a CSW that answers this very command, that it was
\* carried out: stale CSWs, retries and resets never fake a success.
Transport == INSTANCE MsdTransport
ImplementsTransport == Transport!Spec

\* MGC_BotControlIrpComplete has only the flags to tell what was completed;
\* they always name the request that was submitted (mu_mbot.c:688-817).
Dispatched ==
  CASE bInit -> "maxlun"
    [] ~bInit /\ bGetLang -> "lang"
    [] ~bInit /\ ~bGetLang /\ bGetSerial -> "serial"
    [] ~bInit /\ ~bGetLang /\ ~bGetSerial /\ bCswRetry -> "clearhalt"
    [] OTHER -> IF bResetStage = "cmd" THEN "reset" ELSE bResetStage
FlagsNameRequest == control # <<>> => Head(control) = Dispatched

\* Nothing is in flight on the bulk pipes while the device is being reset or
\* a halt is cleared, so the cancellations that are compiled out of
\* MGC_MsdBotReset (mu_mbot.c:399-419) are not missed, and the pipes flushed
\* at the end of the recovery are empty.
RecoveryIsQuiet ==
  control # <<>> => Len(control) = 1 /\ pipe["in"] = <<>> /\ pipe["out"] = <<>>

\* Csw and CswIrp are shared by all units "since only one command can be
\* outstanding" (mu_mbot.c:64): at most one bulk IRP of them all is in
\* flight, if the client uses one unit at a time (MGC_BotProtocolSendCmd
\* looks at the bBusy of one unit only), whatever path a command ends on.
OneCommandOutstanding == Len(pipe["in"]) + Len(pipe["out"]) <= 1

\* Unit l's command has lost its data stage: 13 bytes were taken for a CSW.
Misread(l) == /\ CswAsData
              /\ volume[l].bTransferStage = "datain"
              /\ pipe["in"] = <<>> /\ pipe["out"] = <<>>
              /\ control = <<>>

\* Every command accepted is called back, or its device is removed, whatever
\* stalls, fails, is retried or answered with a stale CSW; the one exception
\* is a data stage of 13 bytes, after which nothing is in flight any more.
EveryCommandCompletes ==
  \A l \in Luns : l \in pending ~> l \notin pending \/ Misread(l)
=============================================================================
