---------------------------- MODULE MsdBotProofs ----------------------------
(***************************************************************************)
(* Proofs about MsdBot for every number of units, retry limit and tag      *)
(* width, with a client that has one command outstanding at a time         *)
(* (~Concurrent): the types, that nothing overlaps a recovery, that the    *)
(* flags name the request that completes, and that the transport           *)
(* implements MsdTransport.                                                *)
(***************************************************************************)
EXTENDS MsdBot, TLAPS

Quiet == pipe["in"] = <<>> /\ pipe["out"] = <<>>
InFlight == ~Quiet \/ control # <<>>

\* One request or one IRP is in flight, and it is what the flags or
\* pCurrentVolume say.
FlightInv ==
  \/ control = <<>> /\ Quiet
  \/ control = <<Dispatched>> /\ Quiet
  \/ /\ control = <<>> /\ pipe["in"] = <<>>
     /\ pipe["out"] \in {<<Cbw(pCurrentVolume)>>, <<Data(pCurrentVolume)>>}
  \/ /\ control = <<>> /\ pipe["out"] = <<>>
     /\ pipe["in"] \in {<<Csw>>, <<Data(pCurrentVolume)>>}

\* What is in flight once the device is open works for the one command
\* pending, which is the current volume's.
ClientInv ==
  /\ pending \subseteq {pCurrentVolume}
  /\ open => ~bInit /\ ~bGetLang /\ ~bGetSerial
  /\ open /\ InFlight => pCurrentVolume \in pending /\ volume[pCurrentVolume].bBusy
  /\ ~open => pending = {} /\ Quiet
  /\ ~open /\ control # <<>> => bInit \/ bGetLang \/ bGetSerial

\* The retry flag is set only while the CSW is asked for again, and a unit
\* beyond its retry limit takes no commands.
RetryInv ==
  /\ bCswRetry => open /\ (pipe["in"] = <<Csw>> \/ control # <<>>)
  /\ \A l \in Luns : ~volume[l].bBusy => volume[l].bRetries <= MaxDataRetries
  /\ open /\ InFlight => volume[pCurrentVolume].bRetries <= MaxDataRetries

\* Beyond its CBW, the device works on the command of the current volume, and
\* a CSW that answers it with status 0 says that it was served.
DeviceInv ==
  /\ \/ pipe["in"] # <<>>
     \/ pipe["out"] = <<Data(pCurrentVolume)>>
     \/ bCswRetry
     => /\ device.active
        /\ device.lun = pCurrentVolume
        /\ device.tag = volume[pCurrentVolume].dCbwTag
  /\ csw # NoCsw => pipe["in"] = <<Csw>>
  /\ csw.dwStatus = "ok" /\ csw.whole /\ csw.bCswStatus = 0
       /\ csw.dCswTag = volume[pCurrentVolume].dCbwTag
     => pCurrentVolume \in served
  /\ served \subseteq pending

IInv == TypeOK /\ FlightInv /\ ClientInv /\ RetryInv /\ DeviceInv

-----------------------------------------------------------------------------
(* Sequences of at most one element, and the pipes                         *)

LEMMA One ==
  ASSUME NEW x
  PROVE  /\ <<x>> # <<>>
         /\ Head(<<x>>) = x
         /\ Tail(<<x>>) = <<>>
         /\ Append(<<>>, x) = <<x>>
         /\ <<x>> \o <<>> = <<x>>
OBVIOUS

LEMMA OneType ==
  ASSUME NEW S, NEW x \in S
  PROVE  <<x>> \in Seq(S) /\ <<>> \in Seq(S) /\ Len(<<x>>) = 1 /\ Len(<<>>) = 0
OBVIOUS

LEMMA SameOne ==
  ASSUME NEW x, NEW y, <<x>> = <<y>>
  PROVE  x = y
OBVIOUS

LEMMA IrpTypes ==
  /\ Csw \in Irps
  /\ \A l \in Luns : Cbw(l) \in Irps /\ Data(l) \in Irps
  /\ \A l, m \in Luns : /\ (Cbw(l) = Cbw(m) => l = m)
                        /\ (Data(l) = Data(m) => l = m)
                        /\ Cbw(l) # Data(m) /\ Cbw(l) # Csw /\ Data(l) # Csw
BY MsdBotAssumption DEF Csw, Cbw, Data, Irps, Luns

Directions == {"in", "out"}

\* A pipe whose one IRP has ended, without and with a new one started.
LEMMA Emptied ==
  ASSUME pipe \in [Directions -> Seq(Irps)], NEW p \in Directions, NEW x \in Irps,
         pipe[p] = <<x>>, \A q \in Directions \ {p} : pipe[q] = <<>>,
         pipe' = [pipe EXCEPT ![p] = Tail(@)]
  PROVE  pipe' \in [Directions -> Seq(Irps)] /\ Quiet'
BY One, OneType DEF Directions, Quiet

LEMMA Renewed ==
  ASSUME pipe \in [Directions -> Seq(Irps)], NEW p \in Directions,
         NEW q \in Directions, NEW x \in Irps, NEW irp \in Irps,
         pipe[p] = <<x>>, \A r \in Directions \ {p} : pipe[r] = <<>>,
         pipe' = Advanced(p, q, irp)
  PROVE  /\ pipe' \in [Directions -> Seq(Irps)]
         /\ pipe'[q] = <<irp>>
         /\ \A r \in Directions \ {q} : pipe'[r] = <<>>
<1>1. Tail(pipe[p]) = <<>> /\ Append(<<>>, irp) = <<irp>> /\ <<irp>> \o <<>> = <<irp>>
  BY One
<1>2. <<irp>> \in Seq(Irps) /\ <<>> \in Seq(Irps)
  BY OneType
<1>3. CASE p = q
  BY <1>1, <1>2, <1>3 DEF Advanced
<1>4. CASE p # q
  BY <1>1, <1>2, <1>4 DEF Advanced, Started
<1> QED BY <1>3, <1>4

LEMMA FirstStarted ==
  ASSUME pipe \in [Directions -> Seq(Irps)], NEW q \in Directions, NEW irp \in Irps,
         Quiet, pipe' = [pipe EXCEPT ![q] = Started(@, irp)]
  PROVE  /\ pipe' \in [Directions -> Seq(Irps)]
         /\ pipe'[q] = <<irp>>
         /\ \A r \in Directions \ {q} : pipe'[r] = <<>>
BY One, OneType DEF Quiet, Directions, Started

-----------------------------------------------------------------------------
(* What the invariant says when a callback runs                            *)

LEMMA AtCbw ==
  ASSUME IInv, NEW l \in Luns, CbwDone(l)
  PROVE  /\ l = pCurrentVolume /\ control = <<>> /\ open
         /\ pipe["out"] = <<Cbw(l)>> /\ pipe["in"] = <<>>
         /\ pending = {l} /\ volume[l].bBusy /\ ~bCswRetry
         /\ volume[l].bRetries <= MaxDataRetries
         /\ csw = NoCsw
<1> USE DEF IInv
<1>1. pCurrentVolume \in Luns
  BY DEF TypeOK
<1>2. ~Quiet /\ control = <<>>
  BY DEF CbwDone, FlightInv, Quiet
<1>3. pipe["in"] = <<>> /\ pipe["out"] = <<Cbw(pCurrentVolume)>> /\ l = pCurrentVolume
  BY <1>1, <1>2, One, IrpTypes DEF CbwDone, FlightInv
<1>4. open /\ pending = {l} /\ volume[l].bBusy /\ volume[l].bRetries <= MaxDataRetries
  BY <1>2, <1>3 DEF ClientInv, RetryInv, InFlight
<1>5. ~bCswRetry /\ csw = NoCsw
  BY <1>2, <1>3, One DEF RetryInv, DeviceInv
<1> QED BY <1>2, <1>3, <1>4, <1>5

LEMMA AtData ==
  ASSUME IInv, NEW l \in Luns, DataDone(l)
  PROVE  /\ l = pCurrentVolume /\ control = <<>> /\ open
         /\ pipe[DataPipe(l)] = <<Data(l)>> /\ DataPipe(l) \in Directions
         /\ \A q \in Directions \ {DataPipe(l)} : pipe[q] = <<>>
         /\ pending = {l} /\ volume[l].bBusy /\ ~bCswRetry
         /\ volume[l].bRetries <= MaxDataRetries
         /\ csw = NoCsw
         /\ device.active /\ device.lun = l /\ device.tag = volume[l].dCbwTag
<1> USE DEF IInv
<1>1. pCurrentVolume \in Luns /\ DataPipe(l) \in Directions
  BY DEF TypeOK, DataPipe, Directions
<1>2. ~Quiet /\ control = <<>>
  BY DEF DataDone, DataPipe, FlightInv, Quiet
<1>3. /\ pipe[DataPipe(l)] = <<Data(pCurrentVolume)>>
      /\ l = pCurrentVolume
      /\ \A q \in Directions \ {DataPipe(l)} : pipe[q] = <<>>
  BY <1>1, <1>2, One, IrpTypes DEF DataDone, DataPipe, FlightInv, Directions
<1>4. open /\ pending = {l} /\ volume[l].bBusy /\ volume[l].bRetries <= MaxDataRetries
  BY <1>2, <1>3 DEF ClientInv, RetryInv, InFlight
<1>5. pipe["in"] # <<Csw>>
  <2>1. CASE DataPipe(l) = "in"
    BY <1>1, <1>3, <2>1, One, IrpTypes
  <2>2. CASE DataPipe(l) = "out"
    BY <1>3, <2>2, One DEF Directions
  <2> QED BY <1>1, <2>1, <2>2 DEF Directions
<1>6. ~bCswRetry /\ csw = NoCsw
  BY <1>2, <1>5 DEF RetryInv, DeviceInv
<1>7. pipe["in"] # <<>> \/ pipe["out"] = <<Data(pCurrentVolume)>>
  BY <1>1, <1>3, One DEF Directions
<1> QED BY <1>1, <1>2, <1>3, <1>4, <1>6, <1>7 DEF DeviceInv

LEMMA AtCsw ==
  ASSUME IInv, CswStarted
  PROVE  /\ control = <<>> /\ open
         /\ pipe["in"] = <<Csw>> /\ pipe["out"] = <<>>
         /\ pCurrentVolume \in Luns /\ pending = {pCurrentVolume}
         /\ volume[pCurrentVolume].bBusy
         /\ volume[pCurrentVolume].bRetries <= MaxDataRetries
         /\ device.active /\ device.lun = pCurrentVolume
         /\ device.tag = volume[pCurrentVolume].dCbwTag
<1> USE DEF IInv
<1>1. pCurrentVolume \in Luns
  BY DEF TypeOK
<1>2. ~Quiet /\ control = <<>>
  BY DEF CswStarted, FlightInv, Quiet
<1>3. pipe["in"] = <<Csw>> /\ pipe["out"] = <<>>
  BY <1>1, <1>2, One, IrpTypes DEF CswStarted, FlightInv, Quiet
<1>4. /\ open /\ pending = {pCurrentVolume} /\ volume[pCurrentVolume].bBusy
      /\ volume[pCurrentVolume].bRetries <= MaxDataRetries
  BY <1>2 DEF ClientInv, RetryInv, InFlight
<1> QED BY <1>1, <1>2, <1>3, <1>4, One DEF DeviceInv

LEMMA AtControl ==
  ASSUME IInv, control # <<>>
  PROVE  control = <<Dispatched>> /\ Tail(control) = <<>> /\ Quiet /\ csw = NoCsw
<1> USE DEF IInv
<1>1. control = <<Dispatched>> /\ Quiet
  BY DEF FlightInv
<1> QED BY <1>1, One DEF DeviceInv, Quiet

\* ... past the initialisation of the driver.
LEMMA AtRecovery ==
  ASSUME IInv, ControlDone
  PROVE  /\ open /\ pCurrentVolume \in Luns /\ pending = {pCurrentVolume}
         /\ volume[pCurrentVolume].bBusy
         /\ volume[pCurrentVolume].bRetries <= MaxDataRetries
BY DEF IInv, TypeOK, ControlDone, ClientInv, RetryInv, InFlight

-----------------------------------------------------------------------------
(* IInv is inductive: one lemma per action                                 *)

LEMMA InitIInv == Init => IInv
<1> SUFFICES ASSUME Init PROVE IInv
  OBVIOUS
<1> USE MsdBotAssumption DEF Init
<1>1. TypeOK
  <2>1. NewVolume \in Volumes /\ NoCommand \in Commands /\ 0 \in Luns /\ 0 \in Tags
    BY DEF NewVolume, Volumes, Kinds, Stages, Tags, NoCommand, Commands, Luns
  <2>2. control \in Seq(Requests) /\ pipe \in [{"in", "out"} -> Seq(Irps)]
    OBVIOUS
  <2>3. volume \in [Luns -> Volumes] /\ bResetStage \in ResetStages
    BY <2>1 DEF ResetStages
  <2>4. done \in [lun : Luns, good : BOOLEAN]
    BY <2>1 DEF NoCallback
  <2>5. /\ open \in BOOLEAN /\ bInit \in BOOLEAN /\ bGetLang \in BOOLEAN
        /\ bGetSerial \in BOOLEAN /\ bCswRetry \in BOOLEAN
    BY Zenon
  <2> QED BY <2>1, <2>2, <2>3, <2>4, <2>5 DEF TypeOK
<1>2. FlightInv
  BY DEF FlightInv, Quiet
<1>3. ClientInv
  BY DEF ClientInv, Quiet
<1>4. RetryInv
  <2>1. NewVolume.bRetries = 0
    BY DEF NewVolume
  <2> QED BY <2>1 DEF RetryInv
<1>5. DeviceInv
  <2>1. NoCsw.dwStatus = "none"
    BY DEF NoCsw
  <2> QED BY <2>1 DEF DeviceInv
<1> QED BY <1>1, <1>2, <1>3, <1>4, <1>5 DEF IInv

LEMMA StartDeviceIInv == IInv /\ StartDevice => IInv'
<1> SUFFICES ASSUME IInv, StartDevice PROVE IInv'
  OBVIOUS
<1> USE DEF IInv, StartDevice, history
<1>1. TypeOK'
  <2>1. control' \in Seq(Requests)
    BY DEF Requests
  <2>2. bInit' \in BOOLEAN
    BY Zenon
  <2> QED BY <2>1, <2>2 DEF TypeOK
<1>2. FlightInv'
  BY DEF FlightInv, ClientInv, Quiet, Dispatched
<1>3. ClientInv'
  BY DEF ClientInv, InFlight, Quiet
<1>4. RetryInv'
  BY DEF RetryInv, InFlight, Quiet
<1>5. DeviceInv'
  BY DEF DeviceInv
<1> QED BY <1>1, <1>2, <1>3, <1>4, <1>5

LEMMA SendCmdIInv ==
  ASSUME ~Concurrent, IInv, NEW l \in Luns, NEW kind \in Kinds, SendCmd(l, kind)
  PROVE  IInv'
<1> USE MsdBotAssumption DEF IInv, SendCmd, flags
<1>1. pending = {} /\ open /\ Quiet /\ control = <<>> /\ ~bCswRetry /\ csw = NoCsw
  BY One DEF ClientInv, InFlight, RetryInv, DeviceInv, Quiet
<1>2. /\ pipe' \in [Directions -> Seq(Irps)]
      /\ pipe'["out"] = <<Cbw(l)>>
      /\ pipe'["in"] = <<>>
  BY <1>1, FirstStarted, IrpTypes DEF TypeOK, Directions
<1>3. /\ volume' \in [Luns -> Volumes]
      /\ volume'[l].bBusy
      /\ volume'[l].bRetries = volume[l].bRetries
      /\ \A m \in Luns \ {l} : volume'[m] = volume[m]
  <2>1. dwTag' \in Tags
    BY DEF TypeOK, Tags
  <2>2. /\ volume \in [Luns -> Volumes]
        /\ volume' = [volume EXCEPT ![l].bBusy = TRUE, ![l].bError = FALSE,
                        ![l].bTransferStage = "cbw", ![l].dCbwTag = dwTag',
                        ![l].kind = kind]
    BY DEF TypeOK
  <2>3. /\ volume'[l].bBusy
        /\ volume'[l].bRetries = volume[l].bRetries
        /\ \A m \in Luns \ {l} : volume'[m] = volume[m]
    BY <2>2 DEF Volumes
  <2>4. volume' \in [Luns -> Volumes]
    <3> HIDE DEF SendCmd
    <3>1. volume'[l] = [bBusy |-> TRUE, bError |-> FALSE, bTransferStage |-> "cbw",
                        kind |-> kind, dCbwTag |-> dwTag',
                        bRetries |-> volume[l].bRetries]
      BY <2>2, ZenonT(60) DEF Volumes
    <3>2. volume[l].bRetries \in 0 .. MaxDataRetries + 1
      BY <2>2 DEF Volumes
    <3>3. volume'[l] \in Volumes
      BY <2>1, <3>1, <3>2 DEF Volumes, Stages
    <3>4. DOMAIN volume' = Luns /\ volume' = [m \in Luns |-> volume'[m]]
      BY <2>2
    <3> QED BY <2>2, <2>3, <3>3, <3>4
  <2> QED BY <2>3, <2>4
<1>4. TypeOK'
  <2>1. dwTag' \in Tags /\ pCurrentVolume' \in Luns /\ pending' \subseteq Luns
    BY DEF TypeOK, Tags
  <2> HIDE DEF SendCmd
  <2>2. UNCHANGED <<open, bLunCount, flags, control, device, csw, served, done>>
    BY DEF SendCmd
  <2> QED BY <1>2, <1>3, <2>1, <2>2 DEF TypeOK, Directions
<1>5. FlightInv'
  BY <1>1, <1>2 DEF FlightInv
<1>6. ClientInv'
  BY <1>1, <1>3 DEF ClientInv
<1>7. RetryInv'
  BY <1>1, <1>3 DEF RetryInv
<1>8. DeviceInv'
  <2>1. <<Cbw(l)>> # <<Data(l)>>
    BY IrpTypes, SameOne
  <2>2. NoCsw.dwStatus = "none"
    BY DEF NoCsw
  <2> QED BY <1>1, <1>2, <2>1, <2>2 DEF DeviceInv
<1> QED BY <1>4, <1>5, <1>6, <1>7, <1>8

LEMMA RemoveIInv == IInv /\ Remove => IInv'
<1> SUFFICES ASSUME IInv, Remove PROVE IInv'
  OBVIOUS
<1> USE MsdBotAssumption DEF IInv, Remove
<1>1. TypeOK'
  <2>1. NewVolume \in Volumes /\ NoCommand \in Commands /\ 0 \in Luns /\ 0 \in Tags
    BY DEF NewVolume, Volumes, Kinds, Stages, Tags, NoCommand, Commands, Luns
  <2>2. control' \in Seq(Requests) /\ pipe' \in [{"in", "out"} -> Seq(Irps)]
    OBVIOUS
  <2>3. volume' \in [Luns -> Volumes] /\ bResetStage' \in ResetStages
    BY <2>1 DEF ResetStages
  <2>4. /\ open' \in BOOLEAN /\ bInit' \in BOOLEAN /\ bGetLang' \in BOOLEAN
        /\ bGetSerial' \in BOOLEAN /\ bCswRetry' \in BOOLEAN
    BY Zenon
  <2> QED BY <2>1, <2>2, <2>3, <2>4 DEF TypeOK
<1>2. FlightInv'
  BY DEF FlightInv, Quiet
<1>3. ClientInv'
  BY DEF ClientInv, Quiet
<1>4. RetryInv'
  <2>1. NewVolume.bRetries = 0
    BY DEF NewVolume
  <2> QED BY <2>1 DEF RetryInv
<1>5. DeviceInv'
  <2>1. NoCsw.dwStatus = "none"
    BY DEF NoCsw
  <2> QED BY <2>1 DEF DeviceInv
<1> QED BY <1>1, <1>2, <1>3, <1>4, <1>5

\* A request that follows another one.
LEMMA Followed ==
  ASSUME NEW r \in Requests, control # <<>>, Tail(control) = <<>>,
         control' = Append(Tail(control), r)
  PROVE  control' = <<r>> /\ control' \in Seq(Requests)
BY One, OneType

LEMMA Finished ==
  ASSUME Tail(control) = <<>>, control' = Tail(control)
  PROVE  control' = <<>> /\ control' \in Seq(Requests)
BY OneType DEF Requests

LEMMA MaxLunCompleteIInv ==
  ASSUME IInv, NEW status \in Statuses, NEW top \in Luns, MaxLunComplete(status, top)
  PROVE  IInv'
<1> USE MsdBotAssumption DEF IInv, MaxLunComplete, history
<1>1. Quiet /\ Tail(control) = <<>> /\ ~open /\ csw = NoCsw
  BY AtControl DEF ClientInv
<1>2. control' = <<"lang">> /\ control' \in Seq(Requests)
  BY <1>1, Followed DEF Requests
<1>3. TypeOK'
  <2>1. bLunCount' \in 0 .. MaxLuns
    BY DEF Luns
  <2>2. bInit' \in BOOLEAN /\ bGetLang' \in BOOLEAN
    BY Zenon
  <2> QED BY <1>2, <2>1, <2>2 DEF TypeOK
<1>4. FlightInv'
  BY <1>1, <1>2 DEF FlightInv, Quiet, Dispatched
<1>5. ClientInv'
  BY <1>1 DEF ClientInv, InFlight, Quiet
<1>6. RetryInv'
  BY <1>1 DEF RetryInv, InFlight, Quiet
<1>7. DeviceInv'
  BY DEF DeviceInv
<1> QED BY <1>3, <1>4, <1>5, <1>6, <1>7

LEMMA LangCompleteIInv == IInv /\ LangComplete => IInv'
<1> SUFFICES ASSUME IInv, LangComplete PROVE IInv'
  OBVIOUS
<1> USE DEF IInv, LangComplete, history
<1>1. Quiet /\ Tail(control) = <<>> /\ ~open /\ csw = NoCsw
  BY AtControl DEF ClientInv
<1>2. control' = <<"serial">> /\ control' \in Seq(Requests)
  BY <1>1, Followed DEF Requests
<1>3. TypeOK'
  <2>1. bGetLang' \in BOOLEAN /\ bGetSerial' \in BOOLEAN
    BY Zenon
  <2> QED BY <1>2, <2>1 DEF TypeOK
<1>4. FlightInv'
  BY <1>1, <1>2 DEF FlightInv, Quiet, Dispatched
<1>5. ClientInv'
  BY <1>1 DEF ClientInv, InFlight, Quiet
<1>6. RetryInv'
  BY <1>1 DEF RetryInv, InFlight, Quiet
<1>7. DeviceInv'
  BY DEF DeviceInv
<1> QED BY <1>3, <1>4, <1>5, <1>6, <1>7

LEMMA SerialCompleteIInv == IInv /\ SerialComplete => IInv'
<1> SUFFICES ASSUME IInv, SerialComplete PROVE IInv'
  OBVIOUS
<1> USE DEF IInv, SerialComplete, history
<1>1. /\ Quiet /\ Tail(control) = <<>> /\ ~open /\ csw = NoCsw
      /\ pending = {} /\ ~bCswRetry
  BY AtControl DEF ClientInv, RetryInv
<1>2. control' = <<>> /\ control' \in Seq(Requests)
  BY <1>1, Finished
<1>3. TypeOK'
  <2>1. bGetSerial' \in BOOLEAN
    BY Zenon
  <2> QED BY <1>2, <2>1 DEF TypeOK
<1>4. FlightInv'
  BY <1>1, <1>2 DEF FlightInv, Quiet
<1>5. ClientInv'
  BY <1>1, <1>2 DEF ClientInv, InFlight, Quiet
<1>6. RetryInv'
  BY <1>1, <1>2 DEF RetryInv, InFlight, Quiet
<1>7. DeviceInv'
  BY DEF DeviceInv
<1> QED BY <1>3, <1>4, <1>5, <1>6, <1>7

LEMMA ClearHaltCompleteIInv == IInv /\ ClearHaltComplete => IInv'
<1> SUFFICES ASSUME IInv, ClearHaltComplete PROVE IInv'
  OBVIOUS
<1> USE DEF IInv, ClearHaltComplete, history, flags
<1>1. /\ Quiet /\ Tail(control) = <<>> /\ csw = NoCsw /\ control # <<>>
      /\ open /\ InFlight
  BY AtControl, AtRecovery DEF ControlDone, InFlight
<1>2. control' = <<>> /\ control' \in Seq(Requests)
  BY <1>1, Finished
<1>3. /\ pipe' \in [Directions -> Seq(Irps)]
      /\ pipe'["in"] = <<Csw>> /\ pipe'["out"] = <<>>
  BY <1>1, FirstStarted, IrpTypes DEF TypeOK, Directions
<1>4. TypeOK'
  BY <1>2, <1>3 DEF TypeOK, Directions
<1>5. FlightInv'
  BY <1>2, <1>3 DEF FlightInv
<1>6. ClientInv'
  BY <1>1 DEF ClientInv
<1>7. RetryInv'
  BY <1>1, <1>3 DEF RetryInv
<1>8. DeviceInv'
  BY <1>3, One DEF DeviceInv
<1> QED BY <1>4, <1>5, <1>6, <1>7, <1>8

LEMMA ResetCompleteIInv ==
  ASSUME IInv, NEW status \in Statuses, ResetComplete(status)
  PROVE  IInv'
<1> USE MsdBotAssumption DEF IInv, ResetComplete, history
<1>1. /\ Quiet /\ Tail(control) = <<>> /\ csw = NoCsw /\ control # <<>>
      /\ open /\ InFlight
  BY AtControl, AtRecovery DEF ControlDone, InFlight
<1>2. control' = <<"clearin">> /\ control' \in Seq(Requests)
  BY <1>1, Followed DEF Requests
<1>3. TypeOK'
  <2>1. device' \in Commands
    BY DEF TypeOK, NoCommand, Commands, Luns, Tags
  <2> QED BY <1>2, <2>1 DEF TypeOK, ResetStages
<1>4. FlightInv'
  BY <1>1, <1>2 DEF FlightInv, Quiet, Dispatched, ControlDone
<1>5. ClientInv'
  BY <1>1, <1>2 DEF ClientInv, Quiet
<1>6. RetryInv'
  BY <1>1 DEF RetryInv
<1>7. DeviceInv'
  BY <1>1, One DEF DeviceInv, Quiet
<1> QED BY <1>3, <1>4, <1>5, <1>6, <1>7

LEMMA ClearInCompleteIInv == IInv /\ ClearInComplete => IInv'
<1> SUFFICES ASSUME IInv, ClearInComplete PROVE IInv'
  OBVIOUS
<1> USE DEF IInv, ClearInComplete, history
<1>1. /\ Quiet /\ Tail(control) = <<>> /\ csw = NoCsw /\ control # <<>>
      /\ open /\ InFlight
  BY AtControl, AtRecovery DEF ControlDone, InFlight
<1>2. control' = <<"clearout">> /\ control' \in Seq(Requests)
  BY <1>1, Followed DEF Requests
<1>3. TypeOK'
  BY <1>2 DEF TypeOK, ResetStages
<1>4. FlightInv'
  BY <1>1, <1>2 DEF FlightInv, Quiet, Dispatched, ControlDone
<1>5. ClientInv'
  BY <1>1, <1>2 DEF ClientInv, Quiet
<1>6. RetryInv'
  BY <1>1 DEF RetryInv
<1>7. DeviceInv'
  BY <1>1 DEF DeviceInv
<1> QED BY <1>3, <1>4, <1>5, <1>6, <1>7

\* A step that only changes bits of the current volume keeps its type.
LEMMA ClearOutCompleteIInv == IInv /\ ClearOutComplete => IInv'
<1> SUFFICES ASSUME IInv, ClearOutComplete PROVE IInv'
  OBVIOUS
<1> USE DEF IInv, ClearOutComplete, CallBack
<1>1. /\ Quiet /\ Tail(control) = <<>> /\ csw = NoCsw /\ open
      /\ pCurrentVolume \in Luns /\ pending = {pCurrentVolume}
      /\ volume[pCurrentVolume].bRetries <= MaxDataRetries
  BY AtControl, AtRecovery DEF ControlDone
<1>2. control' = <<>> /\ control' \in Seq(Requests)
  BY <1>1, Finished
<1>3. /\ volume' \in [Luns -> Volumes]
      /\ volume'[pCurrentVolume].bRetries = volume[pCurrentVolume].bRetries
      /\ volume'[pCurrentVolume].dCbwTag = volume[pCurrentVolume].dCbwTag
      /\ \A m \in Luns \ {pCurrentVolume} : volume'[m] = volume[m]
  BY <1>1 DEF TypeOK, Volumes
<1>4. done' \in [lun : Luns, good : BOOLEAN]
  BY <1>1
<1>5. TypeOK'
  <2>1. pending' \subseteq Luns /\ served' \subseteq Luns /\ bResetStage' \in ResetStages
    BY DEF TypeOK, ResetStages
  <2> QED BY <1>2, <1>3, <1>4, <2>1 DEF TypeOK
<1>6. FlightInv'
  BY <1>1, <1>2 DEF FlightInv, Quiet
<1>7. ClientInv'
  BY <1>1, <1>2 DEF ClientInv, InFlight, Quiet
<1>8. RetryInv'
  BY <1>1, <1>2, <1>3 DEF RetryInv, InFlight, Quiet
<1>9. DeviceInv'
  <2>1. NoCsw.dwStatus = "none"
    BY DEF NoCsw
  <2> QED BY <1>1, <2>1, One DEF DeviceInv, Quiet
<1> QED BY <1>5, <1>6, <1>7, <1>8, <1>9

\* MGC_MsdBotReset from an otherwise quiet state.
LEMMA ResetStarted ==
  ASSUME control = <<>>, StartReset
  PROVE  control' = <<"reset">> /\ control' \in Seq(Requests) /\ bResetStage' = "cmd"
BY One, OneType DEF StartReset, Requests

LEMMA TakenCommandType ==
  ASSUME TypeOK, NEW l \in Luns, NEW leftover \in BOOLEAN
  PROVE  TakenCommand(l, leftover) \in Commands
<1>1. volume[l].dCbwTag \in Tags
  BY DEF TypeOK, Volumes
<1> QED BY <1>1 DEF TakenCommand, Commands

LEMMA CbwFailedIInv ==
  ASSUME IInv, NEW l \in Luns, CbwFailed(l)
  PROVE  IInv'
<1> USE DEF IInv, CbwFailed, history
<1>1. /\ l = pCurrentVolume /\ control = <<>> /\ open
      /\ pipe["out"] = <<Cbw(l)>> /\ pipe["in"] = <<>>
      /\ pending = {l} /\ volume[l].bBusy /\ ~bCswRetry
      /\ volume[l].bRetries <= MaxDataRetries
      /\ csw = NoCsw
  BY AtCbw
<1>2. control' = <<"reset">> /\ control' \in Seq(Requests) /\ bResetStage' = "cmd"
  BY <1>1, ResetStarted
<1>3. pipe' \in [Directions -> Seq(Irps)] /\ Quiet'
  BY <1>1, Emptied, IrpTypes DEF TypeOK, Directions
<1>4. /\ volume' \in [Luns -> Volumes]
      /\ volume'[l].bRetries = volume[l].bRetries
      /\ volume'[l].bBusy = volume[l].bBusy
      /\ volume'[l].dCbwTag = volume[l].dCbwTag
      /\ \A m \in Luns \ {l} : volume'[m] = volume[m]
  BY ZenonT(60) DEF TypeOK, Volumes
<1>5. TypeOK'
  <2>1. device' \in Commands
    BY TakenCommandType DEF TypeOK
  <2> QED BY <1>2, <1>3, <1>4, <2>1 DEF TypeOK, ResetStages, Directions
<1>6. FlightInv'
  BY <1>1, <1>2, <1>3 DEF FlightInv, Dispatched, ClientInv
<1>7. ClientInv'
  BY <1>1, <1>4 DEF ClientInv
<1>8. RetryInv'
  BY <1>1, <1>4 DEF RetryInv
<1>9. DeviceInv'
  BY <1>1, <1>3, <1>4, One DEF DeviceInv, Quiet, NoCsw
<1> QED BY <1>5, <1>6, <1>7, <1>8, <1>9

LEMMA CbwCompleteIInv ==
  ASSUME IInv, NEW l \in Luns, NEW leftover \in BOOLEAN, CbwComplete(l, leftover)
  PROVE  IInv'
<1> USE DEF IInv, CbwComplete, history, flags
<1>1. /\ l = pCurrentVolume /\ control = <<>> /\ open
      /\ pipe["out"] = <<Cbw(l)>> /\ pipe["in"] = <<>>
      /\ pending = {l} /\ volume[l].bBusy /\ ~bCswRetry
      /\ volume[l].bRetries <= MaxDataRetries
      /\ csw = NoCsw
  BY AtCbw
<1>2. /\ volume' \in [Luns -> Volumes]
      /\ volume'[l].bRetries = volume[l].bRetries
      /\ volume'[l].bBusy = volume[l].bBusy
      /\ volume'[l].dCbwTag = volume[l].dCbwTag
      /\ \A m \in Luns \ {l} : volume'[m] = volume[m]
  <2> HIDE DEF CbwComplete
  <2>1. volume \in [Luns -> Volumes] /\ l \in Luns
    BY DEF TypeOK
  <2>2. CASE volume' = [volume EXCEPT ![l].bTransferStage = "datain"]
    BY <2>1, <2>2 DEF Volumes, Stages
  <2>3. CASE volume' = [volume EXCEPT ![l].bTransferStage = "dataout"]
    BY <2>1, <2>3 DEF Volumes, Stages
  <2>4. CASE volume' = volume
    BY <2>1, <2>4
  <2> QED BY <2>2, <2>3, <2>4 DEF CbwComplete
<1>3. /\ pipe' \in [Directions -> Seq(Irps)]
      /\ \/ pipe'["in"] \in {<<Csw>>, <<Data(l)>>} /\ pipe'["out"] = <<>>
         \/ pipe'["out"] = <<Data(l)>> /\ pipe'["in"] = <<>>
  <2>1. /\ pipe \in [Directions -> Seq(Irps)]
        /\ \A q \in Directions \ {"out"} : pipe[q] = <<>>
        /\ Cbw(l) \in Irps /\ Data(l) \in Irps /\ Csw \in Irps
    BY <1>1, IrpTypes DEF TypeOK, Directions
  <2>2. CASE pipe' = Advanced("out", "in", Data(l))
    BY <1>1, <2>1, <2>2, Renewed DEF Directions
  <2>3. CASE pipe' = Advanced("out", "out", Data(l))
    BY <1>1, <2>1, <2>3, Renewed DEF Directions
  <2>4. CASE pipe' = Advanced("out", "in", Csw)
    BY <1>1, <2>1, <2>4, Renewed DEF Directions
  <2> QED BY <2>2, <2>3, <2>4
<1>4. TypeOK'
  <2>1. device' \in Commands
    BY TakenCommandType DEF TypeOK
  <2> QED BY <1>2, <1>3, <2>1 DEF TypeOK, Directions
<1>5. FlightInv'
  BY <1>1, <1>3 DEF FlightInv
<1>6. ClientInv'
  BY <1>1, <1>2 DEF ClientInv
<1>7. RetryInv'
  BY <1>1, <1>2 DEF RetryInv
<1>8. DeviceInv'
  BY <1>1, <1>2 DEF DeviceInv, NoCsw, TakenCommand
<1> QED BY <1>4, <1>5, <1>6, <1>7, <1>8

LEMMA DataStalledIInv ==
  ASSUME IInv, NEW l \in Luns, DataStalled(l)
  PROVE  IInv'
<1> USE DEF IInv, DataStalled, history
<1>1. /\ l = pCurrentVolume /\ control = <<>> /\ open
      /\ pipe[DataPipe(l)] = <<Data(l)>> /\ DataPipe(l) \in Directions
      /\ \A q \in Directions \ {DataPipe(l)} : pipe[q] = <<>>
      /\ pending = {l} /\ volume[l].bBusy /\ ~bCswRetry
      /\ volume[l].bRetries <= MaxDataRetries
      /\ csw = NoCsw
      /\ device.active /\ device.lun = l /\ device.tag = volume[l].dCbwTag
  BY AtData
<1>2. control' = <<"clearhalt">> /\ control' \in Seq(Requests)
  BY <1>1, One, OneType DEF Requests
<1>3. pipe' \in [Directions -> Seq(Irps)] /\ Quiet'
  BY <1>1, Emptied, IrpTypes DEF TypeOK, Directions
<1>4. /\ volume' \in [Luns -> Volumes]
      /\ volume'[l].bRetries = volume[l].bRetries
      /\ volume'[l].bBusy = volume[l].bBusy
      /\ volume'[l].dCbwTag = volume[l].dCbwTag
      /\ \A m \in Luns \ {l} : volume'[m] = volume[m]
  BY ZenonT(60) DEF TypeOK, Volumes
<1>5. TypeOK'
  <2>1. bCswRetry' \in BOOLEAN
    BY Zenon
  <2> QED BY <1>2, <1>3, <1>4, <2>1 DEF TypeOK, Directions
<1>6. FlightInv'
  BY <1>1, <1>2, <1>3 DEF FlightInv, Dispatched, ClientInv
<1>7. ClientInv'
  BY <1>1, <1>4 DEF ClientInv
<1>8. RetryInv'
  BY <1>1, <1>2, <1>4, One DEF RetryInv
<1>9. DeviceInv'
  BY <1>1, <1>4 DEF DeviceInv, NoCsw
<1> QED BY <1>5, <1>6, <1>7, <1>8, <1>9

LEMMA DataRetriedIInv ==
  ASSUME IInv, NEW l \in Luns, DataRetried(l)
  PROVE  IInv'
<1> USE MsdBotAssumption DEF IInv, DataRetried, history, flags
<1>1. /\ l = pCurrentVolume /\ control = <<>> /\ open
      /\ pipe[DataPipe(l)] = <<Data(l)>> /\ DataPipe(l) \in Directions
      /\ \A q \in Directions \ {DataPipe(l)} : pipe[q] = <<>>
      /\ pending = {l} /\ volume[l].bBusy /\ ~bCswRetry
      /\ csw = NoCsw
      /\ device.active /\ device.lun = l /\ device.tag = volume[l].dCbwTag
  BY AtData
<1>2. /\ pipe' \in [Directions -> Seq(Irps)]
      /\ pipe'[DataPipe(l)] = <<Data(l)>>
      /\ \A q \in Directions \ {DataPipe(l)} : pipe'[q] = <<>>
  BY <1>1, Renewed, IrpTypes DEF TypeOK, Directions
<1>3. /\ volume' \in [Luns -> Volumes]
      /\ volume'[l].bRetries <= MaxDataRetries
      /\ volume'[l].bBusy = volume[l].bBusy
      /\ volume'[l].dCbwTag = volume[l].dCbwTag
      /\ \A m \in Luns \ {l} : volume'[m] = volume[m]
  BY DEF TypeOK, Volumes
<1>4. TypeOK'
  BY <1>2, <1>3 DEF TypeOK, Directions
<1>5. FlightInv'
  BY <1>1, <1>2 DEF FlightInv, Directions
<1>6. ClientInv'
  BY <1>1, <1>3 DEF ClientInv
<1>7. RetryInv'
  BY <1>1, <1>3 DEF RetryInv
<1>8. DeviceInv'
  BY <1>1, <1>3 DEF DeviceInv, NoCsw
<1> QED BY <1>4, <1>5, <1>6, <1>7, <1>8

LEMMA DataGivenUpIInv ==
  ASSUME IInv, NEW l \in Luns, DataGivenUp(l)
  PROVE  IInv'
<1> USE MsdBotAssumption DEF IInv, DataGivenUp, CallBack, flags
<1>1. /\ l = pCurrentVolume /\ control = <<>> /\ open
      /\ pipe[DataPipe(l)] = <<Data(l)>> /\ DataPipe(l) \in Directions
      /\ \A q \in Directions \ {DataPipe(l)} : pipe[q] = <<>>
      /\ pending = {l} /\ volume[l].bBusy /\ ~bCswRetry
      /\ volume[l].bRetries <= MaxDataRetries
      /\ csw = NoCsw
  BY AtData
<1>2. pipe' \in [Directions -> Seq(Irps)] /\ Quiet'
  BY <1>1, Emptied, IrpTypes DEF TypeOK, Directions
<1>3. /\ volume' \in [Luns -> Volumes]
      /\ volume'[l].bBusy = volume[l].bBusy
      /\ \A m \in Luns \ {l} : volume'[m] = volume[m]
  <2> HIDE DEF DataGivenUp
  <2>1. /\ volume \in [Luns -> Volumes]
        /\ volume[l].bRetries + 1 \in 0 .. MaxDataRetries + 1
    BY <1>1 DEF TypeOK, Volumes
  <2>2. volume' = [volume EXCEPT ![l].bError = TRUE, ![l].bRetries = @ + 1]
    BY DEF DataGivenUp
  <2> QED BY <2>1, <2>2 DEF Volumes
<1>4. TypeOK'
  <2>1. done' \in [lun : Luns, good : BOOLEAN]
    OBVIOUS
  <2>2. pending' \subseteq Luns /\ served' \subseteq Luns
    BY DEF TypeOK
  <2> QED BY <1>2, <1>3, <2>1, <2>2 DEF TypeOK, Directions
<1>5. FlightInv'
  BY <1>1, <1>2 DEF FlightInv
<1>6. ClientInv'
  BY <1>1, <1>2 DEF ClientInv, InFlight
<1>7. RetryInv'
  BY <1>1, <1>2, <1>3 DEF RetryInv, InFlight
<1>8. DeviceInv'
  BY <1>1, <1>2, One DEF DeviceInv, NoCsw, Quiet
<1> QED BY <1>4, <1>5, <1>6, <1>7, <1>8

LEMMA DataCompleteIInv ==
  ASSUME IInv, NEW l \in Luns, DataComplete(l)
  PROVE  IInv'
<1> USE MsdBotAssumption DEF IInv, DataComplete, history, flags
<1>1. /\ l = pCurrentVolume /\ control = <<>> /\ open
      /\ pipe[DataPipe(l)] = <<Data(l)>> /\ DataPipe(l) \in Directions
      /\ \A q \in Directions \ {DataPipe(l)} : pipe[q] = <<>>
      /\ pending = {l} /\ volume[l].bBusy /\ ~bCswRetry
      /\ csw = NoCsw
      /\ device.active /\ device.lun = l /\ device.tag = volume[l].dCbwTag
  BY AtData
<1>2. /\ pipe' \in [Directions -> Seq(Irps)]
      /\ pipe'["in"] = <<Csw>> /\ pipe'["out"] = <<>>
  BY <1>1, Renewed, IrpTypes DEF TypeOK, Directions
<1>3. /\ volume' \in [Luns -> Volumes]
      /\ volume'[l].bRetries = 0
      /\ volume'[l].bBusy = volume[l].bBusy
      /\ volume'[l].dCbwTag = volume[l].dCbwTag
      /\ \A m \in Luns \ {l} : volume'[m] = volume[m]
  <2> HIDE DEF DataComplete
  <2>1. volume \in [Luns -> Volumes]
    BY DEF TypeOK
  <2>2. volume' = [volume EXCEPT ![l].bRetries = 0, ![l].bTransferStage = "csw"]
    BY DEF DataComplete
  <2>3. /\ volume'[l] = [volume[l] EXCEPT !.bRetries = 0, !.bTransferStage = "csw"]
        /\ \A m \in Luns \ {l} : volume'[m] = volume[m]
    BY <2>1, <2>2
  <2>4. volume'[l] \in Volumes
    <3>1. PICK v \in Volumes : v = volume[l]
      BY <2>1
    <3>2. volume'[l] = [bBusy |-> v.bBusy, bError |-> v.bError,
                        bTransferStage |-> "csw", kind |-> v.kind,
                        dCbwTag |-> v.dCbwTag, bRetries |-> 0]
      BY <2>3, <3>1 DEF Volumes
    <3>3. /\ v.bBusy \in BOOLEAN /\ v.bError \in BOOLEAN /\ v.kind \in Kinds
          /\ v.dCbwTag \in Tags
      BY DEF Volumes
    <3>4. 0 \in 0 .. MaxDataRetries + 1 /\ "csw" \in Stages
      BY DEF Stages
    <3> QED BY <3>2, <3>3, <3>4 DEF Volumes
  <2>5. volume' \in [Luns -> Volumes]
    <3>1. volume' = [m \in Luns |-> volume'[m]]
      BY <2>1, <2>2
    <3>2. \A m \in Luns : volume'[m] \in Volumes
      BY <2>1, <2>3, <2>4
    <3> QED BY <3>1, <3>2
  <2> QED BY <2>1, <2>3, <2>5 DEF Volumes
<1>4. TypeOK'
  BY <1>2, <1>3 DEF TypeOK, Directions
<1>5. FlightInv'
  BY <1>1, <1>2 DEF FlightInv
<1>6. ClientInv'
  BY <1>1, <1>3 DEF ClientInv
<1>7. RetryInv'
  BY <1>1, <1>3 DEF RetryInv
<1>8. DeviceInv'
  BY <1>1, <1>3 DEF DeviceInv, NoCsw
<1> QED BY <1>4, <1>5, <1>6, <1>7, <1>8

LEMMA DataLooksLikeCswIInv ==
  ASSUME IInv, NEW l \in Luns, DataLooksLikeCsw(l)
  PROVE  IInv'
<1> USE MsdBotAssumption DEF IInv, DataLooksLikeCsw, history, flags
<1>1. /\ l = pCurrentVolume /\ control = <<>> /\ open
      /\ pipe[DataPipe(l)] = <<Data(l)>> /\ DataPipe(l) \in Directions
      /\ \A q \in Directions \ {DataPipe(l)} : pipe[q] = <<>>
      /\ pending = {l} /\ volume[l].bBusy /\ ~bCswRetry
      /\ csw = NoCsw
  BY AtData
<1>2. pipe' \in [Directions -> Seq(Irps)] /\ Quiet'
  BY <1>1, Emptied, IrpTypes DEF TypeOK, Directions
<1>3. /\ volume' \in [Luns -> Volumes]
      /\ volume'[l].bRetries = 0
      /\ \A m \in Luns \ {l} : volume'[m] = volume[m]
  <2> HIDE DEF DataLooksLikeCsw
  <2>1. volume \in [Luns -> Volumes]
    BY DEF TypeOK
  <2>2. volume' = [volume EXCEPT ![l].bRetries = 0]
    BY DEF DataLooksLikeCsw
  <2> QED BY <2>1, <2>2 DEF Volumes
<1>4. TypeOK'
  BY <1>2, <1>3 DEF TypeOK, Directions
<1>5. FlightInv'
  BY <1>1, <1>2 DEF FlightInv
<1>6. ClientInv'
  BY <1>1, <1>2 DEF ClientInv, InFlight
<1>7. RetryInv'
  BY <1>1, <1>2, <1>3 DEF RetryInv, InFlight
<1>8. DeviceInv'
  BY <1>1, <1>2, One DEF DeviceInv, NoCsw, Quiet
<1> QED BY <1>4, <1>5, <1>6, <1>7, <1>8

\* A callback of the CSW IRP changes the stage of the current volume, and its
\* bError or bBusy.
LEMMA StagedVolume ==
  ASSUME volume \in [Luns -> Volumes], NEW l \in Luns, NEW s \in Stages,
         \/ volume' = [volume EXCEPT ![l].bTransferStage = s]
         \/ volume' = [volume EXCEPT ![l].bError = TRUE, ![l].bTransferStage = s]
         \/ volume' = [volume EXCEPT ![l].bTransferStage = s, ![l].bBusy = FALSE]
  PROVE  /\ volume' \in [Luns -> Volumes]
         /\ volume'[l].bRetries = volume[l].bRetries
         /\ volume'[l].dCbwTag = volume[l].dCbwTag
         /\ \A m \in Luns \ {l} : volume'[m] = volume[m]
         /\ volume'[l].bBusy = volume[l].bBusy
              \/ volume' = [volume EXCEPT ![l].bTransferStage = s, ![l].bBusy = FALSE]
<1>1. PICK v \in Volumes : v = volume[l]
  OBVIOUS
<1>2. \/ volume'[l] = [v EXCEPT !.bTransferStage = s]
      \/ volume'[l] = [v EXCEPT !.bError = TRUE, !.bTransferStage = s]
      \/ volume'[l] = [v EXCEPT !.bTransferStage = s, !.bBusy = FALSE]
  BY <1>1
<1>3. /\ v.bBusy \in BOOLEAN /\ v.bError \in BOOLEAN /\ v.kind \in Kinds
      /\ v.dCbwTag \in Tags /\ v.bRetries \in 0 .. MaxDataRetries + 1
  BY DEF Volumes
<1>4. PICK b \in BOOLEAN, e \in BOOLEAN :
        volume'[l] = [bBusy |-> b, bError |-> e, bTransferStage |-> s,
                      kind |-> v.kind, dCbwTag |-> v.dCbwTag, bRetries |-> v.bRetries]
  <2>1. CASE volume'[l] = [v EXCEPT !.bTransferStage = s]
    <3>1. volume'[l] = [bBusy |-> v.bBusy, bError |-> v.bError, bTransferStage |-> s,
                        kind |-> v.kind, dCbwTag |-> v.dCbwTag, bRetries |-> v.bRetries]
      BY <2>1 DEF Volumes
    <3> QED BY <1>3, <3>1
  <2>2. CASE volume'[l] = [v EXCEPT !.bError = TRUE, !.bTransferStage = s]
    <3>1. volume'[l] = [bBusy |-> v.bBusy, bError |-> TRUE, bTransferStage |-> s,
                        kind |-> v.kind, dCbwTag |-> v.dCbwTag, bRetries |-> v.bRetries]
      BY <2>2 DEF Volumes
    <3> QED BY <1>3, <3>1
  <2>3. CASE volume'[l] = [v EXCEPT !.bTransferStage = s, !.bBusy = FALSE]
    <3>1. volume'[l] = [bBusy |-> FALSE, bError |-> v.bError, bTransferStage |-> s,
                        kind |-> v.kind, dCbwTag |-> v.dCbwTag, bRetries |-> v.bRetries]
      BY <2>3 DEF Volumes
    <3> QED BY <1>3, <3>1
  <2> QED BY <1>2, <2>1, <2>2, <2>3
<1>5. volume'[l] \in Volumes
  BY <1>3, <1>4 DEF Volumes
<1>6. \A m \in Luns \ {l} : volume'[m] = volume[m]
  OBVIOUS
<1>7. volume' = [m \in Luns |-> volume'[m]]
  OBVIOUS
<1>8. volume' \in [Luns -> Volumes]
  BY <1>5, <1>6, <1>7
<1>9. volume'[l].bBusy = volume[l].bBusy
        \/ volume' = [volume EXCEPT ![l].bTransferStage = s, ![l].bBusy = FALSE]
  BY DEF Volumes
<1> QED BY <1>1, <1>4, <1>6, <1>8, <1>9

LEMMA DeviceAnswersIInv ==
  ASSUME IInv, NEW a \in CswAnswers(device), DeviceAnswers(a)
  PROVE  IInv'
<1> USE DEF IInv, DeviceAnswers, flags
<1>1. /\ pipe["in"] = <<Csw>>
      /\ pCurrentVolume \in Luns /\ pending = {pCurrentVolume}
      /\ device.active /\ device.lun = pCurrentVolume
      /\ device.tag = volume[pCurrentVolume].dCbwTag
  BY AtCsw
<1>2. device \in Commands
  BY DEF TypeOK
<1>3. /\ device' \in Commands
      /\ device'.active = device.active /\ device'.lun = device.lun
      /\ device'.tag = device.tag
  BY <1>2 DEF Commands
<1>4. csw' \in {NoCsw} \cup UNION {CswAnswers(d) : d \in Commands}
  BY <1>2
<1>5. served' \subseteq pending /\ served \subseteq served'
  BY <1>1 DEF DeviceInv
<1>6. TypeOK'
  <2>1. served' \subseteq Luns
    BY <1>5 DEF TypeOK
  <2> QED BY <1>3, <1>4, <2>1 DEF TypeOK
<1>7. FlightInv'
  BY DEF FlightInv, Quiet, Dispatched
<1>8. ClientInv'
  BY DEF ClientInv, InFlight, Quiet
<1>9. RetryInv'
  BY DEF RetryInv, InFlight, Quiet
<1>10. DeviceInv'
  <2>1. a.dwStatus = "ok" /\ a.whole /\ a.bCswStatus = 0
          /\ a.dCswTag = volume[pCurrentVolume].dCbwTag
        => pCurrentVolume \in served'
    BY <1>1
  <2> QED BY <1>1, <1>3, <1>5, <2>1 DEF DeviceInv
<1> QED BY <1>6, <1>7, <1>8, <1>9, <1>10

LEMMA CswStalledIInv == IInv /\ CswStalled => IInv'
<1> SUFFICES ASSUME IInv, CswStalled PROVE IInv'
  OBVIOUS
<1> USE DEF IInv, CswStalled, history
<1>1. /\ control = <<>> /\ open
      /\ pipe["in"] = <<Csw>> /\ pipe["out"] = <<>>
      /\ pCurrentVolume \in Luns /\ pending = {pCurrentVolume}
      /\ volume[pCurrentVolume].bBusy
      /\ volume[pCurrentVolume].bRetries <= MaxDataRetries
      /\ device.active /\ device.lun = pCurrentVolume
      /\ device.tag = volume[pCurrentVolume].dCbwTag
  BY AtCsw DEF CswDone
<1>2. pipe' \in [Directions -> Seq(Irps)] /\ Quiet'
  BY <1>1, Emptied, IrpTypes DEF TypeOK, Directions
<1>3. /\ volume' \in [Luns -> Volumes]
      /\ volume'[pCurrentVolume].bRetries = volume[pCurrentVolume].bRetries
      /\ volume'[pCurrentVolume].dCbwTag = volume[pCurrentVolume].dCbwTag
      /\ \A m \in Luns \ {pCurrentVolume} : volume'[m] = volume[m]
      /\ volume'[pCurrentVolume].bBusy
  <2>1. volume \in [Luns -> Volumes] /\ "none" \in Stages
    BY DEF TypeOK, Stages
  <2>2. CswError("none")
    OBVIOUS
  <2>3. volume' = [volume EXCEPT ![pCurrentVolume].bError = TRUE,
                                 ![pCurrentVolume].bTransferStage = "none"]
    BY <2>2 DEF CswError
  <2>4. volume'[pCurrentVolume].bBusy = volume[pCurrentVolume].bBusy
    BY <1>1, <2>1, <2>3 DEF Volumes
  <2> QED BY <1>1, <2>1, <2>3, <2>4, StagedVolume
<1>4. control' = <<"clearhalt">> /\ control' \in Seq(Requests)
  BY <1>1, One, OneType DEF Requests
<1>5. TypeOK'
  <2>1. bCswRetry' \in BOOLEAN
    BY Zenon
  <2>2. csw' \in {NoCsw} \cup UNION {CswAnswers(d) : d \in Commands}
    OBVIOUS
  <2> QED BY <1>2, <1>3, <1>4, <2>1, <2>2 DEF TypeOK, Directions, ResetStages
<1>6. FlightInv'
  BY <1>1, <1>2, <1>4 DEF FlightInv, Dispatched, ClientInv
<1>7. ClientInv'
  BY <1>1, <1>3 DEF ClientInv
<1>8. RetryInv'
  BY <1>1, <1>3, <1>4, One DEF RetryInv
<1>9. DeviceInv'
  BY <1>1, <1>3 DEF DeviceInv, NoCsw
<1> QED BY <1>5, <1>6, <1>7, <1>8, <1>9

LEMMA CswRetriedIInv == IInv /\ CswRetried => IInv'
<1> SUFFICES ASSUME IInv, CswRetried PROVE IInv'
  OBVIOUS
<1> USE DEF IInv, CswRetried, history
<1>1. /\ control = <<>> /\ open
      /\ pipe["in"] = <<Csw>> /\ pipe["out"] = <<>>
      /\ pCurrentVolume \in Luns /\ pending = {pCurrentVolume}
      /\ volume[pCurrentVolume].bBusy
      /\ volume[pCurrentVolume].bRetries <= MaxDataRetries
      /\ device.active /\ device.lun = pCurrentVolume
      /\ device.tag = volume[pCurrentVolume].dCbwTag
  BY AtCsw DEF CswDone
<1>2. /\ pipe' \in [Directions -> Seq(Irps)]
      /\ pipe'["in"] = <<Csw>> /\ pipe'["out"] = <<>>
  BY <1>1, Renewed, IrpTypes DEF TypeOK, Directions
<1>3. /\ volume' \in [Luns -> Volumes]
      /\ volume'[pCurrentVolume].bRetries = volume[pCurrentVolume].bRetries
      /\ volume'[pCurrentVolume].dCbwTag = volume[pCurrentVolume].dCbwTag
      /\ \A m \in Luns \ {pCurrentVolume} : volume'[m] = volume[m]
      /\ volume'[pCurrentVolume].bBusy
  <2>1. volume \in [Luns -> Volumes] /\ "csw" \in Stages
    BY DEF TypeOK, Stages
  <2>2. CswError("csw")
    OBVIOUS
  <2>3. volume' = [volume EXCEPT ![pCurrentVolume].bError = TRUE,
                                 ![pCurrentVolume].bTransferStage = "csw"]
    BY <2>2 DEF CswError
  <2>4. volume'[pCurrentVolume].bBusy = volume[pCurrentVolume].bBusy
    BY <1>1, <2>1, <2>3 DEF Volumes
  <2> QED BY <1>1, <2>1, <2>3, <2>4, StagedVolume
<1>5. TypeOK'
  <2>1. bCswRetry' \in BOOLEAN
    BY Zenon
  <2>2. csw' \in {NoCsw} \cup UNION {CswAnswers(d) : d \in Commands}
    OBVIOUS
  <2> QED BY <1>2, <1>3, <2>1, <2>2 DEF TypeOK, Directions, ResetStages
<1>6. FlightInv'
  BY <1>1, <1>2 DEF FlightInv
<1>7. ClientInv'
  BY <1>1, <1>3 DEF ClientInv
<1>8. RetryInv'
  BY <1>1, <1>2, <1>3 DEF RetryInv
<1>9. DeviceInv'
  BY <1>1, <1>3 DEF DeviceInv, NoCsw
<1> QED BY <1>5, <1>6, <1>7, <1>8, <1>9

LEMMA CswFailedIInv == IInv /\ CswFailed => IInv'
<1> SUFFICES ASSUME IInv, CswFailed PROVE IInv'
  OBVIOUS
<1> USE DEF IInv, CswFailed, history
<1>1. /\ control = <<>> /\ open
      /\ pipe["in"] = <<Csw>> /\ pipe["out"] = <<>>
      /\ pCurrentVolume \in Luns /\ pending = {pCurrentVolume}
      /\ volume[pCurrentVolume].bBusy
      /\ volume[pCurrentVolume].bRetries <= MaxDataRetries
      /\ device.active /\ device.lun = pCurrentVolume
      /\ device.tag = volume[pCurrentVolume].dCbwTag
  BY AtCsw DEF CswDone
<1>2. pipe' \in [Directions -> Seq(Irps)] /\ Quiet'
  BY <1>1, Emptied, IrpTypes DEF TypeOK, Directions
<1>3. /\ volume' \in [Luns -> Volumes]
      /\ volume'[pCurrentVolume].bRetries = volume[pCurrentVolume].bRetries
      /\ volume'[pCurrentVolume].dCbwTag = volume[pCurrentVolume].dCbwTag
      /\ \A m \in Luns \ {pCurrentVolume} : volume'[m] = volume[m]
      /\ volume'[pCurrentVolume].bBusy
  <2>1. volume \in [Luns -> Volumes] /\ "none" \in Stages
    BY DEF TypeOK, Stages
  <2>2. CswError("none")
    OBVIOUS
  <2>3. volume' = [volume EXCEPT ![pCurrentVolume].bError = TRUE,
                                 ![pCurrentVolume].bTransferStage = "none"]
    BY <2>2 DEF CswError
  <2>4. volume'[pCurrentVolume].bBusy = volume[pCurrentVolume].bBusy
    BY <1>1, <2>1, <2>3 DEF Volumes
  <2> QED BY <1>1, <2>1, <2>3, <2>4, StagedVolume
<1>4. control' = <<"reset">> /\ control' \in Seq(Requests) /\ bResetStage' = "cmd"
  BY <1>1, ResetStarted
<1>5. TypeOK'
  <2>1. bCswRetry' \in BOOLEAN
    BY Zenon
  <2>2. csw' \in {NoCsw} \cup UNION {CswAnswers(d) : d \in Commands}
    OBVIOUS
  <2> QED BY <1>2, <1>3, <1>4, <2>1, <2>2 DEF TypeOK, Directions, ResetStages
<1>6. FlightInv'
  BY <1>1, <1>2, <1>4 DEF FlightInv, Dispatched, ClientInv
<1>7. ClientInv'
  BY <1>1, <1>3 DEF ClientInv
<1>8. RetryInv'
  BY <1>1, <1>3 DEF RetryInv
<1>9. DeviceInv'
  BY <1>1, <1>2, One DEF DeviceInv, NoCsw, Quiet
<1> QED BY <1>5, <1>6, <1>7, <1>8, <1>9

LEMMA CswSkippedIInv == IInv /\ CswSkipped => IInv'
<1> SUFFICES ASSUME IInv, CswSkipped PROVE IInv'
  OBVIOUS
<1> USE DEF IInv, CswSkipped, history
<1>1. /\ control = <<>> /\ open
      /\ pipe["in"] = <<Csw>> /\ pipe["out"] = <<>>
      /\ pCurrentVolume \in Luns /\ pending = {pCurrentVolume}
      /\ volume[pCurrentVolume].bBusy
      /\ volume[pCurrentVolume].bRetries <= MaxDataRetries
      /\ device.active /\ device.lun = pCurrentVolume
      /\ device.tag = volume[pCurrentVolume].dCbwTag
  BY AtCsw DEF CswDone
<1>2. /\ pipe' \in [Directions -> Seq(Irps)]
      /\ pipe'["in"] = <<Csw>> /\ pipe'["out"] = <<>>
  BY <1>1, Renewed, IrpTypes DEF TypeOK, Directions
<1>3. /\ volume' \in [Luns -> Volumes]
      /\ volume'[pCurrentVolume].bRetries = volume[pCurrentVolume].bRetries
      /\ volume'[pCurrentVolume].dCbwTag = volume[pCurrentVolume].dCbwTag
      /\ \A m \in Luns \ {pCurrentVolume} : volume'[m] = volume[m]
      /\ volume'[pCurrentVolume].bBusy
  <2>1. volume \in [Luns -> Volumes] /\ "csw" \in Stages
    BY DEF TypeOK, Stages
  <2>2. volume' = [volume EXCEPT ![pCurrentVolume].bTransferStage = "csw"]
    OBVIOUS
  <2>3. volume'[pCurrentVolume].bBusy = volume[pCurrentVolume].bBusy
    BY <1>1, <2>1, <2>2 DEF Volumes
  <2> QED BY <1>1, <2>1, <2>2, <2>3, StagedVolume
<1>5. TypeOK'
  <2>1. bCswRetry' \in BOOLEAN
    BY Zenon
  <2>2. csw' \in {NoCsw} \cup UNION {CswAnswers(d) : d \in Commands}
    OBVIOUS
  <2> QED BY <1>2, <1>3, <2>1, <2>2 DEF TypeOK, Directions, ResetStages
<1>6. FlightInv'
  BY <1>1, <1>2 DEF FlightInv
<1>7. ClientInv'
  BY <1>1, <1>3 DEF ClientInv
<1>8. RetryInv'
  BY <1>1, <1>2, <1>3 DEF RetryInv
<1>9. DeviceInv'
  BY <1>1, <1>3 DEF DeviceInv, NoCsw
<1> QED BY <1>5, <1>6, <1>7, <1>8, <1>9

LEMMA CswCompleteIInv == IInv /\ CswComplete => IInv'
<1> SUFFICES ASSUME IInv, CswComplete PROVE IInv'
  OBVIOUS
<1> USE DEF IInv, CswComplete, CallBack
<1>1. /\ control = <<>> /\ open
      /\ pipe["in"] = <<Csw>> /\ pipe["out"] = <<>>
      /\ pCurrentVolume \in Luns /\ pending = {pCurrentVolume}
      /\ volume[pCurrentVolume].bBusy
      /\ volume[pCurrentVolume].bRetries <= MaxDataRetries
      /\ device.active /\ device.lun = pCurrentVolume
      /\ device.tag = volume[pCurrentVolume].dCbwTag
  BY AtCsw DEF CswDone
<1>2. pipe' \in [Directions -> Seq(Irps)] /\ Quiet'
  BY <1>1, Emptied, IrpTypes DEF TypeOK, Directions
<1>3. /\ volume' \in [Luns -> Volumes]
      /\ volume'[pCurrentVolume].bRetries = volume[pCurrentVolume].bRetries
      /\ \A m \in Luns \ {pCurrentVolume} : volume'[m] = volume[m]
  <2>1. volume \in [Luns -> Volumes] /\ "none" \in Stages
    BY DEF TypeOK, Stages
  <2>2. volume' = [volume EXCEPT ![pCurrentVolume].bTransferStage = "none",
                                 ![pCurrentVolume].bBusy = FALSE]
    OBVIOUS
  <2> QED BY <1>1, <2>1, <2>2, StagedVolume
<1>4. pending' \subseteq Luns /\ served' \subseteq Luns
      /\ done' \in [lun : Luns, good : BOOLEAN]
  <2>1. done'.good \in BOOLEAN /\ done' = [lun |-> pCurrentVolume, good |-> done'.good]
    BY Zenon
  <2> QED BY <1>1, <2>1 DEF TypeOK
<1>5. TypeOK'
  <2>1. bCswRetry' \in BOOLEAN
    BY Zenon
  <2>2. csw' \in {NoCsw} \cup UNION {CswAnswers(d) : d \in Commands}
    OBVIOUS
  <2> QED BY <1>2, <1>3, <1>4, <2>1, <2>2 DEF TypeOK, Directions, ResetStages
<1>6. FlightInv'
  BY <1>1, <1>2 DEF FlightInv
<1>7. ClientInv'
  BY <1>1, <1>2 DEF ClientInv, InFlight
<1>8. RetryInv'
  BY <1>1, <1>2, <1>3 DEF RetryInv, InFlight
<1>9. DeviceInv'
  BY <1>1, <1>2, One DEF DeviceInv, NoCsw, Quiet
<1> QED BY <1>5, <1>6, <1>7, <1>8, <1>9

LEMMA StutterIInv == IInv /\ UNCHANGED vars => IInv'
<1> SUFFICES ASSUME IInv, UNCHANGED vars PROVE IInv'
  OBVIOUS
<1> USE DEF IInv, vars, flags, history
<1>1. TypeOK'
  BY DEF TypeOK
<1>2. FlightInv'
  BY DEF FlightInv, Quiet, Dispatched
<1>3. ClientInv'
  BY DEF ClientInv, InFlight, Quiet
<1>4. RetryInv'
  BY DEF RetryInv, InFlight, Quiet
<1>5. DeviceInv'
  BY DEF DeviceInv
<1> QED BY <1>1, <1>2, <1>3, <1>4, <1>5

LEMMA NextIInv == ~Concurrent /\ IInv /\ [Next]_vars => IInv'
BY StartDeviceIInv, SendCmdIInv, RemoveIInv, MaxLunCompleteIInv, LangCompleteIInv,
   SerialCompleteIInv, ClearHaltCompleteIInv, ResetCompleteIInv, ClearInCompleteIInv,
   ClearOutCompleteIInv, CbwFailedIInv, CbwCompleteIInv, DataStalledIInv,
   DataRetriedIInv, DataGivenUpIInv, DataCompleteIInv, DataLooksLikeCswIInv,
   DeviceAnswersIInv, CswStalledIInv, CswRetriedIInv, CswFailedIInv, CswSkippedIInv,
   CswCompleteIInv, StutterIInv
   DEF Next, ControlComplete, BulkComplete

LEMMA Invariance == ASSUME ~Concurrent PROVE Spec => []IInv
<1>1. Init => IInv
  BY InitIInv
<1>2. IInv /\ [Next]_vars => IInv'
  BY NextIInv
<1> QED BY <1>1, <1>2, PTL DEF Spec

\* Every field keeps its type; bRetries never passes MGC_BOT_DATA_MAX_RETRIES
\* by more than the one that gives up, on whatever path a command ends.
THEOREM TypeCorrect == ASSUME ~Concurrent PROVE Spec => []TypeOK
<1>1. IInv => TypeOK
  BY DEF IInv
<1> QED BY <1>1, Invariance, PTL

\* MGC_BotControlIrpComplete always takes the branch of the request that was
\* completed, whatever failures and retries set and cleared its flags.
THEOREM FlagsAreRight == ASSUME ~Concurrent PROVE Spec => []FlagsNameRequest
<1>1. IInv => FlagsNameRequest
  BY One DEF IInv, FlightInv, FlagsNameRequest
<1> QED BY <1>1, Invariance, PTL

\* A reset or a cleared halt never overlaps a bulk transfer, so the missing
\* cancellations of MGC_MsdBotReset (mu_mbot.c:399-419) are not missed.
THEOREM RecoveryAlone == ASSUME ~Concurrent PROVE Spec => []RecoveryIsQuiet
<1>1. IInv => RecoveryIsQuiet
  BY OneType DEF IInv, FlightInv, RecoveryIsQuiet, Quiet
<1> QED BY <1>1, Invariance, PTL

\* Csw and CswIrp can be shared by all units (mu_mbot.c:64) if the client has
\* one command outstanding: no retry, skip or give-up leaves an IRP behind.
THEOREM OneOutstanding == ASSUME ~Concurrent PROVE Spec => []OneCommandOutstanding
<1>1. IInv => OneCommandOutstanding
  <2> SUFFICES ASSUME IInv PROVE Len(pipe["in"]) + Len(pipe["out"]) <= 1
    BY DEF OneCommandOutstanding
  <2> USE DEF IInv
  <2>1. \A irp \in Irps : Len(<<irp>>) = 1 /\ Len(<<>>) = 0
    BY OneType
  <2>2. pCurrentVolume \in Luns
    BY DEF TypeOK
  <2>3. CASE Quiet
    <3>1. Len(pipe["in"]) = 0 /\ Len(pipe["out"]) = 0
      BY <2>3 DEF Quiet
    <3> QED BY <3>1
  <2>4. CASE /\ pipe["in"] = <<>>
             /\ pipe["out"] \in {<<Cbw(pCurrentVolume)>>, <<Data(pCurrentVolume)>>}
    <3>1. Len(pipe["in"]) = 0 /\ Len(pipe["out"]) = 1
      BY <2>1, <2>2, <2>4, IrpTypes
    <3> QED BY <3>1
  <2>5. CASE /\ pipe["out"] = <<>>
             /\ pipe["in"] \in {<<Csw>>, <<Data(pCurrentVolume)>>}
    <3>1. Len(pipe["in"]) = 1 /\ Len(pipe["out"]) = 0
      BY <2>1, <2>2, <2>5, IrpTypes
    <3> QED BY <3>1
  <2> QED BY <2>3, <2>4, <2>5 DEF FlightInv
<1> QED BY <1>1, Invariance, PTL

-----------------------------------------------------------------------------
(* The transport keeps its promise                                         *)

LEMMA CallBackCompletes ==
  ASSUME NEW l \in Luns, NEW bUsbError \in BOOLEAN, NEW bWrapperStatus,
         pending = {l}, CallBack(l, bUsbError, bWrapperStatus), open' = open,
         ~bUsbError /\ bWrapperStatus = 0 => l \in served
  PROVE  Transport!Next
<1>1. PICK good \in BOOLEAN : good = (~bUsbError /\ bWrapperStatus = 0)
  BY Zenon
<1>2. Transport!Complete(l, good)
  BY <1>1, Zenon DEF Transport!Complete, CallBack
<1> QED BY <1>2 DEF Transport!Next

LEMMA StepTransport ==
  ASSUME ~Concurrent, IInv, [Next]_vars
  PROVE  [Transport!Next]_(Transport!vars)
<1> USE DEF IInv
<1>1. ASSUME NEW l \in Luns, NEW kind \in Kinds, SendCmd(l, kind)
      PROVE  Transport!Next
  BY <1>1 DEF SendCmd, Transport!Next, Transport!Accept
<1>2. CASE SerialComplete
  <2>1. ~open
    BY <1>2, AtControl DEF SerialComplete, ClientInv
  <2>2. UNCHANGED history /\ (open' = open \/ Transport!Attach)
    BY <1>2, <2>1 DEF SerialComplete, Transport!Attach, history, TypeOK
  <2> QED BY <2>2 DEF Transport!Next, Transport!vars, history
<1>3. CASE Remove
  BY <1>3 DEF Remove, Transport!Next, Transport!Detach
<1>4. CASE ClearOutComplete
  <2>1. pCurrentVolume \in Luns /\ pending = {pCurrentVolume}
    BY <1>4, AtRecovery DEF ClearOutComplete
  <2>2. CallBack(pCurrentVolume, TRUE, 1) /\ open' = open
    BY <1>4 DEF ClearOutComplete
  <2> QED BY <2>1, <2>2, CallBackCompletes
<1>5. ASSUME NEW l \in Luns, DataGivenUp(l)
      PROVE  Transport!Next
  <2>1. pending = {l}
    BY <1>5, AtData DEF DataGivenUp
  <2>2. CallBack(l, TRUE, 0) /\ open' = open
    BY <1>5 DEF DataGivenUp
  <2> QED BY <2>1, <2>2, CallBackCompletes
<1>6. ASSUME NEW a \in CswAnswers(device), DeviceAnswers(a)
      PROVE  [Transport!Next]_(Transport!vars)
  <2>1. device.lun \in Luns /\ device.lun \in pending
    BY <1>6, AtCsw DEF DeviceAnswers
  <2>2. UNCHANGED <<open, pending, done>>
    BY <1>6 DEF DeviceAnswers
  <2>3. CASE served' = served
    BY <2>2, <2>3 DEF Transport!vars
  <2>4. CASE served' = served \cup {device.lun}
    BY <2>1, <2>2, <2>4 DEF Transport!Next, Transport!Serve
  <2> QED BY <1>6, <2>3, <2>4 DEF DeviceAnswers
<1>7. CASE CswComplete
  <2>1. pCurrentVolume \in Luns /\ pending = {pCurrentVolume}
    BY <1>7, AtCsw DEF CswComplete, CswDone
  <2>2. /\ CallBack(pCurrentVolume, volume[pCurrentVolume].bError, csw.bCswStatus)
        /\ open' = open
    BY <1>7 DEF CswComplete
  <2>3. volume[pCurrentVolume].bError \in BOOLEAN
    BY <2>1 DEF TypeOK, Volumes
  <2>4. csw.bCswStatus = 0 => pCurrentVolume \in served
    BY <1>7 DEF CswComplete, DeviceInv
  <2> QED BY <2>1, <2>2, <2>3, <2>4, CallBackCompletes
<1>8. CASE \/ StartDevice \/ LangComplete \/ ClearHaltComplete \/ ClearInComplete
           \/ CswStalled \/ CswRetried \/ CswFailed \/ CswSkipped \/ UNCHANGED vars
           \/ \E status \in Statuses, top \in Luns : MaxLunComplete(status, top)
           \/ \E status \in Statuses : ResetComplete(status)
           \/ \E l \in Luns : \/ CbwFailed(l)
                              \/ \E leftover \in BOOLEAN : CbwComplete(l, leftover)
                              \/ DataStalled(l) \/ DataRetried(l)
                              \/ DataComplete(l) \/ DataLooksLikeCsw(l)
  <2>1. UNCHANGED <<open, history>>
    BY <1>8 DEF StartDevice, LangComplete, ClearHaltComplete, ClearInComplete,
                CswStalled, CswRetried, CswFailed, CswSkipped, vars, MaxLunComplete,
                ResetComplete, CbwFailed, CbwComplete, DataStalled, DataRetried,
                DataComplete, DataLooksLikeCsw
  <2> QED BY <2>1 DEF Transport!vars, history
<1> QED BY <1>1, <1>2, <1>3, <1>4, <1>5, <1>6, <1>7, <1>8
        DEF Next, ControlComplete, BulkComplete

\* Whatever CSW arrives (stale, short, of another tag, after a retry or a
\* reset), a command is called back at most once, and success answers the
\* very command that was sent (mu_mpcsi.h, MGC_pfMsdProtocolSendCmd).
THEOREM TransportKept == ASSUME ~Concurrent PROVE Spec => ImplementsTransport
<1>1. Init => Transport!Init
  BY DEF Init, Transport!Init, NoCallback, Transport!NoCallback
<1>2. IInv /\ [Next]_vars => [Transport!Next]_(Transport!vars)
  BY StepTransport
<1> QED BY <1>1, <1>2, Invariance, PTL DEF Spec, ImplementsTransport, Transport!Spec
=============================================================================
