----------------------------- MODULE ScsiProofs -----------------------------
(***************************************************************************)
(* Proofs about Scsi: the types, for devices of any number of units, and   *)
(* what a device with one unit is mounted by and says of its medium.       *)
(***************************************************************************)
EXTENDS Scsi, TLAPS, WellFoundedInduction

Commands ==
  {Idle} \cup [op : {"DATA"}, by : {FileSystem}] \cup [op : Ops \ {"none", "DATA"}, by : Luns]
Drivers ==
  [inst : [Luns -> Instances], volume : [Luns -> Volumes], command : [Luns -> Commands],
   hfi : FileSystems]

\* What the proofs use of the parameters
LEMMA Parameters ==
  /\ LunCount \in Nat /\ LunCount >= 1 /\ 0 \in Luns /\ LunCount - 1 \in Luns
  /\ Luns \subseteq Nat /\ FileSystem \notin Luns /\ NoUnit \notin Luns
  /\ \A l \in Luns : l <= LunCount - 1
  /\ \A l \in Luns : l < LunCount - 1 => l + 1 \in Luns
  /\ TestUnitRetries \in Nat /\ CapacityRetries \in Nat /\ FmtCapacityRetries \in Nat
  /\ MaxChanges \in Nat
  BY ScsiAssumption DEF ScsiAssumption, Luns, FileSystem, NoUnit

LEMMA Zeros ==
  /\ 0 \in 0 .. TestUnitRetries + 1 /\ 0 \in 0 .. CapacityRetries
  /\ 0 \in 0 .. FmtCapacityRetries /\ 0 \in Luns
  BY Parameters

\* The fields of a state have their types.
LEMMA Fields ==
  ASSUME NEW d \in Drivers, NEW l \in Luns
  PROVE  /\ d.inst \in [Luns -> Instances] /\ d.inst[l] \in Instances
         /\ d.volume \in [Luns -> Volumes] /\ d.volume[l] \in Volumes
         /\ d.command \in [Luns -> Commands] /\ d.command[l] \in Commands
         /\ d.hfi \in FileSystems
  BY DEF Drivers

\* The operators of the driver keep its type.
LEMMA SendCmdTyped ==
  ASSUME NEW d \in Drivers, NEW l \in Luns, NEW i \in Luns, NEW op \in Ops \ {"none", "DATA"}
  PROVE  SendCmd(d, l, op, i) \in Drivers
  BY DEF SendCmd, Drivers, Commands

\* An instance, field by field.
Names ==
  {"set", "bState", "bError", "bRemovable", "bAnnounced", "bNoMedium", "bLun", "bLunScan",
   "bLunIndex", "dwRetries", "dwCapacityRetries", "bFmtCapacityRetries", "inquiry", "capacity",
   "sense"}
Typed(s) ==
  /\ s = [x \in Names |-> s[x]]
  /\ s.set \in CmdSets /\ s.bState \in States
  /\ s.bError \in BOOLEAN /\ s.bRemovable \in BOOLEAN /\ s.bAnnounced \in BOOLEAN
  /\ s.bNoMedium \in BOOLEAN /\ s.bLun \in Luns /\ s.bLunScan \in BOOLEAN /\ s.bLunIndex \in Luns
  /\ s.dwRetries \in 0 .. TestUnitRetries + 1 /\ s.dwCapacityRetries \in 0 .. CapacityRetries
  /\ s.bFmtCapacityRetries \in 0 .. FmtCapacityRetries
  /\ s.inquiry \in Luns \cup {NoUnit} /\ s.capacity \in BOOLEAN /\ s.sense \in Senses
LEMMA InstancesAre == \A s : s \in Instances <=> Typed(s)
<1>1. ASSUME NEW s \in Instances  PROVE Typed(s)
  BY SMT DEF Typed, Instances, Names
<1>2. ASSUME NEW s, Typed(s)  PROVE s \in Instances
  BY <1>2, SMT DEF Typed, Instances, Names
<1> QED
  BY <1>1, <1>2

LEMMA BeginTyped ==
  ASSUME NEW s, Typed(s), NEW l \in Luns
  PROVE  Typed(Begin(s, l))
  BY Zeros, ZenonT(40) DEF Begin, Typed, States, Names

LEMMA ScanTyped ==
  ASSUME NEW s, Typed(s), NEW scan \in BOOLEAN
  PROVE  Typed([s EXCEPT !.bAnnounced = FALSE, !.bLunScan = scan,
                         !.bLunIndex = IF scan THEN 0 ELSE @])
  BY Zeros, ZenonT(40) DEF Typed, Names

LEMMA StateTyped ==
  ASSUME NEW s \in Instances, NEW bState \in States
  PROVE  [s EXCEPT !.bState = bState] \in Instances
<1>1. Typed(s)
  BY InstancesAre
<1>2. Typed([s EXCEPT !.bState = bState])
  BY <1>1, SMT DEF Typed, Names
<1> QED
  BY <1>2, InstancesAre

LEMMA VolumeFields ==
  ASSUME NEW v \in Volumes, NEW b \in BOOLEAN, NEW u \in Luns \cup {NoUnit}
  PROVE  /\ [v EXCEPT !.bIsReady = b] \in Volumes
         /\ [v EXCEPT !.bAnnounced = b] \in Volumes
         /\ [v EXCEPT !.bGotMedium = b] \in Volumes
         /\ [v EXCEPT !.bMediumAnnounced = b] \in Volumes
         /\ [v EXCEPT !.pfMediumCheckComplete = b] \in Volumes
         /\ [v EXCEPT !.info = u] \in Volumes
         /\ [v EXCEPT !.removable = b] \in Volumes
         /\ [v EXCEPT !.mediumIn = b] \in Volumes
  BY DEF Volumes

LEMMA HfiFields ==
  ASSUME NEW h \in FileSystems, NEW S \in SUBSET Luns, NEW b \in BOOLEAN, NEW l \in Luns
  PROVE  /\ [h EXCEPT !.mounting = S] \in FileSystems
         /\ [h EXCEPT !.mounted = S] \in FileSystems
         /\ [h EXCEPT !.steady = S] \in FileSystems
         /\ [h EXCEPT !.sawMedium = b] \in FileSystems
         /\ [h EXCEPT !.last = l] \in FileSystems
         /\ h.mounting \in SUBSET Luns /\ h.mounted \in SUBSET Luns /\ h.steady \in SUBSET Luns
  BY DEF FileSystems

\* An instance is put into a state.
LEMMA InstTyped ==
  ASSUME NEW d \in Drivers, NEW i \in Luns, NEW s \in Instances
  PROVE  [d EXCEPT !.inst[i] = s] \in Drivers
  BY DEF Drivers

LEMMA VolumeTyped ==
  ASSUME NEW d \in Drivers, NEW l \in Luns, NEW v \in Volumes
  PROVE  [d EXCEPT !.volume[l] = v] \in Drivers
  BY DEF Drivers

LEMMA HfiTyped ==
  ASSUME NEW d \in Drivers, NEW h \in FileSystems
  PROVE  [d EXCEPT !.hfi = h] \in Drivers
  BY DEF Drivers

LEMMA DiscoverTyped ==
  ASSUME NEW d \in Drivers, NEW i \in Luns, NEW l \in Luns
  PROVE  DiscoverDevice(d, i, l) \in Drivers
<1> DEFINE scan == l = 0 /\ LunCount > 1
           b == Begin(d.inst[i], l)
           s == [b EXCEPT !.bAnnounced = FALSE, !.bLunScan = scan,
                         !.bLunIndex = IF scan THEN 0 ELSE @]
<1>2. Typed(b)
  BY Fields, InstancesAre, BeginTyped
<1> HIDE DEF b
<1>4. Typed(s)
  BY <1>2, ScanTyped, Zenon
<1>3. [d EXCEPT !.inst[i] = s] \in Drivers
  BY <1>4, InstancesAre, InstTyped
<1> QED
  BY <1>3, SendCmdTyped DEF DiscoverDevice, Ops, b

LEMMA CheckMediumTyped ==
  ASSUME NEW d \in Drivers, NEW l \in Luns
  PROVE  CheckMedium(d, l) \in Drivers
<1> DEFINE e == [d EXCEPT !.inst[l] = Begin(@, l),
                          !.hfi.steady = IF d.command[l] = Idle THEN @ \cup {l} ELSE @ \ {l}]
<1>1. Begin(d.inst[l], l) \in Instances
  BY Fields, InstancesAre, BeginTyped
<1>2. e \in Drivers
  BY <1>1 DEF Drivers, FileSystems
<1> QED
  BY <1>2, SendCmdTyped DEF CheckMedium, Ops

LEMMA MountCompleteTyped ==
  ASSUME NEW d \in Drivers, NEW l \in Luns
  PROVE  MountComplete(d, l) \in Drivers
  BY DEF MountComplete, Drivers, FileSystems

LEMMA MountDeviceTyped ==
  ASSUME NEW d \in Drivers, NEW l \in Luns
  PROVE  MountDevice(d, l) \in Drivers
<1> DEFINE p == [d EXCEPT !.inst[l].bState = "PREVENT_MEDIUM_REMOVE"]
           t == SendCmd(p, l, "PREVENT", l)
           e == [t EXCEPT !.hfi.mounting = IF d.command[l] = Idle THEN @ \cup {l} ELSE @]
<1>1. p \in Drivers
  <2>1. [d EXCEPT !.inst[l] = [d.inst[l] EXCEPT !.bState = "PREVENT_MEDIUM_REMOVE"]] \in Drivers
    BY Fields, StateTyped, InstTyped DEF States
  <2> QED
    BY <2>1
<1>2. t \in Drivers
  BY <1>1, SendCmdTyped DEF Ops
<1> HIDE DEF t
<1>3. e \in Drivers
  BY <1>2 DEF Drivers, FileSystems
<1> QED
  BY <1>3, MountCompleteTyped DEF MountDevice, t

LEMMA MountVolumeTyped ==
  ASSUME NEW d \in Drivers, NEW l \in Luns
  PROVE  MountVolume(d, l) \in Drivers
  BY MountDeviceTyped DEF MountVolume

LEMMA HfiAddDeviceTyped ==
  ASSUME NEW d \in Drivers, NEW l \in Luns
  PROVE  HfiAddDevice(d, l) \in Drivers
<1>1. [d EXCEPT !.hfi.last = l] \in Drivers
  BY DEF Drivers, FileSystems
<1> QED
  BY <1>1, MountVolumeTyped, CheckMediumTyped DEF HfiAddDevice

LEMMA HfiMediumInsertedTyped ==
  ASSUME NEW d \in Drivers, NEW l \in Luns
  PROVE  HfiMediumInserted(d, l) \in Drivers
<1>1. [d.volume[l] EXCEPT !.bMediumAnnounced = TRUE] \in Volumes
  BY Fields, VolumeFields
<1>2. [d.hfi EXCEPT !.sawMedium = TRUE] \in FileSystems
  BY Fields, HfiFields
<1>3. [d EXCEPT !.volume[l].bMediumAnnounced = TRUE, !.hfi.sawMedium = TRUE] \in Drivers
  BY <1>1, <1>2 DEF Drivers
<1> QED
  BY <1>3, MountVolumeTyped DEF HfiMediumInserted

LEMMA SetReadyTyped ==
  ASSUME NEW d \in Drivers, NEW l \in Luns, NEW isReady \in BOOLEAN
  PROVE  SetReady(d, l, isReady) \in Drivers
<1> DEFINE e == [d EXCEPT !.volume[l].bIsReady = isReady]
           g == [e EXCEPT !.volume[l].bAnnounced = TRUE]
           added == HfiAddDevice(g, l)
           h == [e EXCEPT !.volume[l].bGotMedium = FALSE, !.volume[l].bMediumAnnounced = FALSE]
           v == e.volume[l]
           f == CASE isReady /\ ~v.bAnnounced ->
                       IF v.bGotMedium THEN HfiMediumInserted(added, l) ELSE added
                  [] isReady /\ v.bAnnounced /\ v.bGotMedium /\ ~v.bMediumAnnounced ->
                       HfiMediumInserted(e, l)
                  [] ~isReady /\ v.bAnnounced -> h
                  [] OTHER -> e
<1>1. e \in Drivers
  BY Fields, VolumeFields, VolumeTyped
<1>6. SetReady(d, l, isReady) = [f EXCEPT !.volume[l].pfMediumCheckComplete = FALSE]
  BY DEF SetReady
<1> HIDE DEF e
<1>2. g \in Drivers /\ [e EXCEPT !.volume[l].bGotMedium = FALSE] \in Drivers
  BY <1>1, Fields, VolumeFields, VolumeTyped
<1> DEFINE h1 == [e EXCEPT !.volume[l].bGotMedium = FALSE]
<1>7. h \in Drivers
  <2>1. h = [h1 EXCEPT !.volume[l].bMediumAnnounced = FALSE]
    BY DEF h1
  <2> HIDE DEF h1
  <2>2. [h1 EXCEPT !.volume[l].bMediumAnnounced = FALSE] \in Drivers
    BY <1>2, Fields, VolumeFields, VolumeTyped DEF h1
  <2> QED
    BY <2>1, <2>2
<1>3. added \in Drivers
  BY <1>2, HfiAddDeviceTyped
<1> HIDE DEF h, added
<1>4. f \in Drivers
  BY <1>1, <1>3, <1>7, HfiMediumInsertedTyped
<1> HIDE DEF f
<1>5. [f EXCEPT !.volume[l].pfMediumCheckComplete = FALSE] \in Drivers
  BY <1>4, Fields, VolumeFields, VolumeTyped
<1> QED
  BY <1>5, <1>6

LEMMA SetDeviceInfoTyped ==
  ASSUME NEW d \in Drivers, NEW l \in Luns, NEW i \in Luns, NEW b \in BOOLEAN
  PROVE  SetDeviceInfo(d, l, i, b) \in Drivers
<1> DEFINE s == d.inst[i]
           e == [d EXCEPT !.volume[l].info = s.inquiry, !.volume[l].removable = s.bRemovable,
                          !.volume[l].mediumIn = b]
           v1 == [d.volume[l] EXCEPT !.info = s.inquiry]
           v2 == [v1 EXCEPT !.removable = s.bRemovable]
           v3 == [v2 EXCEPT !.mediumIn = b]
<1>1. s.inquiry \in Luns \cup {NoUnit} /\ s.bRemovable \in BOOLEAN
  BY Fields, InstancesAre DEF Typed
<1>2. v1 \in Volumes
  BY <1>1, Fields, VolumeFields
<1>3. v2 \in Volumes
  <2> HIDE DEF v1
  <2> QED
    BY <1>1, <1>2, VolumeFields
<1>4. v3 \in Volumes
  <2> HIDE DEF v2
  <2> QED
    BY <1>3, VolumeFields
<1>5. e = [d EXCEPT !.volume[l] = v3]
  BY Fields, ZenonT(60) DEF Drivers
<1> HIDE DEF v3
<1>6. e \in Drivers
  BY <1>4, <1>5, VolumeTyped
<1> HIDE DEF e
<1>7. l < LunCount - 1 => DiscoverDevice(e, l, l + 1) \in Drivers
  BY <1>6, Parameters, DiscoverTyped
<1>8. SetDeviceInfo(d, l, i, b) =
        IF ~e.volume[l].bAnnounced /\ l < LunCount - 1 THEN DiscoverDevice(e, l, l + 1) ELSE e
  BY DEF SetDeviceInfo, e
<1> QED
  BY <1>6, <1>7, <1>8

LEMMA SetMediumInfoTyped ==
  ASSUME NEW d \in Drivers, NEW l \in Luns
  PROVE  SetMediumInfo(d, l) \in Drivers
  BY Fields, VolumeFields, VolumeTyped DEF SetMediumInfo

LEMMA RemovableTyped ==
  ASSUME NEW s, Typed(s), NEW b \in BOOLEAN
  PROVE  Typed([s EXCEPT !.bRemovable = b]) /\ Typed([s EXCEPT !.bAnnounced = b])
  BY Zenon DEF Typed, Names

LEMMA DeviceInfoTyped ==
  ASSUME NEW d \in Drivers, NEW i \in Luns, NEW b \in BOOLEAN
  PROVE  DeviceInfo(d, i, b) \in Drivers
<1> DEFINE r == [d EXCEPT !.inst[i].bRemovable = Removable(d.inst[i].inquiry)]
           e == SetDeviceInfo(r, r.inst[i].bLun, i, b)
<1>1. Typed([d.inst[i] EXCEPT !.bRemovable = Removable(d.inst[i].inquiry)])
  BY Fields, InstancesAre, RemovableTyped DEF Removable
<1>2. r \in Drivers
  BY <1>1, InstancesAre, InstTyped
<1> HIDE DEF r
<1>3. r.inst[i].bLun \in Luns
  BY <1>2, Fields, InstancesAre DEF Typed
<1>4. e \in Drivers
  BY <1>2, <1>3, SetDeviceInfoTyped
<1> HIDE DEF e
<1>5. e.inst[i].bLun \in Luns
  BY <1>4, Fields, InstancesAre DEF Typed
<1>6. DeviceInfo(d, i, b) =
        IF e.inst[i].bRemovable /\ b THEN SetMediumInfo(e, e.inst[i].bLun) ELSE e
  BY DEF DeviceInfo, e, r
<1> QED
  BY <1>4, <1>5, <1>6, SetMediumInfoTyped

\* Induction over numbers
LEMMA UpTo ==
  ASSUME NEW n \in Nat, NEW S \in SUBSET Nat, 0 \in S, \A k \in 0 .. n - 1 : k \in S => k + 1 \in S
  PROVE  n \in S
<1> SUFFICES ASSUME n \notin S
             PROVE  FALSE
  OBVIOUS
<1> DEFINE T == {k \in 0 .. n : k \notin S}
<1>1. T # {} /\ T \subseteq Nat
  OBVIOUS
<1>2. PICK m \in T : \A k \in T : ~(<<k, m>> \in OpToRel(<, Nat))
  BY <1>1, NatLessThanWellFounded, WFMin, Zenon
<1>3. m \in 0 .. n /\ m \notin S /\ m # 0
  OBVIOUS
<1>4. m - 1 \in 0 .. n /\ <<m - 1, m>> \in OpToRel(<, Nat)
  BY <1>3 DEF OpToRel
<1>5. m - 1 \in S
  BY <1>2, <1>4, Zenon
<1>6. m - 1 \in 0 .. n - 1 /\ m - 1 + 1 = m
  BY <1>3
<1> QED
  BY <1>3, <1>5, <1>6

\* The highest number of a set that has one
LEMMA MaxIs ==
  ASSUME NEW S, NEW k \in S, \A j \in S : k >= j, S \subseteq Nat
  PROVE  Max(S) = k
<1>1. Max(S) \in S /\ \A j \in S : Max(S) >= j
  BY DEF Max
<1>2. Max(S) \in Nat /\ k \in Nat /\ Max(S) >= k /\ k >= Max(S)
  BY <1>1
<1> QED
  BY <1>2

\* The last unit announces all of them, one after the other.
EachReady(g) == FoldLeft(LAMBDA x, k : SetReady(x, k - 1, TRUE), g, [k \in 1 .. LunCount |-> k])
\* The fold of Announce, as a recursive function: the units are set ready in turn.
LEMMA InTurn ==
  ASSUME NEW g
  PROVE  \E h : /\ h[0] = g
                /\ \A l \in Luns : h[l + 1] = SetReady(h[l], l, TRUE)
                /\ EachReady(g) = h[LunCount]
<1> DEFINE q == [k \in 1 .. LunCount |-> k]
           Iterates(f, n) ==
             f = [s \in SUBSET (1 .. n) |->
                    IF s = {} THEN g ELSE SetReady(f[s \ {Max(s)}], q[Max(s)] - 1, TRUE)]
           N == {n \in 0 .. LunCount : \E f : Iterates(f, n)}
<1>1. 0 \in N
  <2> DEFINE f == [s \in SUBSET (1 .. 0) |-> g]
  <2>1. \A s \in SUBSET (1 .. 0) : s = {}
    OBVIOUS
  <2>2. Iterates(f, 0)
    BY <2>1
  <2>3. 0 \in 0 .. LunCount
    BY Parameters
  <2> HIDE DEF f, Iterates
  <2> QED
    BY <2>2, <2>3
<1>2. ASSUME NEW n \in 0 .. LunCount - 1, n \in N  PROVE n + 1 \in N
  <2>1. PICK f : Iterates(f, n)
    BY <1>2
  <2> DEFINE e == [s \in SUBSET (1 .. n + 1) |->
                     IF n + 1 \in s THEN SetReady(f[s \ {n + 1}], n, TRUE) ELSE f[s]]
  <2>2. ASSUME NEW s \in SUBSET (1 .. n + 1), s # {}
        PROVE  e[s] = SetReady(e[s \ {Max(s)}], q[Max(s)] - 1, TRUE)
    <3>1. CASE n + 1 \in s
      <4>1. Max(s) = n + 1
        <5>1. s \subseteq Nat /\ \A j \in s : n + 1 >= j
          OBVIOUS
        <5> QED
          BY <3>1, <5>1, MaxIs
      <4>2. e[s \ {n + 1}] = f[s \ {n + 1}] /\ q[n + 1] - 1 = n
        BY Parameters
      <4> QED
        BY <3>1, <4>1, <4>2
    <3>2. CASE n + 1 \notin s
      <4>1. s \in SUBSET (1 .. n)
        BY <3>2
      <4>2. f[s] = SetReady(f[s \ {Max(s)}], q[Max(s)] - 1, TRUE)
        BY <2>1, <2>2, <4>1
      <4>3. e[s] = f[s] /\ e[s \ {Max(s)}] = f[s \ {Max(s)}]
        BY <3>2
      <4> QED
        BY <4>2, <4>3
    <3> QED
      BY <3>1, <3>2
  <2>3. e[{}] = g
    BY <2>1
  <2>4. Iterates(e, n + 1)
    <3> HIDE DEF e, q
    <3>1. e = [s \in SUBSET (1 .. n + 1) |-> e[s]]
      BY DEF e
    <3> QED
      BY <2>2, <2>3, <3>1
  <2> HIDE DEF e, Iterates
  <2> QED
    BY <2>4, Parameters
<1>3. LunCount \in N
  <2> HIDE DEF N
  <2>1. N \subseteq Nat
    <3> HIDE DEF Iterates
    <3> QED
      BY Parameters DEF N
  <2> QED
    BY <1>1, <1>2, <2>1, Parameters, UpTo
<1> DEFINE F == CHOOSE f : Iterates(f, LunCount)
<1>5. Iterates(F, LunCount)
  <2>1. \E f : Iterates(f, LunCount)
    BY <1>3
  <2> HIDE DEF Iterates
  <2> QED
    BY <2>1
<1>6. EachReady(g) = F[1 .. LunCount]
  BY DEF EachReady, FoldLeft, MapThenFoldSet
<1> HIDE DEF F
<1> DEFINE h == [k \in 0 .. LunCount |-> F[1 .. k]]
<1>7. h[0] = g
  <2>1. h[0] = F[1 .. 0] /\ 1 .. 0 = {} /\ {} \in SUBSET (1 .. LunCount)
    BY Parameters
  <2>2. F[{}] = g
    BY <1>5, <2>1
  <2> QED
    BY <2>1, <2>2
<1>8. ASSUME NEW l \in Luns
      PROVE  h[l + 1] = SetReady(h[l], l, TRUE)
  <2> DEFINE S == 1 .. l + 1
  <2>1. l \in Nat /\ l + 1 <= LunCount
    BY Parameters DEF Luns
  <2>2. l + 1 \in S /\ S \subseteq Nat /\ (\A j \in S : l + 1 >= j) /\ S \ {l + 1} = 1 .. l
    BY <2>1
  <2>7. q[l + 1] = l + 1
    BY <2>1, Parameters
  <2>8. S \in SUBSET (1 .. LunCount) /\ S # {} /\ l + 1 - 1 = l
    <3>1. LunCount \in Nat
      BY Parameters
    <3> QED
      BY <2>1, <3>1
  <2>3. S \in SUBSET (1 .. LunCount) /\ S # {} /\ q[l + 1] - 1 = l
    <3>1. l + 1 \in Nat /\ \A x \in Nat : x = l + 1 => x - 1 = l
      BY <2>1
    <3> HIDE DEF q, S, h
    <3>2. q[l + 1] - 1 = l
      BY <2>7, <2>8, <3>1, Zenon
    <3> QED
      BY <2>8, <3>2, Zenon
  <2> HIDE DEF q, S
  <2>4. Max(S) = l + 1
    BY <2>2, MaxIs
  <2>5. F[S] = SetReady(F[1 .. l], l, TRUE)
    BY <1>5, <2>2, <2>3, <2>4, Zenon
  <2>6. h[l + 1] = F[S] /\ h[l] = F[1 .. l]
    BY <2>1, Parameters DEF S
  <2> HIDE DEF h
  <2> QED
    BY <2>5, <2>6
<1>9. EachReady(g) = h[LunCount]
  BY <1>6, Parameters
<1> QED
  BY <1>7, <1>8, <1>9

LEMMA EachReadyTyped ==
  ASSUME NEW g \in Drivers
  PROVE  EachReady(g) \in Drivers
<1>1. PICK h : /\ h[0] = g
               /\ \A l \in Luns : h[l + 1] = SetReady(h[l], l, TRUE)
               /\ EachReady(g) = h[LunCount]
  BY InTurn
<1> DEFINE S == {n \in Nat : n <= LunCount => h[n] \in Drivers}
<1>2. 0 \in S
  BY <1>1
<1>3. ASSUME NEW k \in 0 .. LunCount - 1, k \in S  PROVE k + 1 \in S
  <2>1. k \in Nat /\ k <= LunCount /\ k + 1 \in Nat
    BY Parameters
  <2>2. k \in Luns /\ h[k] \in Drivers
    BY <1>3, <2>1 DEF Luns
  <2> HIDE DEF S
  <2>3. h[k + 1] = SetReady(h[k], k, TRUE)
    BY <1>1, <2>2, Zenon
  <2>4. h[k + 1] \in Drivers
    BY <2>2, <2>3, SetReadyTyped
  <2> QED
    BY <2>1, <2>4 DEF S
<1>4. LunCount \in S
  <2> HIDE DEF S
  <2>1. S \subseteq Nat
    BY DEF S
  <2> QED
    BY <1>2, <1>3, <2>1, Parameters, UpTo
<1> QED
  BY <1>1, <1>4, Parameters

LEMMA AnnounceTyped ==
  ASSUME NEW d \in Drivers, NEW i \in Luns, NEW ready \in BOOLEAN
  PROVE  Announce(d, i, ready) \in Drivers
<1> DEFINE isReady == ready /\ d.inst[i].capacity
           f == DeviceInfo(d, i, isReady)
           l == f.inst[i].bLun
           g == [f EXCEPT !.inst[i].bAnnounced = TRUE]
<1>1. isReady \in BOOLEAN
  OBVIOUS
<1>2. f \in Drivers
  BY <1>1, DeviceInfoTyped
<1>7. Announce(d, i, ready) =
        CASE f.inst[i].bAnnounced -> SetReady(f, l, isReady)
          [] ~f.inst[i].bAnnounced /\ l = LunCount - 1 -> EachReady(g)
          [] OTHER -> g
  BY Zenon DEF Announce, EachReady
<1> HIDE DEF f, isReady
<1>3. l \in Luns
  BY <1>2, Fields, InstancesAre DEF Typed
<1>4. Typed([f.inst[i] EXCEPT !.bAnnounced = TRUE])
  BY <1>2, Fields, InstancesAre, RemovableTyped
<1>5. g \in Drivers
  BY <1>2, <1>4, InstancesAre, InstTyped
<1> HIDE DEF g, l
<1>6. SetReady(f, l, isReady) \in Drivers /\ EachReady(g) \in Drivers
  BY <1>1, <1>2, <1>3, <1>5, SetReadyTyped, EachReadyTyped
<1> QED
  BY <1>5, <1>6, <1>7

\* A step's new instance has its type, and a command of a unit goes with it.
StepTyped(n) ==
  /\ Typed(n.s)
  /\ n.lun \in Luns
  /\ n.announce \in BOOLEAN /\ n.ready \in BOOLEAN
  /\ n.op \in Ops \ {"none", "DATA"} \/ n.announce

\* So do the steps of MGC_ScsiCmdComplete.
LEMMA NextTyped ==
  ASSUME NEW s, Typed(s), NEW op \in Ops \ {"none", "DATA"}, NEW l \in Luns
  PROVE  StepTyped(SendNext(s, op)) /\ StepTyped([SendNext(s, op) EXCEPT !.lun = l])
  BY DEF StepTyped, SendNext, Typed

LEMMA AnnouncesTyped ==
  ASSUME NEW s, Typed(s), NEW b \in BOOLEAN
  PROVE  StepTyped(Announces(s, b))
  BY DEF StepTyped, Announces, Typed

\* One field of an instance after the other
LEMMA OneTyped ==
  ASSUME NEW s, Typed(s), NEW bState \in States, NEW b \in BOOLEAN, NEW l \in Luns,
         NEW m \in 0 .. TestUnitRetries + 1, NEW c \in 0 .. CapacityRetries,
         NEW f \in 0 .. FmtCapacityRetries, NEW sense \in Senses
  PROVE  /\ Typed([s EXCEPT !.bState = bState]) /\ Typed([s EXCEPT !.bError = b])
         /\ Typed([s EXCEPT !.bNoMedium = b]) /\ Typed([s EXCEPT !.bLunScan = b])
         /\ Typed([s EXCEPT !.bLunIndex = l]) /\ Typed([s EXCEPT !.dwRetries = m])
         /\ Typed([s EXCEPT !.dwCapacityRetries = c])
         /\ Typed([s EXCEPT !.bFmtCapacityRetries = f])
         /\ Typed([s EXCEPT !.inquiry = l]) /\ Typed([s EXCEPT !.capacity = b])
         /\ Typed([s EXCEPT !.sense = sense])
<1>1. /\ Typed([s EXCEPT !.bState = bState]) /\ Typed([s EXCEPT !.bError = b])
      /\ Typed([s EXCEPT !.bNoMedium = b]) /\ Typed([s EXCEPT !.bLunScan = b])
      /\ Typed([s EXCEPT !.bLunIndex = l]) /\ Typed([s EXCEPT !.dwRetries = m])
  BY ZenonT(40) DEF Typed, Names
<1>2. /\ Typed([s EXCEPT !.dwCapacityRetries = c])
      /\ Typed([s EXCEPT !.bFmtCapacityRetries = f])
      /\ Typed([s EXCEPT !.inquiry = l]) /\ Typed([s EXCEPT !.capacity = b])
      /\ Typed([s EXCEPT !.sense = sense])
  BY ZenonT(40) DEF Typed, Names
<1> QED
  BY <1>1, <1>2

LEMMA InquiryTyped ==
  ASSUME NEW s, Typed(s)
  PROVE  StepTyped(InquiryStep(s))
<1> DEFINE z == [s EXCEPT !.bState = "READ_FMT_CAPACITY"]
<1>1. Typed(z) /\ s.bLunIndex \in Luns
  BY Zeros, Zenon DEF Typed, Names, States
<1> HIDE DEF z
<1>2. /\ StepTyped(SendNext(z, "READ_FMT_CAPACITY"))
      /\ StepTyped([SendNext(z, "READ_FMT_CAPACITY") EXCEPT !.lun = s.bLunIndex])
  BY <1>1, NextTyped DEF Ops
<1> QED
  BY <1>2 DEF InquiryStep, z

LEMMA FmtCapacityTyped ==
  ASSUME NEW s, Typed(s), NEW failed \in BOOLEAN
  PROVE  StepTyped(FmtCapacityStep(s, failed))
<1> DEFINE next == s.bLunIndex + 1
           inquire == [s EXCEPT !.bState = "INQUIRY"]
           retry == [s EXCEPT !.bFmtCapacityRetries = @ + 1]
           read == [s EXCEPT !.bState = "READ_CAPACITY"]
           on == [inquire EXCEPT !.bLunIndex = next]
           off == [inquire EXCEPT !.bLunScan = FALSE]
<1>1. Typed(inquire) /\ Typed(read)
  BY Zenon DEF Typed, Names, States
<1>2. Typed(off)
  <2> HIDE DEF inquire
  <2> QED
    BY <1>1, Zenon DEF Typed, Names
<1>3. ASSUME s.bFmtCapacityRetries < FmtCapacityRetries  PROVE Typed(retry)
  <2>1. s.bFmtCapacityRetries + 1 \in 0 .. FmtCapacityRetries
    <3>1. s.bFmtCapacityRetries \in 0 .. FmtCapacityRetries /\ FmtCapacityRetries \in Nat
      BY Parameters DEF Typed
    <3> QED
      BY <1>3, <3>1
  <2> QED
    BY <2>1, Zenon DEF Typed, Names
<1>4. ASSUME next < LunCount  PROVE next \in Luns /\ Typed(on)
  <2>1. next \in Luns
    <3>1. s.bLunIndex \in Luns
      BY DEF Typed
    <3> QED
      BY <1>4, <3>1, ScsiAssumption DEF Luns, ScsiAssumption
  <2> HIDE DEF inquire, next
  <2> QED
    BY <1>1, <2>1, Zenon DEF Typed, Names
<1> HIDE DEF inquire, retry, read, on, off
<1>5. StepTyped(SendNext(read, "READ_CAPACITY")) /\ StepTyped(SendNext(off, "INQUIRY"))
  BY <1>1, <1>2, Zeros, NextTyped DEF Ops
<1>6. s.bFmtCapacityRetries < FmtCapacityRetries =>
        StepTyped(SendNext(retry, "READ_FMT_CAPACITY"))
  BY <1>3, Zeros, NextTyped DEF Ops
<1>7. next < LunCount => StepTyped([SendNext(on, "INQUIRY") EXCEPT !.lun = next])
  <2> HIDE DEF next
  <2> QED
    BY <1>4, NextTyped DEF Ops
<1>8. FmtCapacityStep(s, failed) =
        CASE failed /\ s.bFmtCapacityRetries < FmtCapacityRetries ->
               SendNext(retry, "READ_FMT_CAPACITY")
          [] ~(failed /\ s.bFmtCapacityRetries < FmtCapacityRetries) /\ ~s.bLunScan ->
               SendNext(read, "READ_CAPACITY")
          [] OTHER -> IF next < LunCount THEN [SendNext(on, "INQUIRY") EXCEPT !.lun = next]
                                         ELSE SendNext(off, "INQUIRY")
  BY Zenon DEF FmtCapacityStep, inquire, retry, read, on, off
<1> HIDE DEF next
<1> QED
  BY <1>5, <1>6, <1>7, <1>8, Zenon

LEMMA CapacityTyped ==
  ASSUME NEW s, Typed(s), NEW failed \in BOOLEAN, NEW bUsbError \in BOOLEAN, NEW sense
  PROVE  StepTyped(CapacityStep(s, failed, bUsbError, sense))
<1> DEFINE z == [s EXCEPT !.capacity = @ /\ ~failed]
           test == [z EXCEPT !.bState = "TEST_UNIT_READY"]
           first == [z EXCEPT !.bState = "FIRST_TEST"]
<1>1. Typed(z)
  <2>1. (s.capacity /\ ~failed) \in BOOLEAN
    OBVIOUS
  <2> QED
    BY <2>1, Zenon DEF Typed, Names
<1> HIDE DEF z
<1>2. Typed(test) /\ Typed(first)
  BY <1>1, Zenon DEF Typed, Names, States
<1> HIDE DEF test, first
<1>3. /\ StepTyped(SendNext(z, "READ_CAPACITY"))
      /\ StepTyped(SendNext(test, "TEST_UNIT_READY"))
      /\ StepTyped(SendNext(first, "TEST_UNIT_READY"))
  BY <1>1, <1>2, Zeros, NextTyped DEF Ops
<1>4. CapacityStep(s, failed, bUsbError, sense) =
        CASE sense = "medium change" -> SendNext(z, "READ_CAPACITY")
          [] sense # "medium change" /\ (s.bNoMedium \/ bUsbError) ->
               SendNext(test, "TEST_UNIT_READY")
          [] OTHER -> SendNext(first, "TEST_UNIT_READY")
  BY Zenon DEF CapacityStep, z, test, first
<1> QED
  BY <1>3, <1>4, Zenon

LEMMA FirstTestTyped ==
  ASSUME NEW s, Typed(s), NEW failed \in BOOLEAN
  PROVE  StepTyped(FirstTestStep(s, failed))
<1> DEFINE more == [s EXCEPT !.dwRetries = @ + 1]
           test == [s EXCEPT !.bState = "TEST_UNIT_READY"]
           again == [s EXCEPT !.dwRetries = 0, !.bState = "TEST_UNIT_READY"]
           block == [s EXCEPT !.dwRetries = 0, !.bState = "READ_BLOCK0"]
<1>1. Typed(test) /\ Typed(again) /\ Typed(block)
  BY Zeros, Zenon DEF Typed, Names, States
<1>2. ASSUME s.dwRetries < TestUnitRetries  PROVE Typed(more)
  <2>1. s.dwRetries + 1 \in 0 .. TestUnitRetries + 1
    <3>1. s.dwRetries \in 0 .. TestUnitRetries + 1 /\ TestUnitRetries \in Nat
      BY Parameters DEF Typed
    <3> QED
      BY <1>2, <3>1
  <2> QED
    BY <2>1, Zenon DEF Typed, Names
<1>3. s.dwRetries < TestUnitRetries \/ s.dwRetries >= TestUnitRetries
  BY Parameters DEF Typed
<1> HIDE DEF more, test, again, block
<1>4. /\ StepTyped(Announces(test, TRUE))
      /\ StepTyped(SendNext(again, "TEST_UNIT_READY"))
      /\ StepTyped(SendNext(block, "READ10"))
  BY <1>1, Zeros, NextTyped, AnnouncesTyped DEF Ops
<1>5. s.dwRetries < TestUnitRetries => StepTyped(SendNext(more, "TEST_UNIT_READY"))
  BY <1>2, Zeros, NextTyped DEF Ops
<1>6. FirstTestStep(s, failed) =
        CASE failed /\ s.dwRetries < TestUnitRetries -> SendNext(more, "TEST_UNIT_READY")
          [] failed /\ s.dwRetries >= TestUnitRetries -> SendNext(again, "TEST_UNIT_READY")
          [] ~failed /\ s.capacity -> Announces(test, TRUE)
          [] ~failed /\ ~s.capacity /\ s.set = "SFF-8070i" -> SendNext(again, "TEST_UNIT_READY")
          [] OTHER -> SendNext(block, "READ10")
  BY Zenon DEF FirstTestStep, more, test, again, block
<1> QED
  BY <1>3, <1>4, <1>5, <1>6, Zenon

LEMMA Block0Typed ==
  ASSUME NEW s, Typed(s), NEW bError \in BOOLEAN
  PROVE  StepTyped(Block0Step(s, bError))
<1> DEFINE test == [s EXCEPT !.bState = "TEST_UNIT_READY", !.bRemovable = @ \/ bError]
           read == [s EXCEPT !.dwCapacityRetries = @ + 1, !.bState = "READ_CAPACITY"]
<1>1. Typed(test)
  <2>1. (s.bRemovable \/ bError) \in BOOLEAN
    OBVIOUS
  <2> QED
    BY <2>1, Zenon DEF Typed, Names, States
<1>2. ASSUME s.dwCapacityRetries < CapacityRetries  PROVE Typed(read)
  <2>1. s.dwCapacityRetries + 1 \in 0 .. CapacityRetries
    <3>1. s.dwCapacityRetries \in 0 .. CapacityRetries /\ CapacityRetries \in Nat
      BY Parameters DEF Typed
    <3> QED
      BY <1>2, <3>1
  <2> QED
    BY <2>1, Zenon DEF Typed, Names, States
<1> HIDE DEF test, read
<1>3. StepTyped(SendNext(test, "TEST_UNIT_READY"))
  BY <1>1, Zeros, NextTyped DEF Ops
<1>4. s.dwCapacityRetries < CapacityRetries => StepTyped(SendNext(read, "READ_CAPACITY"))
  BY <1>2, Zeros, NextTyped DEF Ops
<1>5. Block0Step(s, bError) =
        IF ~bError /\ s.dwCapacityRetries < CapacityRetries /\ ~s.capacity
        THEN SendNext(read, "READ_CAPACITY") ELSE SendNext(test, "TEST_UNIT_READY")
  BY Zenon DEF Block0Step, test, read
<1> QED
  BY <1>3, <1>4, <1>5, Zenon

LEMMA TestUnitTyped ==
  ASSUME NEW s, Typed(s), NEW bError \in BOOLEAN
  PROVE  StepTyped(TestUnitStep(s, bError))
<1> DEFINE none == [s EXCEPT !.dwRetries = 0, !.bRemovable = TRUE]
           more == [s EXCEPT !.dwRetries = @ + 1]
<1>1. Typed(none)
  BY Zeros, Zenon DEF Typed, Names
<1>2. ASSUME ~(s.dwRetries > TestUnitRetries)  PROVE Typed(more)
  <2>1. s.dwRetries + 1 \in 0 .. TestUnitRetries + 1
    <3>1. s.dwRetries \in 0 .. TestUnitRetries + 1 /\ TestUnitRetries \in Nat
      BY Parameters DEF Typed
    <3> QED
      BY <1>2, <3>1
  <2> QED
    BY <2>1, Zenon DEF Typed, Names
<1> HIDE DEF none, more
<1>3. /\ StepTyped(Announces(s, ~s.bNoMedium))
      /\ StepTyped(Announces(none, FALSE))
  BY <1>1, AnnouncesTyped
<1>4. ~(s.dwRetries > TestUnitRetries) => StepTyped(SendNext(more, "TEST_UNIT_READY"))
  BY <1>2, Zeros, NextTyped DEF Ops
<1>5. TestUnitStep(s, bError) =
        CASE ~bError -> Announces(s, ~s.bNoMedium)
          [] bError /\ s.dwRetries > TestUnitRetries -> Announces(none, FALSE)
          [] OTHER -> SendNext(more, "TEST_UNIT_READY")
  BY Zenon DEF TestUnitStep, none, more
<1> QED
  BY <1>3, <1>4, <1>5, Zenon

LEMMA AllowTyped ==
  ASSUME NEW s, Typed(s)
  PROVE  StepTyped(AllowStep(s))
<1>1. Typed([s EXCEPT !.bState = "STOP_UNIT"])
  BY Zenon DEF Typed, Names, States
<1> QED
  BY <1>1, NextTyped, Zeros DEF AllowStep, Ops

LEMMA SensedTyped ==
  ASSUME NEW s, Typed(s)
  PROVE  Typed(Sensed(s))
<1>1. /\ (s.bRemovable \/ s.sense \in {"not ready", "start unit"}) \in BOOLEAN
      /\ (s.bNoMedium \/ s.sense = "no medium") \in BOOLEAN
  OBVIOUS
<1>2. Typed([s EXCEPT !.bError = FALSE,
                 !.bRemovable = @ \/ s.sense \in {"not ready", "start unit"},
                 !.bNoMedium = @ \/ s.sense = "no medium"])
  BY <1>1, ZenonT(60) DEF Typed, Names
<1> QED
  BY <1>2 DEF Sensed

-----------------------------------------------------------------------------
(* The state, and what an answer makes of it.                              *)

Typing == /\ TypeOK
          /\ command \in [Luns -> Commands]

LEMMA DriverTyped ==
  ASSUME Typing
  PROVE  Driver \in Drivers
  BY DEF Typing, TypeOK, Driver, Drivers

LEMMA CommandsAre == [Luns -> Commands] \subseteq [Luns -> [op : Ops, by : Luns \cup {FileSystem}]]
<1>1. Commands \subseteq [op : Ops, by : Luns \cup {FileSystem}]
  BY DEF Commands, Idle, Ops
<1> QED
  BY <1>1

LEMMA BecomesTyped ==
  ASSUME NEW d \in Drivers, Becomes(d)
  PROVE  /\ inst' \in [Luns -> Instances] /\ volume' \in [Luns -> Volumes]
         /\ command' \in [Luns -> Commands] /\ hfi' \in FileSystems
  BY DEF Becomes, Drivers

LEMMA AnswersTyped ==
  ASSUME NEW l \in Luns, NEW a \in Answers(l)
  PROVE  a.bUsbError \in BOOLEAN /\ a.sense \in Senses
  BY Zenon DEF Answers, SensesOf, Senses

LEMMA InFlightBy ==
  ASSUME Typing, NEW l \in Luns, InFlight(l)
  PROVE  command[l].by \in Luns
  BY DEF Typing, InFlight, Commands, Idle

LEMMA ReceivedTyped ==
  ASSUME Typing, NEW l \in Luns, InFlight(l), NEW a \in Answers(l)
  PROVE  Received(l, a) \in Drivers
<1> DEFINE i == command[l].by
           steady == IF a.bUsbError THEN hfi.steady \ {l} ELSE hfi.steady
           d == [Driver EXCEPT !.command[l] = Idle, !.hfi.steady = steady]
<1>1. i \in Luns
  BY InFlightBy
<1>2. d \in Drivers
  <2>1. Driver \in Drivers
    BY DriverTyped
  <2>2. Driver.hfi = hfi /\ hfi \in FileSystems
    BY DEF Driver, Typing, TypeOK
  <2>3. steady \in SUBSET Luns
    BY <2>2, HfiFields
  <2>4. [hfi EXCEPT !.steady = steady] \in FileSystems
    BY <2>2, <2>3, HfiFields
  <2> HIDE DEF steady
  <2>5. Idle \in Commands
    BY DEF Commands
  <2> QED
    BY <2>1, <2>2, <2>4, <2>5 DEF Drivers
<1>3. Received(l, a) =
        CASE command[l].op = "INQUIRY" -> [d EXCEPT !.inst[i].inquiry = l]
          [] command[l].op = "READ_CAPACITY" /\ ~a.bUsbError -> [d EXCEPT !.inst[i].capacity = TRUE]
          [] command[l].op = "REQUEST_SENSE" -> [d EXCEPT !.inst[i].sense = a.sense]
          [] OTHER -> d
  BY DEF Received, Driver
<1> HIDE DEF d, i
<1>4. Typed(d.inst[i])
  BY <1>1, <1>2, Fields, InstancesAre
<1>5. /\ Typed([d.inst[i] EXCEPT !.inquiry = l]) /\ Typed([d.inst[i] EXCEPT !.capacity = TRUE])
      /\ Typed([d.inst[i] EXCEPT !.sense = a.sense])
  BY <1>4, AnswersTyped, Zenon DEF Typed, Names
<1>6. /\ [d EXCEPT !.inst[i].inquiry = l] \in Drivers
      /\ [d EXCEPT !.inst[i].capacity = TRUE] \in Drivers
      /\ [d EXCEPT !.inst[i].sense = a.sense] \in Drivers
  BY <1>1, <1>2, <1>5, InstancesAre, InstTyped
<1> QED
  BY <1>2, <1>3, <1>6

\* What the driver does with a step
LEMMA StepTaken ==
  ASSUME NEW d \in Drivers, NEW i \in Luns, NEW n, StepTyped(n), NEW sense
  PROVE  (IF n.announce \/ sense = "not ready"
          THEN Announce([d EXCEPT !.inst[i] = n.s], i, n.ready)
          ELSE SendCmd([d EXCEPT !.inst[i] = n.s], n.lun, n.op, i)) \in Drivers
<1> DEFINE e == [d EXCEPT !.inst[i] = n.s]
<1>1. e \in Drivers
  BY InstancesAre, InstTyped DEF StepTyped
<1> HIDE DEF e
<1>2. Announce(e, i, n.ready) \in Drivers
  BY <1>1, AnnounceTyped DEF StepTyped
<1>3. ~n.announce => SendCmd(e, n.lun, n.op, i) \in Drivers
  BY <1>1, SendCmdTyped DEF StepTyped
<1> QED
  BY <1>2, <1>3, Zenon DEF e

\* What the steps have in common: an answer is taken in and a step follows from it.
LEMMA TakenIn ==
  ASSUME Typing, NEW l \in Luns, InFlight(l), NEW a \in Answers(l)
  PROVE  LET d == Received(l, a)
             i == command[l].by
         IN  i \in Luns /\ d \in Drivers /\ d.inst[i].bError \in BOOLEAN /\ Typed(Sensed(d.inst[i]))
<1> DEFINE d == Received(l, a)
           i == command[l].by
<1>1. i \in Luns /\ d \in Drivers
  BY InFlightBy, ReceivedTyped
<1> HIDE DEF d, i
<1>2. Typed(d.inst[i])
  BY <1>1, Fields, InstancesAre, SMTT(60)
<1>3. d.inst[i].bError \in BOOLEAN /\ Typed(Sensed(d.inst[i]))
  BY <1>2, SensedTyped DEF Typed
<1> QED
  BY <1>1, <1>3 DEF d, i

LEMMA OthersTyped ==
  ASSUME Typing, NEW l \in Luns,
         unit' = [unit EXCEPT ![l].attention = @ /\ command[l].op # "REQUEST_SENSE"]
  PROVE  unit' \in [Luns -> Units]
  BY ZenonT(60) DEF Typing, TypeOK, Units

LEMMA AnsweredTyped ==
  ASSUME Typing, NEW l \in Luns, NEW a \in Answers(l), NEW n, StepTyped(n), NEW sense, InFlight(l),
         Becomes(IF n.announce \/ sense = "not ready"
                 THEN Announce([Received(l, a) EXCEPT !.inst[command[l].by] = n.s],
                               command[l].by, n.ready)
                 ELSE SendCmd([Received(l, a) EXCEPT !.inst[command[l].by] = n.s],
                              n.lun, n.op, command[l].by)),
         unit' = [unit EXCEPT ![l].attention = @ /\ command[l].op # "REQUEST_SENSE"],
         UNCHANGED <<phase, changes>>
  PROVE  Typing'
<1> DEFINE i == command[l].by
           d == Received(l, a)
<1>1. i \in Luns /\ d \in Drivers
  BY TakenIn, Zenon
<1>2. Becomes(IF n.announce \/ sense = "not ready"
              THEN Announce([d EXCEPT !.inst[i] = n.s], i, n.ready)
              ELSE SendCmd([d EXCEPT !.inst[i] = n.s], n.lun, n.op, i))
  BY Zenon
<1> HIDE DEF i, d
<1>3. /\ inst' \in [Luns -> Instances] /\ volume' \in [Luns -> Volumes]
      /\ command' \in [Luns -> Commands] /\ hfi' \in FileSystems
  BY <1>1, <1>2, StepTaken, BecomesTyped, Zenon
<1> QED
  BY <1>3, OthersTyped, CommandsAre, Zenon DEF Typing, TypeOK

\* Each action keeps the types.
LEMMA InquiryCompleteTyped ==
  ASSUME Typing, NEW l \in Luns, InquiryComplete(l)
  PROVE  Typing'
<1>1. InFlight(l) /\ UNCHANGED <<phase, changes>>
  BY ZenonT(60) DEF InquiryComplete, Answered
<1>2. unit' = [unit EXCEPT ![l].attention = @ /\ command[l].op # "REQUEST_SENSE"]
  BY Zenon DEF InquiryComplete, Answered
<1>3. PICK a \in Answers(l) :
        LET i == command[l].by
            d == Received(l, a)
            bError == d.inst[i].bError
            sense == IF bError THEN d.inst[i].sense ELSE "none"
            n == InquiryStep(Sensed(d.inst[i]))
            e == [d EXCEPT !.inst[i] = n.s]
        IN  Becomes(IF n.announce \/ sense = "not ready"
                    THEN Announce(e, i, n.ready) ELSE SendCmd(e, n.lun, n.op, i))
  BY Zenon DEF InquiryComplete, Answered
<1> DEFINE i == command[l].by
           d == Received(l, a)
           bError == d.inst[i].bError
           sense == IF bError THEN d.inst[i].sense ELSE "none"
           n == InquiryStep(Sensed(d.inst[i]))
<1>4. StepTyped(n)
  BY <1>1, TakenIn, AnswersTyped, InquiryTyped, SMTT(60)
<1>5. Becomes(IF n.announce \/ sense = "not ready"
              THEN Announce([Received(l, a) EXCEPT !.inst[command[l].by] = n.s],
                            command[l].by, n.ready)
              ELSE SendCmd([Received(l, a) EXCEPT !.inst[command[l].by] = n.s],
                           n.lun, n.op, command[l].by))
  BY <1>3, ZenonT(60)
<1> HIDE DEF n, sense
<1> QED
  BY <1>1, <1>2, <1>4, <1>5, AnsweredTyped, ZenonT(60)

LEMMA FmtCapacityCompleteTyped ==
  ASSUME Typing, NEW l \in Luns, FmtCapacityComplete(l)
  PROVE  Typing'
<1>1. InFlight(l) /\ UNCHANGED <<phase, changes>>
  BY ZenonT(60) DEF FmtCapacityComplete, Answered
<1>2. unit' = [unit EXCEPT ![l].attention = @ /\ command[l].op # "REQUEST_SENSE"]
  BY Zenon DEF FmtCapacityComplete, Answered
<1>3. PICK a \in Answers(l) :
        LET i == command[l].by
            d == Received(l, a)
            bError == d.inst[i].bError
            sense == IF bError THEN d.inst[i].sense ELSE "none"
            n == FmtCapacityStep(Sensed(d.inst[i]), bError \/ a.bUsbError)
            e == [d EXCEPT !.inst[i] = n.s]
        IN  Becomes(IF n.announce \/ sense = "not ready"
                    THEN Announce(e, i, n.ready) ELSE SendCmd(e, n.lun, n.op, i))
  BY ZenonT(60) DEF FmtCapacityComplete, Answered
<1> DEFINE i == command[l].by
           d == Received(l, a)
           bError == d.inst[i].bError
           sense == IF bError THEN d.inst[i].sense ELSE "none"
           n == FmtCapacityStep(Sensed(d.inst[i]), bError \/ a.bUsbError)
<1>4. StepTyped(n)
  BY <1>1, TakenIn, AnswersTyped, FmtCapacityTyped
<1>5. Becomes(IF n.announce \/ sense = "not ready"
              THEN Announce([Received(l, a) EXCEPT !.inst[command[l].by] = n.s],
                            command[l].by, n.ready)
              ELSE SendCmd([Received(l, a) EXCEPT !.inst[command[l].by] = n.s],
                           n.lun, n.op, command[l].by))
  BY <1>3, ZenonT(60)
<1> HIDE DEF n, sense
<1> QED
  BY <1>1, <1>2, <1>4, <1>5, AnsweredTyped

LEMMA CapacityCompleteTyped ==
  ASSUME Typing, NEW l \in Luns, CapacityComplete(l)
  PROVE  Typing'
<1>1. InFlight(l) /\ UNCHANGED <<phase, changes>>
  BY ZenonT(60) DEF CapacityComplete, Answered
<1>2. unit' = [unit EXCEPT ![l].attention = @ /\ command[l].op # "REQUEST_SENSE"]
  BY Zenon DEF CapacityComplete, Answered
<1>3. PICK a \in Answers(l) :
        LET i == command[l].by
            d == Received(l, a)
            bError == d.inst[i].bError
            sense == IF bError THEN d.inst[i].sense ELSE "none"
            r == [bError |-> bError, bUsbError |-> a.bUsbError,
                  failed |-> bError \/ a.bUsbError, sense |-> sense]
            n == CapacityStep(Sensed(d.inst[i]), r.failed, r.bUsbError, r.sense)
            e == [d EXCEPT !.inst[i] = n.s]
        IN  Becomes(IF n.announce \/ sense = "not ready"
                    THEN Announce(e, i, n.ready) ELSE SendCmd(e, n.lun, n.op, i))
  BY Zenon DEF CapacityComplete, Answered
<1> DEFINE i == command[l].by
           d == Received(l, a)
           bError == d.inst[i].bError
           sense == IF bError THEN d.inst[i].sense ELSE "none"
           r == [bError |-> bError, bUsbError |-> a.bUsbError,
                 failed |-> bError \/ a.bUsbError, sense |-> sense]
           n == CapacityStep(Sensed(d.inst[i]), r.failed, r.bUsbError, r.sense)
<1>6. r.failed \in BOOLEAN /\ r.bUsbError \in BOOLEAN
  BY <1>1, TakenIn, AnswersTyped
<1>4. StepTyped(n)
  <2> HIDE DEF r
  <2> QED
    BY <1>1, <1>6, TakenIn, CapacityTyped, SMTT(60)
<1>5. Becomes(IF n.announce \/ sense = "not ready"
              THEN Announce([Received(l, a) EXCEPT !.inst[command[l].by] = n.s],
                            command[l].by, n.ready)
              ELSE SendCmd([Received(l, a) EXCEPT !.inst[command[l].by] = n.s],
                           n.lun, n.op, command[l].by))
  BY <1>3, ZenonT(60)
<1> HIDE DEF n, sense
<1> QED
  BY <1>1, <1>2, <1>4, <1>5, AnsweredTyped

LEMMA FirstTestCompleteTyped ==
  ASSUME Typing, NEW l \in Luns, FirstTestComplete(l)
  PROVE  Typing'
<1>1. InFlight(l) /\ UNCHANGED <<phase, changes>>
  BY ZenonT(60) DEF FirstTestComplete, Answered
<1>2. unit' = [unit EXCEPT ![l].attention = @ /\ command[l].op # "REQUEST_SENSE"]
  BY Zenon DEF FirstTestComplete, Answered
<1>3. PICK a \in Answers(l) :
        LET i == command[l].by
            d == Received(l, a)
            bError == d.inst[i].bError
            sense == IF bError THEN d.inst[i].sense ELSE "none"
            n == FirstTestStep(Sensed(d.inst[i]), bError \/ a.bUsbError)
            e == [d EXCEPT !.inst[i] = n.s]
        IN  Becomes(IF n.announce \/ sense = "not ready"
                    THEN Announce(e, i, n.ready) ELSE SendCmd(e, n.lun, n.op, i))
  BY ZenonT(60) DEF FirstTestComplete, Answered
<1> DEFINE i == command[l].by
           d == Received(l, a)
           bError == d.inst[i].bError
           sense == IF bError THEN d.inst[i].sense ELSE "none"
           n == FirstTestStep(Sensed(d.inst[i]), bError \/ a.bUsbError)
<1>4. StepTyped(n)
  BY <1>1, TakenIn, AnswersTyped, FirstTestTyped
<1>5. Becomes(IF n.announce \/ sense = "not ready"
              THEN Announce([Received(l, a) EXCEPT !.inst[command[l].by] = n.s],
                            command[l].by, n.ready)
              ELSE SendCmd([Received(l, a) EXCEPT !.inst[command[l].by] = n.s],
                           n.lun, n.op, command[l].by))
  BY <1>3
<1> HIDE DEF n, sense
<1> QED
  BY <1>1, <1>2, <1>4, <1>5, AnsweredTyped

LEMMA Block0CompleteTyped ==
  ASSUME Typing, NEW l \in Luns, Block0Complete(l)
  PROVE  Typing'
<1>1. InFlight(l) /\ UNCHANGED <<phase, changes>>
  BY ZenonT(60) DEF Block0Complete, Answered
<1>2. unit' = [unit EXCEPT ![l].attention = @ /\ command[l].op # "REQUEST_SENSE"]
  BY Zenon DEF Block0Complete, Answered
<1>3. PICK a \in Answers(l) :
        LET i == command[l].by
            d == Received(l, a)
            bError == d.inst[i].bError
            sense == IF bError THEN d.inst[i].sense ELSE "none"
            n == Block0Step(Sensed(d.inst[i]), bError)
            e == [d EXCEPT !.inst[i] = n.s]
        IN  Becomes(IF n.announce \/ sense = "not ready"
                    THEN Announce(e, i, n.ready) ELSE SendCmd(e, n.lun, n.op, i))
  BY ZenonT(60) DEF Block0Complete, Answered
<1> DEFINE i == command[l].by
           d == Received(l, a)
           bError == d.inst[i].bError
           sense == IF bError THEN d.inst[i].sense ELSE "none"
           n == Block0Step(Sensed(d.inst[i]), bError)
<1>4. StepTyped(n)
  BY <1>1, TakenIn, AnswersTyped, Block0Typed
<1>5. Becomes(IF n.announce \/ sense = "not ready"
              THEN Announce([Received(l, a) EXCEPT !.inst[command[l].by] = n.s],
                            command[l].by, n.ready)
              ELSE SendCmd([Received(l, a) EXCEPT !.inst[command[l].by] = n.s],
                           n.lun, n.op, command[l].by))
  BY <1>3, ZenonT(60)
<1> HIDE DEF n, sense
<1> QED
  BY <1>1, <1>2, <1>4, <1>5, AnsweredTyped

LEMMA TestUnitCompleteTyped ==
  ASSUME Typing, NEW l \in Luns, TestUnitComplete(l)
  PROVE  Typing'
<1>1. InFlight(l) /\ UNCHANGED <<phase, changes>>
  BY ZenonT(60) DEF TestUnitComplete, Answered
<1>2. unit' = [unit EXCEPT ![l].attention = @ /\ command[l].op # "REQUEST_SENSE"]
  BY Zenon DEF TestUnitComplete, Answered
<1>3. PICK a \in Answers(l) :
        LET i == command[l].by
            d == Received(l, a)
            bError == d.inst[i].bError
            sense == IF bError THEN d.inst[i].sense ELSE "none"
            n == TestUnitStep(Sensed(d.inst[i]), bError)
            e == [d EXCEPT !.inst[i] = n.s]
        IN  Becomes(IF n.announce \/ sense = "not ready"
                    THEN Announce(e, i, n.ready) ELSE SendCmd(e, n.lun, n.op, i))
  BY ZenonT(60) DEF TestUnitComplete, Answered
<1> DEFINE i == command[l].by
           d == Received(l, a)
           bError == d.inst[i].bError
           sense == IF bError THEN d.inst[i].sense ELSE "none"
           n == TestUnitStep(Sensed(d.inst[i]), bError)
<1>4. StepTyped(n)
  BY <1>1, TakenIn, AnswersTyped, TestUnitTyped
<1>5. Becomes(IF n.announce \/ sense = "not ready"
              THEN Announce([Received(l, a) EXCEPT !.inst[command[l].by] = n.s],
                            command[l].by, n.ready)
              ELSE SendCmd([Received(l, a) EXCEPT !.inst[command[l].by] = n.s],
                           n.lun, n.op, command[l].by))
  BY <1>3
<1> HIDE DEF n, sense
<1> QED
  BY <1>1, <1>2, <1>4, <1>5, AnsweredTyped

LEMMA AllowCompleteTyped ==
  ASSUME Typing, NEW l \in Luns, AllowComplete(l)
  PROVE  Typing'
<1>1. InFlight(l) /\ UNCHANGED <<phase, changes>>
  BY ZenonT(60) DEF AllowComplete, Answered
<1>2. unit' = [unit EXCEPT ![l].attention = @ /\ command[l].op # "REQUEST_SENSE"]
  BY Zenon DEF AllowComplete, Answered
<1>3. PICK a \in Answers(l) :
        LET i == command[l].by
            d == Received(l, a)
            bError == d.inst[i].bError
            sense == IF bError THEN d.inst[i].sense ELSE "none"
            n == AllowStep(Sensed(d.inst[i]))
            e == [d EXCEPT !.inst[i] = n.s]
        IN  Becomes(IF n.announce \/ sense = "not ready"
                    THEN Announce(e, i, n.ready) ELSE SendCmd(e, n.lun, n.op, i))
  BY Zenon DEF AllowComplete, Answered
<1> DEFINE i == command[l].by
           d == Received(l, a)
           bError == d.inst[i].bError
           sense == IF bError THEN d.inst[i].sense ELSE "none"
           n == AllowStep(Sensed(d.inst[i]))
<1>4. StepTyped(n)
  BY <1>1, TakenIn, AnswersTyped, AllowTyped
<1>5. Becomes(IF n.announce \/ sense = "not ready"
              THEN Announce([Received(l, a) EXCEPT !.inst[command[l].by] = n.s],
                            command[l].by, n.ready)
              ELSE SendCmd([Received(l, a) EXCEPT !.inst[command[l].by] = n.s],
                           n.lun, n.op, command[l].by))
  BY <1>3
<1> HIDE DEF n, sense
<1> QED
  BY <1>1, <1>2, <1>4, <1>5, AnsweredTyped

LEMMA LastAnsweredTyped ==
  ASSUME Typing, NEW l \in Luns, NEW d \in Drivers, InFlight(l), Becomes(d),
         unit' = [unit EXCEPT ![l].attention = @ /\ command[l].op # "REQUEST_SENSE"],
         UNCHANGED <<phase, changes>>
  PROVE  Typing'
  BY BecomesTyped, OthersTyped, CommandsAre DEF Typing, TypeOK

LEMMA PreventCompleteTyped ==
  ASSUME Typing, NEW l \in Luns, PreventComplete(l)
  PROVE  Typing'
<1>1. /\ InFlight(l) /\ UNCHANGED <<phase, changes>>
      /\ unit' = [unit EXCEPT ![l].attention = @ /\ command[l].op # "REQUEST_SENSE"]
  BY DEF PreventComplete, LastAnswered
<1>2. PICK a \in Answers(l) :
        LET i == command[l].by
            d == Received(l, a)
        IN  Becomes(MountComplete([d EXCEPT !.inst[i] = Sensed(@)], i))
  BY Zenon DEF PreventComplete, LastAnswered
<1> DEFINE i == command[l].by
           d == Received(l, a)
           e == [d EXCEPT !.inst[i] = Sensed(d.inst[i])]
<1>3. i \in Luns /\ d \in Drivers /\ Typed(Sensed(d.inst[i]))
  BY <1>1, TakenIn
<1>4. Becomes(MountComplete(e, i))
  BY <1>2
<1> HIDE DEF i, d
<1>5. e \in Drivers
  BY <1>3, InstancesAre, InstTyped
<1> HIDE DEF e
<1> QED
  BY <1>1, <1>3, <1>4, <1>5, MountCompleteTyped, LastAnsweredTyped

LEMMA StopCompleteTyped ==
  ASSUME Typing, NEW l \in Luns, StopComplete(l)
  PROVE  Typing'
<1>1. /\ InFlight(l) /\ UNCHANGED <<phase, changes>>
      /\ unit' = [unit EXCEPT ![l].attention = @ /\ command[l].op # "REQUEST_SENSE"]
  BY DEF StopComplete, LastAnswered
<1>2. PICK a \in Answers(l) :
        LET i == command[l].by
            d == Received(l, a)
        IN  Becomes([d EXCEPT !.inst[i] = Sensed(@)])
  BY Zenon DEF StopComplete, LastAnswered
<1> DEFINE i == command[l].by
           d == Received(l, a)
           e == [d EXCEPT !.inst[i] = Sensed(d.inst[i])]
<1>3. i \in Luns /\ d \in Drivers /\ Typed(Sensed(d.inst[i]))
  BY <1>1, TakenIn
<1>4. Becomes(e)
  BY <1>2
<1> HIDE DEF i, d
<1>5. e \in Drivers
  BY <1>3, InstancesAre, InstTyped
<1> HIDE DEF e
<1> QED
  BY <1>1, <1>4, <1>5, LastAnsweredTyped

LEMMA CommandFailedTyped ==
  ASSUME Typing, NEW l \in Luns, CommandFailed(l)
  PROVE  Typing'
<1> DEFINE i == command[l].by
           c == IF inst[i].set = "SCSI" /\ inst[i].bState = "READ_BLOCK0"
                THEN CapacityRetries ELSE Driver.inst[i].dwCapacityRetries
           steady == IF Fault(l) THEN Driver.hfi.steady \ {l} ELSE Driver.hfi.steady
           d1 == [Driver EXCEPT !.command[l] = Idle]
           d2 == [d1 EXCEPT !.inst[i].bError = TRUE]
           d3 == [d2 EXCEPT !.inst[i].dwCapacityRetries = c]
           d == [d3 EXCEPT !.hfi.steady = steady]
<1>1. InFlight(l) /\ UNCHANGED <<phase, unit, changes>>
  BY DEF CommandFailed
<1>2. i \in Luns /\ Driver \in Drivers
  BY <1>1, InFlightBy, DriverTyped
<1>3. Becomes(SendCmd(d, inst[i].bLun, "REQUEST_SENSE", i))
  <2>1. d = [Driver EXCEPT
               !.command[l] = Idle, !.inst[i].bError = TRUE,
               !.inst[i].dwCapacityRetries =
                  IF inst[i].set = "SCSI" /\ inst[i].bState = "READ_BLOCK0"
                  THEN CapacityRetries ELSE @,
               !.hfi.steady = IF Fault(l) THEN @ \ {l} ELSE @]
    BY Zenon
  <2> HIDE DEF d
  <2> QED
    BY <2>1, Zenon DEF CommandFailed
<1>4. inst[i].bLun \in Luns /\ Typed(inst[i]) /\ Driver.inst[i] = inst[i]
  <2>1. inst[i] \in Instances /\ Driver.inst[i] = inst[i]
    BY <1>2 DEF Typing, TypeOK, Driver
  <2> QED
    BY <2>1, InstancesAre DEF Typed
<1>5. c \in 0 .. CapacityRetries
  <2>1. CapacityRetries \in Nat /\ Driver.inst[i].dwCapacityRetries \in 0 .. CapacityRetries
    BY <1>4, Parameters, Zenon DEF Typed
  <2> QED
    BY <2>1, SMTT(60)
<1>6. steady \in SUBSET Luns
  BY <1>2, Fields, HfiFields
<1> HIDE DEF i, c, steady
<1>7. d1 \in Drivers
  BY <1>2 DEF Drivers, Commands
<1> HIDE DEF d1
<1>8. d2 \in Drivers
  <2>2. Typed(d1.inst[i])
    BY <1>2, <1>7, Fields, InstancesAre
  <2>1. Typed([d1.inst[i] EXCEPT !.bError = TRUE])
    BY <2>2, Zenon DEF Typed, Names
  <2> QED
    BY <1>2, <1>7, <2>1, InstancesAre, InstTyped
<1> HIDE DEF d2
<1>9. d3 \in Drivers
  <2>1. Typed(d2.inst[i])
    BY <1>2, <1>8, Fields, InstancesAre
  <2>2. Typed([d2.inst[i] EXCEPT !.dwCapacityRetries = c])
    BY <1>5, <2>1, Zenon DEF Typed, Names
  <2> QED
    BY <1>2, <1>8, <2>2, InstancesAre, InstTyped
<1> HIDE DEF d3
<1>10. d \in Drivers
  <2>1. [d3.hfi EXCEPT !.steady = steady] \in FileSystems
    BY <1>2, <1>6, <1>9, Fields, HfiFields
  <2> QED
    BY <1>9, <2>1, HfiTyped
<1> HIDE DEF d
<1>11. SendCmd(d, inst[i].bLun, "REQUEST_SENSE", i) \in Drivers
  BY <1>2, <1>4, <1>10, SendCmdTyped DEF Ops
<1> QED
  BY <1>1, <1>3, <1>11, BecomesTyped, CommandsAre DEF Typing, TypeOK

LEMMA DataCompleteTyped ==
  ASSUME Typing, NEW l \in Luns, DataComplete(l)
  PROVE  Typing'
<1>1. command' \in [Luns -> Commands]
  BY DEF DataComplete, Typing, Commands
<1> QED
  BY <1>1, CommandsAre DEF DataComplete, Typing, TypeOK

LEMMA ChangeMediumTyped ==
  ASSUME Typing, NEW l \in Luns, ChangeMedium(l)
  PROVE  Typing'
<1>1. unit' \in [Luns -> Units]
  BY DEF ChangeMedium, Typing, TypeOK, Units
<1>2. hfi' \in FileSystems
  BY DEF ChangeMedium, Typing, TypeOK, FileSystems
<1>3. changes' \in 0 .. MaxChanges
  <2>1. MaxChanges \in Nat
    BY Parameters
  <2> QED
    BY <2>1 DEF ChangeMedium, Typing, TypeOK
<1> QED
  BY <1>1, <1>2, <1>3 DEF ChangeMedium, Typing, TypeOK

\* A step of the file system or the bus gives the driver a new state.
LEMMA DriverStepTyped ==
  ASSUME Typing, NEW d \in Drivers, Becomes(d), UNCHANGED <<unit, changes>>,
         phase' \in {"starting", "running", "gone"}
  PROVE  Typing'
  BY BecomesTyped, CommandsAre DEF Typing, TypeOK

LEMMA SerialCompleteTyped ==
  ASSUME Typing, SerialComplete
  PROVE  Typing'
<1>1. DiscoverDevice(Driver, LunCount - 1, 0) \in Drivers
  BY DriverTyped, Parameters, DiscoverTyped
<1> QED
  BY <1>1, DriverStepTyped DEF SerialComplete

LEMMA CheckMediumNotifyTyped ==
  ASSUME Typing, NEW l \in Luns, CheckMediumNotify(l)
  PROVE  Typing'
<1> DEFINE d == [Driver EXCEPT !.volume[l].pfMediumCheckComplete = TRUE]
<1>1. d \in Drivers
  BY DriverTyped, Fields, VolumeFields, VolumeTyped
<1>2. Becomes(CheckMedium(d, l)) /\ UNCHANGED <<phase, unit, changes>>
  BY DEF CheckMediumNotify
<1> HIDE DEF d
<1>3. CheckMedium(d, l) \in Drivers
  BY <1>1, CheckMediumTyped
<1> QED
  BY <1>2, <1>3, DriverStepTyped DEF Typing, TypeOK

\* A command of the file system names no instance.
LEMMA ReadDeviceTyped ==
  ASSUME Typing, NEW l \in Luns, ReadDevice(l)
  PROVE  Typing'
<1>1. SendCmd(Driver, l, "DATA", FileSystem) \in Drivers
  BY DriverTyped DEF SendCmd, Drivers, Commands
<1> QED
  BY <1>1, DriverStepTyped DEF ReadDevice, Typing, TypeOK

LEMMA UnmountVolumeTyped ==
  ASSUME Typing, NEW l \in Luns, UnmountVolume(l)
  PROVE  Typing'
<1> DEFINE d == [Driver EXCEPT !.hfi.mounted = @ \ {l}]
           e == [d EXCEPT !.inst[l].bState = "ALLOW_MEDIUM_REMOVE"]
<1>1. d \in Drivers
  BY DriverTyped DEF Drivers, FileSystems
<1>2. Becomes(UnmountDevice(d, l)) /\ UNCHANGED <<phase, unit, changes>>
  BY DEF UnmountVolume
<1> HIDE DEF d
<1>3. [d.inst[l] EXCEPT !.bState = "ALLOW_MEDIUM_REMOVE"] \in Instances
  BY <1>1, Fields, StateTyped DEF States
<1>4. e \in Drivers
  BY <1>1, <1>3, InstTyped
<1>5. UnmountDevice(d, l) \in Drivers
  BY <1>4, SendCmdTyped DEF UnmountDevice, Ops
<1> QED
  BY <1>2, <1>5, DriverStepTyped DEF Typing, TypeOK

LEMMA DestroyBotInstanceTyped ==
  ASSUME Typing, DestroyBotInstance
  PROVE  Typing'
<1>1. command' \in [Luns -> Commands]
  BY DEF DestroyBotInstance, Commands
<1> QED
  BY <1>1, CommandsAre DEF DestroyBotInstance, Typing, TypeOK

LEMMA InitTyped ==
  ASSUME Init
  PROVE  Typing
<1>1. PICK set \in CmdSets : inst = [i \in Luns |->
       [set |-> set, bState |-> "NONE", bError |-> FALSE, bRemovable |-> FALSE, bAnnounced |-> FALSE,
        bNoMedium |-> FALSE, bLun |-> 0, bLunScan |-> FALSE, bLunIndex |-> 0,
        dwRetries |-> 0, dwCapacityRetries |-> 0, bFmtCapacityRetries |-> 0,
        inquiry |-> NoUnit, capacity |-> FALSE, sense |-> "none"]]
  BY DEF Init
<1>2. inst \in [Luns -> Instances]
  BY <1>1, Zeros DEF Instances, States, Senses
<1>3. volume \in [Luns -> Volumes]
  BY DEF Init, Volumes
<1>4. command \in [Luns -> Commands]
  BY DEF Init, Commands
<1>5. hfi \in FileSystems
  BY DEF Init, FileSystems
<1>6. unit \in [Luns -> Units]
  BY DEF Init, Units
<1>7. changes \in 0 .. MaxChanges
  BY Parameters DEF Init
<1> QED
  BY <1>2, <1>3, <1>4, <1>5, <1>6, <1>7, CommandsAre DEF Typing, TypeOK, Init

LEMMA StutterTyped ==
  ASSUME Typing, UNCHANGED vars
  PROVE  Typing'
  BY DEF Typing, TypeOK, vars

\* TypeOK: devices of any number of units keep the types of mu_mscsi.c's and
\* mu_mbot.c's fields; the three retry counters stay within their limits.
THEOREM TypeCorrect == Spec => []TypeOK
<1>1. Init => Typing
  BY InitTyped
<1>2. Typing /\ [Next]_vars => Typing'
  <2> SUFFICES ASSUME Typing, [Next]_vars
               PROVE  Typing'
    OBVIOUS
  <2>1. CASE SerialComplete
    BY <2>1, SerialCompleteTyped
  <2>2. ASSUME NEW l \in Luns, Completion(l)
        PROVE  Typing'
    BY <2>2, InquiryCompleteTyped, FmtCapacityCompleteTyped, CapacityCompleteTyped,
       FirstTestCompleteTyped, Block0CompleteTyped, TestUnitCompleteTyped, PreventCompleteTyped,
       AllowCompleteTyped, StopCompleteTyped, CommandFailedTyped, DataCompleteTyped
       DEF Completion
  <2>3. ASSUME NEW l \in Luns, FileSystemStep(l)
        PROVE  Typing'
    BY <2>3, CheckMediumNotifyTyped, ReadDeviceTyped, UnmountVolumeTyped DEF FileSystemStep
  <2>4. ASSUME NEW l \in Luns, ChangeMedium(l)
        PROVE  Typing'
    BY <2>4, ChangeMediumTyped
  <2>5. CASE DestroyBotInstance
    BY <2>5, DestroyBotInstanceTyped
  <2>6. CASE UNCHANGED vars
    BY <2>6, StutterTyped
  <2> QED
    BY <2>1, <2>2, <2>3, <2>4, <2>5, <2>6 DEF Next
<1>3. Typing => TypeOK
  BY DEF Typing
<1> QED
  BY <1>1, <1>2, <1>3, PTL DEF Spec

-----------------------------------------------------------------------------
(* A device with one unit: what the driver's operators do to it.           *)

\* With one unit every index is 0.
LEMMA OneUnit ==
  ASSUME LunCount = 1
  PROVE  Luns = {0} /\ NoUnit = 1 /\ FileSystem = 1 /\ 0 \in Luns /\ 0 # NoUnit
  BY DEF Luns, NoUnit, FileSystem

Busy(op) == [op |-> op, by |-> 0]

LEMMA BusyWith == Idle.op = "none" /\ \A op : Busy(op).op = op /\ Busy(op).by = 0
  BY DEF Idle, Busy

LEMMA SendOne ==
  ASSUME LunCount = 1, NEW d \in Drivers, NEW op
  PROVE  LET e == SendCmd(d, 0, op, 0)
         IN  /\ e.inst = d.inst /\ e.volume = d.volume /\ e.hfi = d.hfi
             /\ e.command[0] = IF d.command[0] = Idle THEN Busy(op) ELSE d.command[0]
  BY OneUnit DEF SendCmd, Drivers, Busy

\* What Begin leaves of an instance, and what it sets
LEMMA BeginFields ==
  ASSUME NEW s \in Instances
  PROVE  LET b == Begin(s, 0)
         IN  /\ b.bState = "INQUIRY" /\ b.bNoMedium = FALSE /\ b.bLunScan = FALSE
             /\ b.bError = s.bError /\ b.bAnnounced = s.bAnnounced
             /\ b.inquiry = s.inquiry /\ b.capacity = s.capacity
  BY DEF Begin, Instances

\* A check of a busy unit leaves its command alone and is no steady check.
LEMMA CheckOne ==
  ASSUME LunCount = 1, NEW d \in Drivers
  PROVE  LET e == CheckMedium(d, 0)
         IN  /\ e.inst[0] = Begin(d.inst[0], 0) /\ e.volume = d.volume
             /\ e.hfi.mounted = d.hfi.mounted
             /\ e.command[0] = IF d.command[0] = Idle THEN Busy("INQUIRY") ELSE d.command[0]
             /\ d.command[0] # Idle => 0 \notin e.hfi.steady
<1> DEFINE c == [d EXCEPT !.inst[0] = Begin(@, 0),
                          !.hfi.steady = IF d.command[0] = Idle THEN @ \cup {0} ELSE @ \ {0}]
<1>1. c \in Drivers
  <2>1. Begin(d.inst[0], 0) \in Instances
    BY OneUnit, Fields, InstancesAre, BeginTyped
  <2> QED
    BY <2>1, OneUnit DEF Drivers, FileSystems
<1>2. /\ c.inst[0] = Begin(d.inst[0], 0) /\ c.volume = d.volume /\ c.command = d.command
      /\ c.hfi.mounted = d.hfi.mounted
      /\ d.command[0] # Idle => 0 \notin c.hfi.steady
  BY OneUnit DEF Drivers, FileSystems
<1>3. CheckMedium(d, 0) = SendCmd(c, 0, "INQUIRY", 0)
  BY DEF CheckMedium
<1> HIDE DEF c
<1> QED
  BY <1>1, <1>2, <1>3, SendOne

\* A mount of a removable disk sends PREVENT and mounts nothing yet.
LEMMA MountOne ==
  ASSUME LunCount = 1, NEW d \in Drivers, d.inst[0].inquiry = 0
  PROVE  LET e == MountDevice(d, 0)
         IN  /\ e.volume = d.volume
             /\ IF Kind[0] = "removable"
                THEN /\ e.inst[0] = [d.inst[0] EXCEPT !.bState = "PREVENT_MEDIUM_REMOVE"]
                     /\ e.hfi.mounted = d.hfi.mounted
                     /\ e.command[0] = IF d.command[0] = Idle THEN Busy("PREVENT")
                                                              ELSE d.command[0]
                ELSE /\ e.inst = d.inst /\ e.command = d.command
<1> DEFINE p == [d EXCEPT !.inst[0].bState = "PREVENT_MEDIUM_REMOVE"]
           t == SendCmd(p, 0, "PREVENT", 0)
           m == [t EXCEPT !.hfi.mounting = IF d.command[0] = Idle THEN @ \cup {0} ELSE @]
<1>1. Rmb(d.inst[0].inquiry) <=> Kind[0] = "removable"
  BY OneUnit DEF Rmb
<1>2. CASE Kind[0] = "removable"
  <2>1. p \in Drivers
    <3>1. [d.inst[0] EXCEPT !.bState = "PREVENT_MEDIUM_REMOVE"] \in Instances
      BY OneUnit, Fields, StateTyped DEF States
    <3> QED
      BY <3>1, OneUnit, InstTyped
  <2>2. /\ p.inst[0] = [d.inst[0] EXCEPT !.bState = "PREVENT_MEDIUM_REMOVE"]
        /\ p.volume = d.volume /\ p.command = d.command /\ p.hfi = d.hfi
    BY OneUnit DEF Drivers
  <2>3. MountDevice(d, 0) = m
    BY <1>1, <1>2 DEF MountDevice
  <2> HIDE DEF p
  <2>4. /\ t.inst = p.inst /\ t.volume = p.volume /\ t.hfi = p.hfi
        /\ t.command[0] = IF p.command[0] = Idle THEN Busy("PREVENT") ELSE p.command[0]
    BY <2>1, SendOne
  <2>5. t \in Drivers
    BY <2>1, OneUnit, SendCmdTyped DEF Ops
  <2> HIDE DEF t
  <2>6. m.inst = t.inst /\ m.volume = t.volume /\ m.command = t.command
        /\ m.hfi.mounted = t.hfi.mounted
    BY <2>5 DEF Drivers, FileSystems
  <2> HIDE DEF m
  <2> QED
    BY <1>2, <2>2, <2>3, <2>4, <2>6
<1>3. CASE Kind[0] # "removable"
  BY <1>1, <1>3 DEF MountDevice, MountComplete, Drivers, FileSystems
<1> QED
  BY <1>2, <1>3

\* A driver that has taken an answer in, before and after what it announces
Quiet(d) ==
  /\ d \in Drivers
  /\ d.inst[0].inquiry = 0 /\ ~d.inst[0].bLunScan /\ ~d.inst[0].bError
  /\ d.command[0] \in {Idle, Busy("INQUIRY"), Busy("PREVENT")}
  /\ d.inst[0].bState = "PREVENT_MEDIUM_REMOVE" => d.command[0] # Busy("INQUIRY")

\* A step mounts a unit at once only if its RMB bit is 0.
Keeps(d, e) ==
  /\ e.inst[0].bAnnounced = d.inst[0].bAnnounced
  /\ Kind[0] = "removable" => e.hfi.mounted = d.hfi.mounted

LEMMA CommandsDiffer ==
  LunCount = 1 => /\ Busy("INQUIRY") # Idle /\ Busy("PREVENT") # Idle
                  /\ Busy("INQUIRY") # Busy("PREVENT")
  BY DEF Busy, Idle

\* Mounting, adding, inserting and setting ready within one callback: a removable disk is not
\* mounted by any of them, and no INQUIRY is in flight while the instance waits for PREVENT.
LEMMA MountQuiet ==
  ASSUME LunCount = 1, NEW d, Quiet(d), d.command[0] # Busy("INQUIRY")
  PROVE  LET e == MountVolume(d, 0)
         IN  /\ Quiet(e) /\ e.command[0] # Busy("INQUIRY") /\ e.volume = d.volume /\ Keeps(d, e)
<1> DEFINE e == MountDevice(d, 0)
<1>1. /\ e.volume = d.volume
      /\ IF Kind[0] = "removable"
         THEN /\ e.inst[0] = [d.inst[0] EXCEPT !.bState = "PREVENT_MEDIUM_REMOVE"]
              /\ e.hfi.mounted = d.hfi.mounted
              /\ e.command[0] = IF d.command[0] = Idle THEN Busy("PREVENT") ELSE d.command[0]
         ELSE e.inst = d.inst /\ e.command = d.command
  BY MountOne DEF Quiet
<1>2. e \in Drivers
  BY OneUnit, MountDeviceTyped DEF Quiet
<1>3. d.inst[0] \in Instances
  BY OneUnit, Fields DEF Quiet
<1> HIDE DEF e
<1>4. e.command[0] # Busy("INQUIRY") /\ e.command[0] \in {Idle, Busy("INQUIRY"), Busy("PREVENT")}
  BY <1>1, CommandsDiffer DEF Quiet
<1>5. e.inst[0].inquiry = 0 /\ ~e.inst[0].bLunScan /\ ~e.inst[0].bError /\ Keeps(d, e)
  BY <1>1, <1>3 DEF Quiet, Instances, Keeps
<1>6. Quiet(e) /\ e.command[0] # Busy("INQUIRY") /\ e.volume = d.volume /\ Keeps(d, e)
  BY <1>1, <1>2, <1>4, <1>5 DEF Quiet
<1> QED
  BY <1>6 DEF MountVolume, e, Keeps

LEMMA AddQuiet ==
  ASSUME LunCount = 1, NEW d, Quiet(d), d.command[0] = Idle
  PROVE  LET e == HfiAddDevice(d, 0)
         IN  /\ Quiet(e) /\ e.volume = d.volume /\ Keeps(d, e)
             /\ d.volume[0].mediumIn => e.command[0] # Busy("INQUIRY")
<1> DEFINE a == [d EXCEPT !.hfi.last = 0]
<1>1. /\ a.inst = d.inst /\ a.volume = d.volume /\ a.command = d.command
      /\ a.hfi.mounted = d.hfi.mounted /\ a \in Drivers
  BY OneUnit DEF Quiet, Drivers, FileSystems
<1>2. HfiAddDevice(d, 0) = IF ~d.volume[0].removable \/ d.volume[0].mediumIn
                           THEN MountVolume(a, 0) ELSE CheckMedium(a, 0)
  BY DEF HfiAddDevice
<1> HIDE DEF a
<1>3. Quiet(a) /\ a.command[0] # Busy("INQUIRY")
  BY <1>1, CommandsDiffer DEF Quiet
<1>4. CASE ~d.volume[0].removable \/ d.volume[0].mediumIn
  <2> DEFINE e == MountVolume(a, 0)
  <2>1. Quiet(e) /\ e.command[0] # Busy("INQUIRY") /\ e.volume = a.volume /\ Keeps(a, e)
    BY <1>3, MountQuiet
  <2> HIDE DEF e
  <2> QED
    BY <1>1, <1>2, <1>4, <2>1 DEF Keeps, e
<1>5. CASE ~(~d.volume[0].removable \/ d.volume[0].mediumIn)
  <2> DEFINE e == CheckMedium(a, 0)
  <2>1. /\ e.inst[0] = Begin(a.inst[0], 0) /\ e.volume = a.volume
        /\ e.hfi.mounted = a.hfi.mounted /\ e.command[0] = Busy("INQUIRY")
    BY <1>1, CheckOne
  <2>2. e \in Drivers
    BY <1>1, OneUnit, CheckMediumTyped
  <2>3. a.inst[0] \in Instances
    BY <1>1, OneUnit, Fields
  <2> HIDE DEF e
  <2>4. Quiet(e) /\ Keeps(a, e)
    BY <1>3, <2>1, <2>2, <2>3, BeginFields DEF Quiet, Keeps
  <2> QED
    BY <1>1, <1>2, <1>5, <2>1, <2>4 DEF Keeps, e
<1> QED
  BY <1>4, <1>5

LEMMA InsertedQuiet ==
  ASSUME LunCount = 1, NEW d, Quiet(d), d.command[0] # Busy("INQUIRY")
  PROVE  LET e == HfiMediumInserted(d, 0)
         IN  /\ Quiet(e) /\ e.volume[0] = [d.volume[0] EXCEPT !.bMediumAnnounced = TRUE]
             /\ Keeps(d, e)
<1> DEFINE a == [d EXCEPT !.volume[0].bMediumAnnounced = TRUE, !.hfi.sawMedium = TRUE]
<1>1. a \in Drivers
  <2>1. [d.volume[0] EXCEPT !.bMediumAnnounced = TRUE] \in Volumes
    BY OneUnit, Fields, VolumeFields DEF Quiet
  <2>2. [d.hfi EXCEPT !.sawMedium = TRUE] \in FileSystems
    BY OneUnit, Fields, HfiFields DEF Quiet
  <2> QED
    BY <2>1, <2>2, OneUnit DEF Quiet, Drivers
<1>2. /\ a.inst = d.inst /\ a.command = d.command /\ a.hfi.mounted = d.hfi.mounted
      /\ a.volume[0] = [d.volume[0] EXCEPT !.bMediumAnnounced = TRUE]
  BY OneUnit DEF Quiet, Drivers, FileSystems
<1>3. HfiMediumInserted(d, 0) = MountVolume(a, 0)
  BY DEF HfiMediumInserted
<1> HIDE DEF a
<1>4. Quiet(a)
  BY <1>1, <1>2 DEF Quiet
<1> DEFINE e == MountVolume(a, 0)
<1>5. Quiet(e) /\ e.volume = a.volume /\ Keeps(a, e)
  BY <1>2, <1>4, MountQuiet
<1> HIDE DEF e
<1> QED
  BY <1>2, <1>3, <1>5 DEF Keeps, e

\* What becomes of a volume that is said to be ready or not
Said(v, w, r) ==
  /\ ~w.pfMediumCheckComplete
  /\ w.bAnnounced = (v.bAnnounced \/ r)
  /\ w.bGotMedium = (v.bGotMedium /\ ~(~r /\ v.bAnnounced))
  /\ w.bMediumAnnounced =
       IF r THEN v.bMediumAnnounced \/ v.bGotMedium ELSE v.bMediumAnnounced /\ ~v.bAnnounced

\* SetReady ends the check, and says of the medium what it was given.
LEMMA ReadyQuiet ==
  ASSUME LunCount = 1, NEW d, Quiet(d), d.command[0] = Idle, NEW r \in BOOLEAN,
         d.volume[0].bGotMedium /\ ~d.volume[0].bAnnounced => d.volume[0].mediumIn
  PROVE  LET e == SetReady(d, 0, r)
         IN  Quiet(e) /\ Keeps(d, e) /\ Said(d.volume[0], e.volume[0], r)
<1> DEFINE e == [d EXCEPT !.volume[0].bIsReady = r]
           v == e.volume[0]
           g == [e EXCEPT !.volume[0].bAnnounced = TRUE]
           added == HfiAddDevice(g, 0)
           h == [e EXCEPT !.volume[0].bGotMedium = FALSE, !.volume[0].bMediumAnnounced = FALSE]
           f == CASE r /\ ~v.bAnnounced ->
                       IF v.bGotMedium THEN HfiMediumInserted(added, 0) ELSE added
                  [] r /\ v.bAnnounced /\ v.bGotMedium /\ ~v.bMediumAnnounced ->
                       HfiMediumInserted(e, 0)
                  [] ~r /\ v.bAnnounced -> h
                  [] OTHER -> e
           z == [f EXCEPT !.volume[0].pfMediumCheckComplete = FALSE]
<1>1. d \in Drivers /\ 0 \in Luns /\ d.volume[0] \in Volumes
  BY OneUnit, Fields DEF Quiet
<1>2. SetReady(d, 0, r) = z
  BY DEF SetReady
<1>3. /\ e \in Drivers /\ e.inst = d.inst /\ e.command = d.command /\ e.hfi = d.hfi
      /\ v = [d.volume[0] EXCEPT !.bIsReady = r]
  <2>1. e \in Drivers
    BY <1>1, VolumeFields, VolumeTyped
  <2> QED
    BY <1>1, <2>1 DEF Drivers
<1> HIDE DEF e
<1>4. v \in Volumes
  BY <1>1, <1>3, Fields
<1>5. /\ g \in Drivers /\ g.inst = e.inst /\ g.command = e.command /\ g.hfi = e.hfi
      /\ g.volume[0] = [v EXCEPT !.bAnnounced = TRUE]
  <2>1. g \in Drivers
    BY <1>1, <1>3, <1>4, VolumeFields, VolumeTyped
  <2> QED
    BY <1>1, <1>3, <2>1 DEF Drivers
<1>6. /\ h.inst = e.inst /\ h.command = e.command /\ h.hfi = e.hfi /\ h \in Drivers
      /\ h.volume[0] = [v EXCEPT !.bGotMedium = FALSE, !.bMediumAnnounced = FALSE]
  <2>1. [v EXCEPT !.bGotMedium = FALSE, !.bMediumAnnounced = FALSE] \in Volumes
    BY <1>4 DEF Volumes
  <2> QED
    BY <1>1, <1>3, <2>1 DEF Drivers
<1> HIDE DEF g, h
<1>7. Quiet(e) /\ Quiet(g) /\ Quiet(h) /\ Keeps(d, e) /\ Keeps(d, g) /\ Keeps(d, h)
  BY <1>3, <1>5, <1>6 DEF Quiet, Keeps
<1>8. e.command[0] = Idle /\ g.command[0] = Idle
  BY <1>3, <1>5
<1>9. /\ Quiet(added) /\ added.volume = g.volume /\ Keeps(g, added)
      /\ g.volume[0].mediumIn => added.command[0] # Busy("INQUIRY")
  BY <1>7, <1>8, AddQuiet
<1> HIDE DEF added
<1>10. v.bAnnounced \in BOOLEAN /\ v.bGotMedium \in BOOLEAN /\ v.bMediumAnnounced \in BOOLEAN
       /\ d.volume[0].bAnnounced = v.bAnnounced /\ d.volume[0].bGotMedium = v.bGotMedium
       /\ d.volume[0].bMediumAnnounced = v.bMediumAnnounced
       /\ d.volume[0].mediumIn = v.mediumIn /\ g.volume[0].mediumIn = v.mediumIn
  BY <1>1, <1>3, <1>4, <1>5 DEF Volumes
<1>11. /\ Quiet(f) /\ Keeps(d, f)
       /\ f.volume[0].bAnnounced = (v.bAnnounced \/ r)
       /\ f.volume[0].bGotMedium = (v.bGotMedium /\ ~(~r /\ v.bAnnounced))
       /\ f.volume[0].bMediumAnnounced =
            IF r THEN v.bMediumAnnounced \/ v.bGotMedium ELSE v.bMediumAnnounced /\ ~v.bAnnounced
  <2>1. CASE r /\ ~v.bAnnounced /\ v.bGotMedium
    <3> DEFINE m == HfiMediumInserted(added, 0)
    <3>1. f = m
      BY <2>1
    <3>2. added.command[0] # Busy("INQUIRY")
      BY <2>1, <1>9, <1>10
    <3>3. /\ Quiet(m) /\ m.volume[0] = [added.volume[0] EXCEPT !.bMediumAnnounced = TRUE]
          /\ Keeps(added, m)
      BY <1>9, <3>2, InsertedQuiet
    <3> HIDE DEF m, f
    <3>4. m.volume[0] = [v EXCEPT !.bAnnounced = TRUE, !.bMediumAnnounced = TRUE]
      BY <1>5, <1>9, <3>3
    <3>5. Keeps(d, m)
      BY <1>7, <1>9, <3>3 DEF Keeps
    <3> QED
      BY <1>4, <2>1, <3>1, <3>3, <3>4, <3>5 DEF Volumes
  <2>2. CASE r /\ ~v.bAnnounced /\ ~v.bGotMedium
    <3>1. f = added
      BY <2>2
    <3> HIDE DEF f
    <3>2. Keeps(d, added)
      BY <1>7, <1>9 DEF Keeps
    <3>3. added.volume[0] = [v EXCEPT !.bAnnounced = TRUE]
      BY <1>5, <1>9
    <3> QED
      BY <1>4, <1>9, <1>10, <2>2, <3>1, <3>2, <3>3 DEF Volumes
  <2>3. CASE r /\ v.bAnnounced /\ v.bGotMedium /\ ~v.bMediumAnnounced
    <3> DEFINE m == HfiMediumInserted(e, 0)
    <3>1. f = m
      BY <2>3
    <3>2. /\ Quiet(m) /\ m.volume[0] = [e.volume[0] EXCEPT !.bMediumAnnounced = TRUE]
          /\ Keeps(e, m)
      BY <1>7, <1>8, CommandsDiffer, InsertedQuiet
    <3> HIDE DEF m, f
    <3>3. Keeps(d, m)
      BY <1>7, <3>2 DEF Keeps
    <3> QED
      BY <1>4, <2>3, <3>1, <3>2, <3>3 DEF Volumes
  <2>4. CASE ~r /\ v.bAnnounced
    <3>1. f = h
      BY <2>4
    <3> HIDE DEF f
    <3> QED
      BY <1>4, <1>6, <1>7, <2>4, <3>1 DEF Volumes
  <2>5. CASE (~r /\ ~v.bAnnounced) \/ (r /\ v.bAnnounced /\ ~(v.bGotMedium /\ ~v.bMediumAnnounced))
    <3>1. f = e
      BY <2>5
    <3> HIDE DEF f
    <3> QED
      BY <1>4, <1>7, <1>10, <2>5, <3>1
  <2> HIDE DEF f
  <2> QED
    BY <1>10, <2>1, <2>2, <2>3, <2>4, <2>5
<1> HIDE DEF f
<1>12. /\ z \in Drivers /\ z.inst = f.inst /\ z.command = f.command /\ z.hfi = f.hfi
       /\ z.volume[0] = [f.volume[0] EXCEPT !.pfMediumCheckComplete = FALSE]
       /\ f.volume[0] \in Volumes
  <2>1. f \in Drivers /\ f.volume[0] \in Volumes
    BY <1>1, <1>11, Fields DEF Quiet
  <2>2. z \in Drivers
    BY <1>1, <2>1, VolumeFields, VolumeTyped
  <2> QED
    BY <1>1, <2>1, <2>2 DEF Drivers
<1> HIDE DEF z
<1>13. Quiet(z) /\ Keeps(d, z)
  BY <1>11, <1>12 DEF Quiet, Keeps
<1>14. Said(d.volume[0], z.volume[0], r)
  BY <1>10, <1>11, <1>12 DEF Said, Volumes
<1> QED
  BY <1>2, <1>13, <1>14

\* DeviceInfo lets a removable unit have a medium when it is ready.
LEMMA InfoQuiet ==
  ASSUME LunCount = 1, NEW d, Quiet(d), d.command[0] = Idle, NEW r \in BOOLEAN
  PROVE  LET e == DeviceInfo(d, 0, r)
             v == d.volume[0]
             w == e.volume[0]
         IN  /\ Quiet(e) /\ Keeps(d, e) /\ e.command[0] = Idle
             /\ w.mediumIn = r
             /\ w.bGotMedium = (v.bGotMedium \/ (r /\ Kind[0] # "fixed"))
             /\ w.bAnnounced = v.bAnnounced /\ w.bMediumAnnounced = v.bMediumAnnounced
<1> DEFINE b == Removable(d.inst[0].inquiry)
           s == [d.inst[0] EXCEPT !.bRemovable = b]
           n == [d EXCEPT !.inst[0].bRemovable = b]
           e == [n EXCEPT !.volume[0].info = s.inquiry, !.volume[0].removable = s.bRemovable,
                          !.volume[0].mediumIn = r]
           m == SetMediumInfo(e, 0)
<1>1. b = (Kind[0] # "fixed")
  BY OneUnit DEF Removable, Quiet
<1>2. d \in Drivers /\ 0 \in Luns /\ d.inst[0] \in Instances /\ d.volume[0] \in Volumes
  BY OneUnit, Fields DEF Quiet
<1>3. s \in Instances /\ s.inquiry = 0 /\ s.bRemovable = b
  <2>1. Typed(s)
    BY <1>1, <1>2, InstancesAre, RemovableTyped
  <2>2. s.inquiry = 0 /\ s.bRemovable = b
    BY <1>2 DEF Quiet, Instances
  <2> QED
    BY <2>1, <2>2, InstancesAre
<1>4. /\ n \in Drivers /\ n.inst[0] = s /\ n.volume = d.volume /\ n.command = d.command
      /\ n.hfi = d.hfi
  <2>1. n \in Drivers
    BY <1>2, <1>3, InstTyped
  <2> QED
    BY <1>2, <2>1 DEF Drivers
<1>5. s.bLun = 0 /\ s.bLunScan = d.inst[0].bLunScan /\ s.bError = d.inst[0].bError
      /\ s.bState = d.inst[0].bState /\ s.bAnnounced = d.inst[0].bAnnounced
  BY <1>2, OneUnit DEF Instances
<1>6. /\ e.inst = n.inst /\ e.command = n.command /\ e.hfi = n.hfi /\ e \in Drivers
      /\ e.volume[0] = [d.volume[0] EXCEPT !.info = 0, !.removable = b, !.mediumIn = r]
  <2> HIDE DEF s, n, b
  <2>1. [d.volume[0] EXCEPT !.info = 0, !.removable = b, !.mediumIn = r] \in Volumes
    BY <1>1, <1>2, ZenonT(60) DEF Volumes
  <2> QED
    BY <1>2, <1>3, <1>4, <2>1, ZenonT(60) DEF Drivers
<1>7. SetDeviceInfo(n, 0, 0, r) = e
  <2> DEFINE x == [n EXCEPT !.volume[0].info = n.inst[0].inquiry,
                            !.volume[0].removable = n.inst[0].bRemovable,
                            !.volume[0].mediumIn = r]
  <2>1. ~(0 < LunCount - 1)
    OBVIOUS
  <2>2. SetDeviceInfo(n, 0, 0, r) = x
    BY <2>1, Zenon DEF SetDeviceInfo
  <2> HIDE DEF n, s
  <2>3. x = e
    BY <1>4, Zenon
  <2> QED
    BY <2>2, <2>3
<1>8. DeviceInfo(d, 0, r) = IF b /\ r THEN m ELSE e
  <2>1. DeviceInfo(d, 0, r) =
          LET x == SetDeviceInfo(n, n.inst[0].bLun, 0, r)
          IN  IF x.inst[0].bRemovable /\ r THEN SetMediumInfo(x, x.inst[0].bLun) ELSE x
    BY DEF DeviceInfo
  <2>2. n.inst[0].bLun = 0
    BY <1>4, <1>5
  <2>3. e.inst[0].bRemovable = b /\ e.inst[0].bLun = 0
    BY <1>3, <1>4, <1>5, <1>6
  <2> HIDE DEF e, n, s, b, m
  <2> QED
    BY <1>7, <2>1, <2>2, <2>3 DEF m
<1> HIDE DEF e
<1>9. /\ m.inst = e.inst /\ m.command = e.command /\ m.hfi = e.hfi /\ m \in Drivers
      /\ m.volume[0] = [e.volume[0] EXCEPT !.bGotMedium = TRUE]
  <2>1. m \in Drivers
    BY <1>2, <1>6, SetMediumInfoTyped
  <2> QED
    BY <1>2, <1>6, <2>1 DEF Drivers, SetMediumInfo
<1> HIDE DEF m, s, n
<1>10. /\ Quiet(e) /\ Quiet(m) /\ Keeps(d, e) /\ Keeps(d, m)
       /\ e.command[0] = Idle /\ m.command[0] = Idle
  BY <1>3, <1>4, <1>5, <1>6, <1>9 DEF Quiet, Keeps
<1> HIDE DEF b
<1>11. CASE b /\ r
  BY <1>1, <1>2, <1>6, <1>8, <1>9, <1>10, <1>11, ZenonT(60) DEF Volumes
<1>12. CASE ~(b /\ r)
  BY <1>1, <1>2, <1>6, <1>8, <1>10, <1>12, ZenonT(60) DEF Volumes
<1> QED
  BY <1>11, <1>12

\* A volume is announced together with its instance; a fixed disk has no medium to tell of.
Calm(d) ==
  LET v == d.volume[0]
  IN  /\ d.inst[0].bAnnounced = v.bAnnounced
      /\ ~v.bAnnounced => ~v.bGotMedium /\ ~v.pfMediumCheckComplete
      /\ Kind[0] = "fixed" => ~v.bGotMedium /\ ~v.bMediumAnnounced

\* The end of a check: the file system hears of the medium what the check found.
LEMMA AnnounceQuiet ==
  ASSUME LunCount = 1, NEW d, Quiet(d), Calm(d), d.command[0] = Idle, NEW ready \in BOOLEAN
  PROVE  LET e == Announce(d, 0, ready)
             isReady == ready /\ d.inst[0].capacity
         IN  /\ Quiet(e) /\ Calm(e) /\ ~e.volume[0].pfMediumCheckComplete
             /\ Kind[0] = "removable" => e.hfi.mounted = d.hfi.mounted
             /\ d.volume[0].bAnnounced =>
                  e.volume[0].bMediumAnnounced = (isReady /\ Kind[0] # "fixed")
<1> DEFINE isReady == ready /\ d.inst[0].capacity
           f == DeviceInfo(d, 0, isReady)
           l == f.inst[0].bLun
           g == [f EXCEPT !.inst[0].bAnnounced = TRUE]
           v == d.volume[0]
           w == f.volume[0]
<1>1. isReady \in BOOLEAN
  OBVIOUS
<1>2. Announce(d, 0, ready) =
        CASE f.inst[0].bAnnounced -> SetReady(f, l, isReady)
          [] ~f.inst[0].bAnnounced /\ l = LunCount - 1 -> EachReady(g)
          [] OTHER -> g
  BY Zenon DEF Announce, EachReady
<1> HIDE DEF isReady, f
<1>3. /\ Quiet(f) /\ Keeps(d, f) /\ f.command[0] = Idle
      /\ w.mediumIn = isReady
      /\ w.bGotMedium = (v.bGotMedium \/ (isReady /\ Kind[0] # "fixed"))
      /\ w.bAnnounced = v.bAnnounced /\ w.bMediumAnnounced = v.bMediumAnnounced
  BY <1>1, InfoQuiet DEF f
<1>4. /\ f \in Drivers /\ 0 \in Luns /\ f.inst[0] \in Instances /\ w \in Volumes /\ v \in Volumes
      /\ d.inst[0] \in Instances
  BY <1>3, OneUnit, Fields DEF Quiet
<1>5. l = 0 /\ f.inst[0].bAnnounced = v.bAnnounced
  BY <1>3, <1>4, OneUnit DEF Keeps, Calm, Instances
<1> HIDE DEF l
<1>6. CASE v.bAnnounced
  <2> DEFINE e == SetReady(f, 0, isReady)
  <2>1. Announce(d, 0, ready) = e
    BY <1>2, <1>5, <1>6
  <2>2. Quiet(e) /\ Keeps(f, e) /\ Said(w, e.volume[0], isReady)
    BY <1>1, <1>3, <1>6, ReadyQuiet
  <2> HIDE DEF e
  <2>3. e.volume[0] \in Volumes /\ e.inst[0].bAnnounced = v.bAnnounced
    BY <1>3, <1>4, <2>2, OneUnit, Fields DEF Quiet, Keeps, Calm
  <2>4. Calm(e) /\ ~e.volume[0].pfMediumCheckComplete
        /\ e.volume[0].bMediumAnnounced = (isReady /\ Kind[0] # "fixed")
    BY <1>1, <1>3, <1>4, <1>6, <2>2, <2>3 DEF Calm, Said, Volumes
  <2> QED
    BY <1>3, <2>1, <2>2, <2>4 DEF Keeps, isReady
<1>7. CASE ~v.bAnnounced
  <2> DEFINE e == SetReady(g, 0, TRUE)
  <2>1. /\ g \in Drivers /\ g.volume = f.volume /\ g.command = f.command /\ g.hfi = f.hfi
        /\ g.inst[0] = [f.inst[0] EXCEPT !.bAnnounced = TRUE]
    <3>1. [f.inst[0] EXCEPT !.bAnnounced = TRUE] \in Instances
      BY <1>4, InstancesAre, RemovableTyped
    <3>2. g \in Drivers
      BY <1>4, <3>1, InstTyped
    <3> QED
      BY <1>4, <3>2 DEF Drivers
  <2>5. Announce(d, 0, ready) = EachReady(g)
    BY <1>2, <1>5, <1>7
  <2> HIDE DEF g
  <2>2. Quiet(g) /\ g.inst[0].bAnnounced
    BY <1>3, <1>4, <2>1 DEF Quiet, Instances
  <2>3. EachReady(g) = e
    <3>1. PICK h : /\ h[0] = g
                   /\ \A k \in Luns : h[k + 1] = SetReady(h[k], k, TRUE)
                   /\ EachReady(g) = h[LunCount]
      BY InTurn
    <3>2. h[0 + 1] = SetReady(h[0], 0, TRUE)
      BY <1>4, <3>1, Zenon
    <3>3. 0 + 1 = LunCount
      OBVIOUS
    <3> QED
      BY <3>1, <3>2, <3>3, Zenon
  <2>4. Quiet(e) /\ Keeps(g, e) /\ Said(g.volume[0], e.volume[0], TRUE)
    <3>1. g.volume[0].bGotMedium /\ ~g.volume[0].bAnnounced => g.volume[0].mediumIn
      BY <1>1, <1>3, <1>4, <1>7, <2>1 DEF Calm, Volumes
    <3> QED
      BY <1>3, <2>1, <2>2, <3>1, ReadyQuiet
  <2> HIDE DEF e
  <2>6. e.volume[0] \in Volumes /\ e.inst[0].bAnnounced
    BY <1>4, <2>2, <2>4, OneUnit, Fields DEF Quiet, Keeps
  <2>7. Calm(e) /\ ~e.volume[0].pfMediumCheckComplete
    <3>1. e.inst[0].bAnnounced = TRUE
      <4>1. e.inst[0] \in Instances
        BY <1>4, <2>4, Fields DEF Quiet
      <4> QED
        BY <2>6, <4>1 DEF Instances
    <3> QED
      BY <1>1, <1>3, <1>4, <2>1, <2>4, <2>6, <3>1 DEF Calm, Said, Volumes
  <2> QED
    BY <1>3, <1>7, <2>1, <2>3, <2>4, <2>5, <2>7 DEF Keeps
<1> QED
  BY <1>4, <1>6, <1>7 DEF Volumes

-----------------------------------------------------------------------------
(* The invariant of a device with one unit.                                *)

\* The commands an instance has in flight during a check, by its state
Answering ==
  {<<"INQUIRY", "INQUIRY">>, <<"READ_FMT_CAPACITY", "READ_FMT_CAPACITY">>,
   <<"READ_CAPACITY", "READ_CAPACITY">>, <<"FIRST_TEST", "TEST_UNIT_READY">>,
   <<"TEST_UNIT_READY", "TEST_UNIT_READY">>, <<"READ_BLOCK0", "READ10">>}
  \cup ({"READ_FMT_CAPACITY", "READ_CAPACITY", "FIRST_TEST", "TEST_UNIT_READY", "READ_BLOCK0"}
          \X {"REQUEST_SENSE"})

\* With a medium the check heads for FIRST_TEST, which finds a capacity;
\* without one it has lost the capacity by then.
OnCourse(s, u) ==
  /\ u.medium =>
       /\ s.bState \in {"INQUIRY", "READ_FMT_CAPACITY", "READ_CAPACITY", "FIRST_TEST"}
       /\ ~s.bNoMedium
       /\ s.bState \in {"READ_CAPACITY", "FIRST_TEST"} => ~u.attention /\ ~s.bError
       /\ s.bState = "FIRST_TEST" => s.capacity
       /\ s.bError => u.attention
  /\ ~u.medium /\ s.bState \notin {"INQUIRY", "READ_FMT_CAPACITY", "READ_CAPACITY"} => ~s.capacity

Checking(d, u) ==
  0 \in d.hfi.steady /\ d.volume[0].pfMediumCheckComplete =>
    <<d.inst[0].bState, d.command[0].op>> \in Answering /\ OnCourse(d.inst[0], u)

\* Between two callbacks of a device that is there
Settled(d) ==
  /\ Calm(d)
  /\ ~d.inst[0].bLunScan
  /\ d.inst[0].inquiry = NoUnit =>
       d.command[0].op = "INQUIRY" /\ d.inst[0].bState = "INQUIRY" /\ ~d.volume[0].bAnnounced
  /\ d.inst[0].bError <=> d.command[0].op = "REQUEST_SENSE"
  /\ d.inst[0].bState = "PREVENT_MEDIUM_REMOVE" =>
       d.command[0].op \in {"none", "PREVENT", "REQUEST_SENSE", "DATA"}

\* Before the device is discovered
Fresh(d) ==
  LET v == d.volume[0]
  IN  /\ d.command[0] = Idle /\ ~d.inst[0].bError
      /\ ~v.bAnnounced /\ ~v.bGotMedium /\ ~v.bMediumAnnounced /\ ~v.pfMediumCheckComplete

One == /\ Typing
       /\ phase = "starting" => Fresh(Driver)
       /\ phase = "running" => Settled(Driver) /\ Checking(Driver, unit[0])

\* The two properties of a step from d to e, with the unit as it was
Prevented(d, e) ==
  Kind[0] = "removable" /\ 0 \in e.hfi.mounted \ d.hfi.mounted =>
    d.command[0] \in [op : {"PREVENT", "REQUEST_SENSE"}, by : {0}]
Truthful(d, e, u) ==
  0 \in d.hfi.steady /\ d.volume[0].pfMediumCheckComplete /\ ~e.volume[0].pfMediumCheckComplete
    => e.volume[0].bMediumAnnounced = (u.medium /\ Kind[0] # "fixed")

LEMMA DriverIs ==
  ASSUME NEW d \in Drivers, Becomes(d)
  PROVE  Driver' = d
  BY DEF Driver, Becomes, Drivers

LEMMA DriverFields ==
  ASSUME LunCount = 1, Typing
  PROVE  /\ Driver \in Drivers /\ Driver.inst = inst /\ Driver.volume = volume
         /\ Driver.command = command /\ Driver.hfi = hfi
         /\ inst[0] \in Instances /\ volume[0] \in Volumes /\ command[0] \in Commands
         /\ hfi \in FileSystems /\ unit[0] \in Units
  BY OneUnit, DriverTyped DEF Driver, Typing, TypeOK

\* The driver when an answer has been taken in
LEMMA ReceivedOne ==
  ASSUME LunCount = 1, Typing, InFlight(0), NEW a \in Answers(0)
  PROVE  LET d == Received(0, a)
             s == inst[0]
             t == d.inst[0]
         IN  /\ command[0].by = 0 /\ d \in Drivers /\ t \in Instances /\ d.command[0] = Idle
             /\ d.volume = volume /\ d.hfi.mounted = hfi.mounted
             /\ d.hfi.steady = IF a.bUsbError THEN hfi.steady \ {0} ELSE hfi.steady
             /\ t.bState = s.bState /\ t.bLunScan = s.bLunScan /\ t.bAnnounced = s.bAnnounced
             /\ t.bError = s.bError /\ t.bNoMedium = s.bNoMedium
             /\ t.inquiry = IF command[0].op = "INQUIRY" THEN 0 ELSE s.inquiry
             /\ t.capacity = (s.capacity \/ (command[0].op = "READ_CAPACITY" /\ ~a.bUsbError))
             /\ command[0].op = "REQUEST_SENSE" => t.sense = a.sense
<1> DEFINE steady == IF a.bUsbError THEN hfi.steady \ {0} ELSE hfi.steady
           x == [Driver EXCEPT !.command[0] = Idle, !.hfi.steady = steady]
<1>1. 0 \in Luns /\ command[0].by = 0
  BY OneUnit, InFlightBy
<1>2. /\ x.inst = inst /\ x.volume = volume /\ x.command[0] = Idle
      /\ x.hfi.mounted = hfi.mounted /\ x.hfi.steady = steady
  BY <1>1, DriverFields DEF Drivers, FileSystems
<1>3. Received(0, a) =
        CASE command[0].op = "INQUIRY" -> [x EXCEPT !.inst[0].inquiry = 0]
          [] command[0].op = "READ_CAPACITY" /\ ~a.bUsbError -> [x EXCEPT !.inst[0].capacity = TRUE]
          [] command[0].op = "REQUEST_SENSE" -> [x EXCEPT !.inst[0].sense = a.sense]
          [] OTHER -> x
  BY <1>1 DEF Received, Driver
<1>4. Received(0, a) \in Drivers /\ inst[0] \in Instances /\ a.bUsbError \in BOOLEAN
  BY <1>1, ReceivedTyped, DriverFields, AnswersTyped
<1>5. Received(0, a).inst[0] \in Instances
  BY <1>1, <1>4, Fields
<1>6. x \in Drivers
  <2>1. [hfi EXCEPT !.steady = steady] \in FileSystems
    <3>1. hfi \in FileSystems
      BY DriverFields
    <3> QED
      BY <3>1 DEF FileSystems
  <2> HIDE DEF steady
  <2>2. [hfi EXCEPT !.steady = steady] = [Driver.hfi EXCEPT !.steady = steady]
    BY DriverFields, Zenon
  <2>3. Driver \in Drivers /\ Idle \in Commands
    BY DriverFields DEF Commands
  <2> QED
    BY <1>1, <2>1, <2>2, <2>3 DEF Drivers
<1> HIDE DEF x
<1>7. CASE command[0].op = "INQUIRY"
  <2>1. Received(0, a) = [x EXCEPT !.inst[0].inquiry = 0]
    BY <1>3, <1>7
  <2>2. /\ Received(0, a).inst[0] = [inst[0] EXCEPT !.inquiry = 0]
        /\ Received(0, a).volume = x.volume /\ Received(0, a).command = x.command
        /\ Received(0, a).hfi = x.hfi
    BY <1>1, <1>2, <1>6, <2>1 DEF Drivers
  <2> QED
    BY <1>1, <1>2, <1>4, <1>5, <1>7, <2>2 DEF Instances
<1>8. CASE command[0].op = "READ_CAPACITY" /\ ~a.bUsbError
  <2>1. Received(0, a) = [x EXCEPT !.inst[0].capacity = TRUE]
    BY <1>3, <1>8
  <2>2. /\ Received(0, a).inst[0] = [inst[0] EXCEPT !.capacity = TRUE]
        /\ Received(0, a).volume = x.volume /\ Received(0, a).command = x.command
        /\ Received(0, a).hfi = x.hfi
    BY <1>1, <1>2, <1>6, <2>1 DEF Drivers
  <2> QED
    BY <1>1, <1>2, <1>4, <1>5, <1>8, <2>2 DEF Instances
<1>9. CASE command[0].op = "REQUEST_SENSE"
  <2>1. Received(0, a) = [x EXCEPT !.inst[0].sense = a.sense]
    BY <1>3, <1>9
  <2>2. /\ Received(0, a).inst[0] = [inst[0] EXCEPT !.sense = a.sense]
        /\ Received(0, a).volume = x.volume /\ Received(0, a).command = x.command
        /\ Received(0, a).hfi = x.hfi
    BY <1>1, <1>2, <1>6, <2>1 DEF Drivers
  <2> QED
    BY <1>1, <1>2, <1>4, <1>5, <1>9, <2>2 DEF Instances
<1>10. CASE /\ command[0].op \notin {"INQUIRY", "REQUEST_SENSE"}
            /\ ~(command[0].op = "READ_CAPACITY" /\ ~a.bUsbError)
  <2>1. Received(0, a) = x
    BY <1>3, <1>10
  <2> QED
    BY <1>1, <1>2, <1>4, <1>5, <1>10, <2>1 DEF Instances
<1> QED
  BY <1>7, <1>8, <1>9, <1>10

LEMMA SensedFields ==
  ASSUME NEW s \in Instances
  PROVE  LET z == Sensed(s)
         IN  /\ z \in Instances /\ ~z.bError
             /\ z.bState = s.bState /\ z.bLunScan = s.bLunScan /\ z.bAnnounced = s.bAnnounced
             /\ z.inquiry = s.inquiry /\ z.capacity = s.capacity /\ z.sense = s.sense
             /\ z.bNoMedium = (s.bNoMedium \/ (s.bError /\ s.sense = "no medium"))
<1>1. Sensed(s) \in Instances
  BY InstancesAre, SensedTyped
<1> QED
  BY <1>1, ZenonT(60) DEF Sensed, Instances

OneStep == One' /\ Prevented(Driver, Driver') /\ Truthful(Driver, Driver', unit[0])

\* What no step of MGC_ScsiCmdComplete touches
StepKeeps(n, r) ==
  /\ StepTyped(n)
  /\ n.s.inquiry = r.inquiry /\ n.s.bAnnounced = r.bAnnounced
  /\ ~n.s.bLunScan /\ ~n.s.bError
  /\ n.s.bState # "PREVENT_MEDIUM_REMOVE"
  /\ n.announce \/ n.op # "REQUEST_SENSE"

\* A step of a check goes on with it or tells the truth.
Tells(n, notReady, u, bUsbError) ==
  IF n.announce \/ notReady THEN (n.ready /\ n.s.capacity) = u.medium
  ELSE ~bUsbError => <<n.s.bState, n.op>> \in Answering /\ OnCourse(n.s, u)

LEMMA StepLun ==
  ASSUME LunCount = 1, NEW n, StepTyped(n)
  PROVE  n.lun = 0 /\ n.s \in Instances /\ n.announce \in BOOLEAN /\ n.ready \in BOOLEAN
  BY OneUnit, InstancesAre DEF StepTyped

\* The fields of a driver whose instance has taken a step
LEMMA PutOne ==
  ASSUME LunCount = 1, NEW d \in Drivers, NEW s \in Instances
  PROVE  LET e == [d EXCEPT !.inst[0] = s]
         IN  /\ e \in Drivers /\ e.inst[0] = s /\ e.volume = d.volume
             /\ e.command = d.command /\ e.hfi = d.hfi
<1>1. [d EXCEPT !.inst[0] = s] \in Drivers
  BY OneUnit, InstTyped
<1> QED
  BY <1>1, OneUnit DEF Drivers

\* Every answer but the last ones: if the step keeps what it must and, in a check, goes on or
\* tells the truth, the invariant and the two properties hold of the whole callback.
LEMMA AnsweredOne ==
  ASSUME LunCount = 1, One, InFlight(0), NEW a \in Answers(0), NEW n, NEW sense, Typing',
         StepKeeps(n, Sensed(Received(0, a).inst[0])),
         Becomes(IF n.announce \/ sense = "not ready"
                 THEN Announce([Received(0, a) EXCEPT !.inst[command[0].by] = n.s],
                               command[0].by, n.ready)
                 ELSE SendCmd([Received(0, a) EXCEPT !.inst[command[0].by] = n.s],
                              n.lun, n.op, command[0].by)),
         UNCHANGED phase,
         unit'[0].medium = unit[0].medium,
         0 \in hfi.steady /\ volume[0].pfMediumCheckComplete =>
           Tells(n, sense = "not ready", unit'[0], a.bUsbError)
  PROVE  OneStep
<1> DEFINE r == Sensed(Received(0, a).inst[0])
           d == Received(0, a)
           p == [d EXCEPT !.inst[0] = n.s]
           e == IF n.announce \/ sense = "not ready"
                THEN Announce(p, 0, n.ready) ELSE SendCmd(p, 0, n.op, 0)
<1>1. phase = "running" /\ Typing /\ Settled(Driver)
  BY Zenon DEF One, InFlight
<1>2. /\ command[0].by = 0 /\ d \in Drivers /\ d.command[0] = Idle
      /\ d.volume = volume /\ d.hfi.mounted = hfi.mounted
      /\ d.hfi.steady = IF a.bUsbError THEN hfi.steady \ {0} ELSE hfi.steady
      /\ d.inst[0] \in Instances /\ d.inst[0].bAnnounced = inst[0].bAnnounced
      /\ d.inst[0].inquiry = IF command[0].op = "INQUIRY" THEN 0 ELSE inst[0].inquiry
  BY <1>1, ReceivedOne, Zenon
<1>3. n.lun = 0 /\ n.s \in Instances /\ n.announce \in BOOLEAN /\ n.ready \in BOOLEAN
  BY StepLun, Zenon DEF StepKeeps
<1>4. Becomes(e)
  BY <1>2, <1>3, Zenon
<1>5. r.inquiry = 0 /\ r.bAnnounced = inst[0].bAnnounced
  <2>1. r.inquiry = d.inst[0].inquiry /\ r.bAnnounced = d.inst[0].bAnnounced
    BY <1>2, SensedFields, Zenon
  <2>2. inst[0] \in Instances /\ Driver.inst = inst /\ Driver.command = command
    BY <1>1, DriverFields, Zenon
  <2>3. inst[0].inquiry # NoUnit \/ command[0].op = "INQUIRY"
    BY <1>1, <2>2, Zenon DEF Settled
  <2>4. inst[0].inquiry = 0 \/ command[0].op = "INQUIRY"
    BY <2>2, <2>3, OneUnit, Zenon DEF Instances
  <2> QED
    BY <1>2, <2>1, <2>4, Zenon
<1> HIDE DEF d, r
<1>6. /\ p \in Drivers /\ p.inst[0] = n.s /\ p.volume = volume /\ p.command[0] = Idle
      /\ p.hfi = d.hfi
  BY <1>2, <1>3, PutOne, Zenon
<1> HIDE DEF p
<1>7. StepKeeps(n, r)
  BY Zenon DEF r, d
<1>8. Quiet(p)
  BY <1>3, <1>5, <1>6, <1>7, Zenon DEF Quiet, StepKeeps
<1>9. Calm(p)
  BY <1>1, <1>5, <1>6, <1>7, DriverFields, ZenonT(60) DEF Settled, Calm, StepKeeps
<1>10. /\ Driver.inst = inst /\ Driver.volume = volume /\ Driver.command = command
       /\ Driver.hfi = hfi
  BY <1>1, DriverFields, Zenon
<1>13. 0 # NoUnit
  BY OneUnit, Zenon
<1>11. CASE n.announce \/ sense = "not ready"
  <2> DEFINE f == Announce(p, 0, n.ready)
  <2>1. e = f
    BY <1>11, Zenon
  <2>2. /\ Quiet(f) /\ Calm(f) /\ ~f.volume[0].pfMediumCheckComplete
        /\ Kind[0] = "removable" => f.hfi.mounted = p.hfi.mounted
        /\ p.volume[0].bAnnounced =>
             f.volume[0].bMediumAnnounced = ((n.ready /\ p.inst[0].capacity) /\ Kind[0] # "fixed")
    BY <1>3, <1>6, <1>8, <1>9, AnnounceQuiet, Zenon
  <2> HIDE DEF f, e
  <2>3. Driver' = f
    BY <1>4, <2>1, <2>2, DriverIs, Zenon DEF Quiet
  <2>4. Settled(f) /\ Checking(f, unit'[0])
    <3>1. /\ f.command[0].op \in {"none", "INQUIRY", "PREVENT"}
          /\ f.inst[0].bState = "PREVENT_MEDIUM_REMOVE" => f.command[0].op \in {"none", "PREVENT"}
      BY <2>2, BusyWith, CommandsDiffer, Zenon DEF Quiet
    <3>2. f.inst[0].inquiry # NoUnit /\ ~f.inst[0].bLunScan /\ ~f.inst[0].bError
      BY <2>2, <1>13, Zenon DEF Quiet
    <3>3. Settled(f)
      BY <2>2, <3>1, <3>2, Zenon DEF Settled
    <3> QED
      BY <2>2, <3>3, Zenon DEF Checking
  <2>5. Prevented(Driver, f)
    BY <1>2, <1>6, <1>10, <2>2, Zenon DEF Prevented
  <2>6. Truthful(Driver, f, unit[0])
    <3> SUFFICES ASSUME 0 \in hfi.steady, volume[0].pfMediumCheckComplete
                 PROVE  f.volume[0].bMediumAnnounced = (unit[0].medium /\ Kind[0] # "fixed")
      BY <1>10, Zenon DEF Truthful
    <3>1. (n.ready /\ n.s.capacity) = unit[0].medium
      BY <1>11, Zenon DEF Tells
    <3>2. volume[0].bAnnounced
      BY <1>1, <1>10, Zenon DEF Settled, Calm
    <3> QED
      BY <1>6, <2>2, <3>1, <3>2, Zenon
  <2> QED
    BY <1>1, <2>3, <2>4, <2>5, <2>6, Zenon DEF OneStep, One
<1>12. CASE ~(n.announce \/ sense = "not ready")
  <2> DEFINE f == SendCmd(p, 0, n.op, 0)
  <2>1. e = f
    BY <1>12, Zenon
  <2>2. f.inst = p.inst /\ f.volume = p.volume /\ f.hfi = p.hfi /\ f.command[0] = Busy(n.op)
    BY <1>6, SendOne, Zenon
  <2>3. f \in Drivers
    BY <1>6, <1>7, <1>12, OneUnit, SendCmdTyped, Zenon DEF StepKeeps, StepTyped
  <2> HIDE DEF f, e
  <2>4. Driver' = f
    BY <1>4, <2>1, <2>3, DriverIs, Zenon
  <2>5. Settled(f)
    <3>1. f.command[0].op = n.op /\ n.op # "REQUEST_SENSE"
      BY <1>7, <1>12, <2>2, BusyWith, Zenon DEF StepKeeps
    <3>2. /\ n.s.inquiry # NoUnit /\ ~n.s.bLunScan /\ ~n.s.bError
          /\ n.s.bState # "PREVENT_MEDIUM_REMOVE"
      BY <1>5, <1>7, <1>13, Zenon DEF StepKeeps
    <3>3. Calm(f)
      BY <1>6, <1>9, <2>2, Zenon DEF Calm
    <3> QED
      BY <1>6, <2>2, <3>1, <3>2, <3>3, Zenon DEF Settled
  <2>6. Checking(f, unit'[0])
    <3> SUFFICES ASSUME 0 \in f.hfi.steady, f.volume[0].pfMediumCheckComplete
                 PROVE  <<f.inst[0].bState, f.command[0].op>> \in Answering
                        /\ OnCourse(f.inst[0], unit'[0])
      BY Zenon DEF Checking
    <3>1. 0 \in hfi.steady /\ volume[0].pfMediumCheckComplete /\ ~a.bUsbError
      BY <1>2, <1>6, <2>2, Zenon
    <3>2. <<n.s.bState, n.op>> \in Answering /\ OnCourse(n.s, unit'[0])
      BY <1>12, <3>1, Zenon DEF Tells
    <3>3. f.command[0].op = n.op /\ f.inst[0] = n.s
      BY <1>6, <2>2, BusyWith, Zenon
    <3> QED
      BY <3>2, <3>3, Zenon
  <2>7. Prevented(Driver, f) /\ Truthful(Driver, f, unit[0])
    BY <1>2, <1>6, <1>10, <2>2, Zenon DEF Prevented, Truthful
  <2> QED
    BY <1>1, <2>4, <2>5, <2>6, <2>7, Zenon DEF OneStep, One
<1> QED
  BY <1>11, <1>12, Zenon

\* What is known of an answer when a step is taken from it: the instance r, whether the
\* command had failed, and what the sense data say
LEMMA Context ==
  ASSUME LunCount = 1, One, InFlight(0), ~Failing(0), NEW a \in Answers(0)
  PROVE  LET s == inst[0]
             u == unit[0]
             op == command[0].op
             t == Received(0, a).inst[0]
             r == Sensed(t)
             sense == IF t.bError THEN t.sense ELSE "none"
         IN  /\ command[0].by = 0
             /\ t.bError = s.bError /\ t.bError \in BOOLEAN /\ (t.bError <=> op = "REQUEST_SENSE")
             /\ Typed(r) /\ ~r.bLunScan /\ ~r.bError /\ r.bState = s.bState
             /\ r.capacity = (s.capacity \/ (op = "READ_CAPACITY" /\ ~a.bUsbError))
             /\ r.bNoMedium = (s.bNoMedium \/ sense = "no medium")
             /\ a.bUsbError \in BOOLEAN
             /\ a.bUsbError => op \in {"READ_FMT_CAPACITY", "READ_CAPACITY"}
             /\ t.bError /\ u.attention /\ u.medium => sense = "medium change"
             /\ ~t.bError /\ op # "INQUIRY" => ~u.attention /\ (op \in Media => u.medium)
<1> DEFINE s == inst[0]
           t == Received(0, a).inst[0]
           r == Sensed(t)
           op == command[0].op
<1>1. Typing /\ Settled(Driver)
  BY DEF One, InFlight
<1>2. /\ Driver.inst = inst /\ Driver.command = command /\ s \in Instances
      /\ unit[0] \in Units
  BY <1>1, DriverFields
<1>3. ~s.bLunScan /\ (s.bError <=> op = "REQUEST_SENSE")
  BY <1>1, <1>2 DEF Settled
<1>4. /\ command[0].by = 0 /\ t \in Instances
      /\ t.bState = s.bState /\ t.bLunScan = s.bLunScan
      /\ t.bError = s.bError /\ t.bNoMedium = s.bNoMedium
      /\ t.capacity = (s.capacity \/ (op = "READ_CAPACITY" /\ ~a.bUsbError))
      /\ op = "REQUEST_SENSE" => t.sense = a.sense
  BY <1>1, ReceivedOne
<1> HIDE DEF t
<1>5. /\ r \in Instances /\ ~r.bError
      /\ r.bState = t.bState /\ r.bLunScan = t.bLunScan /\ r.capacity = t.capacity
      /\ r.bNoMedium = (t.bNoMedium \/ (t.bError /\ t.sense = "no medium"))
  BY <1>4, SensedFields, Zenon
<1> HIDE DEF r
<1>6. Typed(r) /\ t.bError \in BOOLEAN /\ t.bNoMedium \in BOOLEAN
  BY <1>4, <1>5, InstancesAre, Zenon DEF Typed
<1>7. a.bUsbError \in BOOLEAN /\ (a.bUsbError => op \in {"READ_FMT_CAPACITY", "READ_CAPACITY"})
  BY DEF Answers
<1>8. t.bError /\ unit[0].attention /\ unit[0].medium => t.sense = "medium change"
  <2> SUFFICES ASSUME t.bError, unit[0].attention, unit[0].medium
               PROVE  t.sense = "medium change"
    BY Zenon
  <2>1. op = "REQUEST_SENSE"
    BY <1>3, <1>4
  <2>2. a.sense \in SensesOf(0)
    BY <2>1 DEF Answers
  <2>3. SensesOf(0) = {"medium change"}
    BY DEF SensesOf
  <2> QED
    BY <1>4, <2>1, <2>2, <2>3, Zenon
<1>9. ~t.bError /\ op # "INQUIRY" => ~unit[0].attention /\ (op \in Media => unit[0].medium)
  BY <1>3, <1>4 DEF Failing
<1> QED
  BY <1>2, <1>3, <1>4, <1>5, <1>6, <1>7, <1>8, <1>9, Zenon DEF r, t

\* What sends or announces keeps the instance in hand.
LEMMA SendKeeps ==
  ASSUME NEW r, NEW s, Typed(s), NEW op \in Ops \ {"none", "DATA", "REQUEST_SENSE"},
         s.inquiry = r.inquiry, s.bAnnounced = r.bAnnounced, ~s.bLunScan, ~s.bError,
         s.bState # "PREVENT_MEDIUM_REMOVE"
  PROVE  StepKeeps(SendNext(s, op), r)
<1>1. /\ StepTyped(SendNext(s, op))
      /\ SendNext(s, op).s = s /\ SendNext(s, op).op = op
  BY NextTyped, Zeros DEF SendNext
<1> QED
  BY <1>1 DEF StepKeeps

LEMMA AnnounceKeeps ==
  ASSUME NEW r, NEW s, Typed(s), NEW b \in BOOLEAN,
         s.inquiry = r.inquiry, s.bAnnounced = r.bAnnounced, ~s.bLunScan, ~s.bError,
         s.bState # "PREVENT_MEDIUM_REMOVE"
  PROVE  StepKeeps(Announces(s, b), r)
<1>1. /\ StepTyped(Announces(s, b))
      /\ Announces(s, b).s = s /\ Announces(s, b).announce
  BY AnnouncesTyped DEF Announces
<1> QED
  BY <1>1 DEF StepKeeps

LEMMA SendIs ==
  \A s, op : LET n == SendNext(s, op) IN n.s = s /\ n.op = op /\ ~n.announce /\ ~n.ready
  BY DEF SendNext

LEMMA AnnounceIs ==
  \A s, b : LET n == Announces(s, b) IN n.s = s /\ n.announce /\ n.ready = b
  BY DEF Announces

\* INQUIRY is never refused its answer; a check goes on with READ_FMT_CAPACITY.
LEMMA InquiryCompleteOne ==
  ASSUME LunCount = 1, One, InquiryComplete(0)
  PROVE  OneStep
<1> DEFINE op == command[0].op
<1>1. /\ InFlight(0) /\ ~Failing(0) /\ UNCHANGED phase
      /\ unit' = [unit EXCEPT ![0].attention = @ /\ op # "REQUEST_SENSE"]
      /\ inst[command[0].by].bState = "INQUIRY"
  BY Zenon DEF InquiryComplete, Answered
<1>2. PICK a \in Answers(0) :
        LET i == command[0].by
            d == Received(0, a)
            bError == d.inst[i].bError
            sense == IF bError THEN d.inst[i].sense ELSE "none"
            n == InquiryStep(Sensed(d.inst[i]))
            e == [d EXCEPT !.inst[i] = n.s]
        IN  Becomes(IF n.announce \/ sense = "not ready"
                    THEN Announce(e, i, n.ready) ELSE SendCmd(e, n.lun, n.op, i))
  BY Zenon DEF InquiryComplete, Answered
<1> DEFINE t == Received(0, a).inst[0]
           r == Sensed(t)
           bError == t.bError
           failed == bError \/ a.bUsbError
           sense == IF bError THEN t.sense ELSE "none"
           n == InquiryStep(r)
<1>3. /\ command[0].by = 0
      /\ bError = inst[0].bError /\ bError \in BOOLEAN /\ (bError <=> op = "REQUEST_SENSE")
      /\ Typed(r) /\ ~r.bLunScan /\ ~r.bError /\ r.bState = inst[0].bState
      /\ r.capacity = (inst[0].capacity \/ (op = "READ_CAPACITY" /\ ~a.bUsbError))
      /\ r.bNoMedium = (inst[0].bNoMedium \/ sense = "no medium")
      /\ a.bUsbError \in BOOLEAN
      /\ a.bUsbError => op \in {"READ_FMT_CAPACITY", "READ_CAPACITY"}
      /\ bError /\ unit[0].attention /\ unit[0].medium => sense = "medium change"
      /\ ~bError /\ op # "INQUIRY" => ~unit[0].attention /\ (op \in Media => unit[0].medium)
  BY <1>1, Context, Zenon
<1>4. Becomes(IF n.announce \/ sense = "not ready"
              THEN Announce([Received(0, a) EXCEPT !.inst[command[0].by] = n.s],
                            command[0].by, n.ready)
              ELSE SendCmd([Received(0, a) EXCEPT !.inst[command[0].by] = n.s],
                           n.lun, n.op, command[0].by))
  BY <1>2, <1>3, Zenon
<1>5. /\ unit'[0].medium = unit[0].medium
      /\ unit'[0].attention = (unit[0].attention /\ op # "REQUEST_SENSE")
      /\ unit[0].medium \in BOOLEAN /\ unit[0].attention \in BOOLEAN
  BY <1>1, OneUnit DEF One, Typing, TypeOK, Units
<1>6. Typing'
  BY InquiryCompleteTyped, OneUnit DEF One
<1>7. sense \in {"none"} \/ bError
  OBVIOUS
<1>8. inst[0].bState = "INQUIRY" /\ r.bState = "INQUIRY"
  BY <1>1, <1>3, Zenon
<1>9. ASSUME 0 \in hfi.steady, volume[0].pfMediumCheckComplete
      PROVE  <<inst[0].bState, op>> \in Answering /\ OnCourse(inst[0], unit[0])
  BY <1>1, <1>9, DriverFields DEF One, InFlight, Checking
<1> HIDE DEF r, t, sense, failed, bError, op
<1> DEFINE s == [r EXCEPT !.bState = "READ_FMT_CAPACITY"]
<1>10. /\ StepKeeps(n, r) /\ n.s = s /\ n.op = "READ_FMT_CAPACITY" /\ ~n.announce
       /\ s.bState = "READ_FMT_CAPACITY" /\ s.bNoMedium = r.bNoMedium /\ ~s.bError
  <2>1. /\ s.bState = "READ_FMT_CAPACITY" /\ s.inquiry = r.inquiry /\ s.bAnnounced = r.bAnnounced
        /\ s.bLunScan = r.bLunScan /\ s.bError = r.bError /\ s.bNoMedium = r.bNoMedium
        /\ Typed(s)
    BY <1>3, Zenon DEF Typed, Names, States
  <2>2. n = SendNext(s, "READ_FMT_CAPACITY")
    BY <1>3, Zenon DEF InquiryStep
  <2> HIDE DEF s, n
  <2>3. ~s.bLunScan /\ ~s.bError /\ s.bState # "PREVENT_MEDIUM_REMOVE"
    BY <1>3, <2>1, Zenon
  <2>4. "READ_FMT_CAPACITY" \in Ops \ {"none", "DATA", "REQUEST_SENSE"}
    BY DEF Ops
  <2>5. StepKeeps(n, r) /\ n.s = s /\ n.op = "READ_FMT_CAPACITY" /\ ~n.announce
    <3>1. StepKeeps(SendNext(s, "READ_FMT_CAPACITY"), r)
      BY <2>1, <2>3, <2>4, SendKeeps
    <3>2. /\ SendNext(s, "READ_FMT_CAPACITY").s = s
          /\ SendNext(s, "READ_FMT_CAPACITY").op = "READ_FMT_CAPACITY"
          /\ ~SendNext(s, "READ_FMT_CAPACITY").announce
      BY SendIs, Zenon
    <3> QED
      BY <2>2, <3>1, <3>2, Zenon
  <2> QED
    BY <2>1, <2>3, <2>5
<1>11. ASSUME 0 \in hfi.steady, volume[0].pfMediumCheckComplete
       PROVE  Tells(n, sense = "not ready", unit'[0], a.bUsbError)
  <2>1. op = "INQUIRY" /\ ~bError /\ ~a.bUsbError
    BY <1>3, <1>8, <1>9, <1>11, Zenon DEF Answering
  <2>2. sense = "none"
    BY <1>7, <2>1
  <2>3. unit[0].medium => ~r.bNoMedium
    BY <1>3, <1>8, <1>9, <1>11, <2>2 DEF OnCourse
  <2> HIDE DEF n, s
  <2>4. <<n.s.bState, n.op>> \in Answering
    BY <1>10 DEF Answering
  <2>5. OnCourse(n.s, unit'[0])
    BY <1>5, <1>10, <2>3 DEF OnCourse
  <2> QED
    BY <1>10, <2>2, <2>4, <2>5 DEF Tells
<1>12. StepKeeps(n, Sensed(Received(0, a).inst[0]))
  BY <1>10 DEF r, t
<1> HIDE DEF n
<1> QED
  BY <1>1, <1>4, <1>5, <1>6, <1>11, <1>12, AnsweredOne, ZenonT(60)

\* An instance that a step has changed only in what it may change
Heir(s, r) ==
  /\ Typed(s) /\ s.inquiry = r.inquiry /\ s.bAnnounced = r.bAnnounced
  /\ ~s.bLunScan /\ ~s.bError /\ s.bState # "PREVENT_MEDIUM_REMOVE"

\* A step that leaves an instance's heir sends or announces for it.
LEMMA HeirSends ==
  ASSUME NEW r, NEW s, Heir(s, r), NEW op \in Ops \ {"none", "DATA", "REQUEST_SENSE"}
  PROVE  StepKeeps(SendNext(s, op), r)
  BY SendKeeps DEF Heir

LEMMA HeirAnnounces ==
  ASSUME NEW r, NEW s, Heir(s, r), NEW b \in BOOLEAN
  PROVE  StepKeeps(Announces(s, b), r)
  BY AnnounceKeeps DEF Heir

LEMMA OpsAre ==
  {"INQUIRY", "READ_FMT_CAPACITY", "READ_CAPACITY", "TEST_UNIT_READY", "READ10"}
    \subseteq Ops \ {"none", "DATA", "REQUEST_SENSE"}
  BY DEF Ops

LEMMA StatesAre ==
  {"INQUIRY", "READ_FMT_CAPACITY", "READ_CAPACITY", "FIRST_TEST", "READ_BLOCK0", "TEST_UNIT_READY",
   "STOP_UNIT"} \subseteq States \ {"PREVENT_MEDIUM_REMOVE"}
  BY DEF States

\* The fields that the steps change, one at a time
LEMMA HeirFields ==
  ASSUME NEW r, Typed(r), ~r.bLunScan, ~r.bError,
         NEW bState \in States \ {"PREVENT_MEDIUM_REMOVE"}
  PROVE  LET s == [r EXCEPT !.bState = bState]
         IN  /\ Heir(s, r) /\ s.bState = bState /\ s.bNoMedium = r.bNoMedium
             /\ s.capacity = r.capacity /\ s.set = r.set /\ s.dwRetries = r.dwRetries
             /\ s.dwCapacityRetries = r.dwCapacityRetries
<1> DEFINE s == [r EXCEPT !.bState = bState]
<1>1. /\ Typed(s) /\ s.bState = bState
      /\ s.inquiry = r.inquiry /\ s.bAnnounced = r.bAnnounced /\ s.bLunScan = r.bLunScan
      /\ s.bError = r.bError /\ s.bNoMedium = r.bNoMedium
      /\ s.capacity = r.capacity /\ s.set = r.set /\ s.dwRetries = r.dwRetries
      /\ s.dwCapacityRetries = r.dwCapacityRetries
  BY Zenon DEF Typed, Names
<1>2. bState # "PREVENT_MEDIUM_REMOVE"
  OBVIOUS
<1> HIDE DEF s
<1>3. ~s.bLunScan /\ ~s.bError /\ s.bState # "PREVENT_MEDIUM_REMOVE"
  BY <1>1, <1>2, Zenon
<1>4. Heir(s, r)
  BY <1>1, <1>3, Zenon DEF Heir
<1> QED
  BY <1>1, <1>4, Zenon DEF s

LEMMA RetriesHeir ==
  ASSUME NEW r, Typed(r), ~r.bLunScan, ~r.bError, r.bState # "PREVENT_MEDIUM_REMOVE",
         NEW m \in 0 .. TestUnitRetries + 1, NEW c \in 0 .. CapacityRetries,
         NEW f \in 0 .. FmtCapacityRetries
  PROVE  LET x == [r EXCEPT !.dwRetries = m]
             y == [r EXCEPT !.dwCapacityRetries = c]
             z == [r EXCEPT !.bFmtCapacityRetries = f]
         IN  /\ Heir(x, r) /\ x.bState = r.bState /\ x.bNoMedium = r.bNoMedium
             /\ x.capacity = r.capacity
             /\ Heir(y, r) /\ y.bState = r.bState /\ y.bNoMedium = r.bNoMedium
             /\ y.capacity = r.capacity
             /\ Heir(z, r) /\ z.bState = r.bState /\ z.bNoMedium = r.bNoMedium
             /\ z.capacity = r.capacity
<1> DEFINE x == [r EXCEPT !.dwRetries = m]
           y == [r EXCEPT !.dwCapacityRetries = c]
           z == [r EXCEPT !.bFmtCapacityRetries = f]
<1>1. /\ Typed(x) /\ x.bState = r.bState
      /\ x.inquiry = r.inquiry /\ x.bAnnounced = r.bAnnounced /\ x.bLunScan = r.bLunScan
      /\ x.bError = r.bError /\ x.bNoMedium = r.bNoMedium /\ x.capacity = r.capacity
  BY Zenon DEF Typed, Names
<1>2. /\ Typed(y) /\ y.bState = r.bState
      /\ y.inquiry = r.inquiry /\ y.bAnnounced = r.bAnnounced /\ y.bLunScan = r.bLunScan
      /\ y.bError = r.bError /\ y.bNoMedium = r.bNoMedium /\ y.capacity = r.capacity
  BY Zenon DEF Typed, Names
<1>3. /\ Typed(z) /\ z.bState = r.bState
      /\ z.inquiry = r.inquiry /\ z.bAnnounced = r.bAnnounced /\ z.bLunScan = r.bLunScan
      /\ z.bError = r.bError /\ z.bNoMedium = r.bNoMedium /\ z.capacity = r.capacity
  BY Zenon DEF Typed, Names
<1> HIDE DEF x, y, z
<1>4. Heir(x, r)
  BY <1>1, Zenon DEF Heir
<1>5. Heir(y, r)
  BY <1>2, Zenon DEF Heir
<1>6. Heir(z, r)
  BY <1>3, Zenon DEF Heir
<1> QED
  BY <1>1, <1>2, <1>3, <1>4, <1>5, <1>6, Zenon DEF x, y, z

LEMMA HeirOfHeir ==
  ASSUME NEW q, NEW s, NEW r, Heir(q, s), Heir(s, r)
  PROVE  Heir(q, r) /\ Typed(s) /\ ~s.bLunScan /\ ~s.bError /\ s.bState # "PREVENT_MEDIUM_REMOVE"
  BY Zenon DEF Heir

\* READ_FMT_CAPACITY may fail as often as it likes: READ_CAPACITY follows, and by then an
\* attention condition has been reported.
LEMMA FmtCapacityCompleteOne ==
  ASSUME LunCount = 1, One, FmtCapacityComplete(0)
  PROVE  OneStep
<1> DEFINE op == command[0].op
<1>1. /\ InFlight(0) /\ ~Failing(0) /\ UNCHANGED phase
      /\ unit' = [unit EXCEPT ![0].attention = @ /\ op # "REQUEST_SENSE"]
      /\ inst[command[0].by].bState = "READ_FMT_CAPACITY"
  BY Zenon DEF FmtCapacityComplete, Answered
<1>2. PICK a \in Answers(0) :
        LET i == command[0].by
            d == Received(0, a)
            bError == d.inst[i].bError
            sense == IF bError THEN d.inst[i].sense ELSE "none"
            n == FmtCapacityStep(Sensed(d.inst[i]), bError \/ a.bUsbError)
            e == [d EXCEPT !.inst[i] = n.s]
        IN  Becomes(IF n.announce \/ sense = "not ready"
                    THEN Announce(e, i, n.ready) ELSE SendCmd(e, n.lun, n.op, i))
  BY ZenonT(60) DEF FmtCapacityComplete, Answered
<1> DEFINE t == Received(0, a).inst[0]
           r == Sensed(t)
           bError == t.bError
           failed == bError \/ a.bUsbError
           sense == IF bError THEN t.sense ELSE "none"
           n == FmtCapacityStep(r, failed)
<1>3. /\ command[0].by = 0
      /\ bError = inst[0].bError /\ bError \in BOOLEAN /\ (bError <=> op = "REQUEST_SENSE")
      /\ Typed(r) /\ ~r.bLunScan /\ ~r.bError /\ r.bState = inst[0].bState
      /\ r.capacity = (inst[0].capacity \/ (op = "READ_CAPACITY" /\ ~a.bUsbError))
      /\ r.bNoMedium = (inst[0].bNoMedium \/ sense = "no medium")
      /\ a.bUsbError \in BOOLEAN
      /\ a.bUsbError => op \in {"READ_FMT_CAPACITY", "READ_CAPACITY"}
      /\ bError /\ unit[0].attention /\ unit[0].medium => sense = "medium change"
      /\ ~bError /\ op # "INQUIRY" => ~unit[0].attention /\ (op \in Media => unit[0].medium)
  BY <1>1, Context, Zenon
<1>4. Becomes(IF n.announce \/ sense = "not ready"
              THEN Announce([Received(0, a) EXCEPT !.inst[command[0].by] = n.s],
                            command[0].by, n.ready)
              ELSE SendCmd([Received(0, a) EXCEPT !.inst[command[0].by] = n.s],
                           n.lun, n.op, command[0].by))
  BY <1>2, <1>3, Zenon
<1>5. /\ unit'[0].medium = unit[0].medium
      /\ unit'[0].attention = (unit[0].attention /\ op # "REQUEST_SENSE")
      /\ unit[0].medium \in BOOLEAN /\ unit[0].attention \in BOOLEAN
  BY <1>1, OneUnit DEF One, Typing, TypeOK, Units
<1>6. Typing'
  BY FmtCapacityCompleteTyped, OneUnit DEF One
<1>7. sense \in {"none"} \/ bError
  OBVIOUS
<1>8. inst[0].bState = "READ_FMT_CAPACITY" /\ r.bState = "READ_FMT_CAPACITY"
  BY <1>1, <1>3, Zenon
<1>9. ASSUME 0 \in hfi.steady, volume[0].pfMediumCheckComplete
      PROVE  <<inst[0].bState, op>> \in Answering /\ OnCourse(inst[0], unit[0])
  BY <1>1, <1>9, DriverFields DEF One, InFlight, Checking
<1> HIDE DEF r, t, sense, failed, bError, op
<1> DEFINE more == [r EXCEPT !.bFmtCapacityRetries = @ + 1]
           read == [r EXCEPT !.bState = "READ_CAPACITY"]
<1>10. /\ StepKeeps(n, r) /\ ~n.announce /\ ~n.ready /\ n.s.bNoMedium = r.bNoMedium /\ ~n.s.bError
       /\ \/ failed /\ n.s.bState = "READ_FMT_CAPACITY" /\ n.op = "READ_FMT_CAPACITY"
          \/ n.s.bState = "READ_CAPACITY" /\ n.op = "READ_CAPACITY"
  <2>1. CASE failed /\ r.bFmtCapacityRetries < FmtCapacityRetries
    <3>1. r.bFmtCapacityRetries + 1 \in 0 .. FmtCapacityRetries
      <4>1. r.bFmtCapacityRetries \in 0 .. FmtCapacityRetries /\ FmtCapacityRetries \in Nat
        BY <1>3, Parameters, Zenon DEF Typed
      <4> QED
        BY <2>1, <4>1
    <3>2. Heir(more, r) /\ more.bState = r.bState /\ more.bNoMedium = r.bNoMedium
      BY <1>3, <1>8, <3>1, Zeros, RetriesHeir, ZenonT(60)
    <3>3. n = SendNext(more, "READ_FMT_CAPACITY")
      BY <2>1 DEF FmtCapacityStep
    <3> HIDE DEF more, n
    <3>4. StepKeeps(n, r)
      BY <3>2, <3>3, OpsAre, HeirSends
    <3>5. n.s = more /\ n.op = "READ_FMT_CAPACITY" /\ ~n.announce /\ ~n.ready
      BY <3>3, SendIs, Zenon
    <3> QED
      BY <1>8, <2>1, <3>2, <3>4, <3>5, Zenon DEF Heir
  <2>2. CASE ~(failed /\ r.bFmtCapacityRetries < FmtCapacityRetries)
    <3>2. Heir(read, r) /\ read.bState = "READ_CAPACITY" /\ read.bNoMedium = r.bNoMedium
      BY <1>3, StatesAre, HeirFields, ZenonT(60)
    <3>3. n = SendNext(read, "READ_CAPACITY")
      BY <1>3, <2>2, Zenon DEF FmtCapacityStep
    <3> HIDE DEF read, n
    <3>4. StepKeeps(n, r)
      BY <3>2, <3>3, OpsAre, HeirSends
    <3>5. n.s = read /\ n.op = "READ_CAPACITY" /\ ~n.announce /\ ~n.ready
      BY <3>3, SendIs, Zenon
    <3> QED
      BY <3>2, <3>4, <3>5, Zenon DEF Heir
  <2> QED
    BY <2>1, <2>2
<1>11. ASSUME 0 \in hfi.steady, volume[0].pfMediumCheckComplete
       PROVE  Tells(n, sense = "not ready", unit'[0], a.bUsbError)
  <2> HIDE DEF n
  <2>1. op \in {"READ_FMT_CAPACITY", "REQUEST_SENSE"}
    BY <1>8, <1>9, <1>11 DEF Answering
  <2>2. unit[0].medium => (bError => sense = "medium change") /\ (~bError => sense = "none")
    BY <1>3, <1>7, <1>9, <1>11, Zenon DEF OnCourse
  <2>3. unit[0].medium => ~r.bNoMedium
    BY <1>3, <1>8, <1>9, <1>11, <2>2, Zenon DEF OnCourse
  <2>4. ~unit'[0].attention
    BY <1>3, <1>5, <2>1, Zenon
  <2>5. <<n.s.bState, n.op>> \in Answering
    BY <1>10 DEF Answering
  <2>6. OnCourse(n.s, unit'[0])
    BY <1>5, <1>10, <2>3, <2>4 DEF OnCourse
  <2>7. unit[0].medium => sense # "not ready"
    BY <2>2, Zenon
  <2> QED
    BY <1>5, <1>10, <2>5, <2>6, <2>7, Zenon DEF Tells
<1>12. StepKeeps(n, Sensed(Received(0, a).inst[0]))
  BY <1>10 DEF r, t
<1> HIDE DEF n
<1> QED
  BY <1>1, <1>4, <1>5, <1>6, <1>11, <1>12, AnsweredOne, ZenonT(60)

LEMMA CapacityHeir ==
  ASSUME NEW r, Typed(r), ~r.bLunScan, ~r.bError, r.bState # "PREVENT_MEDIUM_REMOVE",
         NEW b \in BOOLEAN
  PROVE  LET s == [r EXCEPT !.capacity = b]
         IN  /\ Heir(s, r) /\ s.bState = r.bState /\ s.bNoMedium = r.bNoMedium
             /\ s.capacity = b
<1> DEFINE s == [r EXCEPT !.capacity = b]
<1>1. /\ Typed(s) /\ s.bState = r.bState /\ s.inquiry = r.inquiry /\ s.bAnnounced = r.bAnnounced
      /\ s.bLunScan = r.bLunScan /\ s.bError = r.bError /\ s.bNoMedium = r.bNoMedium
      /\ s.capacity = b
  BY Zenon DEF Typed, Names
<1> HIDE DEF s
<1>2. Heir(s, r)
  BY <1>1, Zenon DEF Heir
<1> QED
  BY <1>1, <1>2, Zenon DEF s

LEMMA RemovableHeir ==
  ASSUME NEW r, Typed(r), ~r.bLunScan, ~r.bError, r.bState # "PREVENT_MEDIUM_REMOVE",
         NEW b \in BOOLEAN
  PROVE  LET s == [r EXCEPT !.bRemovable = b]
         IN  /\ Heir(s, r) /\ s.bState = r.bState /\ s.bNoMedium = r.bNoMedium
             /\ s.capacity = r.capacity
<1> DEFINE s == [r EXCEPT !.bRemovable = b]
<1>1. /\ Typed(s) /\ s.bState = r.bState /\ s.inquiry = r.inquiry /\ s.bAnnounced = r.bAnnounced
      /\ s.bLunScan = r.bLunScan /\ s.bError = r.bError /\ s.bNoMedium = r.bNoMedium
      /\ s.capacity = r.capacity
  BY Zenon DEF Typed, Names
<1> HIDE DEF s
<1>2. Heir(s, r)
  BY <1>1, Zenon DEF Heir
<1> QED
  BY <1>1, <1>2, Zenon DEF s

LEMMA HeirIs ==
  ASSUME NEW r, Typed(r), ~r.bLunScan, ~r.bError, r.bState # "PREVENT_MEDIUM_REMOVE"
  PROVE  Heir(r, r)
  BY Zenon DEF Heir

\* READ_CAPACITY: a unit with a medium has said its size now; one without has lost it.
LEMMA CapacityCompleteOne ==
  ASSUME LunCount = 1, One, CapacityComplete(0)
  PROVE  OneStep
<1> DEFINE op == command[0].op
<1>1. /\ InFlight(0) /\ ~Failing(0) /\ UNCHANGED phase
      /\ unit' = [unit EXCEPT ![0].attention = @ /\ op # "REQUEST_SENSE"]
      /\ inst[command[0].by].bState = "READ_CAPACITY"
  BY Zenon DEF CapacityComplete, Answered
<1>2. PICK a \in Answers(0) :
        LET i == command[0].by
            d == Received(0, a)
            bError == d.inst[i].bError
            sense == IF bError THEN d.inst[i].sense ELSE "none"
            x == [bError |-> bError, bUsbError |-> a.bUsbError,
                  failed |-> bError \/ a.bUsbError, sense |-> sense]
            n == CapacityStep(Sensed(d.inst[i]), x.failed, x.bUsbError, x.sense)
            e == [d EXCEPT !.inst[i] = n.s]
        IN  Becomes(IF n.announce \/ sense = "not ready"
                    THEN Announce(e, i, n.ready) ELSE SendCmd(e, n.lun, n.op, i))
  BY Zenon DEF CapacityComplete, Answered
<1> DEFINE t == Received(0, a).inst[0]
           r == Sensed(t)
           bError == t.bError
           failed == bError \/ a.bUsbError
           sense == IF bError THEN t.sense ELSE "none"
           x == [bError |-> bError, bUsbError |-> a.bUsbError,
                 failed |-> bError \/ a.bUsbError, sense |-> sense]
           n == CapacityStep(r, x.failed, x.bUsbError, x.sense)
<1>3. /\ command[0].by = 0
      /\ bError = inst[0].bError /\ bError \in BOOLEAN /\ (bError <=> op = "REQUEST_SENSE")
      /\ Typed(r) /\ ~r.bLunScan /\ ~r.bError /\ r.bState = inst[0].bState
      /\ r.capacity = (inst[0].capacity \/ (op = "READ_CAPACITY" /\ ~a.bUsbError))
      /\ r.bNoMedium = (inst[0].bNoMedium \/ sense = "no medium")
      /\ a.bUsbError \in BOOLEAN
      /\ a.bUsbError => op \in {"READ_FMT_CAPACITY", "READ_CAPACITY"}
      /\ bError /\ unit[0].attention /\ unit[0].medium => sense = "medium change"
      /\ ~bError /\ op # "INQUIRY" => ~unit[0].attention /\ (op \in Media => unit[0].medium)
  BY <1>1, Context, ZenonT(60)
<1>4. Becomes(IF n.announce \/ sense = "not ready"
              THEN Announce([Received(0, a) EXCEPT !.inst[command[0].by] = n.s],
                            command[0].by, n.ready)
              ELSE SendCmd([Received(0, a) EXCEPT !.inst[command[0].by] = n.s],
                           n.lun, n.op, command[0].by))
  BY <1>2, <1>3, ZenonT(60)
<1>5. /\ unit'[0].medium = unit[0].medium
      /\ unit'[0].attention = (unit[0].attention /\ op # "REQUEST_SENSE")
      /\ unit[0].medium \in BOOLEAN /\ unit[0].attention \in BOOLEAN
  BY <1>1, OneUnit DEF One, Typing, TypeOK, Units
<1>6. Typing'
  BY CapacityCompleteTyped, OneUnit DEF One
<1>7. sense \in {"none"} \/ bError
  OBVIOUS
<1>8. inst[0].bState = "READ_CAPACITY" /\ r.bState = "READ_CAPACITY"
  BY <1>1, <1>3, Zenon
<1>9. ASSUME 0 \in hfi.steady, volume[0].pfMediumCheckComplete
      PROVE  <<inst[0].bState, op>> \in Answering /\ OnCourse(inst[0], unit[0])
  BY <1>1, <1>9, DriverFields DEF One, InFlight, Checking
<1>13. x.failed = failed /\ x.bUsbError = a.bUsbError /\ x.sense = sense
  OBVIOUS
<1> HIDE DEF r, t, sense, failed, bError, op, x
<1> DEFINE z == [r EXCEPT !.capacity = @ /\ ~failed]
           test == [z EXCEPT !.bState = "TEST_UNIT_READY"]
           first == [z EXCEPT !.bState = "FIRST_TEST"]
<1>14. n = CASE sense = "medium change" -> SendNext(z, "READ_CAPACITY")
            [] sense # "medium change" /\ (r.bNoMedium \/ a.bUsbError) ->
                 SendNext(test, "TEST_UNIT_READY")
            [] OTHER -> SendNext(first, "TEST_UNIT_READY")
  BY <1>13, Zenon DEF CapacityStep
<1>15. /\ Heir(z, r) /\ z.bState = "READ_CAPACITY" /\ z.bNoMedium = r.bNoMedium
       /\ z.capacity = (r.capacity /\ ~failed)
  <2>1. (r.capacity /\ ~failed) \in BOOLEAN
    OBVIOUS
  <2> QED
    BY <1>3, <1>8, <2>1, CapacityHeir, ZenonT(60)
<1> HIDE DEF z
<1>16. Typed(z) /\ ~z.bLunScan /\ ~z.bError
  BY <1>15 DEF Heir
<1>17. /\ Heir(test, z) /\ test.bState = "TEST_UNIT_READY"
       /\ test.bNoMedium = z.bNoMedium /\ test.capacity = z.capacity
       /\ Heir(first, z) /\ first.bState = "FIRST_TEST"
       /\ first.bNoMedium = z.bNoMedium /\ first.capacity = z.capacity
  BY <1>16, StatesAre, HeirFields
<1> HIDE DEF test, first, n
<1>18. Heir(test, r) /\ Heir(first, r)
  BY <1>15, <1>17, HeirOfHeir
<1>10. /\ StepKeeps(n, r) /\ ~n.announce /\ ~n.ready /\ n.s.bNoMedium = r.bNoMedium /\ ~n.s.bError
       /\ n.s.capacity = (r.capacity /\ ~failed)
       /\ \/ sense = "medium change" /\ n.s.bState = "READ_CAPACITY" /\ n.op = "READ_CAPACITY"
          \/ /\ r.bNoMedium \/ a.bUsbError
             /\ n.s.bState = "TEST_UNIT_READY" /\ n.op = "TEST_UNIT_READY"
          \/ n.s.bState = "FIRST_TEST" /\ n.op = "TEST_UNIT_READY"
  <2>1. CASE sense = "medium change"
    <3>3. n = SendNext(z, "READ_CAPACITY")
      BY <1>14, <2>1, Zenon
    <3>4. StepKeeps(n, r)
      BY <1>15, <3>3, OpsAre, HeirSends
    <3>5. n.s = z /\ n.op = "READ_CAPACITY" /\ ~n.announce /\ ~n.ready
      BY <3>3, SendIs, Zenon
    <3> QED
      BY <1>15, <1>16, <2>1, <3>4, <3>5, Zenon
  <2>2. CASE sense # "medium change" /\ (r.bNoMedium \/ a.bUsbError)
    <3>3. n = SendNext(test, "TEST_UNIT_READY")
      BY <1>14, <2>2, Zenon
    <3>4. StepKeeps(n, r)
      BY <1>18, <3>3, OpsAre, HeirSends
    <3>5. n.s = test /\ n.op = "TEST_UNIT_READY" /\ ~n.announce /\ ~n.ready
      BY <3>3, SendIs, Zenon
    <3> QED
      BY <1>15, <1>17, <1>18, <2>2, <3>4, <3>5, Zenon DEF Heir
  <2>3. CASE sense # "medium change" /\ ~(r.bNoMedium \/ a.bUsbError)
    <3>3. n = SendNext(first, "TEST_UNIT_READY")
      BY <1>14, <2>3, Zenon
    <3>4. StepKeeps(n, r)
      BY <1>18, <3>3, OpsAre, HeirSends
    <3>5. n.s = first /\ n.op = "TEST_UNIT_READY" /\ ~n.announce /\ ~n.ready
      BY <3>3, SendIs, Zenon
    <3> QED
      BY <1>15, <1>17, <1>18, <3>4, <3>5, Zenon DEF Heir
  <2> QED
    BY <2>1, <2>2, <2>3, Zenon
<1>11. ASSUME 0 \in hfi.steady, volume[0].pfMediumCheckComplete
       PROVE  Tells(n, sense = "not ready", unit'[0], a.bUsbError)
  <2> HIDE DEF n
  <2>1. op \in {"READ_CAPACITY", "REQUEST_SENSE"}
    BY <1>8, <1>9, <1>11 DEF Answering
  <2>2. unit[0].medium => /\ ~bError /\ op = "READ_CAPACITY" /\ sense = "none" /\ ~r.bNoMedium
                          /\ ~unit[0].attention
    <3> SUFFICES ASSUME unit[0].medium
                 PROVE  /\ ~bError /\ op = "READ_CAPACITY" /\ sense = "none" /\ ~r.bNoMedium
                        /\ ~unit[0].attention
      OBVIOUS
    <3>1. ~inst[0].bError /\ ~inst[0].bNoMedium /\ ~unit[0].attention
      BY <1>8, <1>9, <1>11, Zenon DEF OnCourse
    <3>2. ~bError
      BY <1>3, <3>1, Zenon
    <3>3. sense = "none" /\ op = "READ_CAPACITY"
      BY <1>3, <1>7, <2>1, <3>2, Zenon
    <3> QED
      BY <1>3, <3>1, <3>2, <3>3
  <2>3. ~unit[0].medium => bError
    BY <1>3, <2>1, Zenon DEF Media
  <2>4. <<n.s.bState, n.op>> \in Answering
    BY <1>10, Zenon DEF Answering
  <2>5. ASSUME ~a.bUsbError  PROVE OnCourse(n.s, unit'[0])
    <3>1. CASE unit[0].medium
      <4>1. n.s.bState = "FIRST_TEST" /\ ~n.s.bNoMedium /\ ~n.s.bError
        BY <1>10, <2>2, <2>5, <3>1
      <4>2. r.capacity /\ ~failed
        BY <1>3, <2>2, <2>5, <3>1 DEF failed
      <4>3. n.s.capacity
        BY <1>10, <4>2, Zenon
      <4>4. ~unit'[0].attention
        BY <1>5, <2>2, <3>1
      <4> QED
        BY <1>5, <3>1, <4>1, <4>3, <4>4 DEF OnCourse
    <3>2. CASE ~unit[0].medium
      <4>1. ~n.s.capacity
        BY <1>10, <2>3, <3>2, Zenon DEF failed
      <4> QED
        BY <1>5, <3>2, <4>1 DEF OnCourse
    <3> QED
      BY <3>1, <3>2
  <2>6. unit[0].medium => sense # "not ready"
    BY <2>2
  <2> QED
    BY <1>5, <1>10, <2>4, <2>5, <2>6, Zenon DEF Tells
<1>12. StepKeeps(n, Sensed(Received(0, a).inst[0]))
  BY <1>10, Zenon DEF r, t
<1> HIDE DEF n
<1> QED
  BY <1>1, <1>4, <1>5, <1>6, <1>11, <1>12, AnsweredOne, ZenonT(60)

\* FIRST_TEST: it passes with a medium, and announces it; without one it never announces TRUE.
LEMMA FirstTestCompleteOne ==
  ASSUME LunCount = 1, One, FirstTestComplete(0)
  PROVE  OneStep
<1> DEFINE op == command[0].op
<1>1. /\ InFlight(0) /\ ~Failing(0) /\ UNCHANGED phase
      /\ unit' = [unit EXCEPT ![0].attention = @ /\ op # "REQUEST_SENSE"]
      /\ inst[command[0].by].bState = "FIRST_TEST"
  BY Zenon DEF FirstTestComplete, Answered
<1>2. PICK a \in Answers(0) :
        LET i == command[0].by
            d == Received(0, a)
            bError == d.inst[i].bError
            sense == IF bError THEN d.inst[i].sense ELSE "none"
            n == FirstTestStep(Sensed(d.inst[i]), bError \/ a.bUsbError)
            e == [d EXCEPT !.inst[i] = n.s]
        IN  Becomes(IF n.announce \/ sense = "not ready"
                    THEN Announce(e, i, n.ready) ELSE SendCmd(e, n.lun, n.op, i))
  BY ZenonT(60) DEF FirstTestComplete, Answered
<1> DEFINE t == Received(0, a).inst[0]
           r == Sensed(t)
           bError == t.bError
           failed == bError \/ a.bUsbError
           sense == IF bError THEN t.sense ELSE "none"
           n == FirstTestStep(r, failed)
<1>3. /\ command[0].by = 0
      /\ bError = inst[0].bError /\ bError \in BOOLEAN /\ (bError <=> op = "REQUEST_SENSE")
      /\ Typed(r) /\ ~r.bLunScan /\ ~r.bError /\ r.bState = inst[0].bState
      /\ r.capacity = (inst[0].capacity \/ (op = "READ_CAPACITY" /\ ~a.bUsbError))
      /\ r.bNoMedium = (inst[0].bNoMedium \/ sense = "no medium")
      /\ a.bUsbError \in BOOLEAN
      /\ a.bUsbError => op \in {"READ_FMT_CAPACITY", "READ_CAPACITY"}
      /\ bError /\ unit[0].attention /\ unit[0].medium => sense = "medium change"
      /\ ~bError /\ op # "INQUIRY" => ~unit[0].attention /\ (op \in Media => unit[0].medium)
  BY <1>1, Context, Zenon
<1>4. Becomes(IF n.announce \/ sense = "not ready"
              THEN Announce([Received(0, a) EXCEPT !.inst[command[0].by] = n.s],
                            command[0].by, n.ready)
              ELSE SendCmd([Received(0, a) EXCEPT !.inst[command[0].by] = n.s],
                           n.lun, n.op, command[0].by))
  BY <1>2, <1>3
<1>5. /\ unit'[0].medium = unit[0].medium
      /\ unit'[0].attention = (unit[0].attention /\ op # "REQUEST_SENSE")
      /\ unit[0].medium \in BOOLEAN /\ unit[0].attention \in BOOLEAN
  BY <1>1, OneUnit DEF One, Typing, TypeOK, Units
<1>6. Typing'
  BY FirstTestCompleteTyped, OneUnit DEF One
<1>7. sense \in {"none"} \/ bError
  OBVIOUS
<1>8. inst[0].bState = "FIRST_TEST" /\ r.bState = "FIRST_TEST"
  BY <1>1, <1>3, Zenon
<1>9. ASSUME 0 \in hfi.steady, volume[0].pfMediumCheckComplete
      PROVE  <<inst[0].bState, op>> \in Answering /\ OnCourse(inst[0], unit[0])
  BY <1>1, <1>9, DriverFields DEF One, InFlight, Checking
<1> HIDE DEF r, t, sense, failed, bError, op
<1> DEFINE more == [r EXCEPT !.dwRetries = @ + 1]
           test == [r EXCEPT !.bState = "TEST_UNIT_READY"]
           zero == [r EXCEPT !.dwRetries = 0]
           again == [zero EXCEPT !.bState = "TEST_UNIT_READY"]
           block == [zero EXCEPT !.bState = "READ_BLOCK0"]
<1>14. n = CASE failed /\ r.dwRetries < TestUnitRetries -> SendNext(more, "TEST_UNIT_READY")
            [] failed /\ r.dwRetries >= TestUnitRetries -> SendNext(again, "TEST_UNIT_READY")
            [] ~failed /\ r.capacity -> Announces(test, TRUE)
            [] ~failed /\ ~r.capacity /\ r.set = "SFF-8070i" -> SendNext(again, "TEST_UNIT_READY")
            [] OTHER -> SendNext(block, "READ10")
  BY Zenon DEF FirstTestStep
<1>15. r.dwRetries \in 0 .. TestUnitRetries + 1 /\ TestUnitRetries \in Nat
  BY <1>3, Parameters, Zenon DEF Typed
<1>21. (r.dwRetries >= TestUnitRetries) <=> ~(r.dwRetries < TestUnitRetries)
  BY <1>15
<1>16. ASSUME r.dwRetries < TestUnitRetries
       PROVE  /\ Heir(more, r) /\ more.bState = r.bState /\ more.bNoMedium = r.bNoMedium
              /\ more.capacity = r.capacity
  <2>1. r.dwRetries + 1 \in 0 .. TestUnitRetries + 1
    BY <1>15, <1>16
  <2> QED
    BY <1>3, <1>8, <2>1, Zeros, RetriesHeir, ZenonT(60)
<1>17. /\ Heir(test, r) /\ test.bState = "TEST_UNIT_READY" /\ test.bNoMedium = r.bNoMedium
       /\ test.capacity = r.capacity
  BY <1>3, StatesAre, HeirFields, ZenonT(60)
<1>18. /\ Heir(zero, r) /\ zero.bNoMedium = r.bNoMedium /\ zero.capacity = r.capacity
  BY <1>3, <1>8, Zeros, RetriesHeir, ZenonT(60)
<1> HIDE DEF zero
<1>19. /\ Heir(again, zero) /\ again.bState = "TEST_UNIT_READY"
       /\ again.bNoMedium = zero.bNoMedium /\ again.capacity = zero.capacity
       /\ Heir(block, zero) /\ block.bState = "READ_BLOCK0"
       /\ block.bNoMedium = zero.bNoMedium /\ block.capacity = zero.capacity
  BY <1>18, StatesAre, HeirFields DEF Heir
<1>20. Heir(again, r) /\ Heir(block, r)
  BY <1>18, <1>19, HeirOfHeir
<1> HIDE DEF more, test, again, block, n
<1>10. /\ StepKeeps(n, r) /\ n.s.bNoMedium = r.bNoMedium /\ n.s.capacity = r.capacity /\ ~n.s.bError
       /\ \/ ~failed /\ r.capacity /\ n.announce /\ n.ready
          \/ /\ ~(~failed /\ r.capacity) /\ ~n.announce /\ ~n.ready
             /\ <<n.s.bState, n.op>> \in Answering
             /\ n.s.bState # "INQUIRY"
  <2>1. CASE failed /\ r.dwRetries < TestUnitRetries
    <3>3. n = SendNext(more, "TEST_UNIT_READY")
      BY <1>14, <1>21, <2>1, Zenon
    <3>4. StepKeeps(n, r)
      BY <1>16, <2>1, <3>3, OpsAre, HeirSends
    <3>5. n.s = more /\ n.op = "TEST_UNIT_READY" /\ ~n.announce /\ ~n.ready
      BY <3>3, SendIs, Zenon
    <3>6. ~more.bError /\ more.bState = "FIRST_TEST"
      BY <1>8, <1>16, <2>1 DEF Heir
    <3>7. <<n.s.bState, n.op>> \in Answering /\ n.s.bState # "INQUIRY"
      BY <3>5, <3>6 DEF Answering
    <3> QED
      BY <1>16, <2>1, <3>4, <3>5, <3>6, <3>7, Zenon
  <2>2. CASE (failed /\ ~(r.dwRetries < TestUnitRetries))
             \/ (~failed /\ ~r.capacity /\ r.set = "SFF-8070i")
    <3>3. n = SendNext(again, "TEST_UNIT_READY")
      BY <1>14, <1>21, <2>2, Zenon
    <3>4. StepKeeps(n, r)
      BY <1>20, <3>3, OpsAre, HeirSends
    <3>5. n.s = again /\ n.op = "TEST_UNIT_READY" /\ ~n.announce /\ ~n.ready
      BY <3>3, SendIs, Zenon
    <3>6. <<n.s.bState, n.op>> \in Answering /\ n.s.bState # "INQUIRY"
      BY <1>19, <3>5 DEF Answering
    <3> QED
      BY <1>18, <1>19, <1>20, <2>2, <3>4, <3>5, <3>6, Zenon DEF Heir
  <2>3. CASE ~failed /\ r.capacity
    <3>3. n = Announces(test, TRUE)
      BY <1>14, <1>21, <2>3, Zenon
    <3>4. StepKeeps(n, r)
      BY <1>17, <3>3, HeirAnnounces
    <3>5. n.s = test /\ n.announce /\ n.ready = TRUE
      BY <3>3, AnnounceIs, Zenon
    <3> QED
      BY <1>17, <2>3, <3>4, <3>5, Zenon DEF Heir
  <2>4. CASE ~failed /\ ~r.capacity /\ r.set # "SFF-8070i"
    <3>3. n = SendNext(block, "READ10")
      BY <1>14, <1>21, <2>4, Zenon
    <3>4. StepKeeps(n, r)
      BY <1>20, <3>3, OpsAre, HeirSends
    <3>5. n.s = block /\ n.op = "READ10" /\ ~n.announce /\ ~n.ready
      BY <3>3, SendIs, Zenon
    <3>6. <<n.s.bState, n.op>> \in Answering /\ n.s.bState # "INQUIRY"
      BY <1>19, <3>5 DEF Answering
    <3> QED
      BY <1>18, <1>19, <1>20, <2>4, <3>4, <3>5, <3>6, Zenon DEF Heir
  <2> QED
    BY <2>1, <2>2, <2>3, <2>4, Zenon
<1>11. ASSUME 0 \in hfi.steady, volume[0].pfMediumCheckComplete
       PROVE  Tells(n, sense = "not ready", unit'[0], a.bUsbError)
  <2>1. op \in {"TEST_UNIT_READY", "REQUEST_SENSE"} /\ ~a.bUsbError
    BY <1>3, <1>8, <1>9, <1>11, Zenon DEF Answering
  <2>2. CASE unit[0].medium
    <3>1. ~inst[0].bError /\ inst[0].capacity
      BY <1>8, <1>9, <1>11, <2>2, Zenon DEF OnCourse
    <3>2. ~failed /\ r.capacity
      BY <1>3, <2>1, <3>1, Zenon DEF failed
    <3> QED
      BY <1>5, <1>10, <2>2, <3>2, Zenon DEF Tells
  <2>3. CASE ~unit[0].medium
    <3>1. bError /\ ~inst[0].capacity
      BY <1>3, <1>8, <1>9, <1>11, <2>1, <2>3, Zenon DEF OnCourse, Media
    <3>2. failed /\ ~r.capacity
      BY <1>3, <2>1, <3>1, Zenon DEF failed
    <3>3. OnCourse(n.s, unit'[0])
      BY <1>5, <1>10, <2>3, <3>2 DEF OnCourse
    <3> QED
      BY <1>5, <1>10, <2>3, <3>2, <3>3, Zenon DEF Tells
  <2> QED
    BY <2>2, <2>3, Zenon
<1>12. StepKeeps(n, Sensed(Received(0, a).inst[0]))
  BY <1>10 DEF r, t
<1> HIDE DEF n
<1> QED
  BY <1>1, <1>4, <1>5, <1>6, <1>11, <1>12, AnsweredOne, ZenonT(60)

\* An unmount is outside of every check.
LEMMA AllowCompleteOne ==
  ASSUME LunCount = 1, One, AllowComplete(0)
  PROVE  OneStep
<1> DEFINE op == command[0].op
<1>1. /\ InFlight(0) /\ ~Failing(0) /\ UNCHANGED phase
      /\ unit' = [unit EXCEPT ![0].attention = @ /\ op # "REQUEST_SENSE"]
      /\ inst[command[0].by].bState = "ALLOW_MEDIUM_REMOVE"
  BY Zenon DEF AllowComplete, Answered
<1>2. PICK a \in Answers(0) :
        LET i == command[0].by
            d == Received(0, a)
            bError == d.inst[i].bError
            sense == IF bError THEN d.inst[i].sense ELSE "none"
            n == AllowStep(Sensed(d.inst[i]))
            e == [d EXCEPT !.inst[i] = n.s]
        IN  Becomes(IF n.announce \/ sense = "not ready"
                    THEN Announce(e, i, n.ready) ELSE SendCmd(e, n.lun, n.op, i))
  BY Zenon DEF AllowComplete, Answered
<1> DEFINE t == Received(0, a).inst[0]
           r == Sensed(t)
           bError == t.bError
           failed == bError \/ a.bUsbError
           sense == IF bError THEN t.sense ELSE "none"
           n == AllowStep(r)
<1>3. /\ command[0].by = 0
      /\ bError = inst[0].bError /\ bError \in BOOLEAN /\ (bError <=> op = "REQUEST_SENSE")
      /\ Typed(r) /\ ~r.bLunScan /\ ~r.bError /\ r.bState = inst[0].bState
      /\ r.capacity = (inst[0].capacity \/ (op = "READ_CAPACITY" /\ ~a.bUsbError))
      /\ r.bNoMedium = (inst[0].bNoMedium \/ sense = "no medium")
      /\ a.bUsbError \in BOOLEAN
      /\ a.bUsbError => op \in {"READ_FMT_CAPACITY", "READ_CAPACITY"}
      /\ bError /\ unit[0].attention /\ unit[0].medium => sense = "medium change"
      /\ ~bError /\ op # "INQUIRY" => ~unit[0].attention /\ (op \in Media => unit[0].medium)
  BY <1>1, Context, Zenon
<1>4. Becomes(IF n.announce \/ sense = "not ready"
              THEN Announce([Received(0, a) EXCEPT !.inst[command[0].by] = n.s],
                            command[0].by, n.ready)
              ELSE SendCmd([Received(0, a) EXCEPT !.inst[command[0].by] = n.s],
                           n.lun, n.op, command[0].by))
  BY <1>2, <1>3
<1>5. /\ unit'[0].medium = unit[0].medium
      /\ unit'[0].attention = (unit[0].attention /\ op # "REQUEST_SENSE")
      /\ unit[0].medium \in BOOLEAN /\ unit[0].attention \in BOOLEAN
  BY <1>1, OneUnit DEF One, Typing, TypeOK, Units
<1>6. Typing'
  BY AllowCompleteTyped, OneUnit DEF One
<1>7. sense \in {"none"} \/ bError
  OBVIOUS
<1>8. inst[0].bState = "ALLOW_MEDIUM_REMOVE" /\ r.bState = "ALLOW_MEDIUM_REMOVE"
  BY <1>1, <1>3, Zenon
<1>9. ASSUME 0 \in hfi.steady, volume[0].pfMediumCheckComplete
      PROVE  <<inst[0].bState, op>> \in Answering /\ OnCourse(inst[0], unit[0])
  BY <1>1, <1>9, DriverFields DEF One, InFlight, Checking
<1> HIDE DEF r, t, sense, failed, bError, op
<1> DEFINE stop == [r EXCEPT !.bState = "STOP_UNIT"]
<1>10. StepKeeps(n, r)
  <2>1. Heir(stop, r)
    BY <1>3, StatesAre, HeirFields, Zenon
  <2>2. n = SendNext(stop, "START_STOP_UNIT")
    BY DEF AllowStep
  <2>3. "START_STOP_UNIT" \in Ops \ {"none", "DATA", "REQUEST_SENSE"}
    BY DEF Ops
  <2> HIDE DEF stop, n
  <2> QED
    BY <2>1, <2>2, <2>3, HeirSends
<1>11. ASSUME 0 \in hfi.steady, volume[0].pfMediumCheckComplete
       PROVE  Tells(n, sense = "not ready", unit'[0], a.bUsbError)
  <2>1. FALSE
    BY <1>8, <1>9, <1>11 DEF Answering
  <2> QED
    BY <2>1, Zenon
<1>12. StepKeeps(n, Sensed(Received(0, a).inst[0]))
  BY <1>10 DEF r, t
<1> HIDE DEF n
<1> QED
  BY <1>1, <1>4, <1>5, <1>6, <1>11, <1>12, AnsweredOne, ZenonT(60)

\* READ_BLOCK0 is reached only without a medium, and fails.
LEMMA Block0CompleteOne ==
  ASSUME LunCount = 1, One, Block0Complete(0)
  PROVE  OneStep
<1> DEFINE op == command[0].op
<1>1. /\ InFlight(0) /\ ~Failing(0) /\ UNCHANGED phase
      /\ unit' = [unit EXCEPT ![0].attention = @ /\ op # "REQUEST_SENSE"]
      /\ inst[command[0].by].bState = "READ_BLOCK0"
  BY Zenon DEF Block0Complete, Answered
<1>2. PICK a \in Answers(0) :
        LET i == command[0].by
            d == Received(0, a)
            bError == d.inst[i].bError
            sense == IF bError THEN d.inst[i].sense ELSE "none"
            n == Block0Step(Sensed(d.inst[i]), bError)
            e == [d EXCEPT !.inst[i] = n.s]
        IN  Becomes(IF n.announce \/ sense = "not ready"
                    THEN Announce(e, i, n.ready) ELSE SendCmd(e, n.lun, n.op, i))
  BY ZenonT(60) DEF Block0Complete, Answered
<1> DEFINE t == Received(0, a).inst[0]
           r == Sensed(t)
           bError == t.bError
           failed == bError \/ a.bUsbError
           sense == IF bError THEN t.sense ELSE "none"
           n == Block0Step(r, bError)
<1>3. /\ command[0].by = 0
      /\ bError = inst[0].bError /\ bError \in BOOLEAN /\ (bError <=> op = "REQUEST_SENSE")
      /\ Typed(r) /\ ~r.bLunScan /\ ~r.bError /\ r.bState = inst[0].bState
      /\ r.capacity = (inst[0].capacity \/ (op = "READ_CAPACITY" /\ ~a.bUsbError))
      /\ r.bNoMedium = (inst[0].bNoMedium \/ sense = "no medium")
      /\ a.bUsbError \in BOOLEAN
      /\ a.bUsbError => op \in {"READ_FMT_CAPACITY", "READ_CAPACITY"}
      /\ bError /\ unit[0].attention /\ unit[0].medium => sense = "medium change"
      /\ ~bError /\ op # "INQUIRY" => ~unit[0].attention /\ (op \in Media => unit[0].medium)
  BY <1>1, Context, Zenon
<1>4. Becomes(IF n.announce \/ sense = "not ready"
              THEN Announce([Received(0, a) EXCEPT !.inst[command[0].by] = n.s],
                            command[0].by, n.ready)
              ELSE SendCmd([Received(0, a) EXCEPT !.inst[command[0].by] = n.s],
                           n.lun, n.op, command[0].by))
  BY <1>2, <1>3, Zenon
<1>5. /\ unit'[0].medium = unit[0].medium
      /\ unit'[0].attention = (unit[0].attention /\ op # "REQUEST_SENSE")
      /\ unit[0].medium \in BOOLEAN /\ unit[0].attention \in BOOLEAN
  BY <1>1, OneUnit DEF One, Typing, TypeOK, Units
<1>6. Typing'
  BY Block0CompleteTyped, OneUnit DEF One
<1>7. sense \in {"none"} \/ bError
  OBVIOUS
<1>8. inst[0].bState = "READ_BLOCK0" /\ r.bState = "READ_BLOCK0"
  BY <1>1, <1>3, Zenon
<1>9. ASSUME 0 \in hfi.steady, volume[0].pfMediumCheckComplete
      PROVE  <<inst[0].bState, op>> \in Answering /\ OnCourse(inst[0], unit[0])
  BY <1>1, <1>9, DriverFields DEF One, InFlight, Checking
<1> HIDE DEF r, t, sense, failed, bError, op
<1> DEFINE state == [r EXCEPT !.bState = "TEST_UNIT_READY"]
           test == [state EXCEPT !.bRemovable = @ \/ bError]
           more == [r EXCEPT !.dwCapacityRetries = @ + 1]
           read == [more EXCEPT !.bState = "READ_CAPACITY"]
<1>14. n = IF ~bError /\ r.dwCapacityRetries < CapacityRetries /\ ~r.capacity
           THEN SendNext(read, "READ_CAPACITY") ELSE SendNext(test, "TEST_UNIT_READY")
  <2>1. state.bRemovable = r.bRemovable
    BY <1>3, Zenon DEF Typed, Names
  <2>2. test = [r EXCEPT !.bState = "TEST_UNIT_READY", !.bRemovable = r.bRemovable \/ bError]
    <3> HIDE DEF state
    <3>1. test = [state EXCEPT !.bRemovable = r.bRemovable \/ bError]
      BY <2>1, Zenon
    <3> QED
      BY <3>1, Zenon DEF state
  <2> HIDE DEF test
  <2> QED
    BY <2>2, Zenon DEF Block0Step
<1>15. /\ Heir(state, r) /\ state.bState = "TEST_UNIT_READY" /\ state.bNoMedium = r.bNoMedium
       /\ state.capacity = r.capacity
  BY <1>3, StatesAre, HeirFields
<1> HIDE DEF state
<1>16. /\ Heir(test, state) /\ test.bState = "TEST_UNIT_READY" /\ test.bNoMedium = r.bNoMedium
       /\ test.capacity = r.capacity
  <2>1. (state.bRemovable \/ bError) \in BOOLEAN
    OBVIOUS
  <2>2. Typed(state) /\ ~state.bLunScan /\ ~state.bError /\ state.bState # "PREVENT_MEDIUM_REMOVE"
    BY <1>15 DEF Heir
  <2> QED
    BY <1>15, <2>1, <2>2, RemovableHeir
<1> HIDE DEF test
<1>17. ASSUME r.dwCapacityRetries < CapacityRetries
       PROVE  /\ Heir(more, r) /\ more.bNoMedium = r.bNoMedium /\ more.capacity = r.capacity
  <2>1. r.dwCapacityRetries + 1 \in 0 .. CapacityRetries
    <3>1. r.dwCapacityRetries \in 0 .. CapacityRetries /\ CapacityRetries \in Nat
      BY <1>3, Parameters, Zenon DEF Typed
    <3> QED
      BY <1>17, <3>1
  <2> QED
    BY <1>3, <1>8, <2>1, Zeros, RetriesHeir, ZenonT(60)
<1> HIDE DEF more
<1>18. ASSUME r.dwCapacityRetries < CapacityRetries
       PROVE  Heir(read, more)
  BY <1>17, <1>18, StatesAre, HeirFields DEF Heir
<1> HIDE DEF read, n
<1>10. /\ StepKeeps(n, r)
       /\ bError => /\ ~n.announce /\ ~n.ready /\ n.s.capacity = r.capacity /\ ~n.s.bError
                    /\ n.s.bState = "TEST_UNIT_READY" /\ n.op = "TEST_UNIT_READY"
  <2>1. CASE ~bError /\ r.dwCapacityRetries < CapacityRetries /\ ~r.capacity
    <3>1. n = SendNext(read, "READ_CAPACITY")
      BY <1>14, <2>1
    <3>2. Heir(read, r)
      BY <1>17, <1>18, <2>1, HeirOfHeir
    <3> QED
      BY <2>1, <3>1, <3>2, OpsAre, HeirSends
  <2>2. CASE ~(~bError /\ r.dwCapacityRetries < CapacityRetries /\ ~r.capacity)
    <3>1. n = SendNext(test, "TEST_UNIT_READY")
      BY <1>14, <2>2
    <3>2. Heir(test, r)
      BY <1>15, <1>16, HeirOfHeir
    <3>3. StepKeeps(n, r)
      BY <3>1, <3>2, OpsAre, HeirSends
    <3>4. n.s = test /\ n.op = "TEST_UNIT_READY" /\ ~n.announce /\ ~n.ready
      BY <3>1, SendIs, Zenon
    <3> QED
      BY <1>16, <3>2, <3>3, <3>4, Zenon DEF Heir
  <2> QED
    BY <2>1, <2>2
<1>11. ASSUME 0 \in hfi.steady, volume[0].pfMediumCheckComplete
       PROVE  Tells(n, sense = "not ready", unit'[0], a.bUsbError)
  <2>1. op \in {"READ10", "REQUEST_SENSE"} /\ ~a.bUsbError
    BY <1>3, <1>8, <1>9, <1>11, Zenon DEF Answering
  <2>2. ~unit[0].medium /\ ~inst[0].capacity
    BY <1>5, <1>8, <1>9, <1>11 DEF OnCourse
  <2>3. bError /\ ~r.capacity
    BY <1>3, <2>1, <2>2, Zenon DEF Media
  <2>4. <<n.s.bState, n.op>> \in Answering /\ OnCourse(n.s, unit'[0])
    BY <1>5, <1>10, <2>2, <2>3 DEF Answering, OnCourse
  <2> QED
    BY <1>5, <1>10, <2>2, <2>3, <2>4, Zenon DEF Tells
<1>12. StepKeeps(n, Sensed(Received(0, a).inst[0]))
  BY <1>10 DEF r, t
<1> HIDE DEF n
<1> QED
  BY <1>1, <1>4, <1>5, <1>6, <1>11, <1>12, AnsweredOne, ZenonT(60)

\* TEST_UNIT_READY in a check is without a medium: it is tested again or announced as none.
LEMMA TestUnitCompleteOne ==
  ASSUME LunCount = 1, One, TestUnitComplete(0)
  PROVE  OneStep
<1> DEFINE op == command[0].op
<1>1. /\ InFlight(0) /\ ~Failing(0) /\ UNCHANGED phase
      /\ unit' = [unit EXCEPT ![0].attention = @ /\ op # "REQUEST_SENSE"]
      /\ inst[command[0].by].bState = "TEST_UNIT_READY"
  BY Zenon DEF TestUnitComplete, Answered
<1>2. PICK a \in Answers(0) :
        LET i == command[0].by
            d == Received(0, a)
            bError == d.inst[i].bError
            sense == IF bError THEN d.inst[i].sense ELSE "none"
            n == TestUnitStep(Sensed(d.inst[i]), bError)
            e == [d EXCEPT !.inst[i] = n.s]
        IN  Becomes(IF n.announce \/ sense = "not ready"
                    THEN Announce(e, i, n.ready) ELSE SendCmd(e, n.lun, n.op, i))
  BY Zenon DEF TestUnitComplete, Answered
<1> DEFINE t == Received(0, a).inst[0]
           r == Sensed(t)
           bError == t.bError
           failed == bError \/ a.bUsbError
           sense == IF bError THEN t.sense ELSE "none"
           n == TestUnitStep(r, bError)
<1>3. /\ command[0].by = 0
      /\ bError = inst[0].bError /\ bError \in BOOLEAN /\ (bError <=> op = "REQUEST_SENSE")
      /\ Typed(r) /\ ~r.bLunScan /\ ~r.bError /\ r.bState = inst[0].bState
      /\ r.capacity = (inst[0].capacity \/ (op = "READ_CAPACITY" /\ ~a.bUsbError))
      /\ r.bNoMedium = (inst[0].bNoMedium \/ sense = "no medium")
      /\ a.bUsbError \in BOOLEAN
      /\ a.bUsbError => op \in {"READ_FMT_CAPACITY", "READ_CAPACITY"}
      /\ bError /\ unit[0].attention /\ unit[0].medium => sense = "medium change"
      /\ ~bError /\ op # "INQUIRY" => ~unit[0].attention /\ (op \in Media => unit[0].medium)
  BY <1>1, Context, Zenon
<1>4. Becomes(IF n.announce \/ sense = "not ready"
              THEN Announce([Received(0, a) EXCEPT !.inst[command[0].by] = n.s],
                            command[0].by, n.ready)
              ELSE SendCmd([Received(0, a) EXCEPT !.inst[command[0].by] = n.s],
                           n.lun, n.op, command[0].by))
  BY <1>2, <1>3
<1>5. /\ unit'[0].medium = unit[0].medium
      /\ unit'[0].attention = (unit[0].attention /\ op # "REQUEST_SENSE")
      /\ unit[0].medium \in BOOLEAN /\ unit[0].attention \in BOOLEAN
  BY <1>1, OneUnit DEF One, Typing, TypeOK, Units
<1>6. Typing'
  BY TestUnitCompleteTyped, OneUnit DEF One
<1>7. sense \in {"none"} \/ bError
  OBVIOUS
<1>8. inst[0].bState = "TEST_UNIT_READY" /\ r.bState = "TEST_UNIT_READY"
  BY <1>1, <1>3, Zenon
<1>9. ASSUME 0 \in hfi.steady, volume[0].pfMediumCheckComplete
      PROVE  <<inst[0].bState, op>> \in Answering /\ OnCourse(inst[0], unit[0])
  BY <1>1, <1>9, DriverFields DEF One, InFlight, Checking
<1> HIDE DEF r, t, sense, failed, bError, op
<1> DEFINE zero == [r EXCEPT !.dwRetries = 0]
           none == [zero EXCEPT !.bRemovable = TRUE]
           more == [r EXCEPT !.dwRetries = @ + 1]
<1>14. n = CASE ~bError -> Announces(r, ~r.bNoMedium)
            [] bError /\ r.dwRetries > TestUnitRetries -> Announces(none, FALSE)
            [] OTHER -> SendNext(more, "TEST_UNIT_READY")
  BY Zenon DEF TestUnitStep
<1>15. /\ Heir(zero, r) /\ zero.capacity = r.capacity
  BY <1>3, <1>8, Zeros, RetriesHeir, ZenonT(60)
<1> HIDE DEF zero
<1>16. /\ Heir(none, zero) /\ none.capacity = r.capacity
  BY <1>15, RemovableHeir DEF Heir
<1>17. ASSUME ~(r.dwRetries > TestUnitRetries)
       PROVE  /\ Heir(more, r) /\ more.bState = r.bState /\ more.capacity = r.capacity
  <2>1. r.dwRetries + 1 \in 0 .. TestUnitRetries + 1
    <3>1. r.dwRetries \in 0 .. TestUnitRetries + 1 /\ TestUnitRetries \in Nat
      BY <1>3, Parameters DEF Typed
    <3> QED
      BY <1>17, <3>1
  <2> QED
    BY <1>3, <1>8, <2>1, Zeros, RetriesHeir, ZenonT(60)
<1> HIDE DEF none, more, n
<1>10. /\ StepKeeps(n, r)
       /\ bError => \/ n.announce /\ ~n.ready
                    \/ /\ ~n.announce /\ ~n.ready /\ n.s.capacity = r.capacity /\ ~n.s.bError
                       /\ n.s.bState = "TEST_UNIT_READY" /\ n.op = "TEST_UNIT_READY"
  <2>1. CASE ~bError
    <3>1. n = Announces(r, ~r.bNoMedium)
      BY <1>14, <2>1
    <3>2. Heir(r, r)
      BY <1>3, <1>8, HeirIs, Zenon
    <3>3. (~r.bNoMedium) \in BOOLEAN
      OBVIOUS
    <3> QED
      BY <2>1, <3>1, <3>2, <3>3, HeirAnnounces
  <2>2. CASE bError /\ r.dwRetries > TestUnitRetries
    <3>1. n = Announces(none, FALSE)
      BY <1>14, <2>2
    <3>2. Heir(none, r)
      BY <1>15, <1>16, HeirOfHeir
    <3>3. StepKeeps(n, r)
      BY <3>1, <3>2, HeirAnnounces
    <3>4. n.announce /\ n.ready = FALSE
      BY <3>1, AnnounceIs, Zenon
    <3> QED
      BY <3>3, <3>4
  <2>3. CASE bError /\ ~(r.dwRetries > TestUnitRetries)
    <3>1. n = SendNext(more, "TEST_UNIT_READY")
      BY <1>14, <2>3
    <3>2. Heir(more, r) /\ more.bState = r.bState /\ more.capacity = r.capacity
      BY <1>17, <2>3
    <3>3. StepKeeps(n, r)
      BY <3>1, <3>2, OpsAre, HeirSends
    <3>4. n.s = more /\ n.op = "TEST_UNIT_READY" /\ ~n.announce /\ ~n.ready
      BY <3>1, SendIs, Zenon
    <3> QED
      BY <1>8, <3>2, <3>3, <3>4, Zenon DEF Heir
  <2> QED
    BY <2>1, <2>2, <2>3
<1>11. ASSUME 0 \in hfi.steady, volume[0].pfMediumCheckComplete
       PROVE  Tells(n, sense = "not ready", unit'[0], a.bUsbError)
  <2>1. op \in {"TEST_UNIT_READY", "REQUEST_SENSE"} /\ ~a.bUsbError
    BY <1>3, <1>8, <1>9, <1>11, Zenon DEF Answering
  <2>2. ~unit[0].medium /\ ~inst[0].capacity
    BY <1>5, <1>8, <1>9, <1>11 DEF OnCourse
  <2>3. bError /\ ~r.capacity
    BY <1>3, <2>1, <2>2, Zenon DEF Media
  <2>4. CASE n.announce /\ ~n.ready
    BY <1>5, <2>2, <2>4 DEF Tells
  <2>5. CASE ~(n.announce /\ ~n.ready)
    <3>1. <<n.s.bState, n.op>> \in Answering /\ OnCourse(n.s, unit'[0])
      BY <1>5, <1>10, <2>2, <2>3, <2>5 DEF Answering, OnCourse
    <3> QED
      BY <1>5, <1>10, <2>2, <2>3, <2>5, <3>1, Zenon DEF Tells
  <2> QED
    BY <2>4, <2>5, Zenon
<1>12. StepKeeps(n, Sensed(Received(0, a).inst[0]))
  BY <1>10 DEF r, t
<1> HIDE DEF n
<1> QED
  BY <1>1, <1>4, <1>5, <1>6, <1>11, <1>12, AnsweredOne, ZenonT(60)

\* The last answer of a mount or an unmount: nothing follows from it.
LEMMA LastOne ==
  ASSUME LunCount = 1, One, InFlight(0), NEW a \in Answers(0), UNCHANGED <<phase, changes>>,
         Typing',
         inst[0].bState \in {"PREVENT_MEDIUM_REMOVE", "STOP_UNIT"},
         NEW e \in Drivers, Becomes(e), e.inst[0] = Sensed(Received(0, a).inst[0]),
         e.volume = volume, e.command[0] = Idle, e.hfi.steady = Received(0, a).hfi.steady,
         inst[0].bState = "STOP_UNIT" => e.hfi.mounted = hfi.mounted
  PROVE  OneStep
<1> DEFINE t == Received(0, a).inst[0]
           r == Sensed(t)
           s == inst[0]
<1>1. Typing /\ phase = "running" /\ Settled(Driver) /\ Checking(Driver, unit[0])
  BY DEF One, InFlight
<1>2. /\ Driver.inst = inst /\ Driver.volume = volume /\ Driver.command = command
      /\ Driver.hfi = hfi /\ s \in Instances /\ command[0] \in Commands
  BY <1>1, DriverFields
<1>3. /\ command[0].by = 0 /\ t \in Instances
      /\ t.bState = s.bState /\ t.bLunScan = s.bLunScan /\ t.bAnnounced = s.bAnnounced
      /\ t.inquiry = IF command[0].op = "INQUIRY" THEN 0 ELSE s.inquiry
      /\ e.hfi.steady = IF a.bUsbError THEN hfi.steady \ {0} ELSE hfi.steady
  BY <1>1, ReceivedOne
<1> HIDE DEF t
<1>4. /\ ~r.bError /\ r.bState = s.bState /\ r.bLunScan = s.bLunScan /\ r.bAnnounced = s.bAnnounced
      /\ r.inquiry = t.inquiry
  BY <1>3, SensedFields, Zenon
<1>5. e.inst[0] = r
  BY DEF t
<1> HIDE DEF r
<1>6. Driver' = e
  BY DriverIs
<1>7. Settled(e)
  <2>1. 0 # NoUnit
    BY OneUnit, Zenon
  <2>2. s.inquiry # NoUnit
    BY <1>1, <1>2 DEF Settled
  <2>3. r.inquiry # NoUnit
    BY <1>3, <1>4, <2>1, <2>2
  <2>4. Calm(e)
    BY <1>1, <1>2, <1>4, <1>5 DEF Settled, Calm
  <2>5. ~s.bLunScan
    BY <1>1, <1>2 DEF Settled
  <2>6. ~r.bLunScan
    BY <1>4, <2>5, Zenon
  <2> QED
    BY <1>4, <1>5, <2>3, <2>4, <2>6, BusyWith DEF Settled
<1>8. ~(0 \in hfi.steady /\ volume[0].pfMediumCheckComplete)
  BY <1>1, <1>2 DEF Checking, Answering
<1>9. Checking(e, unit'[0]) /\ Truthful(Driver, e, unit[0])
  BY <1>2, <1>3, <1>8 DEF Checking, Truthful
<1>10. Prevented(Driver, e)
  <2>1. CASE s.bState = "STOP_UNIT"
    BY <1>2, <2>1 DEF Prevented
  <2>2. CASE s.bState = "PREVENT_MEDIUM_REMOVE"
    <3>1. command[0].op \in {"PREVENT", "REQUEST_SENSE"}
      BY <1>1, <1>2, <2>2 DEF Settled, InFlight
    <3>2. command[0] \in [op : {"PREVENT", "REQUEST_SENSE"}, by : {0}]
      BY <1>2, <1>3, <3>1 DEF Commands, Idle
    <3> QED
      BY <1>2, <3>2 DEF Prevented
  <2> QED
    BY <2>1, <2>2
<1> QED
  BY <1>1, <1>6, <1>7, <1>9, <1>10 DEF OneStep, One

\* The answer to PREVENT mounts the unit.
LEMMA PreventCompleteOne ==
  ASSUME LunCount = 1, One, PreventComplete(0)
  PROVE  OneStep
<1>1. InFlight(0) /\ UNCHANGED <<phase, changes>>
  BY DEF PreventComplete, LastAnswered
<1>2. PICK a \in Answers(0) :
        LET i == command[0].by
            d == Received(0, a)
        IN  Becomes(MountComplete([d EXCEPT !.inst[i] = Sensed(@)], i))
  BY Zenon DEF PreventComplete, LastAnswered
<1> DEFINE d == Received(0, a)
           p == [d EXCEPT !.inst[0] = Sensed(d.inst[0])]
           e == MountComplete(p, 0)
<1>3. Typing
  BY DEF One
<1>4. command[0].by = 0 /\ d \in Drivers /\ d.inst[0] \in Instances /\ d.volume = volume
      /\ d.command[0] = Idle
  BY <1>1, <1>3, ReceivedOne
<1>5. Becomes(e)
  BY <1>2, <1>4
<1>6. inst[0].bState = "PREVENT_MEDIUM_REMOVE"
  BY <1>4 DEF PreventComplete, LastAnswered
<1>7. Typing'
  BY <1>3, OneUnit, PreventCompleteTyped
<1> HIDE DEF d
<1>8. Sensed(d.inst[0]) \in Instances
  BY <1>4, SensedFields, Zenon
<1>9. /\ p \in Drivers /\ p.inst[0] = Sensed(d.inst[0]) /\ p.volume = volume
      /\ p.command[0] = Idle /\ p.hfi = d.hfi
  BY <1>4, <1>8, PutOne
<1> HIDE DEF p
<1>10. e \in Drivers
  BY <1>9, OneUnit, MountCompleteTyped
<1>11. /\ e.inst = p.inst /\ e.volume = p.volume /\ e.command = p.command
       /\ e.hfi.steady = p.hfi.steady
  BY <1>9 DEF MountComplete, Drivers, FileSystems
<1> HIDE DEF e
<1>12. /\ e.inst[0] = Sensed(Received(0, a).inst[0]) /\ e.volume = volume /\ e.command[0] = Idle
       /\ e.hfi.steady = Received(0, a).hfi.steady
  BY <1>9, <1>11, Zenon DEF d
<1> QED
  BY <1>1, <1>5, <1>6, <1>7, <1>10, <1>12, LastOne

\* The answer to START_STOP_UNIT ends an unmount.
LEMMA StopCompleteOne ==
  ASSUME LunCount = 1, One, StopComplete(0)
  PROVE  OneStep
<1>1. InFlight(0) /\ UNCHANGED <<phase, changes>>
  BY DEF StopComplete, LastAnswered
<1>2. PICK a \in Answers(0) :
        LET i == command[0].by
            d == Received(0, a)
        IN  Becomes([d EXCEPT !.inst[i] = Sensed(@)])
  BY Zenon DEF StopComplete, LastAnswered
<1> DEFINE d == Received(0, a)
           e == [d EXCEPT !.inst[0] = Sensed(d.inst[0])]
<1>3. Typing
  BY DEF One
<1>4. command[0].by = 0 /\ d \in Drivers /\ d.inst[0] \in Instances /\ d.volume = volume
      /\ d.command[0] = Idle /\ d.hfi.mounted = hfi.mounted
  BY <1>1, <1>3, ReceivedOne
<1>5. Becomes(e)
  BY <1>2, <1>4
<1>6. inst[0].bState = "STOP_UNIT"
  BY <1>4 DEF StopComplete, LastAnswered
<1>7. Typing'
  BY <1>3, OneUnit, StopCompleteTyped
<1> HIDE DEF d
<1>8. Sensed(d.inst[0]) \in Instances
  BY <1>4, SensedFields, Zenon
<1>9. /\ e \in Drivers /\ e.inst[0] = Sensed(d.inst[0]) /\ e.volume = volume
      /\ e.command[0] = Idle /\ e.hfi = d.hfi
  BY <1>4, <1>8, PutOne
<1> HIDE DEF e
<1>12. /\ e.inst[0] = Sensed(Received(0, a).inst[0]) /\ e.volume = volume /\ e.command[0] = Idle
       /\ e.hfi.steady = Received(0, a).hfi.steady /\ e.hfi.mounted = hfi.mounted
  BY <1>4, <1>9, Zenon DEF d
<1> QED
  BY <1>1, <1>5, <1>6, <1>7, <1>9, <1>12, LastOne

\* A command that failed is followed by a REQUEST_SENSE. In a check with a medium only the
\* attention condition of a change makes one fail, and not after the capacity was read.
LEMMA CommandFailedOne ==
  ASSUME LunCount = 1, One, CommandFailed(0)
  PROVE  OneStep
<1> DEFINE i == command[0].by
           c == IF inst[i].set = "SCSI" /\ inst[i].bState = "READ_BLOCK0"
                THEN CapacityRetries ELSE Driver.inst[i].dwCapacityRetries
           steady == IF Fault(0) THEN Driver.hfi.steady \ {0} ELSE Driver.hfi.steady
           d1 == [Driver EXCEPT !.command[0] = Idle]
           d2 == [d1 EXCEPT !.inst[i].bError = TRUE]
           d3 == [d2 EXCEPT !.inst[i].dwCapacityRetries = c]
           d == [d3 EXCEPT !.hfi.steady = steady]
           e == SendCmd(d, 0, "REQUEST_SENSE", 0)
           s == inst[0]
           op == command[0].op
<1>1. InFlight(0) /\ op \notin {"INQUIRY", "REQUEST_SENSE"} /\ UNCHANGED <<phase, unit, changes>>
  BY DEF CommandFailed
<1>2. Typing /\ phase = "running" /\ Settled(Driver) /\ Checking(Driver, unit[0])
  BY <1>1 DEF One, InFlight
<1>3. /\ Driver \in Drivers /\ Driver.inst = inst /\ Driver.volume = volume
      /\ Driver.command = command /\ Driver.hfi = hfi /\ s \in Instances
      /\ command[0] \in Commands /\ unit[0] \in Units /\ hfi \in FileSystems
  BY <1>2, DriverFields
<1>4. i = 0 /\ s.bLun = 0
  <2>1. i \in Luns
    BY <1>1, <1>2, OneUnit, InFlightBy
  <2>2. s.bLun \in Luns
    BY <1>3 DEF Instances
  <2> QED
    BY <2>1, <2>2, OneUnit
<1>5. Becomes(e)
  <2>1. d = [Driver EXCEPT
               !.command[0] = Idle, !.inst[i].bError = TRUE,
               !.inst[i].dwCapacityRetries =
                  IF inst[i].set = "SCSI" /\ inst[i].bState = "READ_BLOCK0"
                  THEN CapacityRetries ELSE @,
               !.hfi.steady = IF Fault(0) THEN @ \ {0} ELSE @]
    BY Zenon
  <2> HIDE DEF d
  <2>2. Becomes(SendCmd(d, inst[i].bLun, "REQUEST_SENSE", i))
    BY <2>1, Zenon DEF CommandFailed
  <2> QED
    BY <1>4, <2>2, Zenon
<1>6. c \in 0 .. CapacityRetries
  <2>1. CapacityRetries \in Nat /\ s.dwCapacityRetries \in 0 .. CapacityRetries
    BY <1>3, Parameters DEF Instances
  <2> QED
    BY <1>3, <1>4, <2>1
<1>7. steady \in SUBSET Luns /\ (0 \in steady => ~Fault(0) /\ 0 \in hfi.steady)
  <2>1. hfi.steady \in SUBSET Luns
    BY <1>3 DEF FileSystems
  <2> QED
    BY <1>3, <2>1, Zenon
<1> HIDE DEF c, steady
<1>8. /\ d1 \in Drivers /\ d1.inst = inst /\ d1.volume = volume /\ d1.command[0] = Idle
      /\ d1.hfi = hfi
  BY <1>3, OneUnit DEF Drivers, Commands
<1> HIDE DEF d1
<1> DEFINE s2 == [s EXCEPT !.bError = TRUE]
<1>9. s2 \in Instances
  <2>1. Typed(s)
    BY <1>3, InstancesAre
  <2>2. Typed(s2)
    BY <2>1, Zenon DEF Typed, Names
  <2> QED
    BY <2>2, InstancesAre
<1>10. s2.bError /\ s2.bState = s.bState /\ s2.bAnnounced = s.bAnnounced
       /\ s2.bNoMedium = s.bNoMedium /\ s2.bLunScan = s.bLunScan
       /\ s2.inquiry = s.inquiry /\ s2.capacity = s.capacity
  BY <1>3 DEF Instances
<1>11. d2 = [d1 EXCEPT !.inst[0] = s2]
  BY <1>4, <1>8, Zenon
<1> HIDE DEF s2
<1>12. /\ d2 \in Drivers /\ d2.inst[0] = s2 /\ d2.volume = volume /\ d2.command[0] = Idle
       /\ d2.hfi = hfi
  <2> DEFINE x == [d1 EXCEPT !.inst[0] = s2]
  <2>1. /\ x \in Drivers /\ x.inst[0] = s2 /\ x.volume = d1.volume
        /\ x.command = d1.command /\ x.hfi = d1.hfi
    BY <1>8, <1>9, PutOne
  <2> HIDE DEF x
  <2>2. d2 = x
    BY <1>11 DEF x
  <2> QED
    BY <1>8, <2>1, <2>2, Zenon
<1> HIDE DEF d2
<1> DEFINE s3 == [s2 EXCEPT !.dwCapacityRetries = c]
<1>13. s3 \in Instances
  <2>1. Typed(s2)
    BY <1>9, InstancesAre
  <2>2. Typed(s3)
    BY <1>6, <2>1, Zenon DEF Typed, Names
  <2> QED
    BY <2>2, InstancesAre
<1>14. s3.bError /\ s3.bState = s.bState /\ s3.bAnnounced = s.bAnnounced
       /\ s3.bNoMedium = s.bNoMedium /\ s3.bLunScan = s.bLunScan
       /\ s3.inquiry = s.inquiry /\ s3.capacity = s.capacity
  BY <1>9, <1>10 DEF Instances
<1>15. d3 = [d2 EXCEPT !.inst[0] = s3]
  BY <1>4, <1>12, Zenon
<1> HIDE DEF s3
<1>16. /\ d3 \in Drivers /\ d3.inst[0] = s3 /\ d3.volume = volume /\ d3.command[0] = Idle
       /\ d3.hfi = hfi
  <2> DEFINE x == [d2 EXCEPT !.inst[0] = s3]
  <2>1. /\ x \in Drivers /\ x.inst[0] = s3 /\ x.volume = d2.volume
        /\ x.command = d2.command /\ x.hfi = d2.hfi
    BY <1>12, <1>13, PutOne
  <2> HIDE DEF x
  <2>2. d3 = x
    BY <1>15 DEF x
  <2> QED
    BY <1>12, <2>1, <2>2, Zenon
<1> HIDE DEF d3
<1>17. /\ d \in Drivers /\ d.inst[0] = s3 /\ d.volume = volume /\ d.command[0] = Idle
       /\ d.hfi.steady = steady /\ d.hfi.mounted = hfi.mounted
  <2>1. [d3.hfi EXCEPT !.steady = steady] \in FileSystems
    <3>1. [hfi EXCEPT !.steady = steady] \in FileSystems
      BY <1>3, <1>7 DEF FileSystems
    <3> QED
      BY <1>16, <3>1, Zenon
  <2>2. d \in Drivers
    BY <1>16, <2>1, HfiTyped
  <2> QED
    BY <1>3, <1>16, <2>2 DEF Drivers, FileSystems
<1> HIDE DEF d
<1>18. /\ e \in Drivers /\ e.inst[0] = s3 /\ e.volume = volume
       /\ e.command[0] = Busy("REQUEST_SENSE")
       /\ e.hfi.steady = steady /\ e.hfi.mounted = hfi.mounted
  <2>1. e \in Drivers
    BY <1>17, OneUnit, SendCmdTyped DEF Ops
  <2> QED
    BY <1>17, <2>1, SendOne
<1> HIDE DEF e
<1>19. Driver' = e
  BY <1>5, <1>18, DriverIs
<1>20. e.command[0].op = "REQUEST_SENSE"
  BY <1>18, BusyWith
<1>21. Settled(e)
  <2>1. s.inquiry # NoUnit /\ ~s.bLunScan
    BY <1>1, <1>2, <1>3 DEF Settled
  <2>2. Calm(e)
    BY <1>2, <1>3, <1>14, <1>18 DEF Settled, Calm
  <2>3. e.inst[0].inquiry # NoUnit /\ ~e.inst[0].bLunScan /\ e.inst[0].bError
    BY <1>14, <1>18, <2>1, Zenon
  <2> QED
    BY <1>20, <2>2, <2>3 DEF Settled
<1>22. Checking(e, unit[0])
  <2> SUFFICES ASSUME 0 \in steady, volume[0].pfMediumCheckComplete
               PROVE  <<s3.bState, "REQUEST_SENSE">> \in Answering /\ OnCourse(s3, unit[0])
    BY <1>18, <1>20 DEF Checking
  <2>1. ~Fault(0) /\ <<s.bState, op>> \in Answering /\ OnCourse(s, unit[0])
    BY <1>2, <1>3, <1>7 DEF Checking
  <2>2. s.bState \in {"READ_FMT_CAPACITY", "READ_CAPACITY", "FIRST_TEST", "TEST_UNIT_READY",
                      "READ_BLOCK0"}
    BY <1>1, <2>1 DEF Answering
  <2>3. unit[0].medium => unit[0].attention
    BY <2>1 DEF Fault, Failing
  <2>4. unit[0].medium => s.bState = "READ_FMT_CAPACITY" /\ ~s.bNoMedium
    BY <2>1, <2>2, <2>3 DEF OnCourse
  <2>5. ~unit[0].medium => (s.bState \in {"READ_FMT_CAPACITY", "READ_CAPACITY"} \/ ~s.capacity)
    BY <2>1, <2>2 DEF OnCourse
  <2>6. s3.bState = s.bState /\ s3.bNoMedium = s.bNoMedium /\ s3.capacity = s.capacity
    BY <1>14
  <2> QED
    BY <2>2, <2>3, <2>4, <2>5, <2>6 DEF OnCourse, Answering
<1>23. Prevented(Driver, e) /\ Truthful(Driver, e, unit[0])
  BY <1>3, <1>18, SMTT(60) DEF Prevented, Truthful
<1>24. Typing'
  BY <1>2, OneUnit, CommandFailedTyped, Zenon DEF CommandFailed
<1> QED
  BY <1>1, <1>2, <1>19, <1>21, <1>22, <1>23, <1>24 DEF OneStep, One

\* The steps that are not callbacks.
LEMMA DriverNext ==
  /\ Driver'.inst = inst' /\ Driver'.volume = volume'
  /\ Driver'.command = command' /\ Driver'.hfi = hfi'
  BY DEF Driver

\* A transfer of the file system runs outside every check.
LEMMA DataCompleteOne ==
  ASSUME LunCount = 1, One, DataComplete(0)
  PROVE  OneStep
<1>1. /\ phase = "running" /\ command[0].op = "DATA" /\ command' = [command EXCEPT ![0] = Idle]
      /\ UNCHANGED <<phase, inst, volume, hfi, unit, changes>>
  BY DEF DataComplete
<1>2. Typing /\ Settled(Driver) /\ Checking(Driver, unit[0])
  BY <1>1 DEF One
<1>3. /\ Driver.inst = inst /\ Driver.volume = volume /\ Driver.command = command
      /\ Driver.hfi = hfi
  BY <1>2, DriverFields
<1>4. command'[0].op = "none"
  <2>1. 0 \in DOMAIN command
    BY <1>2, OneUnit DEF Typing
  <2> QED
    BY <1>1, <2>1, BusyWith
<1>5. /\ Driver'.inst = inst /\ Driver'.volume = volume /\ Driver'.command = command'
      /\ Driver'.hfi = hfi
  BY <1>1, DriverNext
<1>6. Settled(Driver')
  <2>1. inst[0].inquiry # NoUnit /\ ~inst[0].bError /\ ~inst[0].bLunScan
    BY <1>1, <1>2, <1>3 DEF Settled
  <2>2. Calm(Driver')
    BY <1>2, <1>3, <1>5 DEF Settled, Calm
  <2> QED
    BY <1>4, <1>5, <2>1, <2>2 DEF Settled
<1>7. ~(0 \in hfi.steady /\ volume[0].pfMediumCheckComplete)
  BY <1>1, <1>2, <1>3 DEF Checking, Answering
<1>8. /\ Checking(Driver', unit'[0]) /\ Prevented(Driver, Driver')
      /\ Truthful(Driver, Driver', unit[0])
  BY <1>3, <1>5, <1>7 DEF Checking, Prevented, Truthful
<1>9. Typing'
  BY <1>2, OneUnit, DataCompleteTyped DEF DataComplete
<1> QED
  BY <1>1, <1>6, <1>8, <1>9 DEF OneStep, One

\* A medium that comes or goes disturbs the check that is under way.
LEMMA ChangeMediumOne ==
  ASSUME LunCount = 1, One, ChangeMedium(0)
  PROVE  OneStep
<1>1. /\ phase # "gone" /\ hfi' = [hfi EXCEPT !.steady = @ \ {0}]
      /\ UNCHANGED <<phase, inst, volume, command>>
  BY DEF ChangeMedium
<1>2. Typing
  BY DEF One
<1>3. /\ Driver.inst = inst /\ Driver.volume = volume /\ Driver.command = command
      /\ Driver.hfi = hfi /\ hfi \in FileSystems
  BY <1>2, DriverFields
<1>4. hfi'.mounted = hfi.mounted /\ 0 \notin hfi'.steady
  BY <1>1, <1>3 DEF FileSystems
<1>5. /\ Driver'.inst = inst /\ Driver'.volume = volume /\ Driver'.command = command
      /\ Driver'.hfi = hfi'
  BY <1>1, DriverNext
<1>6. /\ Checking(Driver', unit'[0]) /\ Prevented(Driver, Driver')
      /\ Truthful(Driver, Driver', unit[0])
  BY <1>3, <1>4, <1>5 DEF Checking, Prevented, Truthful
<1>7. Typing'
  BY <1>2, OneUnit, ChangeMediumTyped
<1>8. CASE phase = "starting"
  <2>1. Fresh(Driver')
    BY <1>3, <1>5, <1>8 DEF One, Fresh
  <2> QED
    BY <1>1, <1>6, <1>7, <1>8, <2>1 DEF OneStep, One
<1>9. CASE phase = "running"
  <2>1. Settled(Driver')
    BY <1>3, <1>5, <1>9 DEF One, Settled, Calm
  <2> QED
    BY <1>1, <1>6, <1>7, <1>9, <2>1 DEF OneStep, One
<1> QED
  BY <1>1, <1>2, <1>8, <1>9 DEF Typing, TypeOK

\* With the device go its commands.
LEMMA DestroyOne ==
  ASSUME LunCount = 1, One, DestroyBotInstance
  PROVE  OneStep
<1>1. phase' = "gone" /\ UNCHANGED <<inst, volume, hfi, unit>>
  BY DEF DestroyBotInstance
<1>2. Driver.volume = volume /\ Driver.hfi = hfi
  BY DriverFields DEF One
<1>3. Driver'.volume = volume /\ Driver'.hfi = hfi
  BY <1>1, DriverNext
<1>4. Prevented(Driver, Driver') /\ Truthful(Driver, Driver', unit[0])
  BY <1>2, <1>3 DEF Prevented, Truthful
<1>5. Typing'
  BY DestroyBotInstanceTyped DEF One
<1> QED
  BY <1>1, <1>4, <1>5 DEF OneStep, One

LEMMA StutterOne ==
  ASSUME LunCount = 1, One, UNCHANGED vars
  PROVE  OneStep
<1>1. UNCHANGED <<phase, inst, volume, command, hfi, unit>> /\ Driver' = Driver
  BY DEF vars, Driver
<1>2. Prevented(Driver, Driver') /\ Truthful(Driver, Driver', unit[0])
  BY <1>1, Zenon DEF Prevented, Truthful
<1>3. Typing'
  BY StutterTyped DEF One
<1> QED
  BY <1>1, <1>2, <1>3, Zenon DEF OneStep, One

\* The file system reads and writes when no command is in flight.
LEMMA ReadDeviceOne ==
  ASSUME LunCount = 1, One, ReadDevice(0)
  PROVE  OneStep
<1> DEFINE e == SendCmd(Driver, 0, "DATA", FileSystem)
<1>1. phase = "running" /\ Becomes(e) /\ UNCHANGED <<phase, unit, changes>>
  BY DEF ReadDevice
<1>2. Typing /\ Settled(Driver) /\ Checking(Driver, unit[0])
  BY <1>1 DEF One
<1>3. /\ Driver \in Drivers /\ Driver.inst = inst /\ Driver.volume = volume
      /\ Driver.command = command /\ Driver.hfi = hfi
  BY <1>2, DriverFields
<1>4. e \in Drivers
  BY <1>3, OneUnit DEF SendCmd, Drivers, Commands
<1>5. /\ e.inst = inst /\ e.volume = volume /\ e.hfi = hfi
      /\ command[0] = Idle => e.command[0].op = "DATA"
      /\ command[0] # Idle => e.command = command
  BY <1>3, OneUnit DEF SendCmd, Drivers
<1> HIDE DEF e
<1>6. Driver' = e
  BY <1>1, <1>4, DriverIs
<1>7. Prevented(Driver, e) /\ Truthful(Driver, e, unit[0])
  BY <1>3, <1>5 DEF Prevented, Truthful
<1>8. Typing'
  BY <1>2, OneUnit, ReadDeviceTyped DEF ReadDevice
<1>9. CASE command[0] # Idle
  <2>1. Settled(e) /\ Checking(e, unit'[0])
    BY <1>1, <1>2, <1>3, <1>5, <1>9 DEF Settled, Calm, Checking
  <2> QED
    BY <1>1, <1>6, <1>7, <1>8, <2>1 DEF OneStep, One
<1>10. CASE command[0] = Idle
  <2>1. command[0].op = "none"
    BY <1>10, BusyWith
  <2>2. inst[0].inquiry # NoUnit /\ ~inst[0].bError /\ ~inst[0].bLunScan
    BY <1>2, <1>3, <2>1 DEF Settled
  <2>3. Calm(e)
    BY <1>2, <1>3, <1>5 DEF Settled, Calm
  <2>4. Settled(e)
    BY <1>5, <1>10, <2>2, <2>3 DEF Settled
  <2>5. ~(0 \in hfi.steady /\ volume[0].pfMediumCheckComplete)
    BY <1>2, <1>3, <2>1 DEF Checking, Answering
  <2>6. Checking(e, unit'[0])
    BY <1>5, <2>5 DEF Checking
  <2> QED
    BY <1>1, <1>6, <1>7, <1>8, <2>4, <2>6 DEF OneStep, One
<1> QED
  BY <1>9, <1>10

\* The discovery begins with a unit that nothing was asked of before.
LEMMA SerialCompleteOne ==
  ASSUME LunCount = 1, One, SerialComplete
  PROVE  OneStep
<1> DEFINE scan == 0 = 0 /\ LunCount > 1
           b == Begin(Driver.inst[0], 0)
           s == [b EXCEPT !.bAnnounced = FALSE, !.bLunScan = scan,
                          !.bLunIndex = IF scan THEN 0 ELSE @]
           x == [Driver EXCEPT !.inst[0] = s]
           e == SendCmd(x, 0, "INQUIRY", 0)
<1>1. /\ phase = "starting" /\ phase' = "running" /\ UNCHANGED <<unit, changes>>
      /\ Becomes(DiscoverDevice(Driver, LunCount - 1, 0))
  BY DEF SerialComplete
<1>2. Becomes(e)
  <2>1. LunCount - 1 = 0
    OBVIOUS
  <2> QED
    BY <1>1, <2>1, Zenon DEF DiscoverDevice
<1>3. Typing /\ Fresh(Driver)
  BY <1>1 DEF One
<1>4. /\ Driver \in Drivers /\ Driver.inst = inst /\ Driver.volume = volume
      /\ Driver.command = command /\ Driver.hfi = hfi /\ inst[0] \in Instances
  BY <1>3, DriverFields
<1>5. b \in Instances
  BY <1>4, OneUnit, InstancesAre, BeginTyped
<1>6. b.bState = "INQUIRY" /\ b.bError = Driver.inst[0].bError
  BY <1>4, BeginFields
<1>7. scan = FALSE
  OBVIOUS
<1> HIDE DEF b, scan
<1>8. s \in Instances
  <2>1. Typed(b)
    BY <1>5, InstancesAre
  <2>2. Typed(s)
    BY <1>7, <2>1, ScanTyped, Zenon
  <2> QED
    BY <2>2, InstancesAre
<1>9. s.bState = "INQUIRY" /\ s.bError = Driver.inst[0].bError /\ ~s.bAnnounced /\ ~s.bLunScan
  BY <1>5, <1>6, <1>7 DEF Instances
<1> HIDE DEF s
<1>10. /\ x \in Drivers /\ x.inst[0] = s /\ x.volume = volume /\ x.command = command
       /\ x.hfi = hfi
  BY <1>4, <1>8, PutOne
<1> HIDE DEF x
<1>11. command[0] = Idle
  BY <1>3, <1>4 DEF Fresh
<1>12. /\ e \in Drivers /\ e.inst[0] = s /\ e.volume = volume /\ e.hfi = hfi
       /\ e.command[0] = Busy("INQUIRY")
  <2>1. e \in Drivers
    BY <1>10, OneUnit, SendCmdTyped DEF Ops
  <2> QED
    BY <1>10, <1>11, <2>1, SendOne
<1> HIDE DEF e
<1>13. e.command[0].op = "INQUIRY"
  BY <1>12, BusyWith
<1>14. Driver' = e
  BY <1>2, <1>12, DriverIs
<1>15. Settled(e) /\ Checking(e, unit'[0])
  <2>1. /\ ~volume[0].bAnnounced /\ ~volume[0].bGotMedium /\ ~volume[0].bMediumAnnounced
        /\ ~volume[0].pfMediumCheckComplete /\ ~s.bError
    BY <1>3, <1>4, <1>9 DEF Fresh
  <2>2. e.inst[0].bAnnounced = e.volume[0].bAnnounced
    <3>1. s.bAnnounced = FALSE /\ volume[0].bAnnounced = FALSE
      <4>1. s.bAnnounced \in BOOLEAN /\ volume[0] \in Volumes
        BY <1>3, <1>8, DriverFields DEF Instances
      <4> QED
        BY <1>9, <2>1, <4>1 DEF Volumes
    <3> QED
      BY <1>12, <3>1
  <2>3. Calm(e)
    BY <1>12, <2>1, <2>2 DEF Calm
  <2>4. Settled(e)
    BY <1>9, <1>12, <1>13, <2>1, <2>3 DEF Settled
  <2> QED
    BY <1>12, <2>1, <2>4 DEF Checking
<1>16. Prevented(Driver, e) /\ Truthful(Driver, e, unit[0])
  BY <1>4, <1>12 DEF Prevented, Truthful
<1>17. Typing'
  BY <1>3, SerialCompleteTyped
<1> QED
  BY <1>1, <1>14, <1>15, <1>16, <1>17 DEF OneStep, One

\* A check begins with an INQUIRY, or it is none: the unit was busy.
LEMMA CheckMediumNotifyOne ==
  ASSUME LunCount = 1, One, CheckMediumNotify(0)
  PROVE  OneStep
<1> DEFINE d == [Driver EXCEPT !.volume[0].pfMediumCheckComplete = TRUE]
           e == CheckMedium(d, 0)
           v == d.volume[0]
           s == Begin(inst[0], 0)
<1>1. /\ phase = "running" /\ volume[0].bAnnounced /\ Becomes(e)
      /\ UNCHANGED <<phase, unit, changes>>
  BY DEF CheckMediumNotify
<1>2. Typing /\ Settled(Driver) /\ Checking(Driver, unit[0])
  BY <1>1 DEF One
<1>3. /\ Driver \in Drivers /\ Driver.inst = inst /\ Driver.volume = volume
      /\ Driver.command = command /\ Driver.hfi = hfi /\ inst[0] \in Instances
      /\ volume[0] \in Volumes /\ unit[0] \in Units
  BY <1>2, DriverFields
<1>4. /\ d \in Drivers /\ d.inst = inst /\ d.command = command /\ d.hfi = hfi
  <2>1. [volume[0] EXCEPT !.pfMediumCheckComplete = TRUE] \in Volumes
    BY <1>3 DEF Volumes
  <2>2. d \in Drivers
    BY <1>3, <2>1, OneUnit, VolumeTyped
  <2> QED
    BY <1>3, <2>2 DEF Drivers
<1>5. /\ v.pfMediumCheckComplete /\ v.bAnnounced = volume[0].bAnnounced
      /\ v.bGotMedium = volume[0].bGotMedium /\ v.bMediumAnnounced = volume[0].bMediumAnnounced
  <2>1. v = [volume[0] EXCEPT !.pfMediumCheckComplete = TRUE]
    BY <1>3, OneUnit DEF Drivers
  <2> QED
    BY <1>3, <2>1 DEF Volumes
<1> HIDE DEF d
<1>6. /\ e.inst[0] = s /\ e.volume = d.volume /\ e.hfi.mounted = hfi.mounted
      /\ e.command[0] = IF command[0] = Idle THEN Busy("INQUIRY") ELSE command[0]
      /\ command[0] # Idle => 0 \notin e.hfi.steady
  BY <1>4, CheckOne
<1>7. e \in Drivers
  BY <1>4, OneUnit, CheckMediumTyped
<1> HIDE DEF e
<1>8. Driver' = e
  BY <1>1, <1>7, DriverIs
<1>9. /\ s.bState = "INQUIRY" /\ s.bNoMedium = FALSE /\ s.bLunScan = FALSE
      /\ s.bError = inst[0].bError /\ s.bAnnounced = inst[0].bAnnounced
      /\ s.inquiry = inst[0].inquiry
  BY <1>3, BeginFields
<1> HIDE DEF s
<1>10. inst[0].inquiry # NoUnit
  BY <1>1, <1>2, <1>3 DEF Settled
<1>11. Calm(e)
  <2>1. /\ inst[0].bAnnounced = volume[0].bAnnounced
        /\ Kind[0] = "fixed" => ~volume[0].bGotMedium /\ ~volume[0].bMediumAnnounced
    BY <1>2, <1>3 DEF Settled, Calm
  <2>2. /\ e.volume[0].bAnnounced = volume[0].bAnnounced
        /\ e.volume[0].bGotMedium = volume[0].bGotMedium
        /\ e.volume[0].bMediumAnnounced = volume[0].bMediumAnnounced
    BY <1>5, <1>6, Zenon
  <2>3. e.inst[0].bAnnounced = inst[0].bAnnounced
    BY <1>6, <1>9, Zenon
  <2> QED
    BY <1>1, <2>1, <2>2, <2>3, Zenon DEF Calm
<1>12. e.inst[0].inquiry # NoUnit /\ ~e.inst[0].bLunScan /\ e.inst[0].bState = "INQUIRY"
       /\ e.inst[0].bError = inst[0].bError /\ ~e.inst[0].bNoMedium
  BY <1>6, <1>9, <1>10, Zenon
<1>13. inst[0].bError <=> command[0].op = "REQUEST_SENSE"
  BY <1>2, <1>3 DEF Settled
<1>14. Prevented(Driver, e) /\ Truthful(Driver, e, unit[0])
  BY <1>3, <1>5, <1>6 DEF Prevented, Truthful
<1>15. Typing'
  BY <1>2, OneUnit, CheckMediumNotifyTyped
<1>16. CASE command[0] # Idle
  <2>1. e.command[0] = command[0] /\ 0 \notin e.hfi.steady
    BY <1>6, <1>16
  <2>2. Settled(e) /\ Checking(e, unit'[0])
    BY <1>11, <1>12, <1>13, <2>1 DEF Settled, Checking
  <2> QED
    BY <1>1, <1>8, <1>14, <1>15, <2>2 DEF OneStep, One
<1>17. CASE command[0] = Idle
  <2>1. command[0].op = "none" /\ e.command[0].op = "INQUIRY"
    BY <1>6, <1>17, BusyWith
  <2>2. ~e.inst[0].bError
    BY <1>12, <1>13, <2>1
  <2>3. Settled(e)
    BY <1>11, <1>12, <2>1, <2>2 DEF Settled
  <2>4. Checking(e, unit'[0])
    BY <1>12, <2>1, <2>2 DEF Checking, Answering, OnCourse
  <2> QED
    BY <1>1, <1>8, <1>14, <1>15, <2>3, <2>4 DEF OneStep, One
<1> QED
  BY <1>16, <1>17

\* A unit is given back when nothing is in flight, so in no check.
LEMMA UnmountVolumeOne ==
  ASSUME LunCount = 1, One, UnmountVolume(0)
  PROVE  OneStep
<1> DEFINE d == [Driver EXCEPT !.hfi.mounted = @ \ {0}]
           s == [inst[0] EXCEPT !.bState = "ALLOW_MEDIUM_REMOVE"]
           x == [d EXCEPT !.inst[0].bState = "ALLOW_MEDIUM_REMOVE"]
           y == [d EXCEPT !.inst[0] = s]
           e == SendCmd(y, 0, "ALLOW", 0)
<1>1. /\ phase = "running" /\ command[0] = Idle /\ Becomes(SendCmd(x, 0, "ALLOW", 0))
      /\ UNCHANGED <<phase, unit, changes>>
  BY DEF UnmountVolume, UnmountDevice
<1>2. Typing /\ Settled(Driver) /\ Checking(Driver, unit[0])
  BY <1>1 DEF One
<1>3. /\ Driver \in Drivers /\ Driver.inst = inst /\ Driver.volume = volume
      /\ Driver.command = command /\ Driver.hfi = hfi /\ inst[0] \in Instances
      /\ hfi \in FileSystems
  BY <1>2, DriverFields
<1>4. /\ d \in Drivers /\ d.inst = inst /\ d.volume = volume /\ d.command = command
      /\ d.hfi.mounted \subseteq hfi.mounted /\ d.hfi.steady = hfi.steady
  BY <1>3 DEF Drivers, FileSystems
<1> HIDE DEF d
<1>5. Becomes(e)
  <2>1. x = y
    BY <1>4, Zenon
  <2> QED
    BY <1>1, <2>1, Zenon
<1>6. s \in Instances
  BY <1>3, StateTyped DEF States
<1>7. /\ s.bState = "ALLOW_MEDIUM_REMOVE" /\ s.bError = inst[0].bError
      /\ s.bLunScan = inst[0].bLunScan /\ s.bAnnounced = inst[0].bAnnounced
      /\ s.inquiry = inst[0].inquiry
  BY <1>3 DEF Instances
<1> HIDE DEF s
<1>8. /\ y \in Drivers /\ y.inst[0] = s /\ y.volume = volume /\ y.command = command
      /\ y.hfi = d.hfi
  BY <1>4, <1>6, PutOne
<1> HIDE DEF y
<1>9. /\ e \in Drivers /\ e.inst[0] = s /\ e.volume = volume /\ e.hfi = d.hfi
      /\ e.command[0] = Busy("ALLOW")
  <2>1. e \in Drivers
    BY <1>8, OneUnit, SendCmdTyped DEF Ops
  <2> QED
    BY <1>1, <1>8, <2>1, SendOne
<1> HIDE DEF e
<1>10. Driver' = e
  BY <1>5, <1>9, DriverIs
<1>11. command[0].op = "none" /\ e.command[0].op = "ALLOW"
  BY <1>1, <1>9, BusyWith
<1>12. Settled(e)
  <2>1. inst[0].inquiry # NoUnit /\ ~inst[0].bError /\ ~inst[0].bLunScan
    BY <1>2, <1>3, <1>11 DEF Settled
  <2>2. Calm(e)
    BY <1>2, <1>3, <1>7, <1>9 DEF Settled, Calm
  <2>3. e.inst[0].inquiry # NoUnit /\ ~e.inst[0].bError /\ ~e.inst[0].bLunScan
        /\ e.inst[0].bState = "ALLOW_MEDIUM_REMOVE"
    BY <1>7, <1>9, <2>1, Zenon
  <2> QED
    BY <1>11, <2>2, <2>3 DEF Settled
<1>13. ~(0 \in hfi.steady /\ volume[0].pfMediumCheckComplete)
  BY <1>2, <1>3, <1>11 DEF Checking, Answering
<1>14. Checking(e, unit'[0]) /\ Prevented(Driver, e) /\ Truthful(Driver, e, unit[0])
  BY <1>3, <1>4, <1>9, <1>13 DEF Checking, Prevented, Truthful
<1>15. Typing'
  BY <1>2, OneUnit, UnmountVolumeTyped
<1> QED
  BY <1>1, <1>10, <1>12, <1>14, <1>15 DEF OneStep, One

LEMMA InitOne ==
  ASSUME LunCount = 1, Init
  PROVE  One
<1>1. Typing /\ phase = "starting"
  BY InitTyped DEF Init
<1>2. Driver.inst = inst /\ Driver.volume = volume /\ Driver.command = command
  BY DEF Driver
<1>3. command[0] = Idle
  BY OneUnit DEF Init
<1>4. ~inst[0].bError
  <2>1. PICK set \in CmdSets : inst = [i \in Luns |->
       [set |-> set, bState |-> "NONE", bError |-> FALSE, bRemovable |-> FALSE, bAnnounced |-> FALSE,
        bNoMedium |-> FALSE, bLun |-> 0, bLunScan |-> FALSE, bLunIndex |-> 0,
        dwRetries |-> 0, dwCapacityRetries |-> 0, bFmtCapacityRetries |-> 0,
        inquiry |-> NoUnit, capacity |-> FALSE, sense |-> "none"]]
    BY DEF Init
  <2> QED
    BY <2>1, OneUnit
<1>5. /\ ~volume[0].bAnnounced /\ ~volume[0].bGotMedium /\ ~volume[0].bMediumAnnounced
      /\ ~volume[0].pfMediumCheckComplete
  BY OneUnit DEF Init
<1> QED
  BY <1>1, <1>2, <1>3, <1>4, <1>5 DEF One, Fresh

\* One is inductive, and every step has the two properties.
LEMMA NextOne ==
  ASSUME LunCount = 1, One, [Next]_vars
  PROVE  OneStep
<1>1. CASE SerialComplete
  BY <1>1, SerialCompleteOne
<1>2. ASSUME NEW l \in Luns, Completion(l) \/ FileSystemStep(l) \/ ChangeMedium(l)
      PROVE  OneStep
  <2>1. l = 0
    BY OneUnit
  <2>2. CASE Completion(0)
    BY <2>2, InquiryCompleteOne, FmtCapacityCompleteOne, CapacityCompleteOne,
       FirstTestCompleteOne, Block0CompleteOne, TestUnitCompleteOne, PreventCompleteOne,
       AllowCompleteOne, StopCompleteOne, CommandFailedOne, DataCompleteOne, Zenon
       DEF Completion
  <2>3. CASE FileSystemStep(0)
    BY <2>3, CheckMediumNotifyOne, ReadDeviceOne, UnmountVolumeOne, Zenon DEF FileSystemStep
  <2>4. CASE ChangeMedium(0)
    BY <2>4, ChangeMediumOne
  <2> QED
    BY <1>2, <2>1, <2>2, <2>3, <2>4, Zenon
<1>3. CASE DestroyBotInstance
  BY <1>3, DestroyOne
<1>4. CASE UNCHANGED vars
  BY <1>4, StutterOne
<1> QED
  BY <1>1, <1>2, <1>3, <1>4, Zenon DEF Next

\* PreventedBeforeMounted, of devices with one unit: what mounts a disk with the RMB bit is
\* the answer to the PREVENT of its instance, or to the REQUEST_SENSE after it, whatever
\* checks, reads and changes of medium come between (mu_mscsi.c:503-506, 742-755).
THEOREM MountedWhenPrevented ==
  ASSUME LunCount = 1
  PROVE  Spec => PreventedBeforeMounted
<1> DEFINE A == \A l \in hfi'.mounted \ hfi.mounted :
                  Kind[l] = "removable" =>
                    \E k \in Luns : command[k] \in [op : {"PREVENT", "REQUEST_SENSE"}, by : {l}]
<1>1. Init => One
  BY InitOne
<1>2. One /\ [Next]_vars => One'
  BY NextOne, Zenon DEF OneStep
<1>3. One /\ [Next]_vars => [A]_vars
  <2> SUFFICES ASSUME One, [Next]_vars
               PROVE  A
    BY Zenon
  <2>1. Prevented(Driver, Driver') /\ Typing'
    BY NextOne, Zenon DEF OneStep, One
  <2>2. /\ Driver.hfi = hfi /\ Driver.command = command /\ Driver'.hfi = hfi'
    BY DriverNext, DriverFields DEF One
  <2>3. hfi'.mounted \subseteq Luns
    BY <2>1 DEF Typing, TypeOK, FileSystems
  <2>4. ASSUME NEW l \in hfi'.mounted \ hfi.mounted, Kind[l] = "removable"
        PROVE  command[0] \in [op : {"PREVENT", "REQUEST_SENSE"}, by : {l}]
    <3>1. l = 0
      BY <2>3, <2>4, OneUnit
    <3> QED
      BY <2>1, <2>2, <2>4, <3>1, Zenon DEF Prevented
  <2> QED
    BY <2>4, OneUnit, Zenon
<1>4. [][A]_vars => PreventedBeforeMounted
  BY PTL DEF PreventedBeforeMounted
<1> HIDE DEF A
<1> QED
  BY <1>1, <1>2, <1>3, <1>4, PTL DEF Spec

\* CheckTellsTruth, of devices with one unit: a check that neither a fault nor a change of
\* medium disturbed tells the file system what the unit holds, however many retries, sense
\* data and reads of block 0 it took (mu_mbot.c:568-636, mu_mscsi.c:866-889).
THEOREM ChecksTellTruth ==
  ASSUME LunCount = 1
  PROVE  Spec => CheckTellsTruth
<1> DEFINE A == \A l \in hfi.steady :
                  volume[l].pfMediumCheckComplete /\ ~volume'[l].pfMediumCheckComplete
                    => volume'[l].bMediumAnnounced = (unit[l].medium /\ Kind[l] # "fixed")
<1>1. Init => One
  BY InitOne
<1>2. One /\ [Next]_vars => One'
  BY NextOne, Zenon DEF OneStep
<1>3. One /\ [Next]_vars => [A]_vars
  <2> SUFFICES ASSUME One, [Next]_vars
               PROVE  A
    BY Zenon
  <2>1. Truthful(Driver, Driver', unit[0])
    BY NextOne, Zenon DEF OneStep
  <2>2. /\ Driver.hfi = hfi /\ Driver.volume = volume /\ Driver'.volume = volume'
        /\ hfi \in FileSystems
    BY DriverNext, DriverFields DEF One
  <2>3. hfi.steady \subseteq {0}
    BY <2>2, OneUnit DEF FileSystems
  <2> QED
    BY <2>1, <2>2, <2>3 DEF Truthful
<1>4. [][A]_vars => CheckTellsTruth
  BY PTL DEF CheckTellsTruth
<1> HIDE DEF A
<1> QED
  BY <1>1, <1>2, <1>3, <1>4, PTL DEF Spec
=============================================================================
