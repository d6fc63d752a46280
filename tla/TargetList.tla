----------------------------- MODULE TargetList -----------------------------
(***************************************************************************)
(* The targeted peripheral list of a host client (include/mu_cdi.h): bytes *)
(* that say which driver takes which device, and their interpreter,        *)
(* MGC_HostFindDriver of cd/mu_hst.c.  A device is its three class codes,  *)
(* its three numbers, and its configurations, each the sequence of its     *)
(* interface descriptors.  Below it, what mu_cdi.h says a list means.      *)
(***************************************************************************)
EXTENDS Naturals, SequencesExt, FiniteSetsExt

\* MUSB_TargetListCode
Target == [UNKNOWN |-> 0, VID |-> 1, PID |-> 2, DEVICE_BCD |-> 3, CONFIG |-> 4,
           INTERFACE |-> 5, CLASS |-> 6, SUBCLASS |-> 7, PROTOCOL |-> 8,
           ACCEPT |-> 9, REJECT |-> 10]

NoDriver == 256  \* NULL; a driver is a byte

Byte(list, w) == list[w + 1]

Width(op) ==
  CASE op \in {Target.UNKNOWN, Target.REJECT} -> 1
    [] op \in {Target.VID, Target.PID, Target.DEVICE_BCD} -> 3
    [] OTHER -> 2

\* Of padding, MGC_SkipEntry takes a byte too much.
SkipWidth(op) == IF op = Target.UNKNOWN THEN 2 ELSE Width(op)

\* Where the next entry begins.  A byte that is no code would hold it for ever.
SkipEntry(list, wInputIndex) ==
  LET past[w \in 0 .. Len(list) + 2] ==
        CASE w >= Len(list) -> w
          [] w < Len(list) /\ Byte(list, w) \in {Target.ACCEPT, Target.REJECT} ->
               w + SkipWidth(Byte(list, w))
          [] OTHER -> past[w + SkipWidth(Byte(list, w))]
  IN  past[wInputIndex]

\* MGC_FindDescriptor looks for the n-th interface descriptor, not for interface n.
HasInterface(config, n) == n < Len(config)

\* One turn of the loop.  level is the device while bInterface is FALSE, then *pInterface.
Turn(list, drivers, device, s) ==
  LET op == Byte(list, s.wIndex)
      bData == Byte(list, s.wIndex + 1)
      wData == bData + 256 * Byte(list, s.wIndex + 2)
      after == s.wIndex + Width(op)
      next == SkipEntry(list, after)
      met == CASE op = Target.UNKNOWN    -> TRUE
               [] op = Target.VID        -> wData = device.idVendor
               [] op = Target.PID        -> wData = device.idProduct
               [] op = Target.DEVICE_BCD -> wData = device.bcdDevice
               [] op = Target.CONFIG     -> bData < Len(device.configs)
               [] op = Target.INTERFACE  -> HasInterface(s.pConfig, bData)
               [] op = Target.CLASS      -> bData = s.level.bClass
               [] op = Target.SUBCLASS   -> bData = s.level.bSubClass
               [] op = Target.PROTOCOL   -> bData = s.level.bProtocol
      on == [s EXCEPT !.wIndex = after]
  IN  CASE op = Target.ACCEPT ->
             [s EXCEPT !.done = TRUE, !.driver = IF bData < drivers THEN bData ELSE NoDriver]
        [] op = Target.REJECT -> [s EXCEPT !.done = TRUE]
        [] op = Target.CONFIG /\ met ->
             [on EXCEPT !.level = device, !.pConfig = device.configs[bData + 1]]
        [] op = Target.INTERFACE /\ met -> [on EXCEPT !.level = s.pConfig[bData + 1]]
        [] op \notin {Target.ACCEPT, Target.REJECT, Target.CONFIG, Target.INTERFACE} /\ met -> on
        [] OTHER -> [s EXCEPT !.wIndex = next, !.wEntryIndex = next, !.level = device]

\* What is returned, and in *ppEntry the index of the entry that was met; every turn takes
\* a byte or more.
FindDriver(list, drivers, device, pConfig) ==
  LET turn(s, k) == IF s.done \/ s.wIndex >= Len(list) THEN s ELSE Turn(list, drivers, device, s)
      start == [wIndex |-> 0, wEntryIndex |-> 0, level |-> device, pConfig |-> pConfig,
                done |-> FALSE, driver |-> NoDriver]
      end == FoldLeft(turn, start, [k \in DOMAIN list |-> k])
  IN  [driver |-> end.driver, entry |-> IF end.driver = NoDriver THEN 0 ELSE end.wEntryIndex]

-----------------------------------------------------------------------------
(* The list of the mass-storage driver: BOT with SCSI, BOT with SFF-8070i.  *)

MassStorage == 8
Bot == 80
Scsi == 6
Sff8070i == 5

MsdEntry(bSubClass) ==
  <<Target.CLASS, 0, Target.INTERFACE, 0, Target.CLASS, MassStorage,
    Target.SUBCLASS, bSubClass, Target.PROTOCOL, Bot, Target.ACCEPT, 0>>

\* Mutation of FillMsdPeripheralList: the second entry is copied over the first.
FillMsdPeripheralListOver(bDriverIndex, wListRemain) ==
  LET part(entry, room) == SubSeq(entry, 1, Min({Len(entry), room}))
      stamped(list) == [list EXCEPT ![Len(list)] = bDriverIndex]
  IN  stamped(part(MsdEntry(Sff8070i), wListRemain))

\* MUSB_FillMsdPeripheralList cuts what does not fit, and writes the driver's index over
\* the last byte of what does.
FillMsdPeripheralList(bDriverIndex, wListRemain) ==
  LET part(entry, room) == SubSeq(entry, 1, Min({Len(entry), room}))
      stamped(list) == [list EXCEPT ![Len(list)] = bDriverIndex]
      first == stamped(part(MsdEntry(Scsi), wListRemain))
  IN  stamped(first \o part(MsdEntry(Sff8070i), wListRemain - Len(first)))

-----------------------------------------------------------------------------
(* What a list means: "the algorithm is first-match" (mu_cdi.h:134), a      *)
(* criterion after a configuration or an interface is about that            *)
(* (mu_cdi.h:168-196).  An entry is some padding, its criteria and its      *)
(* verdict, a driver or NoDriver to reject.                                 *)

Encoded(entry) ==
  LET criterion(c) == IF Width(c.op) = 3 THEN <<c.op, c.arg % 256, c.arg \div 256>>
                      ELSE <<c.op, c.arg>>
  IN  [k \in 1 .. entry.pad |-> Target.UNKNOWN]
        \o FlattenSeq([k \in DOMAIN entry.criteria |-> criterion(entry.criteria[k])])
        \o (IF entry.verdict = NoDriver THEN <<Target.REJECT>> ELSE <<Target.ACCEPT, entry.verdict>>)

\* The configuration and the interface that criterion k is about; Latest is 0 if none.
Latest(criteria, k, ops) == Max({0} \cup {j \in 1 .. k - 1 : criteria[j].op \in ops})
ConfigAt(criteria, k, device, config) ==
  LET j == Latest(criteria, k, {Target.CONFIG})
  IN  IF j = 0 THEN config ELSE device.configs[criteria[j].arg + 1]
LevelAt(criteria, k, device, config) ==
  LET j == Latest(criteria, k, {Target.CONFIG, Target.INTERFACE})
  IN  IF j = 0 \/ criteria[j].op = Target.CONFIG THEN device
      ELSE ConfigAt(criteria, j, device, config)[criteria[j].arg + 1]

Meets(criteria, device, config) ==
  \A k \in DOMAIN criteria :
    LET c == criteria[k]
        level == LevelAt(criteria, k, device, config)
    IN  CASE c.op = Target.VID        -> c.arg = device.idVendor
          [] c.op = Target.PID        -> c.arg = device.idProduct
          [] c.op = Target.DEVICE_BCD -> c.arg = device.bcdDevice
          [] c.op = Target.CONFIG     -> c.arg < Len(device.configs)
          [] c.op = Target.INTERFACE  -> c.arg < Len(ConfigAt(criteria, k, device, config))
          [] c.op = Target.CLASS      -> c.arg = level.bClass
          [] c.op = Target.SUBCLASS   -> c.arg = level.bSubClass
          [] c.op = Target.PROTOCOL   -> c.arg = level.bProtocol

\* The verdict of the first entry that the device meets, and where that entry begins.
Meaning(entries, device, config) ==
  LET met == {k \in DOMAIN entries : Meets(entries[k].criteria, device, config)}
      first == Min(met)
      before == FlattenSeq([k \in 1 .. first - 1 |-> Encoded(entries[k])])
      none == [driver |-> NoDriver, entry |-> 0]
  IN  IF met = {} THEN none
      ELSE IF entries[first].verdict = NoDriver THEN none
      ELSE [driver |-> entries[first].verdict, entry |-> Len(before)]

\* The inputs for which the interpreter does not find the driver that the list means, and
\* its entry, for a list of two drivers.
Misread(lists, devices) ==
  {pair \in lists \X devices :
     \E config \in ToSet(pair[2].configs) :
       FindDriver(FlattenSeq([k \in DOMAIN pair[1] |-> Encoded(pair[1][k])]), 2, pair[2], config)
         # Meaning(pair[1], pair[2], config)}
=============================================================================
