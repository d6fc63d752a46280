# TLA+ models of the MUSB host/OTG stack and its mass-storage driver

The repository is a USB stack in C for the Mentor Graphics MUSBMHDRC dual-role
controller, ported without an operating system to a Cortex-M3 board: a controller
driver (`src/code/src/cd`), a host-side mass-storage class driver
(`drivers/msd`), a no-OS port (`systems/none`), a test program that lists a
memory stick (`test/msd`), and an example that is one (`examples/msd`).  This directory holds TLA+ modules of its control
logic, TLC configurations that check them on small instances, and TLAPS proofs.

Everything is modelled as built here: `MUSB_MHDRC`, `MUSB_FORCE_FULLSPEED`,
`MUSB_C_DYNFIFO_DEF`, `MUSB_DIAG` 0, one controller; no `MUSB_DMA`, `MUSB_HUB`,
`MUSB_ISO`, `MUSB_SCHEDULER`, `MUSB_STATS` or `MUSB_OVERHEAD`.

## 1. The system

### How it runs

One thread.  The main loop of `tst_msd.c` (1177-1187) calls
`MGC_NoneControllerIsrPoll`, which reads the interrupt registers and runs the ISR
(`MGC_DrcIsr`), then `MUSB_NoneRunBackground`, which runs the background service
routine (`MGC_DrcBsr`) if the ISR asked for it.  The ISR moves packets and turns
what happened into `MGC_BsrItem`s; the BSR takes them one by one and calls the
class drivers back.  Class drivers run only in those callbacks, and start
transfers from them.  The port also has `MGC_NoneControllerIsr` for boards with
real interrupts; the locks of the stack are no-ops in both cases.

    device, bus --> registers --> MGC_DrcIsr --items--> MGC_DrcBsr --> callbacks
                       ^                                                  |
                       +---- MUSB_StartTransfer, MUSB_StartControlTransfer+

### Components

| component | state | operations | what is hard |
|---|---|---|---|
| background queue, main loop (`plat_uds.c`, `tst_msd.c`) | ring of items, three 8-bit counters | queue, dequeue, flush; ISR; run background | two levels share the ring; counters wrap; no test for a full ring |
| bulk pipes and IRPs (`mu_pip.c`, `mu_hdr.c`, `mu_mdr.c`) | per endpoint and side: current IRP, list, offset, halts | start, cancel, halt, packet in and out, complete, flush | start races completion; stale offsets; cancel and halt at every point |
| Bulk-Only Transport (`mu_mbot.c`) | flags, stages, tags, retries per unit | CBW, data, CSW, reset recovery | seven requests share one IRP; stale CSWs; retries; units share one CSW |
| SCSI and 8070i command sets (`mu_mscsi.c`, `mu_8070i.c`) | state, retries, units announced | discover, mount, check medium, read, write | a chain of commands with retries; announcing once and only when ready |
| mass-storage class (`mu_mapi.c`) | instance per device | connect, configure, disconnect | removal at every point |
| OTG state machine (`mu_drc.c`, `board.c`) | OTG state, bus request flags, timers | USB interrupts, BSR causes, host request and relinquish | timers that call back before they return |
| host (`mu_hst.c`) | devices, address bits, pipes, the control IRP | enumerate, address, control transfers, open and close pipes | removal in the middle; addresses that leak |
| endpoint 0 and chapter 9 (`mu_hdr.c`, `mu_fun.c`) | stage of the default endpoint, configuration | SETUP, data, status; standard requests | early status, a SETUP in the middle of a transfer |
| controller (`mu_cntlr.c`) | ports, endpoints, FIFO RAM | create, start, stop; dynamic FIFO | sizes counted and sizes programmed differ; compaction waits for the ISR |
| lists, arrays, descriptors (`mu_list.c`, `mu_descs.c`) | - | pure | empty and missing items |
| function-side example (`mu_msdfn.c`) | four IRPs, status of the command | CBW, data, CSW, reset | reset recovery at every stage; halts; STALL of endpoint 0 |
| support library, board start-up, test menu | - | - | - |

What makes each of them correct:

* queue: nothing accepted is lost, doubled or reordered; no wake-up is lost; the
  polling loop drains the queue before it polls again;
* pipes: each byte goes to its own place, an IRP is in one place, every IRP
  started is called back, no IRP waits on an idle side;
* transport: a success answers the very command that was sent; recovery finds
  the pipes quiet; every command ends;
* command sets: a unit is announced once, after it is ready, and removed if and
  only if it was announced;
* OTG and host: role and session agree with the state; a device that is gone is
  not talked to; its address is free again; each enumeration ends;
* FIFO allocator: two endpoints never share RAM;
* function role: each reply and each status is the one of the request or command it answers,
  whatever came before it was given up, ended early or reset; both sides agree on address and
  configuration; the disk always waits for exactly one thing.

## 2. The plan

1. `BsrQueue` with `BsrFifo`, and its proofs - done.
2. `MsdBot` with `MsdTransport`, and its safety proofs - done.
3. `Pipe` with `PipeTransfers` - done, and all its safety properties are proved.
4. `Scsi`: discovery, announcement, medium checks, mounts, over the promise of
   `MsdTransport` - done, with its types proved for any number of units and its two action
   properties for one.
5. OTG state machine with its timers, `MGC_DrcUsbIsr` and the bus causes of
   `MGC_DrcBsr` - done for TLC as an A-device (`Host`), and `FifosApart` is proved.
6. Host: enumeration, address bits, removal; control transfers on endpoint 0;
   connect and disconnect of the class driver, with the pipes it opens and closes -
   done for TLC in the same module; the choice of the driver - done (`TargetList`).
7. Function role: endpoint 0, `MGC_FunctionParseSetup`, the function-side mass-storage
   example, and a host - done for TLC (`Function` and the modules it extends), and
   `AlwaysListening` and `BusAgreed` are proved.  Left: the B-device's part of the OTG state machine.
8. Dynamic FIFO allocator in host role, with its proofs - done (`BulkEnd`); in function role -
   done (`FunctionPipes`; that its FIFOs lie apart is part of `AlwaysListening`).
9. SFF-8070i - done for TLC, in the machine of `Scsi`.
10. Lists, arrays and the search of descriptors against sequences and sets - done for TLC
    (`Lists`, `DescriptorSearch`, `Descriptors`).

Theorems still planned: the other invariants of `Host`, which hold until a device leaves early, with the
token of the enumeration as the invariant.

## 3. The modules

### BsrQueue, BsrFifo, BsrQueueProofs, MCBsrQueue

`BsrQueue` is the ring and the counters of `plat_uds.c` with the ISR that fills it
and the BSR that drains it.  A step is one access that an interrupt can separate
from the next: `IsrEnter`, `IsrQueue`, `IsrReturn` are the ISR; `ReadOver`, `StartBsr`
/ `SkipBsr`, `BsrTake`, the handlers, `BsrReturn` and `AckOver` are
`MUSB_NoneRunBackground` and `MGC_DrcBsr`.  A handler is plain, resets the port
(`MGC_DrcResetPort`, which flushes the queue), or completes a reception that finds
its packet in the FIFO and so queues an item itself (function role,
`mu_mdr.c:521`).  `board`, chosen in `Init` from `Boards`, says whether the ISR is polled or
preempts (`MGC_NoneControllerIsr`), which role is played, and how many items one ISR run
may queue.  `BsrFifo` is what the driver expects of the queue (`mu_dsi.h`): a FIFO that only
the background side takes from or empties.

### MsdBot, MsdTransport, MsdBotProofs, MCMsdBot

`MsdBot` is `mu_mbot.c`: each completion callback is a group of actions, one per
outcome of the transfer (`CbwComplete` / `CbwFailed`, `DataComplete` / `DataStalled` /
`DataRetried` / `DataGivenUp` / `DataLooksLikeCsw`, `CswComplete` / `CswStalled` /
`CswRetried` / `CswFailed` / `CswSkipped`), and each case of
`MGC_BotControlIrpComplete` is one (`MaxLunComplete`, ..., `ClearOutComplete`).  `pipe`
is the IRPs in flight of the two bulk endpoints, `control` the requests submitted
with the one `ControlIrp`.  The device is external: it takes CBWs, and answers with the CSW it
owes, one left over, or something of a wrong length.  `MsdTransport` is the promise
of `mu_mpcsi.h`: a command is called back at most once, and with success only if the
device has served it.

Transfers on open pipes are always accepted, so the paths on which submitting the next one
fails (as at `mu_mbot.c:506-513`) are not taken.  The tag counter wraps at `TagMod`.  Nothing is said of data that a device sends
beyond what it was asked for.

### Pipe, PipeTransfers, PipeProofs, PipeDataProofs, MCPipe

`Pipe` is one local bulk endpoint in host role with its Tx and Rx sides.  `current`,
`list` and `offset` are `pTxIrp`/`pRxIrp`, `TxIrpList`/`RxIrpList` and
`dwTxOffset`/`dwRxOffset`; `busy`, `intr`, `fifo` and `packet` are the hardware.  The bus
moves a programmed packet, or fails it, at any time.  The ISR's service of a side is
one action per outcome; the BSR's callback begins (`BsrComplete`), may start
transfers ("chain"), and ends with the attempt to start the next IRP (`BsrNext`).
`MUSB_StartTransfer` on a busy side is two steps, `StartLater` and `AppendIrp`: a
preempting ISR may complete the current IRP in between.  `Uses` names what clients do
besides: cancel, halt and resume, or unplug.  Data is the place in the buffer that a
packet goes to or comes from; `moved`, `inPlace` and `actual` record it.

The history of how far an IRP has moved stops at one byte past its length, and
`Unplug` and `CancelCurrent` are not taken once a stale offset exceeds `MaxLen`: both
only keep the state finite where the code itself has gone wrong already.  `PipeUses`
gives TLC a view without that history, which nothing in the model reads.  Its property
`InOnePlace` is about IRPs, not about the offsets that cancelled ones leave; those spoil the data
of the next IRP (see the findings), and `DataInPlace` is checked without cancellations.

`PipeTransfers` is what `mu_cdi.h` promises the class drivers.  The refinement mapping is not the
identity: an IRP that `MUSB_StartTransfer` is about to append, and may still refuse, is not begun
there (`Begun`), and what the buffers of an IRP that is free again have seen is nothing (`Carried`).

### Scsi, ScsiProofs, MCScsi

`Scsi` is `mu_mscsi.c` and `mu_8070i.c` with what stands above them: the volumes of
`mu_mbot.c` and the file system of `tst_msd.c`.  The two command sets are copies of one
machine.  They differ in two places: after a passed first test without a known capacity
SFF-8070i tests again instead of reading block 0, and a failed read of it does not use
up the retries of the capacity.  `CmdSets` holds the sets the device's subclass may stand for,
`Init` chooses one, and the field `set` of an instance decides at those two places.  Everything happens in the callback of a command, and the
calls nest: `MGC_ScsiCmdComplete` announces a unit, which makes the file system
mount it, which sends a command.  So a driver state is a record; `SendCmd`,
`DiscoverDevice`, `SetDeviceInfo`, `MountDevice`, `SetReady`, `HfiAddDevice`, `MountVolume` and so on are
operators from one driver state to the next; and each action is one whole
callback.  `inst` holds the `MGC_ScsiCmdSetData` of each unit, `volume` the
`MGC_MsdBotVolume`, `command` the command in flight and the instance it belongs to
(its private data), `hfi` the file system.

One case of the callback's switch is one step operator and one action
(`InquiryStep` and `InquiryComplete`, ...).  `CommandFailed` is the path of a failed
command, which asks for sense data; `Sensed` is what the callback makes of them.
The device is external: `Failing` are the commands it refuses (no medium, or the
attention condition after a change of medium), `Fault` any other failure.

Assumed of the layer below, per unit: a command accepted is answered once
(`MsdTransport`, and `EveryCommandCompletes`).  `INQUIRY` and `REQUEST_SENSE` are never
refused.  Reads that the file system starts inside a callback are actions of
their own (`ReadDevice`).  A command that was given up (`DataGivenUp` of `MsdBot`) does
not occur here.  A device of unknown type, for which the access type is
not initialised (`mu_mscsi.c:573`, `mu_8070i.c:530`), is left out, and SFF-8070i is not
combined with a card reader.  Card readers are covered by the theorems; the runs have one removable disk, and a
removable and a fixed one.

### Host, HostProofs, MCHost

`Host` is an A-device: the OTG state machine and the bus causes of `mu_drc.c`, the bus
state of `mu_hdr.c`, and the host of `mu_hst.c` with the connect and disconnect of
`mu_mapi.c`.  These call each other directly and run in each other's callbacks: a
disconnect destroys devices, changes the OTG state, programs the bus and arms a timer,
whose callback may run before the arming returns.  So the calls are operators from a
driver state (`Driver`) to the next, named as in the code; `Becomes` makes one the next
state; and an action is one turn of the polled ISR (`Poll`), one item of the BSR
(`Resume`, `SessionReq`, `VbusError`, `Suspend`, `Connect`, `Disconnect`, `Reset`,
`Complete`), one timer (`Expire`), or one request of the user.  `MGC_DrcChangeOtgState` is one
operator per target state (`ToIdle`, `ToWaitBcon`, `ToHost`, ...); `MGC_HostEnumerator` is
`EnumSucceeded` and `EnumFailed`.

`port`, `enum` and `ep0` are `MGC_Port`, its enumeration data and its endpoint 0;
`device` is the heap of `MGC_Device` blocks, each with the `MUSB_Device` inside it, which
keeps its contents after it is freed until it is allocated again; `connected` and
`abmAddress` are the list and the address bits; `wild` collects what is done to
memory that is free.  All callbacks share timer 0, so `timer` is one name.  `After` is
`MUSB_BoardArmTimer`: with `hw.blocks` it calls back at once, as the board's version does,
without it the callback is what `Expire` runs later.

`hw` is the controller with the bus and the device.  What its data sheet leaves open is
chosen in `Init`: whether `DEVCTL.HM` is set as soon as a session begins (`early`), and
whether the end of a session is reported as a disconnect (`reports`).  A device is a
disk, a disk with the other command set that can be host (`dual`), or something no driver
takes (`other`); `HasDriver` finds that out with the test program's list.

`hw.clean` is history: no device has left during its enumeration or under a control
transfer, and none came back before the driver had seen it leave.  Beyond that the
code goes wrong in many ways at once (see the findings and hazards), so a run ends
there unless `Surprises` is `TRUE`, as it does once `wild` is not empty.

`RequestBus`, `ResumeBus`, `Relinquish` and `Restart` are calls any client may make between two
items (`mu_cdi.h`).  The test program makes them at prompts that wait inside a callback; that
the callback's remaining steps then come after the request is not modelled.

Left out of `Host`: the B-device's side (a B plug, its session request, `B_WAIT_ACON`), high
speed and test modes, data of descriptors, and transfers on bulk endpoints, which are
in `Pipe`.  The core is multipoint, so the branch of `MGC_HostEnumerator` for another one
(`mu_hst.c:770-775`) is left out, and memory is never short (`mu_hst.c:834-838`, `868-872`).

`WaitsWithSession` says that a port never comes to wait for a device on a bus without power, but
for one step: the one that arms the timeout of the wait on a board that calls it back at once.  What that
step does is what `HostWait` shows.

### TargetList

A host client gives the stack a byte string that says which driver takes which device.
`FindDriver` is its interpreter (`MGC_HostFindDriver`), one `Turn` per turn of its loop, with
`MGC_SkipEntry`; `FillMsdPeripheralList` is the mass-storage driver's part of the list, with
which `Host` decides on a device.  `Meaning` says of a list of entries what `mu_cdi.h`
says: the verdict of the first entry all of whose criteria the device meets, each criterion
about the configuration or interface the entry has come to.  `FirstMatch`, an `ASSUME` of `MCHost` that TLC evaluates before each run of it,
compares the two on all lists of two entries: up to two criteria of six in the first, up to one
of seven in the second, with padding before each, an operand that looks like codes, and accept or
reject; and devices with one and with two configurations.  In the run `Host`,
`DriverIsMeant` says of the shipped list that each device is listed or refused as it means.

Two things are left out of those lists because the code goes wrong there: padding inside an
entry, and an entry that goes to another configuration before the last one.  The device's
interfaces have no alternate settings, which `MGC_FindDescriptor` would count.  A list that
ends in the middle of an entry, or holds a byte that is no code, is not modelled; on the
latter the code loops for ever.

### BulkEnd, BulkEndProofs

`BulkEnd` is the allocator of FIFO RAM (`MGC_AllocateDynamicFifo`), in host role, on the
record of the only bulk endpoint this build has: per side the claim, the share of the used
size, and the base and size registers.  The code places a new FIFO at the sum of the sizes it
counts (`UsedSize`), after a pass that moves FIFOs down (`Compact`); what is counted is
reset by every close (`Reused`), what is in the registers is not.  `BothOpened` and
`BothClosed` are the order in which the mass-storage transport opens and closes its
two pipes.  `Host` keeps the record in `bulk` and applies these operators where the code
does: `MsdConnect`, `MsdDisconnect`, and `FlushedAll` on each path that calls
`MGC_DrcFlushAll`.

When the endpoint is still claimed for a device whose session ended unreported in `A_SUSPEND`,
the next device gets no pipes (outcome "end taken"), and the run ends there.

### Function, and what it extends: FunctionPipes, MsdFn, Descriptors, Chapter9; FunctionProofs, MCFunction

`Function` is the stack as a peripheral, with the RAM disk of `examples/msd/mu_msdfn.c` as its
client, and a USB host.  As in `Host` the calls nest, so they are operators from a driver state
`d` to the next one, in four modules from the bottom up:

* `FunctionPipes`: the two bulk pipes, where `bIsHost` is `FALSE` (`mu_pip.c`, `mu_hdr.c`,
  `mu_mdr.c`), with binding, the FIFO allocator in function role, and `MGC_DrcFlushAll`; what is left of
  an IRP is unsigned in the code, and wraps when a cancelled IRP has left a larger offset (`LoadCount`);
* `MsdFn`: the client, one operator per command and per callback; a command block is its opcode,
  the page or range it selects, its direction, and its two lengths;
* `Descriptors`: how `GET_DESCRIPTOR` picks an entry of the two descriptor buffers;
  `DescriptorsAreFound`, an `ASSUME` of `MCFunction`, compares that with a plain table for every
  type, index, language and several lengths, at both speeds;
* `Chapter9`: endpoint 0, `MGC_FunctionParseSetup`, and the client's own requests.

`Function` adds the state and the actions.  The driver has four: `Register`; `Poll`, which serves all
pending interrupts in the order of `MGC_DrcIsr`; `Bsr`, one item; and `Spin`, a turn of
the loop in which `MGC_MhdrcStartRx` waits for the rest of an IRP whose first packet was there
already.  `port`, `ep0`, `end`, `csr`, `irp`, `msd` and `cbw` are `MGC_Port`, the registers of endpoint 0,
the two sides of `LocalEnds[1]`, the registers of endpoint 1, the client's IRPs, its statics and
`MGC_Cbw`.

The rest is external: the controller's side of the bus (a SETUP is always accepted and clears what
was loaded; data toggles; a STALL reports `SENTSTALL`) and the hosts, of four kinds.  `"early"` hosts end
data stages early and give transfers up at any stage; `"sender"` hosts send data to endpoint 0;
`"hasty"` ones follow a STALL by a SETUP before its interrupt is served; `"disk"` ones enumerate,
send commands, clear halts, reset the transport.  All may reset the bus.  `host.wrong` is history: what
a host got that it should not have got, compared with `Reply9` and `CswIsRight`, which say what
a request and a command are owed, without the driver's state.

`Patient` hosts keep away from places where the driver is known to lose its way: they give a command up
only when the driver has dealt with all that was moved and no data stage is under way, they let the
driver refuse a write beyond the last block before they send its data, they let it become quiet before they
take the STALL of a CBW or the second one of a CSW for the end of a command, and they do not reset the bus while
`MGC_MhdrcStartRx` waits.  What happens otherwise is in the findings and hazards.  All hosts wait
for the driver to take the CBW before they give a command up, and one that lost `SET_ADDRESS` or
`SET_CONFIGURATION` resets the bus.

`nVendorBytes` are class or vendor descriptors of a client other than the example: with them a
configuration needs two packets, which the example's 35 bytes never do.

The client is registered for both speeds, and `VerifyResources` compares both configurations with the
RAM; the bus runs at full speed.  `AnswersItsRequest` compares the answer to `GET_CONFIGURATION`
while the device is configured only: `bConfigValue` is kept over a bus reset (`mu_fun.c:955`), and the
code answers with the old value until the next `SET_CONFIGURATION`.

Left out: endpoint 0 as the recipient of `GET_STATUS`, `SET_FEATURE` and `CLEAR_FEATURE`, which
is an endpoint to the code (`mu_fun.c:598`, `643`, `741`) and is refused in the model; the OTG features
(`mu_fun.c:700-727`); `SET_INTERFACE`, since the only client has no `pfInterfaceSet` and the code calls it
nevertheless (`mu_fun.c:123`, `mu_msdfn.c:612`); high speed (outside `Descriptors`) and test modes;
the bytes of the replies and of the RAM disk; the session request of a B-device.

### Lists, DescriptorSearch

`Lists` is `mu_list.c` on a memory of records, where every other module has sequences: the linked
list whose head record belongs to its owner, and the array that grows.  `ListsAreSequences` and
`ArraysAreSequences`, in `MCPipe`, say that appending, removing and fetching do what they do to
sequences, for every list of up to three items, in every place of its records, and
that no record is lost.  `MUSB_ListInsertItem` is used nowhere and left out.  So is removal of an item that
is not in its list, which reads through a null pointer (`mu_list.c:340`); `RemoveFaults`
says exactly when.  `MGC_HostDestroy` does that to each device (`mu_hst.c:1112`), on a board
where address 0 can be read.

`DescriptorSearch` is the search for interfaces and endpoints of `mu_descs.c`, and the one of
`MUSB_MsdConnect` for the interfaces of its transport (`mu_mapi.c`).  `SearchFindsAll`, in `MCHost`,
says of the configurations listed there that every interface and setting is found, with
just its endpoints, and that pipes belong to one interface in its first setting.  One
exception is spelled out (`Overlooked`): the last setting, if it has no endpoints, is not found
(`mu_descs.c:147-186`).  An instance is made for each usable interface, although the comment in
`MUSB_MsdConnect` speaks of the first; with the one bulk endpoint of this build the second one
fails.  `MUSB_FindDescriptor` and `MUSB_CountAlternates` are used nowhere and left out.

## 4. The runs

| run | bounds | shows |
|---|---|---|
| `Bsr` | ring of 5, counters modulo 4; polled in function role with 3 items per poll, or with interrupts, 3 ISR runs ahead | types; `DrainedBeforePoll`; `NoLostWakeup` across counter wraps; `EventuallyHandled`; the ring implements `BsrFifo` |
| `Bot` | 2 units one at a time, 1 data retry, tags modulo 2, 13-byte data stages | `FlagsNameRequest`, `RecoveryIsQuiet`, `OneCommandOutstanding`, implements `MsdTransport`, `EveryCommandCompletes` |
| `PipePolled` | 3 Tx and 2 Rx IRPs, 2-byte packets, lengths 3 and 2, callbacks start transfers, null packets | types; `DataInPlace`; implements `PipeTransfers` |
| `PipePreempt` | 3 Tx IRPs, 1 Rx, preempting ISR, callbacks start transfers; no halts | `NoneStranded`, `SideProgresses` |
| `PipeUses` | 2 Rx IRPs, 1 Tx, cancellations, halts, removals | `InOnePlace` |
| `ScsiOne` | 1 removable disk, of either command set, 3 changes of medium, 1 retry of each kind, polled | types; `PreventedBeforeMounted`, `CheckTellsTruth`, `EveryUnitAnnounced`, `MountAnswered` |
| `ScsiMixed` (violation) | a removable disk and a fixed one | see the findings |
| `Host` | 2 device blocks, 2 addresses, 2 devices plugged, 2 failed transfers, 2 faults or user requests, 1 retry of each kind, both kinds of timers | types; `ListedAreAlive`, `EnumeratesItsOwn`, `AddressesAreOwned`, `MemoryIsSafe`, `UntilSurprised`, `ResetIsQuiet`, `WaitsWithSession`, `PlugIsResolved`, `FifosApart`, `DriverIsMeant` |
| `HostWait` (violation) | the same, with timers that call back inside the arming | see the findings |
| `HostSurprise` (violation) | the same, with `Surprises` | see the findings |
| `Function` | 4 kinds of hosts, 29 control requests, 19 commands; 4 transfers of an explorer or an enumeration and 2 commands, 1 of them given up, 1 bus reset more; 16384 bytes of FIFO RAM | types; `AnswersItsRequest`, `BusAgreed`, `AnswersItsCommand`, `AlwaysListening`, `EveryoneIsServed` |
| `FunctionImpatient` (violation) | a disk's host that is not `Patient` | see the findings |

Why these bounds are enough.  The ring wraps in every run, and its counters wrap
after four ISR runs, with every backlog up to the bound `MaxOwed`; the proofs
below cover the real sizes.  Two tag values tell the right CSW from the one before it, one
or two retries reach the give-up path, and a second unit is enough for everything
units share.  Two-byte packets with lengths 2 and 3 give the empty, the short, the
exact and the last partial packet; two IRPs on a side give a current and a waiting
one, a third one gives a list with two.  In `Scsi` one retry of each kind reaches both
sides of each limit; three changes of medium are one during the first discovery,
one during a check and one during a mount.  In `Host` two failed transfers exhaust the
one retry and abort an enumeration; two blocks and two addresses are what the old and the
next device need at once, and an aborted enumeration leaks one of the addresses; two faults
or requests give every pair of them, in every state of the port.  A disk and a dual device
have packets of different sizes, so that the second device's FIFOs are placed over larger or
smaller old ones.  In `Function` four transfers are what it takes to configure the device and then
disturb it twice, and the transfer a hasty or early host gives up is followed by up to three more;
two commands are one that is given up or fails and the one that shows what was left
behind; data stages have two packets, so that a reset can fall before, between and after them.

### Findings

The violation runs each show one place where the code does not do what a comment
or header of the repository says; `PROJECT.json` quotes both sides.

* `FunctionImpatient`: cancelling an IRP leaves its offset, so after a reset of the transport in
  the middle of a READ the next reply ends early and is reported as whole.
* `HostWait`: the timeout of `A_WAIT_BCON` is to "exit back to IDLE", but the board calls it back
  inside the arming, before the state is set, so once a device has left the port waits for the
  next one on a bus without a session.
* `HostSurprise`: the flush of all endpoints leaves out endpoint 0, so a control
  transfer whose device has left stays current, and all later ones wait behind it.
* `ScsiMixed`: discovery starts with the last unit's instance instead of the
  first's, so a unit may be announced with another unit's information.

Others are listed as hazards with the reason why no run shows them: after too many
retries a unit stays busy for ever (`DataGivenUp`), a removal leaves the receive offset to the
next device (`DataInPlace` fails with removals), a full ring
reads as empty (`ImplementsFifo` fails with as many items as slots), a data stage of
13 bytes is taken for a CSW and its command never ends (`EveryCommandCompletes` fails without its
exception `Misread`), a Tx pipe
that was halted halts again after its resume (`NoneStranded` fails with halts), two units
used at once share the one CSW (`OneCommandOutstanding` fails with `Concurrent`),
a failed read or write is reported with all its blocks, a null packet is followed
by null packets for ever (`SideProgresses` fails with `AllowShort` and a length of
whole packets), a device that joins in
`A_SUSPEND` is ignored (`PlugIsResolved` fails without the outcome "ignored"), and with
`Surprises` a second enumeration over the first frees blocks twice (`MemoryIsSafe`,
`EnumeratesItsOwn` and `AddressesAreOwned` fail).  A device whose session ended in `A_SUSPEND`
keeps the bulk endpoint claimed (`ListedAreAlive` fails without the outcome "end taken"), and a
client that closes and opens one of two pipes again gets a FIFO over the other's (not
modelled: the transport never does).  A target list with padding inside an entry makes the
interpreter read operands as codes, and an entry that goes to another configuration leaves it
to the entries after it (`FirstMatch` fails with either).

In function role, the client keeps `dwCswDataResidue` from command to command, and some commands do not set
it, or set it wrong, where `mu_bot.h:116` says "transfer length minus amount processed/sent".  `START_STOP_UNIT`,
`WRITE_BUFFER`, a `VERIFY` without data and an unknown opcode report what an earlier command left
(`mu_msdfn.c:824-838`, `1046-1051`); an `INQUIRY` of an unknown page counts with the length of an earlier reply;
`MODE_SELECT` counts with `dwRxCount`, which it does not reset (`948-955`); `READ_FORMAT_CAPACITIES`
takes its length from the wrong byte; a write beyond the end tells nothing of the data it has not taken.
`Tells` names them, and
`AnswersItsCommand` then says nothing of their residue; it fails if any one of them is told.  The
tag and the status of their CSWs are checked like all others.

Also in function role: a host that resets the bus while `MGC_MhdrcStartRx` waits for the rest of an IRP
leaves it waiting for ever (`mu_mdr.c:438`); a SETUP that comes right after a STALL is not seen
until another interrupt, so a hasty host may wait in vain (`EveryoneIsServed` exempts it); and so may
one that wants to send the data of a command that is not understood, because the driver halts the
IN pipe only.  Seen in the code and not in a run: OUT data of a control transfer longer than the
client's buffer is left in the FIFO of endpoint 0 (`mu_drc.c:473`); registration compares each
endpoint with the free RAM on its own (`mu_cntlr.c:1104`), so a client whose endpoints do not fit
together may be accepted and cannot be configured (the example's always fit, since its high-speed
configuration, which is compared too, has endpoints of 512 bytes); `REQUEST_SENSE` always answers "illegal request"
(`mu_msdfn.c:817`); an alternate setting gets overlapping FIFOs (`mu_fun.c:94`, see the hazards).

## 5. Fairness

* `BsrQueue`: the main loop never stops, and an ISR returns.
* `MsdBot`: a transfer ends.  Bulk and control endpoints are opened with NAK limits
  (`mu_mbot.c:286-294`, `mu_hdr.c:622-634`, `697-709`), and the controller gives up
  after three errors.
* `Pipe`: the same for packets, the ISR serves both sides whenever it runs
  (`mu_drc.c:229-296`), and the main loop keeps running.  Nothing is assumed of
  clients: they need not start, cancel or resume anything.
* `Scsi`: the transport answers each command.  That is weak fairness of `Completion(l)`,
  written out as `[]<>~Owed(l) \/ []<><<Completion(l)>>_vars`: a completion is enabled
  exactly while a command is in flight.  The file system and the user owe nothing.
* `Function`: the board polls, the background runs, `MGC_MhdrcStartRx` polls, and a client is
  registered; the host goes on with what it has begun and with what it still wants (`HostStep`), but
  need not give up or reset anything.  As `GiveUp` is not fair, a host that waits in vain
  violates `EveryoneIsServed`.  The driver's conditions are weak fairness with the guards written
  out, since `ENABLED` of the nested operators would be evaluated in every state.
* `Host`: none.  Its progress is stated as a safety property of the states in which
  nothing is left to do (`Quiet`, `PlugIsResolved`): TLC's treatment of fairness evaluates each
  nested call again for each action, which is out of reach for this module.  That the
  queue is emptied and timers expire is then an assumption outside the model.

`SideProgresses` speaks of a side, not of an IRP: `MUSB_StartTransfer` on an idle
side goes ahead of the IRPs that wait (`mu_pip.c:624`), so clients that keep
starting transfers may starve one.

## 6. What is proved

`BsrQueueProofs` proves, for every ring length, counter width, number of items per ISR
run and interleaving that `BsrQueueAssumption` admits:

* `TypeCorrect`: the type invariant;
* `WakeupKept`: `NoLostWakeup`;
* `PolledDrains`: `DrainedBeforePoll` in the polling loop;
* `RingIsFifo`: under `Capacity` (a ring longer than everything that may be queued
  before a pass ends) the ring implements `BsrFifo`.

`NoLostWakeup` and `DrainedBeforePoll` are not inductive.  `IInv` adds `CounterInv`, which
ties the three 8-bit counters to the number `owed` of passes requested and not yet
run (`bBsrOver` is set exactly while the request counter has wrapped and the other
has not); `ControlInv`, which says where in the main loop each level can be; and
`LoadInv`, which bounds the items in the ring by the passes owed.  The refinement
follows from `LoadInv`: below capacity the indices never meet by an insertion, so an
insertion appends to `Pending`.

The assumptions are those of the module, plus `Capacity` for `RingIsFifo`.  The shipped
sizes satisfy it in the polling loop: `mu_cntlr.c` asks for 80 slots, and one ISR
run queues at most 38 items.

`MsdBotProofs` proves the safety of `MsdBot` for every number of units, tags, retries
and data lengths, provided clients use one unit at a time (`~Concurrent`).  With one
unit that is no restriction, since a busy unit refuses commands; on a device with
several units `tst_msd.c` may use two at once (see the hazards), and then
`OneCommandOutstanding` fails:

* `TypeCorrect`: the type invariant;
* `FlagsAreRight`: `FlagsNameRequest`;
* `RecoveryAlone`: `RecoveryIsQuiet`;
* `OneOutstanding`: `OneCommandOutstanding`;
* `TransportKept`: the driver implements `MsdTransport`.

None of the last four is inductive.  `IInv` adds `FlightInv` (which one transfer can
be in flight in which stage, the heart of the argument: every callback starts
at most one successor, after its own IRP has ended), `ClientInv` (a busy unit is the
one whose command is outstanding), `RetryInv` (the retry counters stay within
their limits, and a control retry only follows a request that failed), and `DeviceInv`
(a CSW with the current tag and status 0 is in the device only if it has served the
command).  `TransportKept` follows from the last one and from `OneCommandOutstanding`.

`BulkEndProofs` proves, for every size of the RAM and every packet size in the
driver's table:

* `NeverMoves`: between two calls of the transport the allocator has no FIFO to move.  If it had,
  it would wait in a loop for a flag that only the polled ISR sets;
* `OpenedApart`: the FIFOs of two pipes that could be opened lie apart, inside the RAM;
* `StaysTidy`: the condition of both, `Tidy`, holds at the start and is kept.

The argument is in `Placed` and `Tidy`.  The receive side is opened first, so it always
starts right after endpoint 0's FIFO, and the other lies above it, also when the registers
still hold the last device's values; and as both sides are claimed or neither is, the
counted size is that of endpoint 0 alone whenever the first pipe is opened.  Both fail for a
client that opens and closes one side alone, which is why the condition is needed.
These theorems are about the operators.

`HostProofs` proves from them `FifosAlwaysApart`, that is `FifosApart` of `Host`, for any number of blocks, addresses,
configurations and retries, either kind of timers, any packet sizes, and with `Surprises` too: whatever
devices, users and the bus do, and whenever a device leaves.  The calls of `Host` nest, so the invariant is about a driver
state (`Fine`, whose first part is `Sound`), and the lemmas go up with the calls: what an operator leaves alone, then that it
keeps `Sound`, then `Fine`.  Besides the types, `Sound` says that the bulk end is `Tidy` and its FIFOs apart while any block has an instance
(`FifoOk`), that endpoint 0 has a transfer if the wire has one, and that the enumerator has a block while it has a
transfer, a completion or a timer under way (`Enumerates`).  The last is needed since the enumerator's steps
write to its block, whatever has become of it: a device that is gone, or a block that was freed, does not
spoil the argument.  What carries it is that an instance is made only after both pipes were opened, and that the pipes are closed
with it; a device that finds the end taken by another instance leaves the FIFOs as they are.  `RoomForOne`
assumes that the RAM has room for the pipes of one device, which 16384 bytes have for every packet size of the table.
Blocks that are freed twice and late callbacks, once a device has left early, are not excluded and not needed; the step
that does so is the last one the model follows.
The fold over the list of devices in `MGC_HostDestroy` is proved through the function it computes (`InTurn`).

`TransfersComeBack`, of the same module, is `UntilSurprised`, with `Surprises` too.  `MGC_DrcUsbIsr` takes an interrupt
of endpoint 0 for one of a peripheral when `bIsHost` is FALSE, and the transfer is then never completed, so the part
of `Sound` it needs, `Hosts`, says when the driver is host: whenever a device is attached whose CONNECT it has taken.
A transfer is with such a device, since one that is started without a device, or whose device goes, ends the clean
history; the rest of the argument (`Answers`, `Idles`) is that what a turn of the ISR does about a reset before it comes
to endpoint 0 does not change that.  A controller is only stopped after its session, so without a device.

The other theorems of the module assume `Surprises = FALSE`, where the model ends with the step in which a device leaves
under an enumeration or a control transfer; with surprises the three properties are false (see the hazards).
`TypeCorrect` is `TypeOK`, `BlockIsItsOwn` is `EnumeratesItsOwn`, and `AddressesDiffer` is `AddressesAreOwned`.  None is
inductive: a second enumeration, begun before the first is over, would take its block and address.  So the second part of `Fine`,
`Alone`, says two things.  Whatever happens, the devices of the list have blocks and addresses of their own (`ListOk`), and so
has the enumerator while it is at work (`Owns`), whose counters have bounds (`Bounds`).  And as long as no device has left early
(`Calm`), a newcomer is on its way once: as a CONNECT in the registers or in the queue, with the timer, or as a control
transfer, and in one of these places only (`One`); it is then attached and nothing has become of it yet; a DISCONNECT on the
way finds it gone; a transfer that configures a device is for one of the list; and what the enumerator has reached fits
its counters and the address of its block (`Staged`).  While a callback has taken the newcomer from where it waited, it is in none of these
places, which is the other case of `Fine` (`Hand`): each operator below a callback starts from it and puts the newcomer to
its next place or ends its history.  The initial bus state, every call of the ISR, the background, timers, application and
bus moves keep `Fine`, also in the step in which a device does leave early; without surprises the model makes no
step after that one.

`PipeProofs` proves `OnePlace`, that is `InOnePlace`, for every set of IRPs, every length and
packet size: in the polling loop with every choice of `Uses`, and with a preempting ISR where
callbacks start transfers and nothing is cancelled, halted or unplugged (`PipeAssumption`). No
IRP is in two of the places current, waiting, completed and being appended, and none is lost
before its device is. `IInv` says of each state of an IRP where it is: a pending one is held by
its own side (`SideInv`) or is the one being appended (`MainInv`), an ended one waits for its
callback (`CompletedInv`), and what is held is pending. Two parts carry the argument. `HeldInv`
allows a pending IRP to be nowhere only when a disconnect is all the queue holds; `MainInv`
says where the main loop is, without which `MUSB_StartTransfer` could resume on a side that has
changed more than the ISR can change it. The lemmas about lists hold for any sequence without
duplicates. The theorem is about the module as it stands, with the guards that keep stale
offsets finite (section 3).

`PipeDataProofs` proves the rest of what the runs of `Pipe` check, but for `SideProgresses`:

* `DataKept`: `DataInPlace`, every byte of an IRP is moved once, to or from its own place;
* `TypeCorrect`: the type invariant;
* `TransfersKept`: `Pipe` implements `PipeTransfers`;
* `NoneLeft`: `NoneStranded`, no IRP waits on a side that nothing will start.

The first three assume `Shipped`, that clients do no more than start transfers, from callbacks too:
that is what the drivers of the repository do while a device stays.  They are false with the other
uses, since a cancelled or removed IRP leaves its offset to the next one (see the hazards).  `NoneLeft`
assumes that no pipe is halted, as `bStopTx` is never reset.  `DInv` ties the data to the turns of
the hardware: where a side is calm (`CalmInv`), how the offset, the packet on its way and the bytes moved
add up at each step of a turn (`TurnInv`, `SendingInv`, `ReceivingInv`), and that an IRP that is not current
has moved nothing or all it reports (`HistoryInv`).  A null packet is the case that makes the
sums hard: it is sent when all bytes are, and must not count.  `TurnsInv` says of each side that a current IRP is
busy or has an interrupt to be served (`Active`), and that a list that is not empty has a current IRP before
it or a callback after which the BSR looks again (`Awaited`).  `IrpsAssumption`, that IRPs are finitely many,
serves the type invariant alone.

`FunctionProofs` proves `Listening`, that is `AlwaysListening` of `Function`, for every host, every set of
requests, commands, lengths and RAM sizes, and whether hosts are patient or not: once everything is
served, a configured disk waits for exactly one thing, a packet to send or one to receive, on pipes that are claimed
and whose FIFOs lie apart.  It follows from an invariant in which the one IRP is a token.  `One` says where it is: with the pipes,
with the background as a completed item, or with the loop that polls for its next packet; each callback
takes it and starts exactly one successor.  `DriverOk` is that for the driver: one token at most, and exactly one
when configured, with the FIFOs in their places (`Configured`).  What can break it is a callback or a
reset of the transport that finds a second IRP, so the other half, `ListeningInv`, is about what the bus can bring
when: a reset of the transport never meets a packet that is still to be received
(`ResetComesAfterPackets`); a halt is not cleared, which sends the status again, while a packet that the host took
is still to be told (`TakenIsTold`); STALLs are told before anything else happens (`StallsAreTold`);
and only hosts of a disk use the pipes at all, with the requests in `Asks` (`PipesAreForDisks`, `AsksAreKnown`).
The lemmas go up with the calls, from the registers to the pipes, the client, endpoint 0 and the ISR; for each
operator on a driver state one says what it leaves alone and where it leaves the token.

`Agreeing`, of the same module, is `BusAgreed`: once everything is served, driver and host agree on the address and on
the configuration.  They disagree while a request is under way, and that is what `AgreedInv` is about: `Settled` is an
agreement with nothing asked; in `AddressAsked` and `ConfigAsked` the driver has served the SETUP and the host waits
for the status stage, and in `AddressTold` it has had that, but the interrupt in which the driver uses the address has
not been served.  `AddressOk` and `ConfigOk` say what both sides hold in each.  The rest says
when `MGC_Port` still remembers an older request, which is what the code could go wrong with: what waits in CSR0 is what
the host asked last (`SetsAreKnown`), `wSetupDataIndex` is forgotten when a transfer is over, however it ended
(`SetupBeginsAnew`, `RefusedIsOver`, `EndedIsOver`, `LastIsOver`), and data that come after a SETUP come in order
(`OutIsKnown`).  It rests on `RequestsAssumption`: SET_ADDRESS and SET_CONFIGURATION have no data stage, a host assigns
the address it will use, and what is sent to endpoint 0 fits into the 256 bytes of the control buffer.

`ScsiProofs` proves of the command sets, for every retry limit, either command set and every kind of unit:

* `TypeCorrect`: the types, for devices of any number of units; the retry counters stay within their limits;
* `MountedWhenPrevented`: `PreventedBeforeMounted`, on devices with one unit;
* `ChecksTellTruth`: `CheckTellsTruth`, on devices with one unit.

One unit is the common device, and the restriction is the code's: with several an instance is filled by the
discovery of another unit (see the findings), and what the two properties say depends on which kinds follow each
other.  The invariant is `One`.  `Settled` holds between any two callbacks: instance and volume agree on what was
announced, the command in flight is REQUEST_SENSE exactly when `bError` is set, and while the instance waits for the
answer of its mount nothing but PREVENT, REQUEST_SENSE or a transfer of the file system can be in flight; the first
property follows from that last part.  `Checking` holds during a check that nothing has disturbed: it names the
commands each state can have in flight (`Answering`), which a refused command would break, and says where the check is
heading (`OnCourse`): with a medium an attention condition is reported before the capacity is read, so the capacity is
known when FIRST_TEST passes; without one the capacity is lost when READ_CAPACITY fails, so neither FIRST_TEST nor block 0
can announce a medium.  Both properties are about whole callbacks, in which the file system calls back into the driver: `AnsweredOne`
is that argument once for all states, over lemmas about what mounting, adding and announcing do (`Quiet`,
`Calm`), and each state's own lemma is about its step alone.  The fold that announces all units is proved through the
function it computes (`InTurn`).

Only model-checked: all liveness, which is out of the prover's reach; `TypeOK`, `AnswersItsRequest`
and `AnswersItsCommand` of `Function`; and of `Host` `ListedAreAlive`, `MemoryIsSafe`, `ResetIsQuiet`, `WaitsWithSession`, `PlugIsResolved`
and `DriverIsMeant`, whose proofs need more about the class driver's instances and about what each OTG state allows to be
pending.  What
`Lists`, `Descriptors`, `DescriptorSearch` and `TargetList` compute is checked on the bounded inputs of
their assumptions: they recurse over data, which is beyond the prover.

## 7. What is not modelled

`PROJECT.json` lists every component with what is left out of it.  In short:

* the B-device's side of the OTG state machine (session request, `B_WAIT_ACON`), high speed and test
  modes, suspend as a peripheral;
* alternate settings in function role, and clients with other pipes than two bulk pipes, in both roles:
  the repository has none that could use them;
* DMA, hubs, isochronous transfers and the scheduler, which are not compiled in;
* register layout, timing, descriptors' text, and the menus of the test program, which carry no control
  logic of their own; the support library (bit fields, strings, RAM files) and board start-up.
