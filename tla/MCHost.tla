------------------------------- MODULE MCHost -------------------------------
(***************************************************************************)
(* Instances of Host for TLC: the two kinds of disks have packets of       *)
(* different sizes.  Then, lists of two entries and devices for the         *)
(* interpreter of the targeted peripheral list, and configurations for     *)
(* the search of interfaces and endpoints.                                 *)
(***************************************************************************)
EXTENDS Host, DescriptorSearch

InSizes == [k \in AllKinds \cup {"none"} |-> IF k = "disk" THEN 64 ELSE 8]
OutSizes == [k \in AllKinds \cup {"none"} |-> IF k = "disk" THEN 64 ELSE 32]

Criterion(op, arg) == [op |-> op, arg |-> arg]
\* The vendor's two bytes are those of ACCEPT and REJECT.
SampleCriteria ==
  {Criterion(Target.CLASS, 0), Criterion(Target.CLASS, MassStorage),
   Criterion(Target.INTERFACE, 0), Criterion(Target.INTERFACE, 1),
   Criterion(Target.SUBCLASS, Scsi), Criterion(Target.VID, 9 + 256 * 10)}
UpTo(n, S) == UNION {[1 .. k -> S] : k \in 0 .. n}
\* Only a last entry names a configuration: it stays for the entries after it.
SampleLists ==
  [pad : {0, 1}, criteria : UpTo(2, SampleCriteria), verdict : {0, NoDriver}]
    \X [pad : {0, 1}, criteria : UpTo(1, SampleCriteria \cup {Criterion(Target.CONFIG, 1)}),
        verdict : {1}]

Interface(bClass, bSubClass) == [bClass |-> bClass, bSubClass |-> bSubClass, bProtocol |-> Bot]
SampleDevice(idVendor, bClass, configs) ==
  [idVendor |-> idVendor, idProduct |-> 0, bcdDevice |-> 0, bClass |-> bClass,
   bSubClass |-> 0, bProtocol |-> 0, configs |-> configs]
SampleDevices ==
  {SampleDevice(9 + 256 * 10, 0, <<<<Interface(MassStorage, Scsi)>>,
                                   <<Interface(3, 1), Interface(MassStorage, Scsi)>>>>),
   SampleDevice(9, MassStorage, <<<<Interface(MassStorage, Sff8070i)>>>>)}

\* Of no state, so TLC evaluates it once, before it begins: the interpreter finds the first
\* entry that the device meets, its driver and where the entry begins, wherever an entry
\* before it stopped to match; it neither falls into the next entry nor keeps the interface
\* it had come to (mu_hst.c:425-658).
ASSUME FirstMatch == Misread(SampleLists, SampleDevices) = {}

-----------------------------------------------------------------------------
Endpoint(isBulk, isIn) ==
  [Descriptor("ENDPOINT", 0, 0) EXCEPT !.bulk = isBulk, !.in = isIn]
SampleEnds == {<<>>, <<Endpoint(TRUE, TRUE), Endpoint(TRUE, FALSE)>>,
               <<Endpoint(FALSE, TRUE), Endpoint(TRUE, FALSE), Endpoint(TRUE, TRUE)>>}
Setting(n, alternate, storage, class, ends) ==
  <<[Descriptor("INTERFACE", n, alternate) EXCEPT !.storage = storage,
                                                  !.bNumEndpoints = Len(ends)]>>
    \o class \o ends
\* With a descriptor of a class, or with two alternate settings.
SampleInterfaces(n) ==
  {Setting(n, 0, s, c, e) : s \in BOOLEAN, c \in {<<>>, <<Descriptor("CLASS", 0, 0)>>},
                            e \in SampleEnds}
    \cup {Setting(n, 0, s, <<>>, e) \o Setting(n, 1, s, <<>>, f) :
            s \in BOOLEAN, e \in SampleEnds, f \in SampleEnds}
SampleConfigs ==
  {<<Descriptor("CONFIG", 0, 0)>> \o i \o j :
     i \in SampleInterfaces(0), j \in SampleInterfaces(1) \cup {<<>>}}

\* Every interface is found in every setting, but a last setting without endpoints, and
\* every endpoint in its own interface (mu_descs.c:115-252).  The mass-storage driver gets
\* the bulk endpoints of a mass-storage interface (mu_mapi.c:179-235).
ASSUME SearchFindsAll ==
  \A c \in SampleConfigs : FindsInterface(c) /\ FindsEndpoints(c) /\ FindsStorage(c, 2)
=============================================================================
