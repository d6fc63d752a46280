-------------------------- MODULE DescriptorSearch --------------------------
(***************************************************************************)
(* The search for an interface and for its endpoints in a configuration    *)
(* that a device has sent (cd/mu_descs.c), and the search of the           *)
(* mass-storage driver for the pipes of its transport                      *)
(* (drivers/msd/mu_mapi.c).  A configuration is the sequence of its        *)
(* descriptors, the first being its own, and wTotalLength is their sum; an *)
(* offset is the number of descriptors passed.  A descriptor of length 0   *)
(* is of type BROKEN.                                                      *)
(***************************************************************************)
EXTENDS Naturals, SequencesExt, FiniteSetsExt

NotFound == 0   \* NULL; a descriptor is its place

Descriptor(type, number, alternate) ==
  [type |-> type, number |-> number, alternate |-> alternate,
   bNumEndpoints |-> 0, storage |-> FALSE, bulk |-> FALSE, in |-> FALSE]

\* The first of the given places after w, unless a broken descriptor is before it.
Scan(config, w, places) ==
  LET broken == {k \in DOMAIN config : config[k].type = "BROKEN"}
      first == Min({k \in places \cup broken : k > w} \cup {Len(config) + 1})
  IN  IF first \in places \ broken THEN first ELSE NotFound

\* The interface's number is found first, then, after it, the alternate setting of
\* whatever interface.  A descriptor at the very end counts in the first search only.
FindInterfaceDescriptor(config, bInterfaceNumber, bAlternateSetting) ==
  LET interface == {k \in DOMAIN config : config[k].type = "INTERFACE"}
      numbered == {k \in interface : config[k].number = bInterfaceNumber}
      alternate == {k \in interface : config[k].alternate = bAlternateSetting}
      first == Scan(config, 1, numbered)
      other == Scan(config, first, alternate)
  IN  CASE first = NotFound -> NotFound
        [] first = Len(config) -> IF first \in alternate THEN first ELSE NotFound
        [] first \in 1 .. Len(config) - 1 /\ bAlternateSetting = 0 -> first
        [] OTHER ->
             IF other \in numbered /\ other # Len(config) THEN other ELSE NotFound

\* The search ends at the next descriptor of the block's own type.
FindDescriptorInBlock(config, block, type, bIndex) ==
  LET found[k \in block .. Len(config)] ==
        IF k = block THEN 0 ELSE found[k - 1] + (IF config[k].type = type THEN 1 ELSE 0)
      at[k \in block + 1 .. Len(config) + 1] ==
        CASE k > Len(config) -> NotFound
          [] k <= Len(config) /\ config[k].type \in {"BROKEN", config[block].type} -> NotFound
          [] k <= Len(config) /\ config[k].type = type /\ found[k] = bIndex + 1 -> k
          [] OTHER -> at[k + 1]
  IN  at[block + 1]

FindEndpointDescriptor(config, interface, bEndpointIndex) ==
  FindDescriptorInBlock(config, interface, "ENDPOINT", bEndpointIndex)

\* The endpoints of one interface, for Bulk-Only Transport.
BotEnds(config, interface) ==
  LET ends == {FindEndpointDescriptor(config, interface, bEnd) :
                 bEnd \in 0 .. config[interface].bNumEndpoints - 1}
      bulk == {e \in ends \ {NotFound} : config[e].bulk}
      lastOf(S) == IF S = {} THEN NotFound ELSE Max(S)
  IN  [interface |-> interface, pInEnd |-> lastOf({e \in bulk : config[e].in}),
       pOutEnd |-> lastOf({e \in bulk : ~config[e].in})]

\* MUSB_MsdConnect makes an instance for every interface it can use.
BotInterfaces(config, bNumInterfaces) ==
  LET at(bIndex) == FindInterfaceDescriptor(config, bIndex, 0)
      usable == {bIndex \in 0 .. bNumInterfaces - 1 :
                   /\ at(bIndex) # NotFound
                   /\ config[at(bIndex)].storage /\ config[at(bIndex)].bNumEndpoints >= 2}
  IN  {e \in {BotEnds(config, at(bIndex)) : bIndex \in usable} :
         e.pInEnd # NotFound /\ e.pOutEnd # NotFound}

-----------------------------------------------------------------------------
(* What the searches are for, of a configuration whose interfaces come in   *)
(* the order of their numbers, each with its alternate settings in theirs.  *)

\* The interface a descriptor belongs to.
OwnerOf(config, k) ==
  Max({NotFound} \cup {j \in 1 .. k : config[j].type = "INTERFACE"})

\* The last alternate setting is not found if it has no endpoints.
Overlooked(config, k) == k = Len(config) /\ config[k].alternate # 0

FindsInterface(config) ==
  \A n \in 0 .. 2, alt \in 0 .. 2 :
    LET is == {k \in DOMAIN config : /\ config[k].type = "INTERFACE"
                                     /\ config[k].number = n /\ config[k].alternate = alt
                                     /\ ~Overlooked(config, k)}
    IN  {FindInterfaceDescriptor(config, n, alt)} \ {NotFound} = is

FindsEndpoints(config) ==
  \A i \in DOMAIN config : config[i].type = "INTERFACE" =>
    {FindEndpointDescriptor(config, i, n) : n \in 0 .. config[i].bNumEndpoints - 1}
      = {k \in DOMAIN config : config[k].type = "ENDPOINT" /\ OwnerOf(config, k) = i}

\* The driver uses an interface in its first setting, with endpoints of its own.
FindsStorage(config, bNumInterfaces) ==
  \A e \in BotInterfaces(config, bNumInterfaces) :
    /\ config[e.interface].storage /\ config[e.interface].alternate = 0
    /\ OwnerOf(config, e.pInEnd) = e.interface /\ config[e.pInEnd].bulk /\ config[e.pInEnd].in
    /\ OwnerOf(config, e.pOutEnd) = e.interface /\ config[e.pOutEnd].bulk /\ ~config[e.pOutEnd].in
=============================================================================
