\* The shipped polling loop; callbacks start transfers; whole packets, with null packets.
SPECIFICATION Spec
CONSTANTS
  out = out
  cbw = cbw
  cbw2 = cbw2
  in = in
  csw = csw
  None = None
  Irps = {out, cbw, cbw2, in, csw}
  Dir <- Directions
  dwLength <- Lengths
  PacketSize = 2
  AllowShort = {cbw, csw}
  Uses = {"chain"}
  Preempt = FALSE
INVARIANT TypeOK
INVARIANT DataInPlace
PROPERTY ImplementsTransfers
