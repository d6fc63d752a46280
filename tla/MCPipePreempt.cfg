\* Preempting interrupts; callbacks start transfers; three IRPs on the Tx side and one on the Rx side.
SPECIFICATION FairSpec
CONSTANTS
  out = out
  cbw = cbw
  cbw2 = cbw2
  in = in
  csw = csw
  None = None
  Irps = {out, cbw, cbw2, in}
  Dir <- Directions
  dwLength <- Lengths
  PacketSize = 2
  AllowShort = {}
  Uses = {"chain"}
  Preempt = TRUE
INVARIANT NoneStranded
PROPERTY SideProgresses
