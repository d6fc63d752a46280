\* Cancellations, halts and removals on both sides.
SPECIFICATION Spec
CONSTANTS
  out = out
  cbw = cbw
  cbw2 = cbw2
  in = in
  csw = csw
  None = None
  Irps = {cbw, in, csw}
  Dir <- Directions
  dwLength <- Lengths
  PacketSize = 2
  AllowShort = {}
  Uses = {"cancel", "halt", "unplug"}
  Preempt = FALSE
INVARIANT InOnePlace
VIEW WithoutData
