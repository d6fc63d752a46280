------------------------------- MODULE MCScsi -------------------------------
EXTENDS Scsi

OneDisk == 0 :> "removable"
MixedDisks == 0 :> "removable" @@ 1 :> "fixed"
=============================================================================
