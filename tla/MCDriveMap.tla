----------------------------- MODULE MCDriveMap -----------------------------
(* Instances of DriveMap for TLC. *)
EXTENDS DriveMap

CONSTANTS asus, bridged, liteon

\* Two drives of one model and a third of another, of which two at a time are
\* attached.  The USB bridge of one drive garbles the revision in -scanbus.
MCDrives    == {asus, bridged, liteon}
MCLetters   == {4, 5}
MCAddresses == {1, 2}
MCModel     == [d \in MCDrives |-> IF d = liteon THEN "iHAS" ELSE "SDRW"]
MCWinRev    == [d \in MCDrives |-> "B201"]
MCScanRev   == [d \in MCDrives |-> IF d = bridged THEN "0001" ELSE "B201"]
=============================================================================
