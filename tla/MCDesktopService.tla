--------------------------- MODULE MCDesktopService ---------------------------
(* Instances of DesktopService for TLC.                                     *)
EXTENDS DesktopService, TLC

CONSTANTS window, tray, local, lan

OneCaller == {window}
TwoCallers == {window, tray}
TwoAddresses == {local, lan}
CutOff == {"cutOff"}
AnyFailure == {"refused", "cutOff"}
CallerSymmetry == Permutations({window, tray})
=============================================================================
