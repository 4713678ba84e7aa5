------------------------------ MODULE MC_Updates -----------------------------
(* One desktop as the workflow builds it, which asks the staged channel, and a *)
(* run of the workflow beside an administrator, who may do by hand what a      *)
(* second run of the tag would.                                                *)
EXTENDS DesktopRelease

CONSTANTS Mac, w1

\* The second number has more digits than the delivered one's.
MCFirst == <<1, 9, 0>>
Ten == [version |-> <<1, 10, 0>>, targets |-> {"darwin-aarch64", "windows-x86_64"}]
Two == [version |-> <<2, 0, 0>>, targets |-> {"windows-x86_64"}]
MCUploads == {Ten, Two}
MCBuilt == [w \in {w1} |-> Ten]
MCAsks == [c \in Clients |-> [channel |-> ReleaseChannel, target |-> "darwin-aarch64"]]
=============================================================================
