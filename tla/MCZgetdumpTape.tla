---------------------------- MODULE MCZgetdumpTape ----------------------------
(***************************************************************************)
(* ZgetdumpTape on the tape libraries of MCZgetdumpData.                   *)
(***************************************************************************)
EXTENDS ZgetdumpTape, MCZgetdumpData

\* An operator who mounts wrong tapes can keep zgetdump waiting forever:
\* explore up to MaxLoads tapes per run.
MaxLoads == 4
LoadBound == Len(loaded) <= MaxLoads
=============================================================================
