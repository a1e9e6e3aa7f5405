------------------------------ MODULE MCZgetdump ------------------------------
(***************************************************************************)
(* Zgetdump on the tapes and disks of MCZgetdumpData.                      *)
(***************************************************************************)
EXTENDS Zgetdump, MCZgetdumpData
=============================================================================
