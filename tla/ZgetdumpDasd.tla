----------------------------- MODULE ZgetdumpDasd -----------------------------
(***************************************************************************)
(* zgetdump (src/zdump/zgetdump.c) on a single-volume DASD dump, a dump    *)
(* partition or a file: main's copy path with get_dump's DASD loop, its   *)
(* -i path, and -i -a, which refuses a disk.                               *)
(*                                                                         *)
(* Sizes are in pages of 4 KiB; a copy block (BLOCK_SIZE) is 8 pages.  A  *)
(* disk holds the dump header, then devsize pages: the dump's memory, the *)
(* end marker right after it (at dh_header_size + dh_memory_size) if the  *)
(* dump was completed, and whatever follows.                              *)
(***************************************************************************)
EXTENDS Integers

CONSTANTS
  Disks  \* [memsize, devsize, marker]: dump size, pages after the header, marker written

DasdBlock == 8
DasdMin(a, b) == IF a < b THEN a ELSE b

VARIABLES
  mode,      \* "copy", "check", "checkall", from the options
  disk,      \* the disk, fixed
  dpc,       \* "copy", "marker", "check", "checkall", "done"
  di,        \* get_dump's i: the pages read and written to stdout
  drc,       \* main's return code
  dverdict   \* what zgetdump has told the user

dasdVars == <<disk, dpc, di, drc, dverdict>>

\* dump_end_times at dh_header_size + dh_memory_size.
DasdMarker == disk.marker

DasdInit ==
  /\ disk \in Disks
  /\ dpc = CASE mode = "copy" -> "copy" [] mode = "check" -> "check" [] OTHER -> "checkall"
  /\ di = 0 /\ drc = 0 /\ dverdict = "none"

\* Mutant of DasdReadBlock: the loop goes on while i <= dh_memory_size.
DasdReadBlockPastEnd ==
  /\ dpc = "copy"
  /\ LET n == DasdMin(DasdBlock, disk.devsize - di) IN
       /\ di' = di + n
       /\ dpc' = IF di + n <= disk.memsize /\ n # 0 THEN "copy" ELSE "marker"
  /\ UNCHANGED <<mode, disk, drc, dverdict>>

\* One turn of get_dump's do-while loop for IS_DASD: read a block (less at
\* the end of the device, nothing past it), write what was read, and go
\* on while i < dh_memory_size and the read returned data.
DasdReadBlock ==
  /\ dpc = "copy"
  /\ LET n == DasdMin(DasdBlock, disk.devsize - di) IN
       /\ di' = di + n
       /\ dpc' = IF di + n < disk.memsize /\ n # 0 THEN "copy" ELSE "marker"
  /\ UNCHANGED <<mode, disk, drc, dverdict>>

\* The lseek to the end marker and check_and_write_end_marker, whose result
\* main ignores.
DasdCheckMarker ==
  /\ dpc = "marker"
  /\ dverdict' = IF DasdMarker THEN "valid" ELSE "invalid"
  /\ dpc' = "done"
  /\ UNCHANGED <<mode, disk, di, drc>>

\* -i on a disk: lseek to the end marker, dump_end_times.
DasdCheckInfo ==
  /\ dpc = "check"
  /\ IF DasdMarker THEN dverdict' = "valid" /\ UNCHANGED drc
                   ELSE dverdict' = "invalid" /\ drc' = 1
  /\ dpc' = "done"
  /\ UNCHANGED <<mode, disk, di>>

\* -i -a on a disk: "used for validation of multi-volume tape dumps".
DasdCheckAll ==
  /\ dpc = "checkall"
  /\ drc' = 1 /\ dpc' = "done"
  /\ UNCHANGED <<mode, disk, di, dverdict>>

DasdDone == dpc = "done" /\ UNCHANGED <<mode, disk, dpc, di, drc, dverdict>>

DasdNext == DasdReadBlock \/ DasdCheckMarker \/ DasdCheckInfo \/ DasdCheckAll \/ DasdDone

(***************************************************************************)
(* A copy of a disk dump declared valid wrote exactly the dump's memory    *)
(* after the header: get_dump's loop stops at dh_memory_size, so the end  *)
(* marker that follows is not copied as memory.                            *)
(***************************************************************************)
DasdValidCopyIsDump ==
  (mode = "copy" /\ dverdict = "valid") => di = disk.memsize
=============================================================================
