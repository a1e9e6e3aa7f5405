------------------------------ MODULE ZgetdumpMv ------------------------------
(***************************************************************************)
(* zgetdump (src/zdump/zgetdump.c) on a multi-volume DASD dump:            *)
(* get_mvdump_info, then mvdump_check_or_copy, once copying the dump to    *)
(* stdout (mvdump_copy, check_and_write_end_marker) and once checking it   *)
(* with -i.  Both invocations run on the same disks, as two processes.    *)
(*                                                                         *)
(* Sizes are in units of 512 bytes, the smallest DASD block: a header is  *)
(* 8 units (HEADER_SIZE), a copy block 64 (BLOCK_SIZE), a page 8.  Each    *)
(* partition starts with the dump header and holds the dump's data from    *)
(* there, as the dumper wrote it; the dumper is not in this repository, so *)
(* where it put the end marker is part of the layout.                     *)
(***************************************************************************)
EXTENDS Integers, Sequences

CONSTANTS
  Layouts  \* [memsize, vols (partition descriptions), marker (<<vol, offset>>)]

HeaderSize == 8
BlockSize == 64
PageSize == 8

\* (n >> 12) << 12 on a size in units.
PageFloor(n) == (n \div PageSize) * PageSize
MinOf(a, b) == IF a < b THEN a ELSE b

VARIABLES
  layout,                        \* the disks, fixed
  cpc, ci, partOff, total, done, out, crc,   \* the copying process
  kpc, ki, ktotal, krc           \* the checking process (-i)

vars == <<layout, cpc, ci, partOff, total, done, out, crc, kpc, ki, ktotal, krc>>

VolCount == Len(layout.vols)
Vol(v) == layout.vols[v + 1]
MemSize == layout.memsize

\* get_mvdump_volume_info: INVALID unless the dumper and the header carry
\* the multi-volume magics, ACTIVE if the header is that of volume v of a
\* dump of nonzero size.
Signature(v) ==
  IF ~Vol(v).magic THEN "INVALID"
  ELSE IF Vol(v).volnr = v /\ MemSize # 0 THEN "ACTIVE" ELSE "VALID"

\* get_mvdump_info fails on an online volume whose parameter table differs
\* from the one on the dump device (an orphaned volume).
MvdumpInfoOK == \A v \in 0 .. VolCount - 1 : Vol(v).online => Vol(v).tableOK

\* The dump data on the partitions: volume v holds the bytes from Base(v)
\* on, as many as fit in whole pages after the header.
Capacity(v) == PageFloor(Vol(v).part) - HeaderSize
RECURSIVE Base(_)
Base(v) == IF v = 0 THEN 0 ELSE Base(v - 1) + Capacity(v - 1)

\* What is written to stdout: the header, pieces of memory, the end marker.
HeaderRec == [kind |-> "hdr"]
EndRec == [kind |-> "end"]
Garbage == [kind |-> "other"]
\* What reading n units at offset o of volume v returns: a range of the
\* dump's bytes, or other bytes (nothing of the dump is stored there).
ReadAt(v, o, n) ==
  IF o >= HeaderSize /\ o + n <= HeaderSize + Capacity(v)
     /\ Base(v) + o - HeaderSize + n <= MemSize
    THEN [kind |-> "data", from |-> Base(v) + o - HeaderSize, len |-> n]
    ELSE Garbage
\* dump_end_times at offset o of volume v.
MarkerAt(v, o) == layout.marker = <<v, o>>

\* The checks at the top of mvdump_check_or_copy's loop.
VolumeUsable(v) == Vol(v).online /\ Signature(v) = "ACTIVE"

Init ==
  /\ layout \in Layouts
  /\ cpc = IF MvdumpInfoOK THEN "vol" ELSE "done"
  /\ kpc = IF MvdumpInfoOK THEN "vol" ELSE "done"
  /\ ci = 0 /\ partOff = 0 /\ total = 0 /\ done = FALSE /\ out = <<>>
  /\ ki = 0 /\ ktotal = 0
  /\ crc = IF MvdumpInfoOK THEN 0 ELSE 1
  /\ krc = IF MvdumpInfoOK THEN 0 ELSE 1

copyVars == <<cpc, ci, partOff, total, done, out, crc>>
checkVars == <<kpc, ki, ktotal, krc>>

(***************************************************************************)
(* Copying (mvdump_check_or_copy without -i).                              *)
(***************************************************************************)

\* Mutant of CopyOpenVolume: write_header on every volume.
CopyOpenVolumeHeaderEach ==
  /\ cpc = "vol"
  /\ IF VolumeUsable(ci)
       THEN /\ cpc' = "copy" /\ partOff' = HeaderSize /\ done' = FALSE
            /\ out' = Append(out, HeaderRec)
            /\ UNCHANGED <<ci, total, crc>>
       ELSE cpc' = "done" /\ crc' = 1 /\ UNCHANGED <<ci, partOff, total, done, out>>
  /\ UNCHANGED <<layout>> /\ UNCHANGED checkVars

\* One turn of the loop over the volumes: the status and signature checks,
\* get_header at the partition's start, write_header on the first volume.
CopyOpenVolume ==
  /\ cpc = "vol"
  /\ IF VolumeUsable(ci)
       THEN /\ cpc' = "copy" /\ partOff' = HeaderSize /\ done' = FALSE
            /\ out' = IF ci = 0 THEN <<HeaderRec>> ELSE out
            /\ UNCHANGED <<ci, total, crc>>
       ELSE cpc' = "done" /\ crc' = 1 /\ UNCHANGED <<ci, partOff, total, done, out>>
  /\ UNCHANGED <<layout>> /\ UNCHANGED checkVars

\* One turn of mvdump_copy's loop: at most a block, at most what is left of
\* the dump and of the partition, cut to whole pages.  A write of nothing
\* leaves stdout as it is.
CopyChunk ==
  /\ cpc = "copy" /\ ~done
  /\ LET c0 == MinOf(MemSize - total, BlockSize)
         c  == IF Vol(ci).part - partOff < c0 THEN Vol(ci).part - partOff ELSE c0
         n  == PageFloor(c)
     IN /\ done' = (c0 < BlockSize \/ Vol(ci).part - partOff < c0)
        /\ out' = IF n = 0 THEN out ELSE Append(out, ReadAt(ci, partOff, n))
        /\ partOff' = partOff + n /\ total' = total + n
  /\ UNCHANGED <<layout, cpc, ci, crc>> /\ UNCHANGED checkVars

\* After mvdump_copy: on the last volume, or when the whole dump has been
\* copied, check_and_write_end_marker decides rc; otherwise next volume.
CopyVolumeEnd ==
  /\ cpc = "copy" /\ done
  /\ IF ci = VolCount - 1 \/ total = MemSize
       THEN /\ cpc' = "done"
            /\ IF MarkerAt(ci, partOff)
                 THEN out' = Append(out, EndRec) /\ crc' = 0
                 ELSE crc' = 1 /\ UNCHANGED out
            /\ UNCHANGED ci
       ELSE cpc' = "vol" /\ ci' = ci + 1 /\ UNCHANGED <<out, crc>>
  /\ UNCHANGED <<layout, partOff, total, done>> /\ UNCHANGED checkVars

(***************************************************************************)
(* Checking (mvdump_check_or_copy with -i): skip whole volumes until the   *)
(* one the dump ends on, and look for the end marker there.               *)
(***************************************************************************)
\* Mutant of CheckVolume: data_size without the rounding to whole pages.
CheckVolumeNoRounding ==
  /\ kpc = "vol"
  /\ LET dataSize == Vol(ki).part - HeaderSize IN
     CASE ~VolumeUsable(ki) -> kpc' = "done" /\ krc' = 1 /\ UNCHANGED <<ki, ktotal>>
       [] ktotal + dataSize > MemSize ->
            /\ kpc' = "done" /\ UNCHANGED <<ki, ktotal>>
            /\ krc' = IF MarkerAt(ki, HeaderSize + MemSize - ktotal) THEN 0 ELSE 1
       [] ki = VolCount - 1 -> kpc' = "done" /\ krc' = 1 /\ UNCHANGED <<ki, ktotal>>
       [] OTHER -> ktotal' = ktotal + dataSize /\ ki' = ki + 1 /\ UNCHANGED <<kpc, krc>>
  /\ UNCHANGED <<layout>> /\ UNCHANGED copyVars

CheckVolume ==
  /\ kpc = "vol"
  /\ LET dataSize == PageFloor(Vol(ki).part) - HeaderSize IN
     CASE ~VolumeUsable(ki) -> kpc' = "done" /\ krc' = 1 /\ UNCHANGED <<ki, ktotal>>
       [] ktotal + dataSize > MemSize ->
            /\ kpc' = "done" /\ UNCHANGED <<ki, ktotal>>
            /\ krc' = IF MarkerAt(ki, HeaderSize + MemSize - ktotal) THEN 0 ELSE 1
       [] ki = VolCount - 1 -> kpc' = "done" /\ krc' = 1 /\ UNCHANGED <<ki, ktotal>>
       [] OTHER -> ktotal' = ktotal + dataSize /\ ki' = ki + 1 /\ UNCHANGED <<kpc, krc>>
  /\ UNCHANGED <<layout>> /\ UNCHANGED copyVars

Done == cpc = "done" /\ kpc = "done" /\ UNCHANGED vars

Next == CopyOpenVolume \/ CopyChunk \/ CopyVolumeEnd \/ CheckVolume \/ Done

\* Both invocations run to their end: neither waits on anything.
Spec == Init /\ [][Next]_vars /\ WF_vars(Next)

-----------------------------------------------------------------------------
\* Pieces of the dump's memory that follow each other from 0 to its end.
ContiguousDump(s) ==
  /\ \A k \in 1 .. Len(s) :
       /\ s[k].kind = "data"
       /\ s[k].from = IF k = 1 THEN 0 ELSE s[k - 1].from + s[k - 1].len
  /\ Len(s) > 0 /\ s[Len(s)].from + s[Len(s)].len = MemSize

(***************************************************************************)
(* When the copy of a multi-volume dump exits 0 ("this dump is valid"),   *)
(* stdout holds the header once, every byte of the dump's memory in order, *)
(* and the end marker: mvdump_copy's page truncation and the per-volume    *)
(* offsets must line up with where the dumper put the data.               *)
(***************************************************************************)
MvValidCopyIsDump ==
  (cpc = "done" /\ crc = 0) =>
    /\ Len(out) >= 2 /\ out[1] = HeaderRec /\ out[Len(out)] = EndRec
    /\ ContiguousDump(SubSeq(out, 2, Len(out) - 1))

(***************************************************************************)
(* zgetdump -i and the copy agree on the same disks: -i says "this dump is *)
(* valid" exactly when copying the dump ends with the end marker found.    *)
(* The two paths of mvdump_check_or_copy compute where the dump ends in    *)
(* different ways (data_size against mvdump_copy's loop).                 *)
(***************************************************************************)
CheckAgreesWithCopy ==
  (cpc = "done" /\ kpc = "done") => (crc = 0 <=> krc = 0)

\* The dump ends exactly where the data of some volume ends: the copy's
\* total reaches dh_memory_size with the last read of that volume (1116),
\* while -i's total + data_size is not above it (1080).
EndsAtVolumeEnd == \E v \in 0 .. VolCount - 1 : Base(v) + Capacity(v) = MemSize

(***************************************************************************)
(* -i and the copy agree, as above, on every dump that ends inside a       *)
(* volume's data: the per-volume data sizes of the two paths (-i rounding  *)
(* part_size down to pages, mvdump_copy cutting each read to pages) add up *)
(* the same, whatever volumes are offline, foreign or orphaned.  Where the *)
(* dump ends exactly at a volume's end the two disagree (run               *)
(* mv_exact_end).                                                          *)
(***************************************************************************)
CheckAgreesInsideVolume == ~EndsAtVolumeEnd => CheckAgreesWithCopy
=============================================================================
