---------------------------- MODULE MCZgetdumpData ----------------------------
(***************************************************************************)
(* Dumps for the zgetdump models.                                          *)
(*                                                                         *)
(* Tape libraries: dump A spans three volumes, dump B three volumes of one *)
(* block, dump C one volume it fills exactly, dumps D and E three and four *)
(* volumes, the last one partly filled, dump F one volume partly filled,   *)
(* dump G two volumes of one block.  Block tags are "data", or "DUMP_END"  *)
(* for a memory block whose first bytes read as the marker.               *)
(*                                                                         *)
(* Multi-volume DASD layouts, sizes in 512-byte units.  Partition sizes    *)
(* are not whole pages, so mvdump_copy's truncation and -i's rounding      *)
(* matter.                                                                 *)
(***************************************************************************)
EXTENDS Naturals, Sequences

DumpA == [tod |-> 5, mem |-> <<"data", "data", "data", "data", "data">>, cap |-> 2,
          endTime |-> 7]
DumpB == [tod |-> 6, mem |-> <<"data", "data", "data">>, cap |-> 1, endTime |-> 8]
DumpC == [tod |-> 3, mem |-> <<"data", "data">>, cap |-> 2, endTime |-> 4]
DumpD == [tod |-> 2, mem |-> [k \in 1 .. 8 |-> "data"], cap |-> 3, endTime |-> 9]
DumpE == [tod |-> 4, mem |-> [k \in 1 .. 10 |-> "data"], cap |-> 3, endTime |-> 4]
DumpF == [tod |-> 1, mem |-> <<"data", "data", "data">>, cap |-> 4, endTime |-> 1]
DumpG == [tod |-> 7, mem |-> <<"data", "data">>, cap |-> 1, endTime |-> 7]
MCDumps == {DumpA, DumpB, DumpC, DumpD, DumpE, DumpF, DumpG}
\* The library of the runs in which the operator mounts any tape.
MCDumpsSmall == {DumpA, DumpB, DumpC}

\* A dump whose second memory block starts with the bytes "DUMP_END".
DumpMarkerLike == [tod |-> 5, mem |-> <<"data", "DUMP_END", "data">>, cap |-> 2,
                   endTime |-> 7]
MCDumpsMarkerLike == {DumpMarkerLike}

OkVol(part, v) == [part |-> part, online |-> TRUE, tableOK |-> TRUE, magic |-> TRUE,
                   volnr |-> v]

\* 48 KiB over two volumes of 32 and 24 KiB data, ending inside volume 1.
TwoVolumes == [memsize |-> 96, vols |-> <<OkVol(75, 0), OkVol(60, 1)>>, marker |-> <<1, 40>>]
\* 32 KiB on one volume with room to spare.
OneVolume == [memsize |-> 64, vols |-> <<OkVol(100, 0)>>, marker |-> <<0, 72>>]
\* 40 KiB over three volumes of 16 KiB data, ending inside volume 2.
ThreeVolumes == [memsize |-> 80, vols |-> <<OkVol(43, 0), OkVol(41, 1), OkVol(47, 2)>>,
                 marker |-> <<2, 24>>]
\* The dump was interrupted before the end marker was written.
NoMarker == [TwoVolumes EXCEPT !.marker = <<>>]
\* Volume 1 is offline.
Offline == [TwoVolumes EXCEPT !.vols[2].online = FALSE]
\* Volume 1 holds the header of another volume: its signature is VALID.
WrongVolume == [TwoVolumes EXCEPT !.vols[2].volnr = 0]
\* Volume 1 carries no multi-volume dumper: its signature is INVALID.
NoDumper == [TwoVolumes EXCEPT !.vols[2].magic = FALSE]
\* Volume 0 has another dump's parameter table: get_mvdump_info fails.
Orphaned == [TwoVolumes EXCEPT !.vols[1].tableOK = FALSE]

\* 32 KiB ending exactly at the end of volume 0's data, the end marker
\* after it (where the copy looks) or at the start of volume 1 (where -i
\* looks).
ExactEnd == [memsize |-> 64, vols |-> <<OkVol(72, 0), OkVol(40, 1)>>, marker |-> <<0, 72>>]
ExactEndNext == [ExactEnd EXCEPT !.marker = <<1, 8>>]
MCLayoutsExactEnd == {ExactEnd, ExactEndNext}

MCLayouts == {TwoVolumes, OneVolume, ThreeVolumes, NoMarker, Offline, WrongVolume,
              NoDumper, Orphaned}
MCLayoutsAll == MCLayouts \cup MCLayoutsExactEnd

\* Single-volume disks, sizes in pages: a complete dump of 16 pages with
\* room after the marker, one whose dump was interrupted before the end
\* marker, and a partition too small for the dump.
DiskComplete == [memsize |-> 16, devsize |-> 24, marker |-> TRUE]
DiskNoMarker == [memsize |-> 16, devsize |-> 24, marker |-> FALSE]
DiskShort == [memsize |-> 16, devsize |-> 12, marker |-> FALSE]
MCDisks == {DiskComplete, DiskNoMarker, DiskShort}

\* Option sets: the three paths, -d, the two refused combinations, help,
\* version and an unknown option.
MCOptionSets == {{}, {"i"}, {"i", "a"}, {"d"}, {"a"}, {"d", "i"}, {"h", "i"}, {"v"}, {"?", "d"}}

\* Devices as main's tests see them.
Dev(t, node, fba, eckd, magic, mvsig) ==
  [tape |-> t, node |-> node, fba |-> fba, eckd |-> eckd, magic |-> magic, mvsig |-> mvsig]
MCDevices ==
  { Dev(TRUE, "noblock", "none", "none", "s390", FALSE),      \* a tape drive
    Dev(FALSE, "partition", "none", "none", "s390", FALSE),   \* an ECKD dump partition
    Dev(FALSE, "device", "none", "ZECKD64", "s390", FALSE),   \* its device node
    Dev(FALSE, "device", "none", "ZMULT64", "s390", TRUE),    \* a multi-volume dump device
    Dev(FALSE, "partition", "none", "none", "s390", TRUE),    \* one of its partitions
    Dev(FALSE, "device", "ZDFBA64", "none", "s390", FALSE),   \* an FBA dump device
    Dev(FALSE, "noblock", "none", "none", "s390", FALSE),     \* a dump copied to a file
    Dev(FALSE, "noblock", "none", "none", "lkcd", FALSE),     \* an lkcd dump file
    Dev(FALSE, "device", "none", "none", "s390", FALSE),      \* no dump device
    Dev(FALSE, "missing", "none", "none", "s390", FALSE) }    \* a path that does not exist
=============================================================================
