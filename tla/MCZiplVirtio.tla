---------------------------- MODULE MCZiplVirtio ----------------------------
(***************************************************************************)
(* Disks and device lists for checking ZiplVirtio.  Block 0 is the MBR:   *)
(* slot 1 the magic, slot 2 the program table pointer, slots 3.. the      *)
(* stage2 block list of virtio_load_stage2.                               *)
(***************************************************************************)
EXTENDS ZiplVirtio

MCZiplMagic == 7

Hdr == [blockno |-> MCZiplMagic, size |-> 0, ct |-> 0]
P(b, size, ct) == [blockno |-> b, size |-> size, ct |-> ct]
Ptrs(s) == [kind |-> "slots", slots |-> s]
Data(b) == [kind |-> "data", id |-> b]
DataBlocks(S) == [b \in S |-> Data(b)]
Comp(type, es) == [kind |-> "comp", magic |-> TRUE, type |-> type, entries |-> es]
Load(b, at) == [ctype |-> "LOAD", blockno |-> b, load |-> [hi |-> FALSE, lo |-> at]]
Exec(at) == [ctype |-> "EXEC", blockno |-> 0, load |-> [hi |-> TRUE, lo |-> at]]

\* An MBR whose list names a 4096-byte-sector entry, which sends the loader
\* into the fallback; the program table at 10 names the header at 11.
FallbackMbr == Ptrs(<<Hdr, P(10, 512, 0), P(1, 4096, 0)>>)
Program(es) == (10 :> Ptrs(<<Hdr, P(11, 512, 0)>>)) @@ (11 :> Comp("IPL", es))
Kernel == <<Load(12, 65536), Exec(65536)>>

\* A stage2 of three sectors in two list entries; the MBR and a stage2
\* sector may fail.
Stage2Disk ==
    [blocks |-> (0 :> Ptrs(<<Hdr, P(10, 512, 0), P(2, 512, 1), P(5, 512, 0)>>))
                @@ DataBlocks({2, 3, 5}),
     faulty |-> {0, 3}]

\* The fallback loads a kernel of three sectors from one pointer list; the
\* program table, the list or a kernel sector may fail.
FallbackDisk ==
    [blocks |-> (0 :> FallbackMbr) @@ Program(Kernel)
                @@ (12 :> Ptrs(<<P(20, 512, 1), P(22, 512, 0)>>))
                @@ DataBlocks({20, 21, 22}),
     faulty |-> {10, 12, 21}]

\* A full pointer list: 31 sectors and the continuation to a second list,
\* which may fail.
FullList == Ptrs([j \in 1 .. 31 |-> P(29 + j, 512, 0)] \o <<P(13, 512, 0)>>)
ChainDisk ==
    [blocks |-> (0 :> FallbackMbr) @@ Program(Kernel) @@ (12 :> FullList)
                @@ (13 :> Ptrs(<<P(61, 512, 0)>>)) @@ DataBlocks(30 .. 61),
     faulty |-> {13}]

\* Fallback failures: no magic in the MBR, an empty program table, a dump
\* header, a header with no EXEC entry.
NoMagicDisk ==
    [blocks |-> (0 :> Ptrs(<<ZeroPtr, P(10, 512, 0), P(1, 4096, 0)>>)),
     faulty |-> {}]
EmptyTableDisk ==
    [blocks |-> (0 :> FallbackMbr) @@ (10 :> Ptrs(<<Hdr>>)), faulty |-> {}]
DumpDisk ==
    [blocks |-> (0 :> FallbackMbr) @@ (10 :> Ptrs(<<Hdr, P(11, 512, 0)>>))
                @@ (11 :> Comp("DUMP", Kernel)), faulty |-> {}]
NoExecDisk ==
    [blocks |-> (0 :> FallbackMbr) @@ Program(<<Load(12, 65536)>>)
                @@ (12 :> Ptrs(<<P(20, 512, 0)>>)) @@ DataBlocks({20}),
     faulty |-> {}]

\* A program table and a component header without magic, and a segment
\* whose pointer has 4096-byte sectors.
BadTableDisk ==
    [blocks |-> (0 :> FallbackMbr) @@ (10 :> Ptrs(<<ZeroPtr, P(11, 512, 0)>>)),
     faulty |-> {}]
BadHeaderDisk ==
    [blocks |-> (0 :> FallbackMbr) @@ (10 :> Ptrs(<<Hdr, P(11, 512, 0)>>))
                @@ (11 :> [Comp("IPL", Kernel) EXCEPT !.magic = FALSE]),
     faulty |-> {}]
BadSegmentDisk ==
    [blocks |-> (0 :> FallbackMbr) @@ Program(Kernel)
                @@ (12 :> Ptrs(<<P(20, 4096, 0)>>)) @@ DataBlocks({20}),
     faulty |-> {}]

MCDisks == {Stage2Disk, FallbackDisk, ChainDisk, NoMagicDisk,
            EmptyTableDisk, DumpDisk, NoExecDisk, BadTableDisk,
            BadHeaderDisk, BadSegmentDisk}

\* A console with two queues and the block device; a console with one
\* queue, which the loader skips, and the block device.
Dev(t, nvq, n) == [type |-> t, numvq |-> nvq, num |-> n]
MCDeviceLists == {<<Dev("console", 2, 4), Dev("block", 1, 4)>>,
                  <<Dev("console", 1, 4), Dev("block", 1, 4)>>}

\* virtio-ccw subchannels: one that is not there (tsch condition code 3),
\* a device that is not a virtio block device, and the block device; and
\* a guest without one, where virtio_setup panics.
Sch(t) == Dev(t, 0, 0)
MCSubchannels == {<<Sch("none"), Sch("other"), Sch("block")>>,
                  <<Sch("none"), Sch("other")>>}

MCTransports == {"s390", "ccw"}
=============================================================================
