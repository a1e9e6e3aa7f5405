----------------------------- MODULE ZiplVirtio -----------------------------
(***************************************************************************)
(* The zipl boot loader for s390-virtio guests (src/zipl/boot/virtio-*.c)  *)
(* and the virtio devices it talks to.  The driver is one CPU running     *)
(* virtio_load_stage2: virtio_init enumerates the devices and reads the   *)
(* MBR to 0x8000, the loop walks the stage2 block list at 0x8020 with     *)
(* virtio_load_direct, and a list entry whose sector size is not 512      *)
(* sends it into virtio_zipl_fallback, which loads the default program of *)
(* the zipl program table itself (zipl_load, zipl_run,                    *)
(* zipl_load_segment).  Every disk read is a three-descriptor request on  *)
(* the block queue and every virtio_puts one descriptor on the console    *)
(* output queue; the host services both queues concurrently with the CPU. *)
(* The virtio-ccw loader (virtio-ccw-loadstage2.c) is the other transport: *)
(* it finds the block device among the subchannels, prints through the    *)
(* SCLP, reads a whole list entry with one request, and goes straight to  *)
(* the fallback, after which it spins.                                    *)
(*                                                                        *)
(* The driver's program counter pc names the statement it is at; the      *)
(* subroutines virtio_read, virtio_load_direct and virtio_puts keep their *)
(* locals in rd, ld and puts and their return point in ret.               *)
(***************************************************************************)
EXTENDS Integers, Sequences, TLC

CONSTANTS
    Disks,        \* candidate disks: [blocks: block number -> sector, faulty]
    DeviceLists,  \* candidate device lists above the top of RAM
    Subchannels,  \* candidate subchannel sets of a virtio-ccw guest
    Transports,   \* the loaders checked: a subset of {"s390", "ccw"}
    ZiplMagic     \* the first word of a sector that begins with "zIPL"

VARIABLES
    disk, devs, transport,      \* the machine, fixed at IPL
    pc, rd, ld, puts, ret,      \* the driver and its subroutine frames
    consoleWorks, blk, cout,    \* virtio-transport.c statics and rings
    mem, tmpSec, status,        \* guest memory, zipl_run's stack sector,
                                \* virtio_read's status byte
    sector, stage2,             \* virtio_load_stage2's locals
    ldResult, seg, segResult, entry,  \* fallback locals
    inflight,                   \* chains the host has taken, per queue
    mbrStatus, fbFailed, jumpTo \* history: status of the first MBR read,
                                \* fallback returned, address jumped to

\* The guest IPLs from a virtio block device, so virtio_enum_block finds
\* one with one queue (otherwise block.num stays 0 and send_buf divides by it).
ASSUME \A d \in DeviceLists :
           \E i \in DOMAIN d : d[i].type = "block" /\ d[i].numvq = 1

vars == <<disk, devs, transport, pc, rd, ld, puts, ret, consoleWorks, blk, cout, mem,
          tmpSec, status, sector, stage2, ldResult, seg, segResult, entry,
          inflight, mbrStatus, fbFailed, jumpTo>>

Ring == INSTANCE VirtioRing

\* Groups for UNCHANGED.
machine == <<disk, devs, transport>>
frames == <<rd, ld, puts, ret>>
locals == <<sector, stage2, ldResult, seg, segResult, entry>>
history == <<mbrStatus, fbFailed, jumpTo>>

-----------------------------------------------------------------------------
(* Constants of the code.                                                  *)

SectorSize == 512
Sec == 32768              \* 0x8000: tmp_space of virtio_init, sec of fallback
Stage2Addr == 8192        \* 0x2000
BssStart == 17664         \* 0x4500
BssEnd == 24576           \* 0x6000
MaxEntries == 32          \* SECTOR_SIZE / sizeof(struct scsi_blockptr)
CompHeaderBytes == 32     \* sizeof(struct component_header)
CompEntryBytes == 32      \* sizeof(struct component_entry)

(* A sector is a sequence of 16-byte block pointers (MBR, program table,   *)
(* block pointer lists; beyond the sequence the sector is zero), a         *)
(* component header, or payload.  A block pointer's blockno, size and      *)
(* blockct are also the two words virtio_load_direct decodes.              *)
ZeroPtr == [blockno |-> 0, size |-> 0, ct |-> 0]
ZeroSector == [kind |-> "slots", slots |-> <<>>]
Cleared == [kind |-> "cleared"]

\* The buffer at address a; memory nothing was read into is zero.
SectorAt(a) == IF a \in DOMAIN mem THEN mem[a] ELSE ZeroSector

\* The i-th 16-byte block pointer of a sector.
Slot(s, i) == IF s.kind = "slots" /\ i <= Len(s.slots) THEN s.slots[i]
              ELSE ZeroPtr

\* zipl_magic compares the first word with "zIPL".
Magic(s) == CASE s.kind = "slots" -> Slot(s, 1).blockno = ZiplMagic
              [] s.kind = "comp"  -> s.magic
              [] OTHER            -> FALSE

\* The component entries of a header; past its end the type is 0.
CompEntry(s, i) == IF s.kind = "comp" /\ i <= Len(s.entries) THEN s.entries[i]
                   ELSE [ctype |-> "none", blockno |-> 0,
                         load |-> [hi |-> FALSE, lo |-> 0]]

\* header->type; only a component header has one.
CompType(s) == IF s.kind = "comp" THEN s.type ELSE "none"

\* ipl = entry->load_address & 0x7fffffff drops the addressing-mode bit.
Mask31(la) == la.lo

MemAt(a) == [kind |-> "mem", at |-> a]
Tmp == [kind |-> "tmp"]

-----------------------------------------------------------------------------
(* Subroutine calls: set the frame and the return point.                   *)

CallRead(s, dest, back) ==
    /\ rd' = [sector |-> s, dest |-> dest, num |-> 1]
    /\ ret' = [ret EXCEPT !.read = back]
    /\ pc' = "rd_hdr"

\* virtio-ccw: virtio_read_many(sector, load_addr, sec_num) is the same chain
\* with a data buffer of sec_num sectors; virtio_read passes 1.
CallReadMany(s, dest, n, back) ==
    /\ rd' = [sector |-> s, dest |-> dest, num |-> n]
    /\ ret' = [ret EXCEPT !.read = back]
    /\ pc' = "rd_hdr"

CallPuts(n, back) ==
    /\ puts' = [left |-> n, back |-> back]
    /\ pc' = "puts"

\* Mutant: sec_num taken as the block count without the + 1.
CallLdNoPlusOne(p, addr, back) ==
    /\ ld' = [sec |-> p.blockno, num |-> p.ct % 65536, i |-> 0, addr |-> addr]
    /\ ret' = [ret EXCEPT !.ld = back]
    /\ IF p.size # SectorSize
       THEN ldResult' = -1 /\ pc' = back
       ELSE pc' = "ld_loop" /\ UNCHANGED ldResult

\* virtio_load_direct(rec_list1, rec_list2, 0, addr): sec_num is
\* ((rec_list2 >> 32) + 1) & 0xffff; a sector size other than 512 returns
\* -1 before anything is read.
CallLd(p, addr, back) ==
    /\ ld' = [sec |-> p.blockno, num |-> (p.ct + 1) % 65536, i |-> 0,
              addr |-> addr]
    /\ ret' = [ret EXCEPT !.ld = back]
    /\ IF p.size # SectorSize
       THEN ldResult' = -1 /\ pc' = back
       ELSE pc' = "ld_loop" /\ UNCHANGED ldResult

-----------------------------------------------------------------------------
(* virtio_read: out header, data buffer and status byte as one chain, then *)
(* wait for the used index to move (no timeout).                           *)

RdHdr ==
    /\ pc = "rd_hdr"
    /\ blk' = Ring!SendBuf(blk, [kind |-> "hdr", sector |-> rd.sector], 16,
                           {"NEXT"})
    /\ pc' = "rd_data"
    /\ UNCHANGED <<machine, frames, consoleWorks, cout, mem, tmpSec, status,
                   locals, inflight, history>>

RdData ==
    /\ pc = "rd_data"
    /\ blk' = Ring!SendBuf(blk, rd.dest, SectorSize * rd.num, {"WRITE", "CHAIN", "NEXT"})
    /\ pc' = "rd_status"
    /\ UNCHANGED <<machine, frames, consoleWorks, cout, mem, tmpSec, status,
                   locals, inflight, history>>

RdStatus ==
    /\ pc = "rd_status"
    /\ blk' = Ring!SendBuf(blk, [kind |-> "status"], 1, {"WRITE", "CHAIN"})
    /\ pc' = "rd_wait"
    /\ UNCHANGED <<machine, frames, consoleWorks, cout, mem, tmpSec, status,
                   locals, inflight, history>>

RdWait ==
    /\ pc = "rd_wait"
    /\ Ring!Answered(blk)
    /\ blk' = Ring!WaitReset(blk)
    /\ pc' = ret.read
    /\ UNCHANGED <<machine, frames, consoleWorks, cout, mem, tmpSec, status,
                   locals, inflight, history>>

(* virtio_puts: without a console it is early_puts, a no-op unless DEBUG;  *)
(* with one, the string is one descriptor and the wait has no timeout.     *)
(* puts.left counts the strings of consecutive calls.                      *)

PutsStep ==
    /\ pc = "puts"
    /\ \/ /\ puts.left = 0
          /\ pc' = puts.back
          /\ UNCHANGED <<puts, cout>>
       \/ /\ puts.left > 0 /\ ~consoleWorks
          /\ puts' = [puts EXCEPT !.left = @ - 1]
          /\ UNCHANGED <<pc, cout>>
       \/ /\ puts.left > 0 /\ consoleWorks
          /\ cout' = Ring!SendBuf(cout, [kind |-> "str"], 1, {})
          /\ pc' = "puts_wait"
          /\ UNCHANGED puts
    /\ UNCHANGED <<machine, rd, ld, ret, consoleWorks, blk, mem, tmpSec,
                   status, locals, inflight, history>>

PutsWait ==
    /\ pc = "puts_wait"
    /\ Ring!Answered(cout)
    /\ cout' = Ring!WaitReset(cout)
    /\ puts' = [puts EXCEPT !.left = @ - 1]
    /\ pc' = "puts"
    /\ UNCHANGED <<machine, rd, ld, ret, consoleWorks, blk, mem, tmpSec,
                   status, locals, inflight, history>>

-----------------------------------------------------------------------------
(* virtio_init, called by _sclp_setup(0): walk the device headers up to   *)
(* type 0, take the first console with two queues and the first block     *)
(* device with one, then read the MBR to 0x8000 (its status is dropped).  *)

ConsoleOK(n) == n >= 2
BlockOK(n) == n = 1
Usable(d, t) == d.type = t /\ IF t = "console" THEN ConsoleOK(d.numvq)
                                                ELSE BlockOK(d.numvq)

FirstDev(t) == CHOOSE i \in DOMAIN devs :
                   /\ Usable(devs[i], t)
                   /\ \A j \in 1 .. i - 1 : ~Usable(devs[j], t)
HasDev(t) == \E i \in DOMAIN devs : Usable(devs[i], t)

Setup ==
    /\ pc = "setup" /\ transport = "s390"
    /\ consoleWorks' = HasDev("console")
    /\ cout' = IF consoleWorks'
               THEN Ring!VringInit(devs[FirstDev("console")].num)
               ELSE cout
    /\ blk' = Ring!VringInit(devs[FirstDev("block")].num)
    /\ CallRead(0, MemAt(Sec), "init_mbr")
    /\ UNCHANGED <<machine, ld, puts, mem, tmpSec, status, locals, inflight,
                   history>>

InitMbr ==
    /\ pc = "init_mbr"
    /\ mbrStatus' = status
    /\ sector' = 1
    /\ stage2' = Stage2Addr
    /\ pc' = "s2_loop"
    /\ UNCHANGED <<machine, frames, consoleWorks, blk, cout, mem, tmpSec,
                   status, ldResult, seg, segResult, entry, inflight, fbFailed,
                   jumpTo>>

(* virtio-ccw: virtio_load_stage2 calls sclp_setup, then virtio_setup,    *)
(* which issues tsch to every subchannel number and takes the first that  *)
(* answers (condition code not 3) and whose SENSE ID says control unit    *)
(* 0x3832, model block; with none it panics.  virtio_setup_block gives    *)
(* the queue 128 descriptors; then the fallback runs at once.  virtio_puts *)
(* is sclp_print, a synchronous service call: no console queue.           *)

IsBlk(d) == d.type = "block"

CcwRingNum == 128

CcwSetup ==
    /\ pc = "setup" /\ transport = "ccw"
    /\ consoleWorks' = FALSE
    /\ IF \E i \in DOMAIN devs : IsBlk(devs[i])
       THEN blk' = Ring!VringInit(CcwRingNum) /\ pc' = "fallback"
            /\ UNCHANGED puts
       ELSE CallPuts(1, "stop") /\ UNCHANGED blk
    /\ UNCHANGED <<machine, rd, ld, ret, cout, mem, tmpSec, status, locals,
                   inflight, history>>

\* What follows virtio_zipl_fallback when it returns: the s390 loader goes
\* round its stage2 loop, the ccw loader spins in while (1).
AfterFallback == IF transport = "ccw" THEN "hang" ELSE "s2_loop"

-----------------------------------------------------------------------------
(* virtio_load_stage2: while sector[0] is set, load the list entry at    *)
(* stage2, fall back when load_direct returns -1; then print a newline,  *)
(* clear the BSS 0x4500..0x6000 and call stage2 at 0x2008.               *)

\* The list pair the loop is at: 0x8020 is the third 16-byte slot.
ListEntry == Slot(SectorAt(Sec), sector + 2)

S2Loop ==
    /\ pc = "s2_loop"
    /\ IF ListEntry.blockno = 0
       THEN CallPuts(1, "s2_bss") /\ UNCHANGED <<ld, ret, ldResult>>
       ELSE CallLd(ListEntry, stage2, "s2_after") /\ UNCHANGED puts
    /\ UNCHANGED <<machine, rd, consoleWorks, blk, cout, mem, tmpSec, status,
                   sector, stage2, seg, segResult, entry, inflight, history>>

S2After ==
    /\ pc = "s2_after"
    /\ stage2' = ldResult
    /\ sector' = sector + 1
    /\ pc' = IF ldResult = -1 THEN "fallback" ELSE "s2_loop"
    /\ UNCHANGED <<machine, frames, consoleWorks, blk, cout, mem, tmpSec,
                   status, ldResult, seg, segResult, entry, inflight, history>>

\* The BSS loop zeroes the words 0x4500 .. 0x6000.
InBss(a) == a < BssEnd + 8 /\ a + SectorSize > BssStart

S2Bss ==
    /\ pc = "s2_bss"
    /\ mem' = [a \in DOMAIN mem |-> IF InBss(a) THEN Cleared ELSE mem[a]]
    /\ pc' = "stage2"
    /\ UNCHANGED <<machine, frames, consoleWorks, blk, cout, tmpSec, status,
                   locals, inflight, history>>

-----------------------------------------------------------------------------
(* virtio_load_direct: one virtio_read per sector, a "." every 100, panic  *)
(* on a nonzero status.                                                    *)

LdLoop ==
    /\ pc = "ld_loop"
    /\ IF ld.i < ld.num
       THEN /\ IF ld.i % 100 = 0 THEN CallPuts(1, "ld_read")
                                 ELSE pc' = "ld_read" /\ UNCHANGED puts
            /\ UNCHANGED ldResult
       ELSE ldResult' = ld.addr /\ pc' = ret.ld /\ UNCHANGED puts
    /\ UNCHANGED <<machine, rd, ld, ret, consoleWorks, blk, cout, mem, tmpSec,
                   status, sector, stage2, seg, segResult, entry, inflight,
                   history>>

LdRead ==
    /\ pc = "ld_read"
    /\ CallRead(ld.sec, MemAt(ld.addr), "ld_check")
    /\ UNCHANGED <<machine, ld, puts, consoleWorks, blk, cout, mem, tmpSec,
                   status, locals, inflight, history>>

LdCheck ==
    /\ pc = "ld_check"
    /\ IF status # 0
       THEN pc' = "stop" /\ UNCHANGED ld
       ELSE /\ ld' = [ld EXCEPT !.sec = @ + 1, !.addr = @ + SectorSize,
                                !.i = @ + 1]
            /\ pc' = "ld_loop"
    /\ UNCHANGED <<machine, rd, puts, ret, consoleWorks, blk, cout, mem, tmpSec,
                   status, locals, inflight, history>>

(* virtio-ccw virtio_load_direct: the same sec_num and sector size test,  *)
(* then one "." and one read of all sec_num sectors; a nonzero status     *)
(* panics with "I/O Error", otherwise it returns addr + sec_num * 512.     *)

CallLdCcw(p, addr, back) ==
    /\ ld' = [sec |-> p.blockno, num |-> (p.ct + 1) % 65536, i |-> 0,
              addr |-> addr]
    /\ ret' = [ret EXCEPT !.ld = back]
    /\ IF p.size # SectorSize
       THEN ldResult' = -1 /\ pc' = back
       ELSE pc' = "ccw_ld" /\ UNCHANGED ldResult

\* The load_direct of the transport the loader was built for.
LoadDirect(p, addr, back) ==
    IF transport = "ccw" THEN CallLdCcw(p, addr, back) ELSE CallLd(p, addr, back)

CcwLd ==
    /\ pc = "ccw_ld"
    /\ CallPuts(1, "ccw_ld_read")
    /\ UNCHANGED <<machine, rd, ld, ret, consoleWorks, blk, cout, mem, tmpSec,
                   status, locals, inflight, history>>

CcwLdRead ==
    /\ pc = "ccw_ld_read"
    /\ CallReadMany(ld.sec, MemAt(ld.addr), ld.num, "ccw_ld_check")
    /\ UNCHANGED <<machine, ld, puts, consoleWorks, blk, cout, mem, tmpSec,
                   status, locals, inflight, history>>

CcwLdCheck ==
    /\ pc = "ccw_ld_check"
    /\ IF status # 0
       THEN CallPuts(1, "stop") /\ UNCHANGED ldResult
       ELSE ldResult' = ld.addr + SectorSize * ld.num /\ pc' = ret.ld
            /\ UNCHANGED puts
    /\ UNCHANGED <<machine, rd, ld, ret, consoleWorks, blk, cout, mem, tmpSec,
                   status, sector, stage2, seg, segResult, entry, inflight,
                   history>>

-----------------------------------------------------------------------------
(* virtio_zipl_fallback with sec = 0x8000.  zipl_load reads the MBR again *)
(* (status dropped), checks its magic (a mismatch panics), reads the      *)
(* program table into sec and runs its first entry; zipl_run reads the    *)
(* component header into a stack sector (status dropped), loads every     *)
(* LOAD entry and jumps to the EXEC entry.  Each failure prints its       *)
(* messages (puts.left counts them) and returns.                          *)

FallbackStart ==
    /\ pc = "fallback"
    /\ CallPuts(1, "zl_mbr")
    /\ UNCHANGED <<machine, rd, ld, ret, consoleWorks, blk, cout, mem, tmpSec,
                   status, locals, inflight, history>>

ZlMbr ==
    /\ pc = "zl_mbr"
    /\ CallRead(0, MemAt(Sec), "zl_magic")
    /\ UNCHANGED <<machine, ld, puts, consoleWorks, blk, cout, mem, tmpSec,
                   status, locals, inflight, history>>

\* mbr->blockptr is the second slot.
ZlMagic ==
    /\ pc = "zl_magic"
    /\ IF ~Magic(SectorAt(Sec))
       THEN pc' = "stop" /\ UNCHANGED <<rd, ret>>
       ELSE CallRead(Slot(SectorAt(Sec), 2).blockno, MemAt(Sec), "zl_table")
    /\ UNCHANGED <<machine, ld, puts, consoleWorks, blk, cout, mem, tmpSec,
                   status, locals, inflight, history>>

\* The program table's first entry follows its header; the count loop
\* stops at once when that entry's blockno is 0.
ZlTable ==
    /\ pc = "zl_table"
    /\ LET pte == Slot(SectorAt(Sec), 2) IN
       CASE status # 0 \/ (Magic(SectorAt(Sec)) /\ pte.blockno = 0) ->
                CallPuts(4, "fb_ret") /\ UNCHANGED <<rd, ret>>
         [] status = 0 /\ ~Magic(SectorAt(Sec)) ->
                pc' = "stop" /\ UNCHANGED <<rd, puts, ret>>
         [] OTHER ->
                CallRead(pte.blockno, Tmp, "zr_header") /\ UNCHANGED puts
    /\ UNCHANGED <<machine, ld, consoleWorks, blk, cout, mem, tmpSec, status,
                   locals, inflight, history>>

ZrHeader ==
    /\ pc = "zr_header"
    /\ CASE ~Magic(tmpSec) ->
                pc' = "stop" /\ UNCHANGED <<puts, entry>>
         [] CompType(tmpSec) # "IPL" ->
                CallPuts(2, "fb_ret") /\ UNCHANGED entry
         [] OTHER ->
                entry' = 1 /\ pc' = "zr_entry" /\ UNCHANGED puts
    /\ UNCHANGED <<machine, rd, ld, ret, consoleWorks, blk, cout, mem, tmpSec,
                   status, sector, stage2, ldResult, seg, segResult, inflight,
                   history>>

ZrEntry ==
    /\ pc = "zr_entry"
    /\ LET en == CompEntry(tmpSec, entry) IN
       CASE en.ctype = "LOAD" ->
                /\ seg' = [blockno |-> en.blockno, addr |-> en.load.lo, i |-> 0]
                /\ pc' = "seg_read"
                /\ UNCHANGED puts
         [] en.ctype = "EXEC" ->
                CallPuts(1, "zr_jump") /\ UNCHANGED seg
         [] OTHER ->
                CallPuts(2, "fb_ret") /\ UNCHANGED seg
    /\ UNCHANGED <<machine, rd, ld, ret, consoleWorks, blk, cout, mem, tmpSec,
                   status, sector, stage2, ldResult, segResult, entry, inflight,
                   history>>

\* After a segment: entry++, and the header must still hold entry[0].
ZrNext ==
    /\ pc = "zr_next"
    /\ IF segResult < 0
            \/ CompHeaderBytes + CompEntryBytes * (entry + 1) > SectorSize
       THEN CallPuts(2, "fb_ret") /\ UNCHANGED entry
       ELSE entry' = entry + 1 /\ pc' = "zr_entry" /\ UNCHANGED puts
    /\ UNCHANGED <<machine, rd, ld, ret, consoleWorks, blk, cout, mem, tmpSec,
                   status, sector, stage2, ldResult, seg, segResult, inflight,
                   history>>

ZrJump ==
    /\ pc = "zr_jump"
    /\ jumpTo' = Mask31(CompEntry(tmpSec, entry).load)
    /\ pc' = "os"
    /\ UNCHANGED <<machine, frames, consoleWorks, blk, cout, mem, tmpSec,
                   status, locals, inflight, mbrStatus, fbFailed>>

\* virtio_zipl_fallback returns to virtio_load_stage2.
FallbackReturn ==
    /\ pc = "fb_ret"
    /\ fbFailed' = TRUE
    /\ pc' = AfterFallback
    /\ UNCHANGED <<machine, frames, consoleWorks, blk, cout, mem, tmpSec,
                   status, locals, inflight, mbrStatus, jumpTo>>

(* zipl_load_segment: read a block pointer list into sec, load its entries *)
(* up to a zero blockno; the last slot (max_entries - 1) only names the    *)
(* next list.                                                             *)

SegRead ==
    /\ pc = "seg_read"
    /\ CallRead(seg.blockno, MemAt(Sec), "seg_scan")
    /\ UNCHANGED <<machine, ld, puts, consoleWorks, blk, cout, mem, tmpSec,
                   status, locals, inflight, history>>

SegScan ==
    /\ pc = "seg_scan"
    /\ IF status # 0
       THEN segResult' = -1 /\ CallPuts(1, "zr_next") /\ UNCHANGED seg
       ELSE seg' = [seg EXCEPT !.i = 0] /\ pc' = "seg_entry"
            /\ UNCHANGED <<puts, segResult>>
    /\ UNCHANGED <<machine, rd, ld, ret, consoleWorks, blk, cout, mem, tmpSec,
                   status, sector, stage2, ldResult, entry, inflight, history>>

\* Mutant: the continuation test is i == max_entries, so the last slot is
\* loaded as data.
SegEntryLastSlotLoaded ==
    /\ pc = "seg_entry"
    /\ LET p == Slot(SectorAt(Sec), seg.i + 1) IN
       /\ seg' = [seg EXCEPT !.blockno = p.blockno]
       /\ CASE p.blockno = 0 ->
                   segResult' = 0 /\ pc' = "zr_next" /\ UNCHANGED <<ld, ret, ldResult>>
            [] seg.i = MaxEntries ->
                   pc' = "seg_read" /\ UNCHANGED <<ld, ret, ldResult, segResult>>
            [] OTHER ->
                   LoadDirect(p, seg.addr, "seg_after") /\ UNCHANGED segResult
    /\ UNCHANGED <<machine, rd, puts, consoleWorks, blk, cout, mem, tmpSec,
                   status, sector, stage2, entry, inflight, history>>

SegEntry ==
    /\ pc = "seg_entry"
    /\ LET p == Slot(SectorAt(Sec), seg.i + 1) IN
       /\ seg' = [seg EXCEPT !.blockno = p.blockno]
       /\ CASE p.blockno = 0 ->
                   segResult' = 0 /\ pc' = "zr_next" /\ UNCHANGED <<ld, ret, ldResult>>
            [] seg.i = MaxEntries - 1 ->
                   pc' = "seg_read" /\ UNCHANGED <<ld, ret, ldResult, segResult>>
            [] OTHER ->
                   LoadDirect(p, seg.addr, "seg_after") /\ UNCHANGED segResult
    /\ UNCHANGED <<machine, rd, puts, consoleWorks, blk, cout, mem, tmpSec,
                   status, sector, stage2, entry, inflight, history>>

SegAfter ==
    /\ pc = "seg_after"
    /\ IF ldResult = -1
       THEN segResult' = -1 /\ CallPuts(1, "zr_next") /\ UNCHANGED seg
       ELSE /\ seg' = [seg EXCEPT !.addr = ldResult, !.i = @ + 1]
            /\ pc' = "seg_entry"
            /\ UNCHANGED <<puts, segResult>>
    /\ UNCHANGED <<machine, rd, ld, ret, consoleWorks, blk, cout, mem, tmpSec,
                   status, sector, stage2, ldResult, entry, inflight, history>>

-----------------------------------------------------------------------------
(* The host (environment).  It takes a published chain when it likes, and *)
(* completes the oldest one later: a block read writes the sectors and a   *)
(* status of 0, or, when a sector is past the end of the disk or one may   *)
(* fail, VIRTIO_BLK_S_IOERR (1) and no data.                               *)

\* The shape of a virtio_read (or virtio_read_many) request.
IsReadRequest(c) ==
    /\ Len(c) = 3
    /\ c[1].addr.kind = "hdr" /\ c[1].flags = {"NEXT"}
    /\ c[2].flags = {"WRITE", "NEXT"}
    /\ c[2].len % SectorSize = 0 /\ c[2].len >= SectorSize
    /\ c[2].addr.kind = "tmp" => c[2].len = SectorSize
    /\ c[3].addr.kind = "status" /\ c[3].flags = {"WRITE"}

ReadOutcomes(ss) ==
    IF \E s \in ss : s \notin DOMAIN disk.blocks THEN {FALSE}
    ELSE IF ss \cap disk.faulty # {} THEN BOOLEAN ELSE {TRUE}

HostTakeBlk ==
    /\ Ring!HostPending(blk)
    /\ inflight' = [inflight EXCEPT !.blk = Append(@, Ring!HostChain(blk))]
    /\ blk' = Ring!HostPop(blk)
    /\ UNCHANGED <<machine, pc, frames, consoleWorks, cout, mem, tmpSec,
                   status, locals, history>>

HostServeBlk ==
    /\ inflight.blk # <<>>
    /\ LET c == Head(inflight.blk)
           s == c[1].addr.sector
           dest == c[2].addr
           n == c[2].len \div SectorSize
       IN /\ IsReadRequest(c)
          /\ \E ok \in ReadOutcomes(s .. s + n - 1) :
               IF ok
               THEN /\ status' = 0
                    /\ IF dest.kind = "mem"
                       THEN mem' = [a \in {dest.at + SectorSize * j : j \in 0 .. n - 1}
                                      |-> disk.blocks[s + (a - dest.at) \div SectorSize]]
                                   @@ mem
                            /\ UNCHANGED tmpSec
                       ELSE tmpSec' = disk.blocks[s] /\ UNCHANGED mem
               ELSE status' = 1 /\ UNCHANGED <<mem, tmpSec>>
    /\ inflight' = [inflight EXCEPT !.blk = Tail(@)]
    /\ blk' = Ring!HostPush(blk)
    /\ UNCHANGED <<machine, pc, frames, consoleWorks, cout, locals, history>>

HostTakeCout ==
    /\ Ring!HostPending(cout)
    /\ inflight' = [inflight EXCEPT !.cout = Append(@, Ring!HostChain(cout))]
    /\ cout' = Ring!HostPop(cout)
    /\ UNCHANGED <<machine, pc, frames, consoleWorks, blk, mem, tmpSec,
                   status, locals, history>>

HostServeCout ==
    /\ inflight.cout # <<>>
    /\ inflight' = [inflight EXCEPT !.cout = Tail(@)]
    /\ cout' = Ring!HostPush(cout)
    /\ UNCHANGED <<machine, pc, frames, consoleWorks, blk, mem, tmpSec,
                   status, locals, history>>

-----------------------------------------------------------------------------
\* Where the loader ends: in stage2, in the loaded program, or in
\* virtio_stop or the spin of virtio_panic, or (ccw) the spin after the
\* fallback returned.
Terminal == {"stage2", "os", "stop", "hang"}

Init ==
    /\ disk \in Disks
    /\ transport \in Transports
    /\ devs \in IF transport = "s390" THEN DeviceLists ELSE Subchannels
    /\ pc = "setup"
    /\ rd = [sector |-> 0, dest |-> Tmp, num |-> 1]
    /\ ld = [sec |-> 0, num |-> 0, i |-> 0, addr |-> 0]
    /\ puts = [left |-> 0, back |-> "setup"]
    /\ ret = [read |-> "setup", ld |-> "setup"]
    /\ consoleWorks = FALSE
    /\ blk = Ring!VringInit(0)
    /\ cout = Ring!VringInit(0)
    /\ mem = [a \in {} |-> ZeroSector]
    /\ tmpSec = ZeroSector
    /\ status = 0
    /\ sector = 1
    /\ stage2 = Stage2Addr
    /\ ldResult = 0
    /\ seg = [blockno |-> 0, addr |-> 0, i |-> 0]
    /\ segResult = 0
    /\ entry = 1
    /\ inflight = [blk |-> <<>>, cout |-> <<>>]
    /\ mbrStatus = 0
    /\ fbFailed = FALSE
    /\ jumpTo = 0

Driver ==
    \/ Setup \/ CcwSetup \/ CcwLd \/ CcwLdRead \/ CcwLdCheck \/ InitMbr \/ S2Loop \/ S2After \/ S2Bss
    \/ LdLoop \/ LdRead \/ LdCheck
    \/ RdHdr \/ RdData \/ RdStatus \/ RdWait \/ PutsStep \/ PutsWait
    \/ FallbackStart \/ ZlMbr \/ ZlMagic \/ ZlTable \/ ZrHeader \/ ZrEntry
    \/ ZrNext \/ ZrJump \/ FallbackReturn \/ SegRead \/ SegScan \/ SegEntry
    \/ SegAfter

Host == HostTakeBlk \/ HostServeBlk \/ HostTakeCout \/ HostServeCout

\* One turn of a wait loop that has no answer yet: vring_notify, and (no
\* timeout) round again.
WaitSpin ==
    /\ \/ pc = "rd_wait" /\ ~Ring!Answered(blk)
       \/ pc = "puts_wait" /\ ~Ring!Answered(cout)
    /\ UNCHANGED vars

\* Once the CPU has jumped away or stopped, nothing of the loader moves.
Halted == pc \in Terminal /\ UNCHANGED vars

Next == Driver \/ Host \/ WaitSpin \/ Halted

\* The CPU runs the loader without preemption, and the host services a
\* queue the driver keeps notifying in its wait loop.
Spec == Init /\ [][Next]_vars /\ WF_vars(Driver)
        /\ WF_vars(HostTakeBlk) /\ WF_vars(HostServeBlk)
        /\ WF_vars(HostTakeCout) /\ WF_vars(HostServeCout)

-----------------------------------------------------------------------------
(* Properties.                                                             *)

PCs == {"setup", "init_mbr", "s2_loop", "s2_after", "s2_bss", "ld_loop",
        "ld_read", "ld_check", "rd_hdr", "rd_data", "rd_status", "rd_wait",
        "puts", "puts_wait", "fallback", "zl_mbr", "zl_magic", "zl_table",
        "zr_header", "zr_entry", "zr_next", "zr_jump", "fb_ret", "seg_read",
        "seg_scan", "seg_entry", "seg_after", "ccw_ld", "ccw_ld_read",
        "ccw_ld_check"} \cup Terminal

DescOK(d) ==
    /\ d.addr.kind \in {"none", "hdr", "status", "mem", "tmp", "str"}
    /\ d.flags \subseteq Ring!Flags /\ d.len \in Nat /\ d.next \in Nat

\* Every variable holds a value of its kind.
TypeOK ==
    /\ transport \in {"s390", "ccw"}
    /\ pc \in PCs /\ ret.read \in PCs /\ ret.ld \in PCs /\ puts.back \in PCs
    /\ puts.left \in 0 .. 4
    /\ status \in {0, 1} /\ mbrStatus \in {0, 1} /\ fbFailed \in BOOLEAN
    /\ blk.next \in 0 .. 3 /\ cout.next \in 0 .. 1
    /\ \A q \in {"blk", "cout"} : \A i \in DOMAIN inflight[q] :
          \A j \in DOMAIN inflight[q][i] : DescOK(inflight[q][i][j])
    /\ DOMAIN mem \subseteq Int

\* Reference: the block pointers of a list from slot i to the first zero.
RECURSIVE Listed(_, _)
Listed(s, i) == IF i > Len(s) \/ s[i].blockno = 0 THEN <<>>
                ELSE <<s[i]>> \o Listed(s, i + 1)

\* Reference: the address each listed sector belongs at when the list is
\* loaded contiguously from address a.
RECURSIVE Placement(_, _)
Placement(ps, a) ==
    IF ps = <<>> THEN {}
    ELSE LET p == Head(ps) IN
         {<<a + SectorSize * j, p.blockno + j>> : j \in 0 .. p.ct}
         \cup Placement(Tail(ps), a + SectorSize * (p.ct + 1))

Loaded(pl) == \A x \in pl : SectorAt(x[1]) = disk.blocks[x[2]]

\* When the loader calls stage2 after reading the MBR and without falling
\* back, every sector of the MBR's stage2 list is at its place from 0x2000
\* (virtio_load_stage2, virtio_load_direct, virtio_read): no sector is
\* skipped, read twice, written to the wrong address, or cleared as BSS.
Stage2Loaded ==
    pc = "stage2" /\ mbrStatus = 0 /\ ~fbFailed
        => Loaded(Placement(Listed(disk.blocks[0].slots, 3), Stage2Addr))

\* Reference: the data pointers of a segment, the last slot of a full list
\* naming the next list.
RECURSIVE SegmentPtrs(_)
SegmentPtrs(b) ==
    LET s == disk.blocks[b].slots
        data == Listed(SubSeq(s, 1, IF Len(s) < MaxEntries THEN Len(s)
                                    ELSE MaxEntries - 1), 1)
    IN IF Len(data) = MaxEntries - 1 /\ Len(s) = MaxEntries
          /\ s[MaxEntries].blockno # 0
       THEN data \o SegmentPtrs(s[MaxEntries].blockno)
       ELSE data

\* The default program: the header named by the program table's first entry.
DefaultHeader ==
    disk.blocks[Slot(disk.blocks[Slot(disk.blocks[0], 2).blockno], 2).blockno]

RECURSIVE LoadPrefix(_)
LoadPrefix(es) == IF es = <<>> \/ Head(es).ctype # "LOAD" THEN <<>>
                  ELSE <<Head(es)>> \o LoadPrefix(Tail(es))

\* When the fallback jumps into the program it loaded, every sector of
\* every LOAD segment is at its place, following the pointer lists through
\* their continuation slots, and the jump goes to the EXEC entry's address
\* without the addressing-mode bit (zipl_load, zipl_run,
\* zipl_load_segment).
ProgramLoaded ==
    pc = "os" =>
        LET loads == LoadPrefix(DefaultHeader.entries)
        IN /\ \A k \in DOMAIN loads :
                  Loaded(Placement(SegmentPtrs(loads[k].blockno),
                                   loads[k].load.lo))
           /\ jumpTo = DefaultHeader.entries[Len(loads) + 1].load.lo

\* The host only ever holds the request the driver is waiting for, and
\* holds it complete: header, data buffer and status byte, for the sector,
\* buffer and sector count of the current virtio_read or virtio_read_many
\* (vring_send_buf publishes a chain only with its last descriptor;
\* vring_wait_reply resets next_idx).
HostSeesCurrentRequest ==
    /\ Len(inflight.blk) <= 1
    /\ \A i \in DOMAIN inflight.blk :
          LET c == inflight.blk[i] IN
          /\ IsReadRequest(c)
          /\ c[1].addr.sector = rd.sector
          /\ c[2].addr = rd.dest
          /\ c[2].len = SectorSize * rd.num

\* The loader always ends: it calls stage2, jumps into the loaded program
\* or stops after a panic; no wait of virtio_read or virtio_puts spins for
\* ever on a used index the host has already moved.
BootEnds == <>(pc \in Terminal)

\* When the fallback has given up ("Failed to load OS from hard disk"), the
\* loader does not go on to call stage2: the fallback is there because no
\* stage2 was installed.
NoStage2AfterFailedFallback == pc = "stage2" => ~fbFailed
=============================================================================
