----------------------------- MODULE ZgetdumpTape -----------------------------
(***************************************************************************)
(* zgetdump (src/zdump/zgetdump.c) on a tape dump: main() copying the dump *)
(* to stdout with get_dump, load_next and check_and_write_end_marker,      *)
(* checking one tape with -i, and checking all volumes with -i -a.         *)
(*                                                                         *)
(* A dump is written over volumes of cap blocks each.  A tape holds the    *)
(* dump header, its blocks, and a last record: "ENDOFVOL" on every volume *)
(* but the last, the end marker "DUMP_END" with the end time on the last.  *)
(* A record is known by the string in its first 8 bytes (tag); a memory   *)
(* block's tag is whatever the memory held there.  When a volume ends,     *)
(* the operator mounts the next tape: the right one, or, in the modes of   *)
(* ErrorModes, any tape of the library.                                    *)
(***************************************************************************)
EXTENDS Integers, Sequences, SequencesExt

CONSTANTS
  Dumps,          \* dumps in the library: [tod, mem (block tags), cap, endTime]
  FirstVolumes,   \* volume numbers of the tape mounted when zgetdump starts
  ErrorModes,     \* the modes in which the operator may mount any tape next
  Modes,          \* "copy" (no option), "check" (-i), "checkall" (-i -a)
  TimeValues      \* what the bytes after a block's first 8 may read as

ASSUME \A d \in Dumps : d.cap >= 1 /\ Len(d.mem) >= 1

NumVolumes(d) == (Len(d.mem) + d.cap - 1) \div d.cap
Tapes == UNION {{[dump |-> d, vol |-> v] : v \in 0 .. NumVolumes(d) - 1} : d \in Dumps}
LastVolume(t) == t.vol = NumVolumes(t.dump) - 1
NBlocks(t) == IF LastVolume(t) THEN Len(t.dump.mem) - t.vol * t.dump.cap ELSE t.dump.cap

\* Record p of tape t: 1 the header, then the blocks, then the last record.
Rec(t, p) ==
  CASE p = 1 -> [tag |-> "HDR", tod |-> t.dump.tod, volnr |-> t.vol,
                 memsize |-> Len(t.dump.mem)]
    [] p <= NBlocks(t) + 1 ->
         LET k == t.vol * t.dump.cap + p - 1
         IN  [tag |-> t.dump.mem[k], blk |-> <<t.dump.tod, k>>]
    [] p = NBlocks(t) + 2 /\ LastVolume(t) ->
         [tag |-> "DUMP_END", time |-> t.dump.endTime]
    [] p = NBlocks(t) + 2 -> [tag |-> "ENDOFVOL"]
    \* past the last record: a file mark, read returns no data
    [] OTHER -> [tag |-> "FM", time |-> 0]

\* The last record of the tape file, where tape_forwards (MTFSFM, MTBSR)
\* leaves the tape.
LastRecord(t) == NBlocks(t) + 2

VARIABLES
  mode,      \* the options given
  tape,      \* the tape mounted
  pos,       \* the record the tape is positioned at
  hdr,       \* the global header, last read by get_header
  i,         \* the block counter of get_dump
  out,       \* what has been written to stdout
  pc,        \* "copy", "load", "check", "next", "done"
  rc,        \* main's return code
  verdict,   \* what zgetdump has told the user about the dump
  curVolnr, curTime,  \* cur_volnr and cur_time of the -i -a loop
  loaded     \* the tapes mounted, in order

vars == <<mode, tape, pos, hdr, i, out, pc, rc, verdict, curVolnr, curTime, loaded>>

\* The tapes the operator may mount after t, when load_next waits.
Mountable(t) ==
  IF mode \in ErrorModes THEN Tapes
  ELSE {u \in Tapes : u.dump = t.dump /\ u.vol = t.vol + 1}

\* dump_end_times on record r: the end marker, and an end after the start.
EndTimesOK(r, tv) == r.tag = "DUMP_END" /\ tv >= hdr.tod
\* The end time in record r: a block that looks like an end marker
\* holds some other data where the end time would be.
EndTimes(r) == IF "time" \in DOMAIN r THEN {r.time} ELSE TimeValues

TypeOK ==
  /\ mode \in Modes /\ tape \in Tapes /\ pos \in Nat /\ i \in Nat
  /\ pc \in {"copy", "load", "check", "next", "done"} /\ rc \in {0, 1}
  /\ verdict \in {"none", "valid", "valid_part", "invalid"}
  /\ loaded \in Seq(Tapes)

\* open_dump, get_header, print_s390_header, and in copy mode write_header.
Init ==
  /\ mode \in Modes
  /\ tape \in {t \in Tapes : t.vol \in FirstVolumes}
  /\ pos = 2 /\ hdr = Rec(tape, 1) /\ i = 0
  /\ out = IF mode = "copy" THEN <<hdr>> ELSE <<>>
  /\ pc = CASE mode = "copy" -> "copy" [] mode = "check" -> "check" [] OTHER -> "next"
  /\ rc = 0 /\ verdict = "none"
  /\ curVolnr = hdr.volnr /\ curTime = hdr.tod
  /\ loaded = <<tape>>

(***************************************************************************)
(* Copying (no option).                                                    *)
(***************************************************************************)

\* Mutants of ReadBlock: the block written before the markers are tested,
\* and the end marker consumed without the MTBSR.
ReadBlockWritesMarker ==
  /\ mode = "copy" /\ pc = "copy" /\ i < hdr.memsize
  /\ LET r == Rec(tape, pos) IN
       CASE r.tag = "ENDOFVOL" -> pc' = "load" /\ pos' = pos + 1 /\ out' = Append(out, r)
                                  /\ UNCHANGED i
         [] r.tag = "DUMP_END" -> pc' = "check" /\ UNCHANGED <<pos, i, out>>
         [] OTHER -> out' = Append(out, r) /\ pos' = pos + 1 /\ i' = i + 1
                       /\ UNCHANGED pc
  /\ UNCHANGED <<mode, tape, hdr, rc, verdict, curVolnr, curTime, loaded>>
ReadBlockNoBsr ==
  /\ mode = "copy" /\ pc = "copy" /\ i < hdr.memsize
  /\ LET r == Rec(tape, pos) IN
       CASE r.tag = "ENDOFVOL" -> pc' = "load" /\ pos' = pos + 1 /\ UNCHANGED <<i, out>>
         [] r.tag = "DUMP_END" -> pc' = "check" /\ pos' = pos + 1 /\ UNCHANGED <<i, out>>
         [] OTHER -> out' = Append(out, r) /\ pos' = pos + 1 /\ i' = i + 1
                       /\ UNCHANGED pc
  /\ UNCHANGED <<mode, tape, hdr, rc, verdict, curVolnr, curTime, loaded>>

\* One turn of get_dump's loop over dh_memory_size / BLOCK_SIZE blocks:
\* "ENDOFVOL" returns 1; "DUMP_END" returns 2 after backspacing over it
\* (MTBSR); any other block is written to stdout.
ReadBlock ==
  /\ mode = "copy" /\ pc = "copy" /\ i < hdr.memsize
  /\ LET r == Rec(tape, pos) IN
       CASE r.tag = "ENDOFVOL" -> pc' = "load" /\ pos' = pos + 1 /\ UNCHANGED <<i, out>>
         [] r.tag = "DUMP_END" -> pc' = "check" /\ UNCHANGED <<pos, i, out>>
         [] OTHER -> out' = Append(out, r) /\ pos' = pos + 1 /\ i' = i + 1
                       /\ UNCHANGED pc
  /\ UNCHANGED <<mode, tape, hdr, rc, verdict, curVolnr, curTime, loaded>>

\* The loop has read as many blocks as the dump has: get_dump returns 0.
BlocksDone ==
  /\ mode = "copy" /\ pc = "copy" /\ i >= hdr.memsize
  /\ pc' = "check"
  /\ UNCHANGED <<mode, tape, pos, hdr, i, out, rc, verdict, curVolnr, curTime, loaded>>

\* get_dump returned 1: load_next (MTOFFL, MTLOAD, MTREW), get_header,
\* print_s390_header, and get_dump again from block 0.
LoadNext ==
  /\ mode = "copy" /\ pc = "load"
  /\ \E t \in Mountable(tape) :
       /\ tape' = t /\ hdr' = Rec(t, 1) /\ pos' = 2 /\ i' = 0
       /\ loaded' = Append(loaded, t)
  /\ pc' = "copy"
  /\ UNCHANGED <<mode, out, rc, verdict, curVolnr, curTime>>

\* check_and_write_end_marker: read the record, write it if it is a valid
\* end marker.  main ignores the result: rc stays 0 either way.
CheckEndMarker ==
  /\ mode = "copy" /\ pc = "check"
  /\ LET r == Rec(tape, pos) IN
       \E tv \in EndTimes(r) :
         IF EndTimesOK(r, tv)
           THEN out' = Append(out, r) /\ verdict' = "valid"
           ELSE verdict' = "invalid" /\ UNCHANGED out
  /\ pc' = "done"
  /\ UNCHANGED <<mode, tape, pos, hdr, i, rc, curVolnr, curTime, loaded>>

(***************************************************************************)
(* Checking (-i and -i -a): tape_forwards, then dump_end_times on the     *)
(* last record of the tape, then vol_end.                                  *)
(***************************************************************************)
CheckOne ==
  /\ mode = "check" /\ pc = "check"
  /\ LET r == Rec(tape, LastRecord(tape)) IN
       \E tv \in EndTimes(r) :
         CASE EndTimesOK(r, tv) -> verdict' = "valid" /\ rc' = 0
           [] r.tag = "ENDOFVOL" -> verdict' = "valid_part" /\ rc' = 0
           [] OTHER -> verdict' = "invalid" /\ rc' = 1
  /\ pos' = LastRecord(tape) /\ pc' = "done"
  /\ UNCHANGED <<mode, tape, hdr, i, out, curVolnr, curTime, loaded>>

\* The verdict of the -i -a loop on the mounted tape: done with the end
\* marker, on to the next volume at "ENDOFVOL", failed otherwise.
CheckAllVolume(t, h) ==
  LET r == Rec(t, LastRecord(t)) IN
    \E tv \in EndTimes(r) :
      CASE r.tag = "DUMP_END" /\ tv >= h.tod -> verdict' = "valid" /\ rc' = 0 /\ pc' = "done"
        [] r.tag = "ENDOFVOL" -> UNCHANGED <<verdict, rc>> /\ pc' = "load"
        [] OTHER -> verdict' = "invalid" /\ rc' = 1 /\ pc' = "done"

\* The first tape of -i -a.
CheckAllFirst ==
  /\ mode = "checkall" /\ pc = "next"
  /\ CheckAllVolume(tape, hdr)
  /\ pos' = LastRecord(tape)
  /\ UNCHANGED <<mode, tape, hdr, i, out, curVolnr, curTime, loaded>>

\* Mutant of CheckAllNext: the time stamp of the loaded volume not compared.
CheckAllNextNoTod ==
  /\ mode = "checkall" /\ pc = "load"
  /\ \E t \in Mountable(tape) :
       LET h == Rec(t, 1) IN
       /\ tape' = t /\ hdr' = h /\ loaded' = Append(loaded, t)
       /\ curVolnr' = curVolnr + 1
       /\ IF h.volnr # curVolnr + 1
            THEN verdict' = "invalid" /\ rc' = 1 /\ pc' = "done" /\ pos' = 2
            ELSE CheckAllVolume(t, h) /\ pos' = LastRecord(t)
  /\ UNCHANGED <<mode, i, out, curTime>>

\* One turn of the while (vol_end() == 0) loop: load the next tape, check
\* that it is volume cur_volnr + 1 with the same time stamp, check it.
CheckAllNext ==
  /\ mode = "checkall" /\ pc = "load"
  /\ \E t \in Mountable(tape) :
       LET h == Rec(t, 1) IN
       /\ tape' = t /\ hdr' = h /\ loaded' = Append(loaded, t)
       /\ curVolnr' = curVolnr + 1
       /\ IF h.volnr # curVolnr + 1 \/ h.tod # curTime
            THEN verdict' = "invalid" /\ rc' = 1 /\ pc' = "done" /\ pos' = 2
            ELSE CheckAllVolume(t, h) /\ pos' = LastRecord(t)
  /\ UNCHANGED <<mode, i, out, curTime>>

Done == pc = "done" /\ UNCHANGED vars

Next == ReadBlock \/ BlocksDone \/ LoadNext \/ CheckEndMarker \/ CheckOne
          \/ CheckAllFirst \/ CheckAllNext \/ Done

\* zgetdump runs alone; load_next waits until the operator has mounted.
Spec == Init /\ [][Next]_vars /\ WF_vars(Next)

-----------------------------------------------------------------------------
\* What was written to stdout after the header and before the end marker:
\* memory blocks, and any volume marker written as if it were one (a file
\* mark reads no data and writes nothing).
IsContent(r) == "blk" \in DOMAIN r \/ r.tag = "ENDOFVOL"
Data(s) ==
  LET b == SelectSeq(s, IsContent)
  IN  [k \in 1 .. Len(b) |-> IF "blk" \in DOMAIN b[k] THEN b[k].blk ELSE <<b[k].tag>>]
DumpBlocks(d) == [k \in 1 .. Len(d.mem) |-> <<d.tod, k>>]
\* The volumes of dump d, in order.
AllVolumes(d) == [k \in 1 .. NumVolumes(d) |-> [dump |-> d, vol |-> k - 1]]

(***************************************************************************)
(* Copying implements DumpCopy: stdout receives the blocks of the dump on  *)
(* the first tape in order, and the dump is declared valid only once all  *)
(* of them are written (get_dump, load_next, check_and_write_end_marker). *)
(***************************************************************************)
Abstract == INSTANCE DumpCopy WITH memory <- DumpBlocks(loaded[1].dump),
              copied <- Data(out), finished <- (mode = "copy" /\ verdict = "valid")
CopyRefinesDumpCopy == Abstract!Spec

(***************************************************************************)
(* A copy of a dump whose tapes are mounted in order ends with the end     *)
(* marker found and the dump declared valid.                               *)
(***************************************************************************)
IntactDumpCopied == (mode = "copy") ~> (pc = "done" /\ verdict = "valid")

(***************************************************************************)
(* When the copy says "this dump is valid", stdout holds exactly the       *)
(* blocks of the dump it started on, in order (whatever tapes the operator *)
(* mounted on the way).                                                    *)
(***************************************************************************)
ValidCopyIsDump ==
  (mode = "copy" /\ verdict = "valid") => Data(out) = DumpBlocks(loaded[1].dump)

(***************************************************************************)
(* When -i -a says "this dump is valid", the tapes mounted were all the    *)
(* volumes of one dump, from volume 0 on, in order: the loop checks the    *)
(* volume number and the time stamp of each tape it loads.                 *)
(***************************************************************************)
CheckAllSound ==
  (mode = "checkall" /\ verdict = "valid") => loaded = AllVolumes(loaded[1].dump)

(***************************************************************************)
(* zgetdump's exit status is 0 exactly when it has found the dump valid:  *)
(* a script that copies a dump relies on it.                               *)
(***************************************************************************)
ExitStatusMatchesVerdict ==
  pc = "done" => (rc = 0 <=> verdict \in {"valid", "valid_part"})
=============================================================================
