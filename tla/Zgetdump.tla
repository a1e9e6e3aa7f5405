------------------------------- MODULE Zgetdump -------------------------------
(***************************************************************************)
(* zgetdump's main (src/zdump/zgetdump.c): parse_opts, then either the     *)
(* dump tool report of -d, or open_dump and get_header, after which the    *)
(* device decides which component runs: the tape paths (ZgetdumpTape),    *)
(* the multi-volume DASD paths (ZgetdumpMv) or the single-volume disk      *)
(* paths (ZgetdumpDasd).  The components not picked never move.           *)
(*                                                                         *)
(* A device is described by what main's tests find on it: whether         *)
(* MTIOCGET works (tape), what stat says (device, partition, or no block  *)
(* device, i.e. a file), the dump tools check_dump_tool_fba and            *)
(* check_dump_tool_eckd find, the magic of the header, and whether the    *)
(* header carries the multi-volume signature.                              *)
(***************************************************************************)
EXTENDS Sequences

CONSTANTS Dumps, FirstVolumes, ErrorModes, Modes, TimeValues, Layouts, Disks,
  OptionSets,  \* the options given, as sets of "i", "a", "d", "h", "v", "?" (unknown)
  Devices      \* [tape, node, fba, eckd, magic, mvsig]

VARIABLES
  stage,     \* "start", "tape", "mvdasd", "dasd", "exit"
  opts, dev, exitRc,
  mode, tape, pos, hdr, i, out, pc, rc, verdict, curVolnr, curTime, loaded,
  layout, cpc, ci, partOff, total, done, mvOut, crc, kpc, ki, ktotal, krc,
  disk, dpc, di, drc, dverdict

mainVars == <<stage, opts, dev, exitRc>>
tapeVars == <<mode, tape, pos, hdr, i, out, pc, rc, verdict, curVolnr, curTime, loaded>>
mvVars == <<layout, cpc, ci, partOff, total, done, mvOut, crc, kpc, ki, ktotal, krc>>
dasdVars == <<disk, dpc, di, drc, dverdict>>
vars == <<mainVars, tapeVars, mvVars, dasdVars>>

Tape == INSTANCE ZgetdumpTape
Mv == INSTANCE ZgetdumpMv WITH out <- mvOut
Dasd == INSTANCE ZgetdumpDasd

\* getopt_long's switch in parse_opts: -h and -v print and exit 0, an
\* unknown option exits 1.  Options are a set, so the one met first is any.
ExitingOptions == {"h", "v", "?"}
\* parse_opts: -a needs -i, and -d excludes -i.
OptionsOK(o) == ("a" \in o => "i" \in o) /\ ~("d" \in o /\ "i" \in o)
\* option_i_set and option_a_set choose among main's three paths.
ModeOf(o) == IF "i" \notin o THEN "copy" ELSE IF "a" \in o THEN "checkall" ELSE "check"

\* check_dump_tool_fba and check_dump_tool_eckd: a version >= 0 was found
\* (a known magic, or the basr r13,0 of an old dumper).
FbaDumper(d) == d.fba \in {"ZDFBA31", "ZDFBA64", "old"}
EckdDumper(d) == d.eckd \in {"ZECKD31", "ZECKD64", "ZMULT64", "old"}
MvFlag(d) == d.eckd = "ZMULT64"

\* check_device: stat fails on a missing path, and a file is no block device.
CheckDevice(d) == IF d.node = "missing" THEN "noblock" ELSE d.node
\* open_block_device: only a whole block device is opened.
OpenBlockDevice(d) == CheckDevice(d) = "device"
\* dev_type: MTIOCGET succeeds on a tape only.
DevType(d) == IF d.tape THEN "tape" ELSE "dasd"

Init ==
  /\ stage = "start" /\ opts \in OptionSets /\ dev \in Devices /\ exitRc = 0
  /\ mode = ModeOf(opts)
  /\ Tape!Init /\ Mv!Init /\ Dasd!DasdInit

othersUnchanged == UNCHANGED <<tapeVars, mvVars, dasdVars>>

\* The help text, the version, or the complaint about an unknown option.
OptionExit ==
  /\ stage = "start"
  /\ \E c \in opts \cap ExitingOptions : exitRc' = IF c = "?" THEN 1 ELSE 0
  /\ stage' = "exit"
  /\ UNCHANGED <<opts, dev>> /\ othersUnchanged

\* parse_opts prints the help text and exits 1.
BadOptions ==
  /\ stage = "start" /\ opts \cap ExitingOptions = {} /\ ~OptionsOK(opts)
  /\ stage' = "exit" /\ exitRc' = 1
  /\ UNCHANGED <<opts, dev>> /\ othersUnchanged

\* -d: open_block_device refuses anything but a whole block device; then
\* the dump tool is reported (print_dump_info, or get_mvdump_info and
\* print_mvdump_info), or "is no dump device".  The 64-bit dumpers only:
\* print_dump_info's check_kernel_mode concerns 31-bit ones.
DeviceInfo ==
  /\ stage = "start" /\ opts \cap ExitingOptions = {} /\ OptionsOK(opts) /\ "d" \in opts
  /\ stage' = "exit"
  /\ exitRc' = CASE ~OpenBlockDevice(dev) -> 1
                 [] FbaDumper(dev) -> 0
                 [] EckdDumper(dev) /\ MvFlag(dev) -> IF Mv!MvdumpInfoOK THEN 0 ELSE 1
                 [] EckdDumper(dev) -> 0
                 [] OTHER -> 1
  /\ UNCHANGED <<opts, dev>> /\ othersUnchanged

\* open_dump (exit 1 if the path cannot be opened), get_header, dev_type,
\* and the tests that send a disk to the multi-volume or the single-volume
\* paths.
OpenDump ==
  /\ stage = "start" /\ opts \cap ExitingOptions = {} /\ OptionsOK(opts) /\ "d" \notin opts
  /\ CASE dev.node = "missing" -> stage' = "exit" /\ exitRc' = 1
       [] DevType(dev) = "tape" -> stage' = "tape" /\ UNCHANGED exitRc
       [] dev.magic \in {"lkcd", "live"} -> stage' = "exit" /\ UNCHANGED exitRc
       [] CheckDevice(dev) = "device" /\ MvFlag(dev) -> stage' = "mvdasd" /\ UNCHANGED exitRc
       [] CheckDevice(dev) = "device" -> stage' = "exit" /\ exitRc' = 1
       [] CheckDevice(dev) = "partition" /\ dev.mvsig -> stage' = "exit" /\ exitRc' = 1
       [] OTHER -> stage' = "dasd" /\ UNCHANGED exitRc
  /\ UNCHANGED <<opts, dev>> /\ othersUnchanged

\* main returns.
Exit == stage = "exit" /\ UNCHANGED vars

Next ==
  \/ OptionExit \/ BadOptions \/ DeviceInfo \/ OpenDump
  \/ stage = "tape" /\ Tape!Next /\ UNCHANGED <<mainVars, mvVars, dasdVars>>
  \/ stage = "mvdasd" /\ Mv!Next /\ UNCHANGED <<mainVars, tapeVars, dasdVars>>
  \/ stage = "dasd" /\ Dasd!DasdNext /\ UNCHANGED <<mainVars, tapeVars, mvVars>>
  \/ Exit

\* zgetdump runs alone; it waits only for the operator to mount a tape.
Spec == Init /\ [][Next]_vars /\ WF_vars(Next)

-----------------------------------------------------------------------------
(***************************************************************************)
(* Copying a tape dump implements DumpCopy (ZgetdumpTape's refinement).    *)
(***************************************************************************)
CopyRefinesDumpCopy == Tape!CopyRefinesDumpCopy

(***************************************************************************)
(* A copy of a tape dump whose tapes are mounted in order ends with the    *)
(* end marker found and the dump declared valid.                           *)
(***************************************************************************)
IntactDumpCopied ==
  (stage = "tape" /\ mode = "copy") ~> (pc = "done" /\ verdict = "valid")

(***************************************************************************)
(* -i -a calls a tape dump valid only after all its volumes, in order.     *)
(***************************************************************************)
CheckAllSound == Tape!CheckAllSound

(***************************************************************************)
(* A multi-volume DASD copy that exits 0 wrote the header once, the whole  *)
(* memory in order, and the end marker.                                    *)
(***************************************************************************)
MvValidCopyIsDump == Mv!MvValidCopyIsDump

(***************************************************************************)
(* On a multi-volume DASD dump, -i says valid exactly when the copy finds  *)
(* the end marker.                                                         *)
(***************************************************************************)
CheckAgreesWithCopy == Mv!CheckAgreesWithCopy

(***************************************************************************)
(* On a multi-volume DASD dump that does not end exactly at the end of a   *)
(* volume's data, -i says valid exactly when the copy finds the marker.    *)
(***************************************************************************)
CheckAgreesInsideVolume == Mv!CheckAgreesInsideVolume

(***************************************************************************)
(* A copy of a single-volume disk dump declared valid wrote exactly the    *)
(* dump's memory, not the end marker or what follows it.                   *)
(***************************************************************************)
DasdValidCopyIsDump == Dasd!DasdValidCopyIsDump
=============================================================================
