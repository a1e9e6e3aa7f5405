# TLA+ models of cpuplugd, zgetdump, the zipl virtio boot loaders and the zipl configuration scanner

This directory holds TLA+ models of four programs, or parts of programs, of the repository. TLC checks every model here.
- `cpuplugd` (`src/cpuplugd`) is a daemon. It brings cpus online and offline, and grows or shrinks the CMM memory balloon (`/proc/sys/vm/cmm_pages`). It decides by evaluating rules from its configuration file.
- `zgetdump` (`src/zdump`) copies an s390 crash dump from a dump tape or disk to stdout, or checks that a dump is complete (`-i`, `-i -a`).
- The zipl boot loaders for s390-virtio and virtio-ccw guests (`src/zipl/boot/virtio-*.c`, `virtio-ccw-loadstage2.c`) load zipl's stage2 from a virtio disk. If the disk has no virtio stage2, they load the default program of the zipl program table themselves; the ccw loader always does.
- The zipl configuration scanner (`src/zipl/src/scan.c`): `scan_check` decides whether the tokens of a `zipl.conf` follow the sixteen rules listed in its comment.

## The system

`cpuplugd` has these parts:

| Part | Source | What it does |
|---|---|---|
| Rule engine | `terms.c`, and the rule branches of `parse_configline` in `config.c` | `parse_term` is a precedence-climbing parser that turns a rule text into a `struct term` tree. `free_term` releases such a tree. `eval_double` and `eval_term` evaluate a tree on a `struct symbols` snapshot. |
| Configuration | `config.c` | `parse_configfile` and `parse_configline` read the limits `cpu_min`, `cpu_max`, `cmm_min`, `cmm_max` and `cmm_inc`, and the four rules. `check_config` sets the policy flags `cpu` and `memory`, records `num_cpu_start` and `cmm_pagesize_start`, raises the cpus to `cpu_min`, and clamps `cmm_pages`. |
| Decision loop | `main.c` | Each tick, `eval_cpu_rules` runs the hotplug rule, and if that does not hold, the hotunplug rule. `eval_mem_rules` runs the memunplug rule, then the memplug rule. The loop then sleeps. |
| Actuators | `cpu.c`, `mem.c` | `hotplug`, `hotunplug` and `reactivate_cpus` write the sysfs online files. `memplug`, `memunplug`, `set_cmm_pages` and `cleanup_cmm` write `cmm_pages`. |
| Signals | `daemon.c` | `reload_daemon` handles SIGHUP: it re-reads the file, runs `check_config` and `check_max`, and restores the start values. `kill_daemon` handles SIGTERM and SIGINT. It and `clean_up` reactivate cpus and reset `cmm_pages`. The handlers have empty masks and run on the main thread. |
| Sampler | `vmstat.c`, `info.c` | A thread computes `apcr` and `swaprate` every 10 s. The main thread reads load and cpu statistics from `/proc`. |

## Modules

| Module | What it models |
|---|---|
| `Double.tla` | IEEE doubles as exact rationals with a sign, infinities and NaN. `eval_double` and the comparisons of `eval_term` use this arithmetic. |
| `RuleTerms.tla` | The rule engine as RECURSIVE operators. `ParseTerm`, `ParsePrimary`, `ParsePrefix` and `ParseBinary` follow `parse_term` arm by arm. The parse result also counts the nodes that `free_term` leaves allocated. `LoadRule` is the rule branch of `parse_configline`. `EvalDouble` and `EvalTerm` model `eval_double` and `eval_term`, including the fall-through from `OP_MULT` into `OP_DIV` and the `clean_up()` on a boolean node. |
| `RuleGrammar.tla` | The reference definition: the grammar and the evaluation of rules as `spec.md` §4.1–4.2 states them. |
| `MCRuleTerms.tla` | The state is one rule text, extended token by token up to `MaxLen`. Its invariants compare `RuleTerms` with `RuleGrammar` on every reachable text. |
| `Cpuplugd.tla` | The daemon. It is described in the next section. |
| `MCCpuplugd.tla` | Rule texts and configuration files for TLC. |
| `DumpCopy.tla` | The abstract specification of copying a dump: the blocks of memory are written in order, and the copy is declared complete only when all are written. |
| `Zgetdump.tla` | `zgetdump`'s `main`, described below: `parse_opts`, the `-d` report, and the dispatch by device to the tape, multi-volume DASD or single-disk component. All three are instanced; those not picked never move. |
| `ZgetdumpDasd.tla` | `zgetdump` on a single-volume DASD dump, a dump partition or a dump file. It is described below. |
| `ZgetdumpTape.tla` | `zgetdump` on tape dumps. It is described below. It implements `DumpCopy`. |
| `ZgetdumpMv.tla` | `zgetdump` on multi-volume DASD dumps. It is described below. |
| `MCZgetdumpData.tla` | The tape libraries and disk layouts for TLC. |
| `MCZgetdump.tla`, `MCZgetdumpTape.tla` | Instances of `Zgetdump` and of `ZgetdumpTape` on that data. |
| `VirtioRing.tla` | The virtqueue as a record: `vring_init`, `vring_send_buf`, the two halves of `vring_wait_reply`, and the host side of a legacy device. |
| `ZiplVirtio.tla` | The virtio boot loader and its host, described below. |
| `MCZiplVirtio.tla` | The disks, device lists and subchannels for TLC. |
| `ZiplScan.tla` | `scan_check` and everything it calls, as RECURSIVE operators over a token sequence. It is described below. |
| `ZiplConfRules.tla` | The reference definition: the rules of `scan_check`'s comment, stated over the whole token sequence at once. |
| `MCZiplScan.tla` | The state is one configuration text, built piece by piece; its invariant compares `ScanCheck` with `Complies`. |

### Cpuplugd

The state includes the kernel side of the system:
- `online` is the online file of each cpu.
- `cmm` is `cmm_pages`.
- `metrics` holds the values of the symbols.

The daemon's own state has the same names as in the code:
- `cfg`, `cpu`, `memory`, `numCpuStart`, `cmmPagesizeStart` and `sem`;
- `pc` is where the main thread is, and `hpc` is where a handler is.

The main thread takes one step per action:
- `Startup`: `parse_configfile`, `check_config` and `check_max` in `main`.
- `Tick`: the decision of `eval_cpu_rules`.
- `CpuAct`: the `hotplug` or `hotunplug` call.
- `MemDecide`: the decision of `eval_mem_rules`.
- `MemAct`: `set_cmm_pages`, `memunplug` or `memplug`, which re-read `cmm_pages`.

The handlers and the environment are the remaining actions:
- `Sighup` runs `reload_daemon` up to `check_max`, and `ReloadDone` is its restore step.
- `Sigterm` is `kill_daemon`.
- `ChangeMetrics` stands for the kernel and the sampler thread: the metrics change between any two steps.

Other modelling decisions:
- **Handlers freeze the main thread.** A handler runs on the main thread, so the main thread does not step while a handler is in progress (`MainRuns`).
- **Where signals land.** A signal arrives while the loop sleeps (`pc = "tick"`). With `InterruptibleTick` it can also arrive anywhere inside a tick.
- **Aborts.** `CheckConfig` returns whether `clean_up()` was reached. `ExitState` is the state after `reactivate_cpus`, `cleanup_cmm` and `exit`.
- **Rule values are precomputed.** `Init` evaluates each rule on every snapshot and every cpu count once, into the constant variable `rules`.

### Zgetdump

A device is the record of what `main`'s tests find on it: `tape` (the `MTIOCGET` of `dev_type` works), `node` (what `check_device`'s `stat` says: a whole device, a partition, or no block device, i.e. a file), the dump tools `check_dump_tool_fba` and `check_dump_tool_eckd` find, the header's magic, and whether the header has the multi-volume signature. `opts` is the set of options given.
- `OptionExit` is `getopt_long`'s switch: `-h` and `-v` exit 0, an unknown option exits 1. Options are a set, so when several of these are given, any one of them may come first.
- `BadOptions` is `parse_opts`'s refusal of `-a` without `-i` and of `-d` with `-i`: help text, exit 1.
- `DeviceInfo` is the `-d` path: `open_block_device` accepts only a whole device; an FBA or ECKD dumper is reported with exit 0; a multi-volume dumper also needs `get_mvdump_info`; otherwise "is no dump device", exit 1.
- `OpenDump` is `open_dump` (a path that does not exist: exit 1), `get_header`, `dev_type` and the tests after them: a tape goes to `ZgetdumpTape`; an LKCD or live dump on disk is printed, exit 0; a whole device must carry a multi-volume dumper (`ZgetdumpMv`), otherwise exit 1; a partition with the multi-volume signature is refused; anything else goes to `ZgetdumpDasd`.

### ZgetdumpDasd

Sizes are in 4 KiB pages; a copy block is 8 pages. A disk is given by its dump's memory size, the pages that follow the header on the device, and whether the dumper wrote the end marker after the memory.
- `DasdReadBlock` is one turn of `get_dump`'s DASD loop: read a block, or less at the end of the device, write it, and go on while `i < dh_memory_size` and the read returned data.
- `DasdCheckMarker` is the `lseek` to `dh_header_size + dh_memory_size` and `check_and_write_end_marker`. Its result only sets the message: `main` exits 0 either way.
- `DasdCheckInfo` is `-i`: the same seek and `dump_end_times`, exit 1 without the marker.
- `DasdCheckAll` is `-i -a` on a disk, which is refused with exit 1.

The memory sizes are whole blocks (s390 memory comes in megabytes), so the loop cannot read past the memory into the marker.

### ZgetdumpTape

A tape dump is written over volumes. Each tape holds:
- a header with the dump's time stamp, the volume number and the memory size;
- the volume's share of the memory blocks;
- a last record: `ENDOFVOL`, or `DUMP_END` and the end time on the last volume.

`Rec(t, p)` is record `p` of tape `t`. A record is known by its first 8 bytes, its `tag`. A memory block's tag is whatever memory held there. The operator mounts the next tape when `zgetdump` waits (`Mountable`): either the right one, or any tape of the library when the mode is in `ErrorModes`. The pass run has `ErrorModes = {"checkall"}`: `-i -a` is checked against wrong, repeated and skipped tapes, which its volume number and time stamp tests (1332-1341) must refuse; the copy, which makes no such test, gets wrong tapes only in the run `tape_copy_wrong_tape`.

The state is main's: `mode` (the options), `tape` and `pos`, `hdr` (the global `header`), `i` (get_dump's counter), `out` (stdout), `rc`, the verdict printed, `cur_volnr` and `cur_time`, and the tapes mounted so far.

The actions:
- `ReadBlock` is one turn of `get_dump`'s tape loop, including the `MTBSR` after `DUMP_END`. `BlocksDone` is the loop's exit.
- `LoadNext` is `load_next` with the `get_header` after it.
- `CheckEndMarker` is `check_and_write_end_marker`, whose result `main` ignores.
- `CheckOne` is the `-i` branch.
- `CheckAllFirst` and `CheckAllNext` are the `-i -a` branch and its loop, with `vol_end` in `CheckAllVolume`.

`Abstract` maps the implementation onto `DumpCopy`:
- `memory` is the blocks of the dump on the first tape;
- `copied` is what stdout holds between the header and the end marker;
- `finished` is "copy mode and declared valid".

### ZgetdumpMv

A multi-volume DASD dump spreads over partitions on several disks. The dumper is not in the repository; the layout follows what `mvdump_check_or_copy` assumes. Each partition starts with the dump header, and holds the next part of memory in whole pages after it.

A layout gives the memory size, each volume's partition size, status, parameter table, dumper magic and header volume number, and where the end marker is. `Signature` and `MvdumpInfoOK` model `get_mvdump_volume_info` and `get_mvdump_info`. Sizes are in 512-byte units, the smallest DASD block, so partitions need not be whole pages.

Two invocations run on the same disks, interleaved, because the property compares them:
- **The copy:** `CopyOpenVolume` is the top of the loop with the status and signature checks, and `write_header` on volume 0. `CopyChunk` is one turn of `mvdump_copy`, with its cut to whole pages. `CopyVolumeEnd` is the test that calls `check_and_write_end_marker`.
- **`-i`:** `CheckVolume` is one turn of the same loop with `option_i_set`. It computes `data_size`, and either skips the volume or looks for the marker.

### ZiplVirtio

The boot loader runs on one CPU. The host services the block queue and the console output queue at the same time, as the other side of shared memory.

**The ring.** `VirtioRing` keeps the fields the code touches:
- `desc`, `aring` and `aidx` are `avail->ring` and `avail->idx`; `uidx` is `used->idx`;
- `next` is `next_idx`; `last` is the host's own `last_avail` index;
- the indices are u16.

`SendBuf` is `vring_send_buf`:
- it publishes a chain head unless `CHAIN` is given;
- it moves `avail->idx` only on a descriptor without `NEXT`;
- it overwrites `used->idx` with the new `next_idx`.

`Answered` is the loop test of `vring_wait_reply`, and `WaitReset` its tail. The host is the legacy s390-virtio device. It walks a chain through the `NEXT` flags. It completes a request by reading `used->idx` back and adding one, which is what makes `Answered` true. This host is the environment, not code of the repository, so it is not in the map.

**The driver.** `pc` names the statement the CPU is at. The subroutines keep their locals in records:
- `rd` for `virtio_read`;
- `ld` for `virtio_load_direct`;
- `puts` for `virtio_puts`, counting consecutive strings;
- `seg` for `zipl_load_segment`;
- `ret` holds their return points.

Memory `mem` maps the address of a 512-byte buffer to a sector. A sector is a list of 16-byte block pointers (the MBR, the program table, a pointer list), a component header, or payload. Sectors past the end of the list are zero, and so is memory before anything is read into it.

The actions:
- `Setup` is `_sclp_setup` and `virtio_init`: the first console with two queues and the first block device with one queue; then the MBR read to 0x8000.
- `InitMbr` drops the status of that read, as the code does.
- `RdHdr`, `RdData`, `RdStatus` and `RdWait` are `virtio_read`: the three `vring_send_buf` calls and the wait. `PutsStep` and `PutsWait` are `virtio_puts`; without a console it is `early_puts`, a no-op.
- `S2Loop` and `S2After` are `virtio_load_stage2`'s loop over the list at 0x8020, and `S2Bss` is the BSS clear and the call of stage2.
- `LdLoop`, `LdRead` and `LdCheck` are `virtio_load_direct`. `CallLd` decodes `sec_num` with its `& 0xffff` and returns -1 for a sector size other than 512.
- The fallback is `FallbackStart`, `ZlMbr`, `ZlMagic` and `ZlTable` (`zipl_load`), then `ZrHeader`, `ZrEntry`, `ZrNext` and `ZrJump` (`zipl_run`), then `SegRead`, `SegScan`, `SegEntry` and `SegAfter` (`zipl_load_segment`), and `FallbackReturn`.
- `WaitSpin` is one turn of a wait loop without an answer. `Halted` is the end: stage2 called, the program entered, `virtio_stop` or the spin of `virtio_panic`, or the ccw loader's final `while (1)`.

**The virtio-ccw loader.** `transport` is fixed in `Init` to `"s390"` or `"ccw"`; the fallback code (`virtio-fallback.c`) is shared, because both loaders include it. On ccw:
- `CcwSetup` is `sclp_setup` and `virtio_setup`. `devs` is then the subchannels in number order. The first one that answers `tsch` (condition code not 3) with SENSE ID control unit 0x3832, model block, is the disk (`IsBlk`). Its queue has 128 descriptors (`virtio_setup_block`). Without one it panics. The loader goes straight to the fallback: no MBR read, no stage2 loop.
- `virtio_puts` is `sclp_print`, a synchronous service call, so `consoleWorks` is FALSE and a string is one step.
- `CallReadMany` is `virtio_read_many`: the same three descriptors, the data one of `512 * sec_num` bytes. The host writes all `sec_num` sectors, or fails the request if any may fail.
- `LoadDirect` picks the transport's `virtio_load_direct`. On ccw that is `CallLdCcw`, `CcwLd`, `CcwLdRead` and `CcwLdCheck`: the same `sec_num` and sector-size test, one `"."`, one read of the whole entry, panic on a nonzero status, and a return of `addr + sec_num * 512`.
- `AfterFallback` is what follows a failed fallback: the stage2 loop on s390, the final spin on ccw.
- `run_ccw` and `drain_irqs` are not modelled: channel commands complete at once, as the code's own XXX comment assumes.

### ZiplScan

`scan_file` turns a `zipl.conf` into an array of tokens. `scan_check` then checks that array. The model takes the array as its input:
- A token is a section or menu heading with a name, a keyword with a value, or a menu's numbered entry with a value.
- A value is abstracted to what the tests tell apart. It is a name (compared by `strcmp`), a decimal number (`sscanf "%d"` and `isdigit` give the same answer), an address, a `c,h,s` geometry (well formed or not), a target type, or other text.

`ScanKeyTable` is `scan_key_table`, row by row, and `KeyState` reads it. `CheckSection` is `check_section`:
- the duplicate-name search from the next token on;
- `SectionBody`, the loop over the keywords, with the duplicate test, the `default` lookup and the refusal of numbers;
- `CheckSectionData` (`scan_check_section_data`) and `CheckTargetData` (`scan_check_target_data`);
- the index it hands back to `scan_check`, the last token of the section.

`CheckMenu` and `MenuBody` are `check_menu`. `ScanCheckFrom` is `scan_check`'s loop, which refuses a keyword before the first heading.

`ZiplConfRules` states the rules on the whole array:
- a token belongs to the last heading before it;
- a section's type comes from its keywords;
- required and forbidden keywords come from the table;
- names are unique, `default` names a section, and menu entries are unique, positive and name sections.

It also states the checks the code makes that the comment does not list: a segment's load address, `default` or `defaultmenu` in `defaultboot`, the target keywords, and numeric `prompt` and `timeout`.

The fallback's scratch buffer `sec` is 0x8000, the buffer the stage2 loop reads its list from. The model has one memory, so when the fallback returns, the loop sees what the fallback left there.

## Runs

Runs marked "pass" must succeed. Runs marked "violation" each check one property, and TLC must find a counterexample.

| Run | Cfg | Expect | Shows |
|---|---|---|---|
| rule_terms | `MCRuleTerms.cfg` | pass | The loader accepts exactly the grammar's sentences, plus the empty rule. On prefix-free texts it builds the grammar's tree: precedence tiers, left grouping. This holds for every text of up to 5 tokens over 13 tokens (402k texts). |
| rule_eval_aborts | `MCRuleTerms_WellTypedRuleNeverAborts.cfg` | violation | `-loadavg>loadavg` parses as `NEG(loadavg>loadavg)`. Evaluating it reaches `clean_up()`. |
| cpuplugd | `MCCpuplugd.cfg` | pass | Started without `-V` (`Debug = FALSE`, the default), for valid files, up to 2 reloads between ticks, and SIGTERM at any sleep: the limits hold while running, exit restores the cpu count and `cmm_pages`, the cpus converge under sustained hotplug and hotunplug rules, and the balloon under a sustained memunplug rule. |
| memplug_default | `MCCpuplugd_MemplugDefault.cfg` | violation | Started without `-V`, under a memplug rule that holds for ever, `cmm_pages` stops at 2 with `cmm_min` 1 and `cmm_inc` 2: the step to `cmm_min` (main.c:283) is made only with `-V`, against its comment and the specification (4.3). |
| reload_mid_tick | `MCCpuplugd_InBoundsMidTick.cfg` | violation | A reload inside a tick is followed by a stale hotunplug, which takes the cpus below the new `cpu_min`. |
| zgetdump | `MCZgetdump.cfg` | pass | On tapes mounted in order, except that in `-i -a` the operator may mount any tape of the library:<br>• copying refines `DumpCopy` and always ends with "this dump is valid";<br>• `-i -a` calls a dump valid only after seeing all volumes of one dump in order (`CheckAllSound`);<br>• `-i` reaches its verdict on every tape.<br>On multi-volume DASD layouts, including layouts whose dump ends exactly at a volume's end, offline, foreign and orphaned volumes and a missing marker:<br>• a copy that exits 0 wrote the header once, all of memory in order, and the marker;<br>• wherever the dump ends inside a volume, `-i` agrees with the copy (`CheckAgreesInsideVolume`).<br>On single disks, complete, without marker, or shorter than the dump: a copy called valid wrote exactly the memory.<br>All of this for every option set, good and refused, on ten kinds of device, through `parse_opts`, `-d` and the dispatch (58469 states). |
| mv_exact_end | `MCZgetdump_ExactEnd.cfg` | violation | On a multi-volume dump that ends exactly at the end of a volume's data, the copy (line 1116, `total_size == dh_memory_size`) reads the marker right after that volume's data, while `-i` (line 1080, `>`) looks on the next volume or says "NOT valid" on the last. With the marker on either volume, one of them calls the dump valid and the other not. |
| tape_copy_wrong_tape | `MCZgetdumpTape_CopyWrongTape.cfg` | violation | The copy takes any mounted tape as the next volume. It does not check the volume number or time stamp, although `-i -a` does. A mix of two dumps is declared valid. |
| zipl_virtio | `MCZiplVirtio.cfg` | pass | On ten disks, with and without a console, and with read errors on the MBR, stage2 sectors, program tables and pointer lists:<br>• stage2 is called with every listed sector at its place from 0x2000, unless the MBR read failed or the fallback ran (`Stage2Loaded`);<br>• the fallback enters the program only with every segment loaded, through the continuation slot of a full pointer list, at the EXEC address without bit 31 (`ProgramLoaded`);<br>• the host only ever holds the driver's current, complete request, with the sector count of a ccw multi-sector read (`HostSeesCurrentRequest`);<br>• boot always ends (`BootEnds`).<br>All four hold for both the s390-virtio and the virtio-ccw loader, the latter also on a guest without a block device. |
| zipl_failed_fallback | `MCZiplVirtio_FailedFallback.cfg` | violation | After the fallback fails, the loop goes on over 0x8020, which the fallback overwrote. It calls stage2 at 0x2008, which was never loaded; on the chained disk, before that, it loads the sectors it finds there to address -1 and on. |
| zipl_scan | `MCZiplScan.cfg` | pass | On every text of up to 3 pieces (9 tokens), `scan_check` returns 0 exactly when the text follows the rules of its comment and the extra checks (`ScanCheckMatchesRules`). |
| tape_copy_exit_status | `MCZgetdumpTape_CopyExitStatus.cfg` | violation | A memory block that begins with the bytes `DUMP_END` stops the copy early. The copy prints "This dump is NOT valid", yet `zgetdump` exits 0 because `main` ignores the result of `check_and_write_end_marker`. |

`PROJECT.json` lists each finding at its source line. It also lists one seeded mutant per property of each passing run. A mutant is a plausible bug in the mapped definition:
- an off-by-one limit, a scan from the wrong cpu, or a missing restore;
- right-associative grouping, or a missing `)` check;
- a volume marker written before it is tested, a missing `MTBSR`, or `-i -a` without the time stamp check;
- `data_size` without the rounding to pages, or `write_header` on every volume;
- the single-disk copy loop going on while `i <= dh_memory_size`;
- `sec_num` without the `+ 1`, the continuation slot tested at `max_entries`, `avail->idx` moved on every descriptor, `used->idx` set one short, and `next_idx` not reset;
- `check_section` handing back the index after its last token, so that `scan_check` skips the next heading.

TLC finds every mutant.

## Bounds

**Rule engine.** Texts have up to 5 tokens, drawn from one symbol, two digits and all the operators and parentheses. Five tokens are enough to reach:
- every precedence pair (`a+b*c`, `a*b+c`);
- left grouping (`a-b-c`);
- nested parentheses and prefix operators;
- every failure path of `parse_term`.

Metric values 0 and 1 separate the outcomes of every comparison.

**Daemon.** The model has 3 cpus, one of them deconfigured, so hotplug must skip it and `reactivate_cpus` can fall short. `cmm` starts at 0 or 8, below and above every configured range. Three files change each limit and leave keys out, so reload keeps old values. Up to 2 SIGHUPs, 3 metric values, and rules of one metric each complete the configuration. The daemon runs without `-V` (`Debug = FALSE`), as it is started by default; a `cmm_min` of 1 with a `cmm_inc` of 2 puts the balloon less than one step above its minimum.

**Tapes.** The in-order library has seven dumps. Among them are a dump that fills its only volume exactly (the loop ends by count, `BlocksDone`), dumps whose last volume is partly filled, and dumps of one block per volume. The runs with operator errors use three dumps. There, `LoadBound` stops exploring after 4 mounted tapes: an operator who keeps mounting wrong tapes keeps the copy waiting forever, and every counterexample needs at most 3 mounts. `TimeValues` gives the bytes a marker-like block has where the end time would be: one before and one after the dump's start.

**Disks.** The DASD layouts have one, two and three volumes, with partitions that are not whole pages. There are two copy turns per volume, the second one cut short by the partition's end. Most dumps end inside a volume; `ExactEnd` and `ExactEndNext` end exactly at the end of the first volume's data, with the marker after it on the same volume or at the start of the next. The error layouts have one bad volume each: offline, a foreign header, no dumper, or an orphaned table. Another layout has no marker.

**Single disks and devices.** Three disks of 16 pages of memory (two copy blocks): complete with room after the marker, interrupted before the marker, and a partition of 12 pages, shorter than the dump. Nine option sets: the three paths, `-d`, the two refused combinations, `-h`, `-v` and an unknown option. Ten devices: a path that does not exist, a tape, an ECKD dump partition, its device node, a multi-volume dump device and one of its partitions, an FBA dump device, a dump file, an LKCD file, and a device without a dumper. Together they take every branch of the dispatch and of `-d`.

**Boot disks.** Ten disks:
- a stage2 of three sectors in two list entries, where the MBR and one stage2 sector may fail;
- a fallback kernel of three sectors, where the program table and the pointer list may fail;
- a full 32-slot pointer list, whose continuation names a second list that may fail;
- seven failing fallbacks: no MBR magic, an empty program table, a program table or header without magic, a dump header, no EXEC entry, and a segment with 4096-byte sectors.

The full list is needed because the continuation is slot 32 (`max_entries - 1`). The rings have 4 descriptors, so the avail ring wraps several times; the u16 wrap is not reached. Two device lists: a console with two queues, and a console with one queue (skipped, so `virtio_puts` is `early_puts`). The ccw loader runs on the same ten disks, with two sets of subchannels. One set has a missing subchannel, a device that is not virtio block, and the disk; the other has no disk, so `virtio_setup` panics. A kernel sector of the fallback disk may fail, so the ccw loader's one multi-sector read of that entry fails as a whole and panics. The ccw queue has its real 128 descriptors.

**Configurations.** `MCPieces` has 30 pieces. Seven are whole sections or blocks:
- an IPL section;
- a segment section with an address;
- a dump section (`dumpto`);
- `defaultboot` with `default`, and with `defaultmenu`;
- a menu with `1 = a`;
- a section with target keywords.

The other 23 are single headings, keywords and numbered entries. They include a `default` that names `defaultboot`, decimal and non-decimal numbers, entries 0, 1 and 2, an `ldl` target type, well-formed and malformed geometries, a block size of 100, and a text offset.

Texts of up to 3 pieces and 9 tokens reach every rule. Each rule can be broken by one piece added to a valid section: a duplicate name or keyword, a keyword before any heading, a `default` naming nothing, a menu entry naming nothing or numbered twice. The index handback needs two sections in a row, which 2 pieces already give.

## Fairness

`WF_vars(MainThread)` holds because the main loop blocks only in `sleep(cfg.update)`. `WF_vars(ReloadDone)` holds because a handler that has started runs to its end. Signals and metric changes are the environment's, so they get no fairness. The convergence properties are stated under the hypothesis that a rule holds from some time on.

The boot loader runs alone on its CPU with interrupts off, so `WF_vars(Driver)` holds. The driver notifies the host on every turn of its wait loops, so each host action gets weak fairness. Under these assumptions `BootEnds` means that no wait spins forever.

`zgetdump` runs alone and only waits in `load_next` for the operator, so `WF_vars(Next)` holds when the operator mounts the tapes. The DASD paths never wait.

## Not modelled

- **Rule texts.** Rules are fixed by the configuration. A reload that changes a rule, or a rule that reads another rule set's symbols (uninitialized stack memory), is excluded by ASSUME.
- **Errors and signals not modelled.** Left out:
  - parse errors of values, which lead to `clean_up`;
  - a failing `get_free_memsize`;
  - SIGFPE and `longjmp`;
  - a signal nested inside a handler;
  - signals during start-up.
- **Sampler.** The sampler's arithmetic and its copied mutex are abstracted: metric values change arbitrarily, which covers any racing read.
- **Not checked by a run.** Some code points are listed as hazards only:
  - `memplug` never reaches `cmm_min = 0`;
  - memplug is evaluated in a tick in which memunplug holds, at `cmm_max` (main.c:259);
  - `eval_double`'s `OP_MULT` case has no `return` and falls into `OP_DIV` (terms.c:343), so `a*b` is evaluated as `a/b`; `MCRuleTerms` keeps `EvalMatchesSpec`, which TLC finds violated with `loadavg*loadavg`;
  - with memory hotplug off, exit still writes `cmm_pagesize_start`, 0, to `cmm_pages` (daemon.c:142); `ExitRestoresStartup` is violated on such a configuration;
  - an inverted start-up file (`cpu_max < cpu_min`, `cmm_max < cmm_min`) is accepted, because `check_config` tests the limits before it sets the cpu flag (config.c:323).

  The last four were runs of their own. They gave way to other runs when the run limit was reached.
- **zgetdump, left out.** The printing of LKCD and s390 headers and of the `-d` report; 31-bit dumpers and `check_kernel_mode`; `get_device_from_busid`'s walk through sysfs, which the model reduces to a volume's online flag; read and write errors on stdout.

  The dumper that writes the tapes is not in the repository. The tape layout follows the header and end-marker structures in `zgetdump.h`. The division by zero in the progress dots (memory below 1 MiB) is listed as a hazard only.
- **zgetdump edge cases with no run.** `-i -a` started on a later volume, and a marker-like block declared valid, are listed as hazards.
- **Boot loader, left out.**
  - The callbacks that only the stage2 assembler calls: `virtio_sclp_read` with the console input queue and its timeout, `_sclp_print`, `_sclp_param`, `virtio_extract_length` and `virtio_is_zero_block`. That assembler is not in the repository.
  - A segment loaded over 0x8000, the `sec_num` wrap at a block count of 0xffff, and an s390 device list without a block device: hazards only.
  - On ccw: `run_ccw`, `drain_irqs` and the text `sclp_print` formats. The 128 of `virtio_setup_block` is taken as the host's queue size, as its XXX comment hopes.
  - A host that keeps its own used index.
  - The MBR read error: the pass run reaches it, and `Stage2Loaded` excludes it by its hypothesis.
- **Other programs.** Left out: command-line handling and the pid file; the zipl tool's `boot.c` (boot records from binary images) and `misc.c` (file helpers); `scan_file`, the character lexer of `scan.c`; `sclp-ascii.c`'s event formatting; ipl_tools; and the header-only fdasd, vmconvert and iucvterm. The project keeps at most twelve runs, and each checks a passing model or shows a finding.

## Plan for later sittings

1. Nested SIGTERM during `reload_daemon`, and a reload whose `check_config` aborts after it has overwritten `num_cpu_start`. Both threaten `ExitRestoresStartup`.
2. Signals during start-up, and the `vs->available` wait.
3. `-i -a` started on a later tape volume, as a run once a slot is free.
4. Models of ipl_tools (the reipl target state machine).
5. `virtio_sclp_read`'s timeout with the console input queue.
6. `scan_file`'s lexer, which never writes the terminating token (scan.c:546).

**Notes on the scanner.** `default = defaultboot` is accepted by both `scan_check` and the rules, because `defaultboot` is a section name. `scan_file` never writes the id-0 token its comment promises, and it clears `size` bytes of a newly enlarged array, not `size` tokens. `scan_check` then relies on memory past the array. The model starts from a correct array, so this is a hazard only.
