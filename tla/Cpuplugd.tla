------------------------------- MODULE Cpuplugd -------------------------------
(***************************************************************************)
(* The cpuplugd daemon (src/cpuplugd): start-up validation (check_config, *)
(* check_max), the decision loop of main() with eval_cpu_rules and         *)
(* eval_mem_rules, the cpu and cmm actuators (cpu.c, mem.c), and the       *)
(* signal handlers reload_daemon (SIGHUP) and kill_daemon (SIGTERM), with  *)
(* the clean-up that restores the cpus and the cmm balloon.                *)
(*                                                                         *)
(* The kernel is part of the state: which cpus are online, and cmm_pages, *)
(* the size of the balloon.  Rules are the trees RuleTerms parses from the *)
(* rule texts, evaluated on a snapshot of the metrics, which change at any *)
(* time.  The handlers run on the main thread: while one runs, the main   *)
(* loop is suspended where the signal found it.                            *)
(***************************************************************************)
EXTENDS Integers, FiniteSets, RuleTerms

CONSTANTS
  NumCpus,          \* cpus with an online file: ids 0 .. NumCpus-1
  Configured,       \* cpus that are configured (others cannot go online)
  CmmInit,          \* possible values of cmm_pages when the daemon starts
  StartConfigs,     \* configuration files the daemon may start with
  ReloadConfigs,    \* configuration files a SIGHUP may find
  HotplugRule, HotunplugRule, MemplugRule, MemunplugRule,  \* rule texts
  MetricSymbols,    \* the symbols the rules read, other than onumcpus
  MetricValues,     \* integers a metric may take
  Debug,            \* the -V flag
  LPAR,             \* check_lpar() finds an LPAR (no z/VM)
  CmmFiles,         \* /proc/sys/vm/cmm_pages exists
  MaxReloads,       \* bound on the number of SIGHUPs
  InterruptibleTick \* a signal may arrive while a tick is running

Cpus == 0 .. NumCpus - 1
Keys == {"cpu_min", "cpu_max", "cmm_min", "cmm_max", "cmm_inc"}
Missing == -1   \* the value main() gives a key before the file is read

HotplugTree == LoadRule(HotplugRule).rule
HotunplugTree == LoadRule(HotunplugRule).rule
MemplugTree == LoadRule(MemplugRule).rule
MemunplugTree == LoadRule(MemunplugRule).rule
MetricSnapshots == [MetricSymbols -> MetricValues]

ASSUME /\ NumCpus \in Nat \ {0} /\ Configured \subseteq Cpus
       /\ StartConfigs \cup ReloadConfigs \subseteq [Keys -> Int]
       /\ \A r \in {HotplugRule, HotunplugRule, MemplugRule, MemunplugRule} :
             LoadRule(r).accepted

VARIABLES
  online, cmm,                   \* kernel: cpu online files, cmm_pages
  metrics,                       \* current values of the metric symbols
  cfg, cpu, memory,              \* struct config and the policy flags
  numCpuStart, cmmPagesizeStart, \* num_cpu_start, cmm_pagesize_start
  sem,                           \* the reload gate of the main loop
  pc, cpuAct, memAct,            \* main thread: place, decided actuation
  hpc, reloadTemp, reloads,      \* signal handler: place, saved values
  startOnline, startCmm,         \* kernel state before the daemon ran
  rules                          \* the parsed rules, LoadedRules

vars == <<online, cmm, metrics, cfg, cpu, memory, numCpuStart, cmmPagesizeStart,
          sem, pc, cpuAct, memAct, hpc, reloadTemp, reloads, startOnline, startCmm,
          rules>>

Count(on) == Cardinality({c \in Cpus : on[c]})
MinOf(S) == CHOOSE x \in S : \A y \in S : x <= y
MaxOf(S) == CHOOSE x \in S : \A y \in S : x >= y

\* hotplug(cpuid), hotunplug(cpuid): the kernel keeps a deconfigured cpu
\* offline and the last online cpu online; the daemon logs the failure.
Hotplug(on, c) == IF c \in Configured THEN [on EXCEPT ![c] = TRUE] ELSE on
Hotunplug(on, c) == IF Count(on) > 1 THEN [on EXCEPT ![c] = FALSE] ELSE on

\* The symbols struct of eval_cpu_rules / eval_mem_rules with n cpus online.
Snapshot(n, m) ==
  [o \in SymbolOps |->
     CASE o = "OP_SYMBOL_CPUS" -> Num(n)
       [] \E s \in MetricSymbols : SymNames[s] = o ->
            Num(m[CHOOSE s \in MetricSymbols : SymNames[s] = o])
       [] OTHER -> Num(0)]

\* The rules of struct config as the daemon uses them: whether the rule is
\* set (not NULL), and eval_term of it on every snapshot (0 for NULL).
Rules == [hotplug |-> HotplugTree, hotunplug |-> HotunplugTree,
          memplug |-> MemplugTree, memunplug |-> MemunplugTree]
LoadedRules ==
  [r \in DOMAIN Rules |->
     [set |-> Rules[r] # NULL,
      value |-> [m \in MetricSnapshots |->
                   [n \in 0..NumCpus |-> EvalTerm(Rules[r], Snapshot(n, m))]]]]
\* cfg->rule && eval_term(cfg->rule, &symbols)
Holds(r, on, m) == rules[r].set /\ rules[r].value[m][Count(on)] = 1

(***************************************************************************)
(* Loops of check_config, check_max and reactivate_cpus over cpu ids.      *)
(***************************************************************************)
RECURSIVE RaiseToMin(_, _, _), LowerToMax(_, _, _), Reactivate(_, _, _)
RaiseToMin(on, id, min) ==
  IF Count(on) < min /\ id < NumCpus
    THEN RaiseToMin(IF on[id] THEN on ELSE Hotplug(on, id), id + 1, min) ELSE on
LowerToMax(on, id, max) ==
  IF Count(on) > max /\ id < NumCpus
    THEN LowerToMax(IF on[id] THEN Hotunplug(on, id) ELSE on, id + 1, max) ELSE on
Reactivate(on, id, start) ==
  IF Count(on) # start /\ id < NumCpus
    THEN Reactivate(CASE Count(on) > start /\ on[id] -> Hotunplug(on, id)
                      [] Count(on) < start /\ ~on[id] -> Hotplug(on, id)
                      [] OTHER -> on, id + 1, start)
    ELSE on
ReactivateCpus(on, start) == IF start = 0 THEN on ELSE Reactivate(on, 0, start)

\* parse_configfile over the current cfg: a key the file lacks keeps its
\* value, and cpu_max 0 stands for all cpus.
ParseConfigfile(old, file) ==
  [k \in Keys |-> CASE file[k] = Missing -> old[k]
                    [] k = "cpu_max" /\ file[k] = 0 -> NumCpus
                    [] OTHER -> file[k]]

(***************************************************************************)
(* check_config followed by check_max, on config c, with the policy flags  *)
(* and start values as they were.  abort is clean_up() being called.       *)
(***************************************************************************)
CheckConfig(c, on, cm, cpuFlag, memFlag, ns0, cs0) ==
  LET cpu1 == IF c.cpu_max >= 0 /\ c.cpu_min >= 0 /\ rules.hotplug.set
                 /\ rules.hotunplug.set THEN 1 ELSE 0
      mem1 == IF c.cmm_max >= 0 /\ c.cmm_min >= 0 /\ c.cmm_inc >= 0
                 /\ rules.memplug.set /\ rules.memunplug.set
              THEN IF ~LPAR /\ CmmFiles THEN 1 ELSE 0
              ELSE memFlag
      ns == IF cpu1 = 1 THEN Count(on) ELSE ns0
      on1 == IF cpu1 = 1 /\ ns < c.cpu_min /\ NumCpus >= c.cpu_min
               THEN RaiseToMin(on, 0, c.cpu_min) ELSE on
      on2 == IF cpu1 = 1 /\ c.cpu_max > 0 /\ Count(on1) > c.cpu_max
               THEN LowerToMax(on1, 0, c.cpu_max) ELSE on1
      cs == IF mem1 = 1 THEN cm ELSE cs0
      cm1 == CASE mem1 = 1 /\ cm > c.cmm_max -> c.cmm_max
               [] mem1 = 1 /\ cm < c.cmm_min -> c.cmm_min
               [] OTHER -> cm
      Out(abort, cf, mf, o, m, n, s) ==
        [abort |-> abort, cpu |-> cf, memory |-> mf, online |-> o, cmm |-> m,
         numCpuStart |-> n, cmmPagesizeStart |-> s]
  IN  CASE c.cpu_max <= c.cpu_min /\ c.cpu_max # 0 /\ cpuFlag # 0 ->
             Out(TRUE, cpuFlag, memFlag, on, cm, ns0, cs0)
        [] mem1 = 0 /\ cpu1 = 0 -> Out(TRUE, cpu1, mem1, on, cm, ns0, cs0)
        [] cpu1 = 1 /\ (c.cpu_min > NumCpus \/ Count(on1) < c.cpu_min) ->
             Out(TRUE, cpu1, mem1, on1, cm, ns, cs0)
        [] OTHER -> Out(FALSE, cpu1, mem1, on2, cm1, ns, cs)

\* clean_up() and kill_daemon(): reactivate_cpus, cleanup_cmm, exit.
ExitState(on, ns, cs) ==
  /\ online' = ReactivateCpus(on, ns)
  /\ cmm' = IF CmmFiles THEN cs ELSE cmm
  /\ pc' = "exited"
  /\ hpc' = "idle"
(***************************************************************************)
(* The decisions of one tick.  eval_cpu_rules fills the symbols loadavg,   *)
(* onumcpus, runable_proc and idle, eval_mem_rules apcr, swaprate and      *)
(* freemem; the rules of each read only their own symbols (ASSUME below). *)
(***************************************************************************)
CpuSymbols == {"loadavg", "onumcpus", "runable_proc", "idle"}
MemSymbols == {"apcr", "swaprate", "freemem"}
RuleSymbols(text) == {t \in DOMAIN SymNames : \E i \in 1..Len(text) : text[i] = t}
ASSUME /\ MetricSymbols \subseteq DOMAIN SymNames \ {"onumcpus"}
       /\ \A r \in {HotplugRule, HotunplugRule} :
             RuleSymbols(r) \subseteq CpuSymbols \cap (MetricSymbols \cup {"onumcpus"})
       /\ \A r \in {MemplugRule, MemunplugRule} :
             RuleSymbols(r) \subseteq MemSymbols \cap MetricSymbols

NoCpuAct == [kind |-> "none", cpu |-> 0]

\* Seeded fault: the limit test "onumcpus + 1 >= cpu_max".
HotplugLimitOffByOne(n) == n + 1 >= cfg.cpu_max
\* "onumcpus + 1 > cfg->cpu_max": the maximum cpu limit is reached.
HotplugLimitReached(n) == n + 1 > cfg.cpu_max

\* Seeded fault: the limit test "onumcpus < cpu_min".
HotunplugLimitOffByOne(n) == n < cfg.cpu_min
\* "onumcpus <= cfg->cpu_min": the minimum cpu limit is reached.
HotunplugLimitReached(n) == n <= cfg.cpu_min

\* Seeded fault: the scan starts at get_numcpus(), whose is_online is -1.
UnplugScanFromNumcpus(on) == NumCpus
\* The scan from get_numcpus() - 1 down for a cpu whose is_online is not
\* 0; -1 if none.
UnplugScan(on) == IF \E c \in Cpus : on[c] THEN MaxOf({c \in Cpus : on[c]}) ELSE -1

\* eval_cpu_rules up to the hotplug / hotunplug call: hotplug the lowest
\* offline configured cpu below the maximum, else hotunplug the cpu the
\* scan finds above the minimum, unless that is cpu 0.
CpuDecision(on, m) ==
  LET offline == {c \in Cpus : ~on[c] /\ c \in Configured}
  IN  CASE Holds("hotplug", on, m) ->
             IF HotplugLimitReached(Count(on)) \/ offline = {} THEN NoCpuAct
             ELSE [kind |-> "plug", cpu |-> MinOf(offline)]
        [] Holds("hotunplug", on, m) ->
             IF HotunplugLimitReached(Count(on)) \/ UnplugScan(on) <= 0 THEN NoCpuAct
             ELSE [kind |-> "unplug", cpu |-> UnplugScan(on)]
        [] OTHER -> NoCpuAct

\* eval_mem_rules up to the set_cmm_pages / memunplug / memplug call, on
\* cmmpages_size cm.  rule names the branch that decided.
MemAction(kind, val, rule) == [kind |-> kind, val |-> val, rule |-> rule]
NoMemAct == MemAction("none", 0, "none")

\* Seeded fault: no advance to cmm_max when the increment would pass it.
MemunplugBranchNoAdvance(cm) ==
  CASE cm > cfg.cmm_max -> MemAction("set", cfg.cmm_max, "memunplug")
    [] cm + cfg.cmm_inc <= cfg.cmm_max -> MemAction("unplug", 0, "memunplug")
    [] OTHER -> NoMemAct
\* The memunplug rule holds: NoMemAct at cmm_max, where the code goes on
\* to the memplug rule.
MemunplugBranch(cm) ==
  CASE cm > cfg.cmm_max -> MemAction("set", cfg.cmm_max, "memunplug")
    [] cm + cfg.cmm_inc > cfg.cmm_max /\ cm < cfg.cmm_max ->
         MemAction("set", cfg.cmm_max, "memunplug")
    [] cm + cfg.cmm_inc <= cfg.cmm_max -> MemAction("unplug", 0, "memunplug")
    [] OTHER -> NoMemAct

\* The memplug rule holds: the advance to cmm_min is made only with -V.
MemplugBranch(cm) ==
  CASE cm - cfg.cmm_inc >= cfg.cmm_min -> MemAction("plug", 0, "memplug")
    [] Debug /\ cm > cfg.cmm_min -> MemAction("set", cfg.cmm_min, "memplug")
    [] OTHER -> NoMemAct

MemDecision(cm, on, m) ==
  IF Holds("memunplug", on, m) /\ MemunplugBranch(cm) # NoMemAct THEN MemunplugBranch(cm)
  ELSE IF Holds("memplug", on, m) THEN MemplugBranch(cm)
  ELSE NoMemAct

InitCfg == [k \in Keys |-> Missing]

TypeOK ==
  /\ online \in [Cpus -> BOOLEAN]
  /\ cmm \in Int /\ metrics \in MetricSnapshots
  /\ cfg \in [Keys -> Int] /\ cpu \in {0, 1} /\ memory \in {0, 1}
  /\ numCpuStart \in 0..NumCpus /\ cmmPagesizeStart \in Int /\ sem \in {0, 1}
  /\ pc \in {"startup", "tick", "cpu_act", "mem", "mem_act", "exited"}
  /\ cpuAct \in [kind : {"none", "plug", "unplug"}, cpu : Cpus]
  /\ memAct \in [kind : {"none", "set", "unplug", "plug"}, val : Int,
                 rule : {"none", "memunplug", "memplug"}]
  /\ hpc \in {"idle", "reload_done"} /\ reloads \in 0..MaxReloads

Init ==
  /\ online \in {f \in [Cpus -> BOOLEAN] :
                   (\E c \in Cpus : f[c]) /\ \A c \in Cpus : f[c] => c \in Configured}
  /\ cmm \in CmmInit
  /\ metrics \in MetricSnapshots
  /\ cfg = InitCfg /\ cpu = 0 /\ memory = 0 /\ sem = 1
  /\ numCpuStart = 0 /\ cmmPagesizeStart = 0
  /\ pc = "startup" /\ cpuAct = NoCpuAct /\ memAct = NoMemAct
  /\ hpc = "idle" /\ reloadTemp = <<0, 0>> /\ reloads = 0
  /\ startOnline = Count(online) /\ startCmm = cmm
  /\ rules = LoadedRules

\* Main thread: the handlers run on it, so it steps only when none runs.
MainRuns == hpc = "idle"
Ghosts == <<startOnline, startCmm, rules>>

\* Apply the outcome r of CheckConfig: on abort clean_up() ends the process.
ApplyCheck(r, next) ==
  /\ cpu' = r.cpu /\ memory' = r.memory
  /\ numCpuStart' = r.numCpuStart /\ cmmPagesizeStart' = r.cmmPagesizeStart
  /\ IF r.abort THEN ExitState(r.online, r.numCpuStart, r.cmmPagesizeStart)
     ELSE /\ online' = r.online /\ cmm' = r.cmm
          /\ next

\* main(): parse_configfile, check_config, check_max, then the main loop.
Startup ==
  /\ pc = "startup" /\ MainRuns
  /\ \E file \in StartConfigs :
       LET c == ParseConfigfile(InitCfg, file)
       IN  /\ cfg' = c
           /\ ApplyCheck(CheckConfig(c, online, cmm, cpu, memory, numCpuStart,
                                     cmmPagesizeStart),
                         pc' = "tick" /\ hpc' = hpc)
  /\ UNCHANGED <<metrics, sem, cpuAct, memAct, reloadTemp, reloads, Ghosts>>

\* Top of the main loop with sem set: eval_cpu_rules if cpu == 1.
Tick ==
  /\ pc = "tick" /\ MainRuns /\ sem = 1
  /\ LET d == IF cpu = 1 THEN CpuDecision(online, metrics) ELSE NoCpuAct
     IN  /\ cpuAct' = d
         /\ pc' = IF d.kind = "none" THEN "mem" ELSE "cpu_act"
  /\ UNCHANGED <<online, cmm, metrics, cfg, cpu, memory, numCpuStart,
                 cmmPagesizeStart, sem, memAct, hpc, reloadTemp, reloads, Ghosts>>

\* hotplug(cpu) or hotunplug(cpu) of the decision.
CpuAct ==
  /\ pc = "cpu_act" /\ MainRuns
  /\ online' = IF cpuAct.kind = "plug" THEN Hotplug(online, cpuAct.cpu)
               ELSE Hotunplug(online, cpuAct.cpu)
  /\ pc' = "mem"
  /\ UNCHANGED <<cmm, metrics, cfg, cpu, memory, numCpuStart, cmmPagesizeStart,
                 sem, cpuAct, memAct, hpc, reloadTemp, reloads, Ghosts>>

\* eval_mem_rules if memory == 1; the tick ends in sleep(cfg.update).
MemDecide ==
  /\ pc = "mem" /\ MainRuns
  /\ LET d == IF memory = 1 THEN MemDecision(cmm, online, metrics) ELSE NoMemAct
     IN  /\ memAct' = d
         /\ pc' = IF d.kind = "none" THEN "tick" ELSE "mem_act"
  /\ UNCHANGED <<online, cmm, metrics, cfg, cpu, memory, numCpuStart,
                 cmmPagesizeStart, sem, cpuAct, hpc, reloadTemp, reloads, Ghosts>>

\* set_cmm_pages(val), memunplug(cfg->cmm_inc) or memplug(cfg->cmm_inc);
\* the last two read cmm_pages again and memplug refuses a size <= 0.
MemAct ==
  /\ pc = "mem_act" /\ MainRuns
  /\ cmm' = CASE memAct.kind = "set" -> memAct.val
              [] memAct.kind = "unplug" -> cmm + cfg.cmm_inc
              [] cmm - cfg.cmm_inc <= 0 -> cmm
              [] OTHER -> cmm - cfg.cmm_inc
  /\ pc' = "tick"
  /\ UNCHANGED <<online, metrics, cfg, cpu, memory, numCpuStart, cmmPagesizeStart,
                 sem, cpuAct, memAct, hpc, reloadTemp, reloads, Ghosts>>

MainThread == Startup \/ Tick \/ CpuAct \/ MemDecide \/ MemAct

(***************************************************************************)
(* Signal handlers.  A signal is taken while the main loop sleeps, or with *)
(* InterruptibleTick anywhere inside a tick; the handler then runs on the  *)
(* main thread to its end.                                                 *)
(***************************************************************************)
SignalPoint ==
  \/ pc = "tick"
  \/ InterruptibleTick /\ pc \in {"cpu_act", "mem", "mem_act"}

\* reload_daemon up to check_max: sem = 0, save the start values, parse
\* the file over cfg, check_config, check_max.
Sighup ==
  /\ SignalPoint /\ MainRuns /\ reloads < MaxReloads
  /\ \E file \in ReloadConfigs :
       LET c == ParseConfigfile(cfg, file)
       IN  /\ cfg' = c
           /\ ApplyCheck(CheckConfig(c, online, cmm, cpu, memory, numCpuStart,
                                     cmmPagesizeStart),
                         hpc' = "reload_done" /\ pc' = pc)
  /\ sem' = 0
  /\ reloadTemp' = <<numCpuStart, cmmPagesizeStart>>
  /\ reloads' = reloads + 1
  /\ UNCHANGED <<metrics, cpuAct, memAct, Ghosts>>

\* Seeded fault: the start values are not restored.
ReloadDoneNoRestore ==
  /\ hpc = "reload_done"
  /\ sem' = 1 /\ hpc' = "idle"
  /\ UNCHANGED <<online, cmm, metrics, cfg, cpu, memory, pc, cpuAct, memAct,
                 reloadTemp, reloads, numCpuStart, cmmPagesizeStart, Ghosts>>

\* The end of reload_daemon: restore the start values, sem = 1.
ReloadDone ==
  /\ hpc = "reload_done"
  /\ numCpuStart' = reloadTemp[1] /\ cmmPagesizeStart' = reloadTemp[2]
  /\ sem' = 1 /\ hpc' = "idle"
  /\ UNCHANGED <<online, cmm, metrics, cfg, cpu, memory, pc, cpuAct, memAct,
                 reloadTemp, reloads, Ghosts>>

\* kill_daemon (SIGTERM, SIGINT).
Sigterm ==
  /\ SignalPoint /\ MainRuns
  /\ ExitState(online, numCpuStart, cmmPagesizeStart)
  /\ UNCHANGED <<metrics, cfg, cpu, memory, numCpuStart, cmmPagesizeStart, sem,
                 cpuAct, memAct, reloadTemp, reloads, Ghosts>>

\* The kernel's statistics move between any two steps of the daemon.
ChangeMetrics ==
  /\ pc # "exited"
  /\ \E m \in MetricSnapshots \ {metrics} : metrics' = m
  /\ UNCHANGED <<online, cmm, cfg, cpu, memory, numCpuStart, cmmPagesizeStart,
                 sem, pc, cpuAct, memAct, hpc, reloadTemp, reloads, Ghosts>>

\* The process has exited: nothing changes any more.
Exited == pc = "exited" /\ UNCHANGED vars

Next == MainThread \/ Sighup \/ ReloadDone \/ Sigterm \/ ChangeMetrics \/ Exited

\* The main loop never blocks but in sleep(), and a handler that has
\* started runs to its end; signals and the workload come when they come.
Spec == Init /\ [][Next]_vars /\ WF_vars(MainThread) /\ WF_vars(ReloadDone)

-----------------------------------------------------------------------------
Running == pc \in {"tick", "cpu_act", "mem", "mem_act"} /\ hpc = "idle"

(***************************************************************************)
(* While the daemon runs (no handler in progress), the online cpus are     *)
(* within [cpu_min, cpu_max] if cpu hotplug is active, and cmm_pages is    *)
(* within [cmm_min, cmm_max] if memory hotplug is: check_config and        *)
(* check_max establish the limits, eval_cpu_rules and eval_mem_rules keep  *)
(* them, and a reload re-establishes them for the new configuration.       *)
(***************************************************************************)
InBounds ==
  Running =>
    /\ cpu = 1 => cfg.cpu_min <= Count(online) /\ Count(online) <= cfg.cpu_max
    /\ memory = 1 => cfg.cmm_min <= cmm /\ cmm <= cfg.cmm_max

(***************************************************************************)
(* When the daemon has exited, reactivate_cpus and cleanup_cmm have put    *)
(* back the number of online cpus and the cmm_pages the system had before  *)
(* the daemon started (reload_daemon keeps num_cpu_start and               *)
(* cmm_pagesize_start across the reload).                                  *)
(***************************************************************************)
ExitRestoresStartup ==
  pc = "exited" =>
    /\ numCpuStart # 0 => Count(online) = startOnline
    /\ CmmFiles => cmm = startCmm

CpuTarget == MinOf({cfg.cpu_max, Cardinality(Configured)})
HotplugHolds == cpu = 1 /\ pc # "exited" /\ Holds("hotplug", online, metrics)
MemunplugHolds == memory = 1 /\ pc # "exited" /\ Holds("memunplug", online, metrics)
MemplugHolds == memory = 1 /\ pc # "exited" /\ Holds("memplug", online, metrics)

(***************************************************************************)
(* Under sustained load (the hotplug rule holds from some time on), the    *)
(* daemon brings cpus online one per tick until cpu_max or every          *)
(* configured cpu is online.                                               *)
(***************************************************************************)
HotplugConverges == <>[]HotplugHolds => <>[](Count(online) = CpuTarget)

(***************************************************************************)
(* Under sustained memory surplus (memunplug holds from some time on), the *)
(* balloon grows by cmm_inc per tick and settles at cmm_max.               *)
(***************************************************************************)
MemunplugConverges == <>[]MemunplugHolds => <>[](cmm = cfg.cmm_max)

(***************************************************************************)
(* Under sustained memory pressure (memplug holds from some time on), the  *)
(* balloon shrinks by cmm_inc per tick and settles at cmm_min.             *)
(***************************************************************************)
MemplugConverges == <>[]MemplugHolds => <>[](cmm = cfg.cmm_min)
=============================================================================
