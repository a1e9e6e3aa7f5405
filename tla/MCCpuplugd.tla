----------------------------- MODULE MCCpuplugd -----------------------------
(***************************************************************************)
(* Instance of Cpuplugd for TLC: three cpus of which cpu 2 is deconfigured, *)
(* the rules of the shipped cpuplugd.conf reduced to one metric each      *)
(* (loadavg for the cpu rules, apcr for the memory rules), and three       *)
(* configuration files.                                                    *)
(***************************************************************************)
EXTENDS Cpuplugd

MCHotplugRule == <<"loadavg", ">", "1">>
MCHotunplugRule == <<"loadavg", "<", "1">>
MCMemunplugRule == <<"apcr", ">", "1">>
MCMemplugRule == <<"apcr", "<", "1">>

\* Files whose rules never hold together (the memory rules are the
\* complement of each other, as are the cpu rules).
ConfA == [cpu_min |-> 1, cpu_max |-> 3, cmm_min |-> 2, cmm_max |-> 6, cmm_inc |-> 3]
ConfB == [cpu_min |-> 2, cpu_max |-> 0, cmm_min |-> 1, cmm_max |-> 4, cmm_inc |-> 2]
\* A file that lacks cpu_min and cmm_inc: on a reload the old values stay.
ConfC == [cpu_min |-> -1, cpu_max |-> 2, cmm_min |-> 3, cmm_max |-> 5, cmm_inc |-> -1]

MCStartConfigs == {ConfA, ConfB}
MCReloadConfigs == {ConfA, ConfB, ConfC}

\* No cmm_inc: memory hotplug stays off, cpu hotplug is on.
ConfNoMem == [cpu_min |-> 1, cpu_max |-> 3, cmm_min |-> 2, cmm_max |-> 6, cmm_inc |-> -1]
MCStartNoMem == {ConfNoMem}
=============================================================================
