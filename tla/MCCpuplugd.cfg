CONSTANTS
  NumCpus = 3
  Configured = {0, 1}
  CmmInit = {0, 8}
  StartConfigs <- MCStartConfigs
  ReloadConfigs <- MCReloadConfigs
  HotplugRule <- MCHotplugRule
  HotunplugRule <- MCHotunplugRule
  MemplugRule <- MCMemplugRule
  MemunplugRule <- MCMemunplugRule
  MetricSymbols = {"loadavg", "apcr"}
  MetricValues = {0, 1, 2}
  Debug = FALSE
  LPAR = FALSE
  CmmFiles = TRUE
  MaxReloads = 2
  InterruptibleTick = FALSE
SPECIFICATION Spec
INVARIANTS TypeOK InBounds ExitRestoresStartup
PROPERTIES HotplugConverges MemunplugConverges
