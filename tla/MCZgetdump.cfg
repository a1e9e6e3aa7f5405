\* Every option set on every kind of device: tapes of every dump of the
\* library, mounted in order for a copy and any tape for -i -a, multi-volume DASD layouts whose dump ends
\* inside a volume or exactly at a volume's end, and single-volume disks.
CONSTANTS Dumps <- MCDumps
          FirstVolumes = {0}
          ErrorModes = {"checkall"}
          Modes = {"copy", "check", "checkall"}
          TimeValues = {0, 9}
          Layouts <- MCLayoutsAll
          Disks <- MCDisks
          OptionSets <- MCOptionSets
          Devices <- MCDevices
SPECIFICATION Spec
INVARIANTS CheckAllSound MvValidCopyIsDump CheckAgreesInsideVolume DasdValidCopyIsDump
PROPERTIES CopyRefinesDumpCopy IntactDumpCopied
