\* -i and the copy on multi-volume DASD dumps that end exactly at the end of
\* a volume's data, with the end marker right after it or on the next volume.
CONSTANTS Dumps <- MCDumps
          FirstVolumes = {0}
          ErrorModes = {"checkall"}
          Modes = {"copy", "check", "checkall"}
          TimeValues = {0, 9}
          Layouts <- MCLayoutsExactEnd
          Disks <- MCDisks
          OptionSets <- MCOptionSets
          Devices <- MCDevices
SPECIFICATION Spec
INVARIANT CheckAgreesWithCopy
