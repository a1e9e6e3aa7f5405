\* Copy while the operator mounts any tape of the library.
CONSTANTS Dumps <- MCDumpsSmall
          FirstVolumes = {0}
          ErrorModes = {"copy"}
          Modes = {"copy"}
          TimeValues = {0, 9}
SPECIFICATION Spec
INVARIANTS ValidCopyIsDump
CONSTRAINT LoadBound
