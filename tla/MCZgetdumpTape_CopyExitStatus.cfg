\* The exit status of a copy that finds no valid end marker.
CONSTANTS Dumps <- MCDumpsMarkerLike
          FirstVolumes = {0}
          ErrorModes = {}
          Modes = {"copy"}
          TimeValues = {0, 9}
SPECIFICATION Spec
INVARIANTS ExitStatusMatchesVerdict
