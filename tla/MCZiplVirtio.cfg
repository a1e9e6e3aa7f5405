CONSTANTS
    Disks <- MCDisks
    DeviceLists <- MCDeviceLists
    Subchannels <- MCSubchannels
    Transports <- MCTransports
    ZiplMagic <- MCZiplMagic
SPECIFICATION Spec
INVARIANTS
    TypeOK
    Stage2Loaded
    ProgramLoaded
    HostSeesCurrentRequest
PROPERTIES
    BootEnds
