CONSTANTS
    Disks <- MCDisks
    DeviceLists <- MCDeviceLists
    Subchannels <- MCSubchannels
    Transports <- MCTransports
    ZiplMagic <- MCZiplMagic
SPECIFICATION Spec
INVARIANTS
    NoStage2AfterFailedFallback
