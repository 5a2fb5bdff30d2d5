SPECIFICATION Spec
CONSTANTS
    MaxNodes = 4
    NULL = NULL
    bootdelay = bootdelay
    filesize = filesize
    custom = custom
    long = long
    Names <- AllNames
    LongNames <- OneLong
    Cut <- LongCut
    Settings = {0, 1}
    Defaults <- TwoDefaults
PROPERTY SetReadsBack
