SPECIFICATION Spec
CONSTANTS
    MaxNodes = 4
    NULL = NULL
    bootdelay = bootdelay
    filesize = filesize
    custom = custom
    long = long
    Names <- ConsoleNames
    LongNames = {}
    Cut <- NoCut
    Settings = {0, 1}
    Defaults <- TwoDefaults
INVARIANT ListSound
PROPERTIES ImplementsDictionary SetReadsBack
