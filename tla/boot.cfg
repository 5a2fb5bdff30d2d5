CONSTANTS
    Parts = {"flow", "search", "unpack", "sum", "layout"}
    Byte = 3
    Modulus = 5
    Between = 3
    Word = 32
    Sections = 6
    Booter = 3
    AtagLists <- SmallLists
    LineLength = 2
    Magics = {"DATA", "TYPE"}
    MaxTags = 3
    Sizes = {1, 2, 3}
    Bits = 2
    Half = 2
    THRESHOLD = 1
    Page = 2
    ZeroSize = 12
    RamdiskAlign = 4
    ArgsAlign = 2
    TopAlign = 8
    ArgsSize = 1
    virtBase = 100
    KernelAt = 23
    End = 31
    Kernels <- SmallKernels
    Ramdisks <- SmallRamdisks
    TreeLength = 2
    MaxBytes = 9
    MaxOut = 7
    None = None
    Blank = Blank
    Uninitialized = Uninitialized
SPECIFICATION MCSpec
CHECK_DEADLOCK FALSE
INVARIANTS IsAdler FindsFirst 
PROPERTIES  MatchesCopied
