CONSTANTS
    Parts = {"images", "numbers", "tester"}
    LoadCells = 2
    KernelCells = 3
    Images <- SmallImages
    NULL = NULL
    Byte = 3
    DramBase = 4
    Window = 4
    End = 15
    Addresses <- SmallAddresses
    Numbers = {1, 77}
    Texts <- SmallTexts
SPECIFICATION MCSpec
CHECK_DEADLOCK FALSE
INVARIANTS StartsChecked  ReadsBack FaultsReported
 
