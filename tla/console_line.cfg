CONSTANTS
    Printable <- Keys
    BufferSize = 9
SPECIFICATION MCSpec
INVARIANTS NulFits ScreenShowsBuffer StringContracts
PROPERTIES ExecutesTyped ArgumentsMeant
