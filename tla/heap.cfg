SPECIFICATION Spec
CONSTANTS
    o1 = o1
    o2 = o2
    o3 = o3
    Owners = {o1, o2, o3}
    Requests = {1, 3, 9}
    Area = 22
    FLI_OFFSET = 1
    MAX_LOG2_SLI = 1
SYMMETRY Alike
INVARIANT HeapSound
PROPERTIES RefusesOnlyWhenShort ImplementsStore
