CONSTANTS
    Parts = {"document"}
    NodesPerBlock = 3
    PropsPerBlock = 3
    MaxNodeBlocks = 2
    MaxPropBlocks = 2
    Names = {"name"}
    Strings = {"cpus", "a"}
    Paths <- ShortPaths
    StrLen <- MCStrLen
    Head30 <- MCHead30
    Rest30 <- MCRest30
    ListTypes = {"dict", "array"}
    LeafTypes = {"integer"}
    BoolTypes = {}
    TagsPerBlock = 2
    MaxBlocks = 2
    MaxTags = 5
SPECIFICATION MCSpec
CHECK_DEADLOCK FALSE
INVARIANT DataAsWritten
