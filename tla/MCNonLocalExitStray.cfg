SPECIFICATION Spec
CONSTANTS
    BlockNames <- Names
    Nil = "nil"
    Tags <- CatchTags
    Values <- Payloads
    MaxDepth = 4
    MaxAstray = 2
INVARIANT
    TopLevelQuiet
CHECK_DEADLOCK FALSE
