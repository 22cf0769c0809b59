SPECIFICATION Spec
CONSTANTS
    NULL = NULL
    IoNumber <- MCIoNumber
    Assignments = {"x=1", "y="}
    SingleQuoted <- MCSingleQuoted
    DoubleQuoted <- MCDoubleQuoted
    Expanding = {"$x"}
    MAX_PENDING_HEREDOCS = 2
    Trees <- MCTrees
    Styles <- MCStyles
    Bodies <- MCBodies
    Texts <- MCTexts
    MAX_PENDING_HEREDOC_FMT = 2
INVARIANTS
    ParsesAsWritten
    FormatKeeps
    NothingLost
CHECK_DEADLOCK FALSE
