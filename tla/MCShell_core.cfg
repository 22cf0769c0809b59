SPECIFICATION Spec
CONSTANTS
    MAX_LOOP_DEPTH = 64
    Programs <- ShellPrograms
    Images <- Compiled
    Meanings <- Understood
    Script <- Statuses
    VM_CALL_STACK_MAX = 256
    VM_REDIR_STACK_MAX = 64
INVARIANTS
    TypeOK
    ShellSemantics
    Balanced
    FramesBack
    ChildInSegment
    CodeRegular
