SPECIFICATION Spec
CONSTANTS
    Texts = {"h", "bad"}
    Bad = {"bad"}
    Codes = {0, 3}
    MaxOps = 4
    MaxSig = 2
INVARIANTS
    TypeOK
    HandlersStay
    ExitTrapOnce
    ExitTrapRuns
    ExitIsFinal
    NoPhantomHandlers
PROPERTIES
    NeverDropped
