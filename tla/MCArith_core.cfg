SPECIFICATION Spec
CONSTANTS
    WIDTH = 3
    ARITH_MAX_DEPTH = 3
    Names = {"x", "y"}
    Cases <- ArithCases
INVARIANT
    EvaluatesAsMeant
