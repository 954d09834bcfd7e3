SPECIFICATION Spec
CONSTANTS
    MaxInt = 7
    SlotRange = 256
    MaxDepth = 5
    MinThreshold = 8
    Numbers_ = {0, 2, 7}
    Keys <- MCKeys
    Source <- MCSource
    Modules <- MCModules
    Loops = {"for", "for[]", "while"}
    Contexts = {"plain", "sum", "array", "spread", "object", "merge", "argument", "arguments", "index", "put", "template", "scope",
                "if", "and", "or", "subject", "arm", "guard", "try", "catch", "for", "range", "function", "break"}
    Effects = {"value", "decl", "declpattern", "break", "breakvalue", "breakbreak", "continue", "return", "raise", "divide",
               "close", "match", "try", "call", "yield"}
INVARIANTS
    TypeOK
    StackIsWhereTheCompilerSaysItIs
    HandlersAreThoseAround
    SharedVariablesHaveOneCell
    NoHandleIsStale
    SessionKeepsItsBindings
    NothingStaysInProgress
PROPERTY
    ResultAgrees
    ReadAsWritten
