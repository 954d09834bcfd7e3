SPECIFICATION Spec
CONSTANTS
    MaxInt = 7
    SlotRange = 256
    MaxDepth = 5
    MinThreshold = 8
    Numbers_ = {}
    Keys <- KeysOrPattern
    Source <- MCSource
    Modules <- MCModules
    Loops = {}
    Contexts = {}
    Effects = {}
INVARIANT
    StackIsWhereTheCompilerSaysItIs
