SPECIFICATION Spec
CONSTANTS
    NCode = 2
    Data = {8}
    Touch <- MCTouch
    Int3 = {2}
    NRegs = 2
    IretSize = 4
    MaxDepth = 2
    MaxSize = 1
INVARIANT ReturnResumes
