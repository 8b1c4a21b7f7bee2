SPECIFICATION DisasmSpec
CONSTANTS
    MaxPrefixes = 2
    MaxNops = 3
INVARIANTS
    NextInstruction
    ReadsDefined
