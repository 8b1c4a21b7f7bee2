SPECIFICATION Spec
CONSTANTS
    Graph = {"0", "8", "x", "-"}
    DigitOf <- MCDigits
    BufSize = 6
    MaxArgs = 4
    Bits = 4
    Names <- MCNames
    After <- MCAfter
    MaxKeys = 7
INVARIANTS
    ScreenShowsLine
    ArgsAreWords
    StaysInside
    ParamsReadable
    NumbersExact
