SPECIFICATION Spec
CONSTANTS
    Char <- MCChar
    Key = {97}
    CR = 13
    LF = 10
    Zero = 0
    Test = 174
    Broken = 256
    RxCap = 2
    MaxTyped = 1
    LongDigits = 2
    IntDigits = 1
    ByteDigits = 1
    Sink = {"serial", "log"}
    NSlots = 2
    Messages <- MCMessages
    MaxCalls = 3
    MaxMsgs = 1
INVARIANTS
    SinksServed
    Delivered
PROPERTIES
    ImplementsStream
    Rendered
    PutReturns
