\* Names of three characters, the last of one bit; views of up to four.
CONSTANTS
    Slots = 2
    Bits = 2
    Digits = 1
    Letters = 2
    Others <- MCOthers
    Unknown <- MCUnknown
    MaxLength = 4
    MaxTail = 2
    MaxNames = 2
SPECIFICATION Spec
INVARIANTS TypeOK RoundTrip SetComplete Ordered
CHECK_DEADLOCK FALSE
