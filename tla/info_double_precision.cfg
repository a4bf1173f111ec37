CONSTANTS
    Keys <- WordKeys
    IntValues = {0, 7}
    DoubleValues <- LongDoubles
    StringValues <- WordStrings
    Precision = 6
SPECIFICATION Spec
INVARIANTS
    RoundTrip
