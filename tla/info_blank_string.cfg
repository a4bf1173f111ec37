CONSTANTS
    Keys <- WordKeys
    IntValues = {0, 7}
    DoubleValues <- ShortDoubles
    StringValues <- BlankStrings
    Precision = 6
SPECIFICATION Spec
INVARIANTS
    RoundTrip
