CONSTANTS
    Keys <- WordKeys
    IntValues = {0, 7}
    DoubleValues <- ShortDoubles
    StringValues <- WordStrings
    Precision = 6
SPECIFICATION Spec
INVARIANTS
    TypeOK
    RoundTrip
    LoadMerges
