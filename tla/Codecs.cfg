SPECIFICATION CodecsSpec
CONSTANTS
    Octets = {0, 1, 15, 40, 85, 128, 193, 255}
    MaxText = 5
    UrlOctets <- MCUrlOctets
    MaxUrl = 9
    FieldNames <- MCFieldNames
    FieldValues <- MCFieldValues
    MaxFields = 2
INVARIANTS
    EncodesRadix64
    RoundTrip
    UriParts
    FieldsArrive
CHECK_DEADLOCK FALSE
