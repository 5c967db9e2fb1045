\* Two messages, one after the other.
SPECIFICATION ReportSpec
CONSTANTS
    DeviceType = 11
    Messages <- MCMessages
    MaxMessages = 2
INVARIANTS
    ParsedAreSent
    WholeMessageIsParsed
    FieldsFollowReports
\* The messages end with their bound.
CHECK_DEADLOCK FALSE
