CONSTANTS
    Paths = {"/x", "/y"}
    Values <- MCValues
    Null <- NullValue
    ContractName <- Schema
    SchemaErrors <- MCSchemaErrors
    RawSpecs <- MCSpecs
    Reserved = {"protocol:output-schema", "protocol:completed-successfully"}
    SchemaId = "protocol:output-schema"
    CompletionId = "protocol:completed-successfully"
    Exposed <- MCExposed
    Missing = Missing
    Absent = Absent
SPECIFICATION GateSpec
INVARIANT RemainingRateMeets
CHECK_DEADLOCK FALSE
