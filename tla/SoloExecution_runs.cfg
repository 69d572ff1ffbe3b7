CONSTANTS
    a = a
    b = b
    c = c
    None = None
    Synthesis = Synthesis
    Tasks = {a, b, c}
    TaskList <- ListedTasks
    Requests <- MCRequests
    Usages <- MCUsages
SPECIFICATION Spec
INVARIANT OnlyCyclesRefused
INVARIANT BillIsKnown
INVARIANT RecordsValidate
INVARIANT TamperingShows
CHECK_DEADLOCK FALSE
