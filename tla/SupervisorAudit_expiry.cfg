SPECIFICATION ReviewSpec
CONSTANTS
    Criteria = {1, 2}
    Contracts <- MCContracts
    Remarks <- MCRemarks
    MaxAttempts = 2
    MaxAccepted = 2
CHECK_DEADLOCK FALSE
PROPERTY AcceptancesAreActive
