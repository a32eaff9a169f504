SPECIFICATION Spec
CONSTANTS
    Amounts = {1, 2}
    MaxClicks = 3
INVARIANTS
    TypeOK
    OneDepositPerApproval
PROPERTIES
    PendingEnds
    ApprovalContinued
