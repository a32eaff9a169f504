SPECIFICATION Spec
CONSTANTS
    Amounts = {1, 2}
    MaxClicks = 3
INVARIANT
    OnlyApprovalsContinue
