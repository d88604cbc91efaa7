SPECIFICATION Spec
CONSTANTS
    MaxInt = 31
    FixedMax = 12
    FailureBound = 7
INVARIANTS
    CeilingInRange
    DelayIsClosedForm
