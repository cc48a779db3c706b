\* Every lock of MCSpendingConditions alone, and pairs of simple ones.
SPECIFICATION ConditionsSpec
CONSTANTS
    Transactions <- SomeTransactions
    Outputs <- TwoOutputs
    Signers = {Me, Bob}
    Me = Me
    Bob = Bob
    Hash = Hash
    Preimage = Preimage
    Bad = Bad
    None = None
    o1 = o1
    o2 = o2
    MaxSigs = 2
    MaxTime = 2
CHECK_DEADLOCK FALSE
INVARIANTS
    OwnWitnessAccepted
    AcceptedIsAuthorized
PROPERTIES
    TimeClosesNothing
