\* Lost requests and replies, crashes, a recipient and a rotting store.
CHECK_DEADLOCK FALSE
SPECIFICATION Spec
CONSTANTS
    MaxIndex = 4
    MaxCrashes = 1
    Headroom = 2
    FeePpk = 0
    Quotes = {q1}
    QuoteAmount <- QuoteOf2
    Incoming = {t1}
    Text <- MixedV3
    SendAmounts = {1}
    MeltAmounts = {1}
    FeeReserve = 1
    StoreMayRot = TRUE
INVARIANTS
    TypeOK
    HeldBelowCounter
    CreditedStaysHeld
PROPERTIES
    PendingKeptWhileLive
    RestoreRecovers
