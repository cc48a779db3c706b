\* Clients that behave as the repository's wallets do: whole quotes, outputs
\* the keyset has keys for.
SPECIFICATION Spec
CONSTANTS
    Tokens = {t1, t2, t3}
    MintQuotes = {q1, q2}
    MeltQuotes = {m1}
    Denoms = {1, 2}
    QuoteAmounts = {1, 2, 3}
    OutputAmounts = {1, 2}
    ChangeAmounts = {0, 1}
    Locked = {q2}
    InputFeePpk = 400
    WholeQuotes = TRUE
    PayOutcomes <- DefiniteOutcomes
SYMMETRY Symmetry
INVARIANTS
    TypeOK
    SpendsSurviveRestart
    PaysInvoiceOnce
    MeltClaimDurable
    QuoteCountersAgree
    MemoryIsDurable
    Solvent
PROPERTIES
    QuoteStatesAdvance
