\* Clients that may ask for anything: parts of quotes, blank outputs (0),
\* denominations the keyset has no key for (2).
SPECIFICATION Spec
CONSTANTS
    Tokens = {t1, t2}
    MintQuotes = {q1, q2}
    MeltQuotes = {m1}
    Denoms = {1}
    QuoteAmounts = {1, 2}
    OutputAmounts = {0, 1, 2}
    ChangeAmounts = {0, 1}
    Locked = {q2}
    InputFeePpk = 0
    WholeQuotes = FALSE
    PayOutcomes <- DefiniteOutcomes
SYMMETRY Symmetry
INVARIANTS
    SpendsSurviveRestart
    QuoteCountersAgree
PROPERTIES
    QuoteStatesAdvance
