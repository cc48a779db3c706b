\* Clients that mint parts of a quote and batch it, with outputs the keyset
\* has keys for.
SPECIFICATION Spec
CONSTANTS
    Tokens = {t1, t2}
    MintQuotes = {q1}
    MeltQuotes = {m1}
    Denoms = {1}
    QuoteAmounts = {1, 2}
    OutputAmounts = {1}
    ChangeAmounts = {0, 1}
    Locked = {}
    InputFeePpk = 0
    WholeQuotes = FALSE
    PayOutcomes <- DefiniteOutcomes
SYMMETRY Symmetry
INVARIANTS
    AcceptsMintable
