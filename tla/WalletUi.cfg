\* One of everything the user can mix up, two invoices and two mints.
CHECK_DEADLOCK FALSE
SPECIFICATION UiSpec
CONSTANTS
    Tokens = {ta}
    TokenMint <- TokensOfKnown
    Invoices = {ia}
    Quotes = {qa, qb}
    Sends = {sa}
    Mints = {m1, m2}
    Known = {m1}
    None = None
    Junk = Junk
    Failure = Failure
    MaxActs = 3
    MaxHasty = 2
    MaxQueue = 3
    MaxUpdates = 2
INVARIANTS
    ShownTokenOnRecord
PROPERTIES
    BusyEnds
    PaidQuoteIssued
