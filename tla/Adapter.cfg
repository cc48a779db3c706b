\* Two connections, a cached spend, an uncached one and a bad body.  A
\* behaviour ends when its calls are made.
SPECIFICATION Spec
CHECK_DEADLOCK FALSE
CONSTANTS
    Clients = {c1, c2}
    Wallets = {c1}
    Requests <- MCRequests
    MaxCalls = 4
INVARIANTS
    AnswersOwnRequest
    RepeatsAnswer
PROPERTIES
    RequestsEnd
