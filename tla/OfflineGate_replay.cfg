\* Replays against a ring of two, with failing saves, rotting flash and
\* power losses, among scans that are wrong in every way the gate checks.
SPECIFICATION Spec
CONSTANTS
    Good = {a, b, c}
    Bad = {"locked", "no dleq", "foreign", "raised", "no key"}
    Secrets = {a, b, c, "locked", "no dleq", "foreign", "raised", "no key"}
    ProofOf <- ProofsOf
    Texts <- OneWrong
    Mints = {"ours", "other"}
    AcceptedMints = {"ours"}
    Pinned <- OneKeyset
    Price = 1
    Capacity = 2
    MaxProofs = 2
    MaxHistory = 5
INVARIANTS
    TypeOK
    NoDoubleEntry
