\* Payments of one sat and of three, a reserve that tops itself up by two more.
SPECIFICATION Spec
CONSTANTS
    Invoices = {i1, i2}
    i1 = i1
    i2 = i2
    Needed <- OneAndThree
    Deposits = {d1}
    BootstrapSats = 2
    Urls = {here, there}
    Home = here
    FeePpk = 100
    Tries = 2
    MaxProofs = 9
INVARIANTS
    OffersLiveProofs
    LiveProofsOnFile
    FrontFollowsUpstream
PROPERTIES
    PaymentEnds
