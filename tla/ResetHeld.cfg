SPECIFICATION Spec
CONSTANTS
    here = here
    there = there
    Server = {here, there}
    Credit <- Credits
    Banks <- SomeBanks
    NoServer = NoServer
    NoCredit = NoCredit
    MaxKey = 2
    MaxFetch = 2
    MaxApp = 1
INVARIANTS
    ModalHoldsRedemption
