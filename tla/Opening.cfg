SPECIFICATION Spec
CONSTANTS
    cl1 = cl1
    cl2 = cl2
    a1 = a1
    a2 = a2
    c1 = c1
    c2 = c2
    jpyc = jpyc
    d1 = d1
    d2 = d2
    Clients = {cl1, cl2}
    Credentials = {c1, c2}
    Accounts = {a1, a2}
    AccountOf <- MCAccountOf
    Assets = {jpyc}
    Decimals <- MCDecimals
    Destinations = {d1, d2}
    Owner <- MCOwner
    Keys = {k1}
    k1 = k1
    NoKey = NoKey
    Bodies <- MCBodies
    Sent <- MCSent
    Operated = {c1}
    Nothing = Nothing
    Deployment = Deployment
    MaxAmountDigits = 4
    Texts <- MCTexts
    MaxPayments = 2
    Horizon = 2
    Unit = 2
    DefaultExpiry = 2
    MaxExpiry = 2
    UseInterval = 1
SYMMETRY TwoClients
INVARIANTS
    RowsHold
    OneKeyOnePayment
    AmountsReadBack
PROPERTIES
    AnswersItsOwn
