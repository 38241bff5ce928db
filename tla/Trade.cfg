SPECIFICATION Spec
CONSTANTS
    Char = {c1, c2, c3}
    Item = {i1}
    Map = {m1, m2}
    Nobody = Nobody
    Dangling = Dangling
    Amounts = {1, 2}
    MaxItem = 3
    MaxTrade = 2
    MaxInt = 4
    OfferLimit = 2
    RemoveLimit = 1
    AddQuantity = TRUE
    TakesOffers = FALSE
SYMMETRY Symmetry
INVARIANTS
    TradesArePaired
    OffersBacked
PROPERTIES
    AgreementIsCurrent
    ExchangeIsFair
