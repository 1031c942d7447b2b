\* A modem up to two answers behind.
SPECIFICATION Spec
CONSTANTS
    MaxLag = 2
    FailMax = 2
    MayStop = TRUE
INVARIANTS TypeOK SessionIsFresh OnlyPacketsAreSent
PROPERTIES SentIsDelivered InitialisedIsActive GoodModemDelivers
