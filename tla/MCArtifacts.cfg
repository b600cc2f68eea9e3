SPECIFICATION ArtifactsSpec
CONSTANTS
    Grants = {g1, g2}
    NoGrant = NoGrant
    MaxMade = 2
    MaxCrashes = 1
INVARIANTS
    DeliveredOnce
PROPERTIES
    RevocationWins
    SpoolCleared
    ConsumptionSettles
CHECK_DEADLOCK FALSE
