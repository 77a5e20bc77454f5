SPECIFICATION FairSpec
CONSTANTS
    a1 = a1
    Alert = {a1}
    MaxModes = 3
    MaxWebhooks = 2
INVARIANTS
    TypeOK
    ChannelsAsConfigured
    EverySenderTried
    OkMeansDelivered
PROPERTY
    SendEnds
