SPECIFICATION FairSpec
CONSTANTS
    Hosts = {h1}
    MaxSecret = 1
    BmcVersion = 1
    MaxEvents = 1
    Torn = Torn
    None = None
INVARIANTS
    TypeOK
    SecretsApplied
    MismatchIsPending
PROPERTIES
    HealthConverges
    EntriesFollow
