SPECIFICATION Spec
CONSTANTS
    Hosts = {h1}
    MaxSecret = 1
    BmcVersion = 1
    MaxEvents = 0
    Torn = Torn
    None = None
INVARIANT
    SecretTakesEffect
