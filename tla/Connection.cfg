SPECIFICATION ConnFairSpec
CONSTANTS
    Servers = {TRUE, FALSE}
    MaxPings = 1
    MaxChanges = 1
    Cap = 2
    Flags = {"tls", "no_tls", "insecure", "ca_file", "fingerprint"}
    MaxFlags = 2
    Passwords = {"right", "wrong", "long"}
    Attach = {"display", "inputs", "cursor"}
INVARIANTS
    BootstrapsMatch
    KnownModeAgrees
    FallsBackOnlyIfAllowed
    LinksAgree
PROPERTY ConnectSettles
CHECK_DEADLOCK FALSE
