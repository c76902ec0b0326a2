SPECIFICATION Spec
CONSTANTS
    r1 = r1
    r2 = r2
    r3 = r3
    server = server
    cli = cli
    Runs = {r1, r2}
    Fresh = {r1}
    Processes = {server, cli}
    Home <- ServerAndCli
    MaxCrashes = 0
    Old = Old
    Other = Other
    Torn = Torn
    None = None
INVARIANT
    CacheReadable
