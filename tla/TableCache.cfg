SPECIFICATION FairSpec
CONSTANTS
    r1 = r1
    r2 = r2
    r3 = r3
    server = server
    cli = cli
    Runs = {r1, r2, r3}
    Fresh = {r3}
    Processes = {server}
    Home <- OneServer
    MaxCrashes = 1
    Old = Old
    Other = Other
    Torn = Torn
    None = None
INVARIANTS
    TypeOK
    CacheReadable
    TablesOnDisk
PROPERTIES
    SharedSpec
    EveryRunServed
