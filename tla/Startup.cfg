CONSTANTS
    Methods = {"GET", "POST"}
    Parameters = {"{file_name}", "{name}", "{any}"}
    Param = "*"
    Programs <- MCPrograms
    Uris <- MCUris
    RegularFile = {"server.key", "server.crt", "text"}
    UsableFile = {"server.key", "server.crt"}
    PortValues = 8
    ThreadValues = 4
    CountValues = 65536
    QueueSize = 4096
    TableSize = 4
    MaxRoutes = 3
SPECIFICATION Spec
INVARIANTS
    
    StartsAsAsked
    WorkersAreSound
CHECK_DEADLOCK FALSE
