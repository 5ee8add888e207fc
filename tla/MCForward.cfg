SPECIFICATION FairSpec
CONSTANTS
    Bridges = {b1, b2}
    Ports = {8080}
    Tried = {"127.0.0.1", "::1"}
    Other = {"127.0.0.2"}
    Host = Host
    Refusals <- SomeRefused
INVARIANTS
    TypeOK
    NoLoop
PROPERTIES
    Reachable
    MirrorsGo
