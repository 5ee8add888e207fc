SPECIFICATION LiveSpec
CONSTANTS
    Flows = {f1}
    Width <- MCWidth
    Bits = 3
    Pow <- MCPow
    Addrs <- MCAddrs
    Special <- MCSpecial
    Devices = {"eth", "wifi", "lo"}
    Lo = "lo"
    Routes <- MCRoutes
    MaxRoutes = 3
    None = None
INVARIANTS TypeOK HeldToDevice NothingPastGateway LanReached
PROPERTY TcpAnswered
