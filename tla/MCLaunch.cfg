SPECIFICATION Spec
CONSTANTS
    p1 = p1
    p2 = p2
    Procs = {p1, p2}
    Files <- MCFiles
    Defaults <- MCDefaults
    Images <- MCImagesSaid
    UserArgs <- NoArgs
    Hosts <- MCHosts
    Paths = {"data", "conf", "work", "net"}
    Expand <- MCExpand
    AsDir = {"data/"}
    Cwd <- MCCwd
    HOST_NET_FILES = {"net"}
    FixedDirs = {"proc"}
    ResolvConf = "net"
    Root = Root
    Relative = Relative
    NoFile = NoFile
    Broken = Broken
    MaxChanges = 1
    I64Max = 127
    Kilo = 4
    Shares = {2, 3}
    NaN = NaN
    Infinity = Infinity
    Unset = Unset
    Invalid = Invalid
    ALLOWED = {"read"}
    Syscalls = {"read", "bpf", "chroot", "clone", "clone3", "unshare", "socket", "personality"}
    CAPABILITY_SYSCALLS <- MCCapabilities
    PERSONALITIES <- Linux32
INVARIANTS TypeOK PointsMatch CheckPredicts LimitsHold OwnDecisions
PROPERTY SharesKept
CHECK_DEADLOCK FALSE
