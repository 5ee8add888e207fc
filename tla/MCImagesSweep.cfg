SPECIFICATION Spec
CONSTANTS
    None = None
    edit_ = edit
    cc = cc
    local = local
    r1 = r1
    r2 = r2
    m1 = m1
    m2 = m2
    m3 = m3
    c1 = c1
    c2 = c2
    l1 = l1
    l2 = l2
    Procs = {p1, p2}
    AppNames <- OneAppName
    PullApps = {edit}
    InstallApps = {}
    References = {r1}
    Reference <- OneReference
    Manifests = {m1}
    Config <- OneConfig
    Layers <- OneLayers
    Versions <- OneVersions
    BuildIds = {}
    MaxDownloads = 3
    Preinstalled = {}
    Commands = {"pull", "clean"}
    KillPoints = {}
    TagsMove = FALSE
    DefStates = {"ok"}
INVARIANTS
    RecordedIntact
