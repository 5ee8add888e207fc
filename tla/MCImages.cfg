SPECIFICATION Spec
CONSTANTS
    None = None
    edit_ = edit
    cc = cc
    local = local
    r1 = r1
    r2 = r2
    m1 = m1
    m2 = m2
    m3 = m3
    c1 = c1
    c2 = c2
    l1 = l1
    l2 = l2
    Procs = {p1}
    AppNames <- SeqAppNames
    PullApps = {edit, cc}
    InstallApps = {cc}
    References = {r1, r2}
    Reference <- SeqReference
    Manifests = {m1, m2, m3}
    Config <- SeqConfig
    Layers <- SeqLayers
    Versions <- SeqVersions
    BuildIds = {b1, b2}
    MaxDownloads = 1
    Preinstalled = {r2}
    Commands = {"run", "pull", "update", "rebuild", "clean"}
    KillPoints <- SafeKillPoints
    TagsMove = TRUE
    DefStates = {"ok"}
SYMMETRY SeqSymmetry
INVARIANTS
    TypeOK
    RecordedIntact
    PullDelivers
    UpdateReachesAll
PROPERTIES
    GcLeavesOnlyLive
