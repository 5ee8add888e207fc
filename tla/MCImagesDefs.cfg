SPECIFICATION Spec
CONSTANTS
    None = None
    edit_ = edit
    cc = cc
    local = local
    r1 = r1
    r2 = r2
    m1 = m1
    m2 = m2
    m3 = m3
    c1 = c1
    c2 = c2
    l1 = l1
    l2 = l2
    Procs = {p1}
    AppNames <- DefsAppNames
    PullApps = {edit, cc}
    InstallApps = {cc}
    References = {r1}
    Reference <- DefsReference
    Manifests = {m1}
    Config <- OneConfig
    Layers <- OneLayers
    Versions <- OneVersions
    BuildIds = {b1, b2}
    MaxDownloads = 1
    Preinstalled = {}
    Commands = {"run", "rebuild", "clean"}
    KillPoints = {}
    TagsMove = FALSE
    DefStates = {"ok", "broken", "gone"}
SYMMETRY SeqSymmetry
INVARIANTS
    BuildKeepsBase
