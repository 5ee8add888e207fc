SPECIFICATION Spec
CONSTANTS
    Absent = Absent
    None = None
    app1 = app1
    app2 = app2
    readme = readme
    c1 = c1
    c2 = c2
    c3 = c3
    x = x
    y = y
    Paths = {app1, app2, readme}
    Apps = {app1, app2}
    Contents = {x, y}
    Commits = {c1, c2, c3}
    Tree <- MCTree
    Procs = {p1}
    Branches = {main}
    StopPoints <- SafeStops
INVARIANTS
    TypeOK
    SyncDelivers
    CountsTrue
PROPERTY AdoptsPublished
