----------------------------- MODULE MountProofs -----------------------------
(***************************************************************************)
(* Theorems about the host paths a launch shares, in Launch: what is       *)
(* mounted finds its mount point, and a launch alters nothing that was     *)
(* there, for any definitions, any number of launches next to each other   *)
(* and anything users do meanwhile.                                        *)
(***************************************************************************)
EXTENDS LaunchProofs

-----------------------------------------------------------------------------
(* The inductive invariant *)

HostTypes ==
    /\ host \in [Paths -> Kinds] /\ changes \in 0..MaxChanges
    /\ pc \in [Procs -> PcLabels]
    /\ pass \in [Procs -> {"mountpoints", "build"}]
    /\ why \in [Procs -> {"none", "definition", "host", "image"}]
    /\ kept \in [Procs -> SUBSET Paths]
    /\ touched \in [Procs -> SUBSET Paths]
    /\ points = [p \in Procs |-> points[p]]
    /\ \A p \in Procs : /\ pc[p] = "failed" <=> why[p] # "none"
                        /\ cfg[p] # Invalid => DOMAIN cfg[p] = DOMAIN Defaults

\* What a mount entry stands for, once extra_mounts() is done with it
ShareOf(e) ==
    [source |-> Expand[parse_mount(e).source],
     destination |-> Expand[parse_mount(e).destination],
     readonly |-> parse_mount(e).readonly]
SharesOK(p) ==
    \A i \in 1..Len(shares[p]) :
        /\ shares[p][i] = ShareOf(cfg[p].mount[i])
        /\ shares[p][i].source \in Paths /\ shares[p][i].destination \in Paths \cup {Root}

\* What was there and no user has touched stays, so that a path extra_mounts() is
\* about to create was not there when the launch began.
KeptOK(p) ==
    /\ pc[p] \notin Ended => \A path \in kept[p] \ touched[p] : host[path] # "none"
    /\ pc[p] = "create" => source(p) \notin kept[p] \ touched[p] /\ ~entry(p).readonly

HInv == PInv /\ HostTypes /\ \A p \in Procs : SharesOK(p) /\ KeptOK(p)

\* The network files of the host are the system's, in /etc, where a user's climate creates
\* nothing: a definition may share one read-only, but none that climate would create.
\* Without this the claim is false: such a file that another launch creates between
\* mountpoints() and build() is mounted though nothing was listed for it.
Apart(config) ==
    \A i \in DOMAIN config.mount :
        parse_mount(config.mount[i]) # Invalid /\ ~parse_mount(config.mount[i]).readonly =>
            Expand[parse_mount(config.mount[i]).source] \notin HOST_NET_FILES
NetFilesApart ==
    \A p \in Procs : \A files \in Files[p] : load(files) # Invalid => Apart(load(files))

\* A share, or another bind, that is there and has a mount point of its kind
Fits(p, m) ==
    \/ m.source \in touched[p]
    \/ /\ m.source \in Paths /\ host[m.source] # "none"
       /\ Point(m.destination, KindOf(host[m.source])) \in points[p]

\* What mountpoints() found, each path is still, and build() will find again.
Pointed(p) ==
    /\ \A dir \in FixedDirs \cup host_dir(p) : Point(dir, "dir") \in points[p]
    /\ \A i \in DOMAIN cfg[p].mount : Fits(p, ShareOf(cfg[p].mount[i]))
    /\ cfg[p].network = "full" =>
         \A file \in HOST_NET_FILES :
             file \in touched[p] \/ host[file] = "none" \/ Point(file, "file") \in points[p]
\* Where a launch is in the two calls of extra_mounts()
PassOK(p) ==
    /\ pc[p] \in {"idle", "check_host_dir", "resolve", "mountpoints", "build"} =>
         pass[p] = "mountpoints"
    /\ pc[p] \in {"finish", "start"} => pass[p] = "build"
    /\ pc[p] = "mountpoints" => Len(shares[p]) = Len(cfg[p].mount)
CwdOK(p) ==
    pc[p] # "check_host_dir" =>
        \A dir \in host_dir(p) : dir \in Paths /\ (dir \in touched[p] \/ host[dir] = "dir")
SeenOK(p) ==
    \A i \in 1..Len(shares[p]) :
        shares[p][i].source \in touched[p] \/ host[shares[p][i].source] # "none"
PointsOK(p) == pc[p] = "build" \/ pass[p] = "build" => Pointed(p)
SpecOK(p) == pc[p] = "start" => \A m \in spec[p].mounts : Fits(p, m)
MountsOK(p) ==
    /\ PassOK(p)
    /\ pc[p] \notin Ended => CwdOK(p) /\ SeenOK(p) /\ PointsOK(p) /\ SpecOK(p)

NetOK ==
    /\ \A file \in HOST_NET_FILES : host[file] # "dir"
    /\ \A p \in Procs : cfg[p] # Invalid => Apart(cfg[p])
MInv == HInv /\ NetOK /\ \A p \in Procs : MountsOK(p)
-----------------------------------------------------------------------------
(* One step of one launch *)

\* What else of a launch a step leaves alone
Still(q) == pass'[q] = pass[q] /\ points'[q] = points[q] /\ kept'[q] = kept[q]

\* What happens to the host beside a launch that has not ended: what is there stays
\* and keeps its kind, unless users touch it.
Steady(q) ==
    /\ touched[q] \subseteq touched'[q]
    /\ \A path \in Paths :
         \/ path \in touched'[q]
         \/ host[path] # "none" =>
              host'[path] # "none" /\ KindOf(host'[path]) = KindOf(host[path])

\* The path that extra_mounts() is about to create
LEMMA SourceCreated ==
    ASSUME HInv, NEW p \in Procs, pc[p] = "create"
    PROVE  /\ source(p) \in Paths /\ entry(p) # Invalid /\ ~entry(p).readonly
           /\ Len(shares[p]) + 1 \in DOMAIN cfg[p].mount
           /\ entry(p) = parse_mount(cfg[p].mount[Len(shares[p]) + 1])
<1>1. /\ Known(cfg[p]) /\ Len(shares[p]) < Len(cfg[p].mount) /\ SourceOK(entry(p))
      /\ shares[p] \in Seq(Share) /\ ~entry(p).readonly
  BY DEF HInv, PInv, LaunchOK, KeptOK
<1>2. /\ Len(shares[p]) + 1 \in DOMAIN cfg[p].mount
      /\ cfg[p].mount[Len(shares[p]) + 1] \in Seq(DOMAIN Expand)
  BY <1>1 DEF Known
<1>3. entry(p) = parse_mount(cfg[p].mount[Len(shares[p]) + 1]) /\ entry(p) # Invalid
  BY <1>1 DEF entry, SourceOK
<1>4. entry(p).source \in DOMAIN Expand
  BY <1>2, <1>3, ParseMount
<1>5. source(p) \in Paths
  BY <1>1, <1>4, LaunchAssumption DEF SourceOK, source
<1> QED BY <1>1, <1>2, <1>3, <1>5

\* What a launch may do to the host
LEMMA HostChanges ==
    ASSUME HInv, NEW p \in Procs, Step(p) \/ \E files \in Files[p] : begin(p, files)
    PROVE  /\ UNCHANGED <<changes, touched>>
           /\ \/ UNCHANGED host
              \/ /\ create_source(p) /\ pc[p] = "create" /\ source(p) \in Paths
                 /\ \E made \in {"dir", "empty"} :
                      /\ KindOf(host[source(p)]) \in {"none", KindOf(made)}
                      /\ host' = [host EXCEPT ![source(p)] = made]
<1>1. CASE create_source(p)
  BY <1>1, SourceCreated DEF create_source
<1>2. CASE ~create_source(p)
  BY <1>2
  DEF Step, begin, check_host_dir, resolve, look, mountpoints, build, finish, start
<1> QED BY <1>1, <1>2

LEMMA NextSteady ==
    ASSUME HInv, Next, NEW q \in Procs, pc[q] \notin Ended
    PROVE  Steady(q)
<1>1. HostTypes
  BY DEF HInv
<1>2. ASSUME NEW p \in Procs, Step(p) \/ \E files \in Files[p] : begin(p, files) PROVE Steady(q)
  BY <1>1, <1>2, HostChanges DEF Steady, HostTypes, Kinds, KindOf
<1>3. ASSUME NEW path \in Paths, user_changes(path) PROVE Steady(q)
  <2>1. touched'[q] = touched[q] \cup {path}
        /\ \A other \in Paths \ {path} : host'[other] = host[other]
    BY <1>1, <1>3 DEF user_changes, HostTypes
  <2> QED BY <2>1 DEF Steady
<1> QED BY <1>2, <1>3 DEF Next

LEMMA OthersStill ==
    ASSUME HInv, NEW p \in Procs, Step(p) \/ \E files \in Files[p] : begin(p, files),
           NEW q \in Procs \ {p}
    PROVE  Unmoved(q) /\ Still(q)
<1>1. HostTypes /\ PInv
  BY DEF HInv
<1> USE DEF Unmoved, Still, Push, Fail, GoOn, Goto, HostTypes, PInv
<1>2. ASSUME NEW files \in Files[p], begin(p, files) PROVE Unmoved(q) /\ Still(q)
  BY <1>1, <1>2 DEF begin
<1>3. CASE check_host_dir(p)
  BY <1>1, <1>3 DEF check_host_dir
<1>4. CASE resolve(p)
  BY <1>1, <1>4 DEF resolve
<1>5. CASE look(p)
  BY <1>1, <1>5 DEF look
<1>6. CASE create_source(p)
  BY <1>1, <1>6 DEF create_source
<1>7. CASE mountpoints(p)
  BY <1>1, <1>7 DEF mountpoints
<1>8. CASE build(p)
  BY <1>1, <1>8 DEF build
<1>9. CASE finish(p)
  BY <1>1, <1>9 DEF finish
<1>10. CASE start(p)
  BY <1>1, <1>10 DEF start
<1> QED BY <1>2, <1>3, <1>4, <1>5, <1>6, <1>7, <1>8, <1>9, <1>10 DEF Step
-----------------------------------------------------------------------------
(* HInv is inductive *)

\* Each step of a launch ends it with a reason or takes it on.
LEMMA Ways ==
    ASSUME HInv, NEW p \in Procs, Step(p) \/ \E files \in Files[p] : begin(p, files)
    PROVE  /\ pc[p] \notin {"failed", "running"}
           /\ \/ \E reason \in {"definition", "host", "image"} : Fail(p, reason)
              \/ \E label \in PcLabels \ {"idle", "failed"} : GoOn(p, label)
<1> USE DEF Push, PcLabels
<1>1. ASSUME NEW files \in Files[p], begin(p, files)
      PROVE  pc[p] = "idle" /\ (Fail(p, "definition") \/ GoOn(p, "check_host_dir"))
  BY <1>1 DEF begin
<1>2. ASSUME check_host_dir(p)
      PROVE  pc[p] = "check_host_dir" /\ (Fail(p, "host") \/ GoOn(p, "resolve"))
  BY <1>2 DEF check_host_dir
<1>3. ASSUME resolve(p)
      PROVE  pc[p] = "resolve" /\ (Fail(p, "image") \/ Fail(p, "host") \/ GoOn(p, "look"))
  BY <1>3 DEF resolve
<1>4. ASSUME look(p)
      PROVE  /\ pc[p] = "look"
             /\ \/ Fail(p, "definition") \/ Fail(p, "host") \/ GoOn(p, "finish")
                \/ GoOn(p, "mountpoints") \/ GoOn(p, "create") \/ GoOn(p, "look")
  BY <1>4 DEF look
<1>5. ASSUME create_source(p)
      PROVE  /\ pc[p] = "create"
             /\ Fail(p, "definition") \/ Fail(p, "host") \/ GoOn(p, "look")
  BY <1>5 DEF create_source
<1>6. ASSUME mountpoints(p)
      PROVE  /\ pc[p] = "mountpoints"
             /\ Fail(p, "image") \/ Fail(p, "host") \/ GoOn(p, "build")
  BY <1>6 DEF mountpoints
<1>7. ASSUME build(p)
      PROVE  pc[p] = "build" /\ (Fail(p, "host") \/ Fail(p, "image") \/ GoOn(p, "look"))
  BY <1>7 DEF build
<1>8. ASSUME finish(p)
      PROVE  pc[p] = "finish" /\ (Fail(p, "definition") \/ GoOn(p, "start"))
  BY <1>8 DEF finish
<1>9. ASSUME start(p)
      PROVE  pc[p] = "start" /\ (Fail(p, "host") \/ GoOn(p, "running"))
  BY <1>9 DEF start
<1> QED BY <1>1, <1>2, <1>3, <1>4, <1>5, <1>6, <1>7, <1>8, <1>9 DEF Step

LEMMA HostTypesNext ==
    ASSUME HInv, NEW p \in Procs, Step(p) \/ \E files \in Files[p] : begin(p, files)
    PROVE  HostTypes'
<1>1. HostTypes /\ PInv
  BY DEF HInv
<1>2. /\ host' \in [Paths -> Kinds] /\ changes' \in 0..MaxChanges
      /\ touched' \in [Procs -> SUBSET Paths]
  BY <1>1, HostChanges DEF HostTypes, Kinds
<1>3. kept' \in [Procs -> SUBSET Paths]
  <2>1. \/ kept' = kept
        \/ kept' = [kept EXCEPT ![p] = {path \in Paths : host[path] # "none"}]
    BY DEF Step, begin, check_host_dir, resolve, look, create_source, mountpoints, build,
           finish, start
  <2> QED BY <1>1, <2>1 DEF HostTypes
<1>4. pass' \in [Procs -> {"mountpoints", "build"}]
  <2>1. pass' = pass \/ pass' = [pass EXCEPT ![p] = "build"]
    BY DEF Step, begin, check_host_dir, resolve, look, create_source, mountpoints, build,
           finish, start
  <2> QED BY <1>1, <2>1 DEF HostTypes
<1>5. points' = [q \in Procs |-> points'[q]]
  <2>1. points' = points \/ points' = [points EXCEPT ![p] = Points(p)]
    BY DEF Step, begin, check_host_dir, resolve, look, create_source, mountpoints, build,
           finish, start
  <2> QED BY <1>1, <2>1 DEF HostTypes
<1>6. /\ pc' \in [Procs -> PcLabels]
      /\ why' \in [Procs -> {"none", "definition", "host", "image"}]
      /\ pc'[p] = "failed" <=> why'[p] # "none"
  <2>1. /\ pc \in [Procs -> PcLabels] /\ why \in [Procs -> {"none", "definition", "host", "image"}]
        /\ pc[p] # "failed" => why[p] = "none"
    BY <1>1 DEF HostTypes
  <2>2. CASE \E reason \in {"definition", "host", "image"} : Fail(p, reason)
    BY <2>1, <2>2 DEF Fail, Goto, PcLabels
  <2>3. CASE \E label \in PcLabels \ {"idle", "failed"} : GoOn(p, label)
    BY <2>1, <2>3, Ways DEF GoOn, Goto
  <2> QED BY <2>2, <2>3, Ways
<1>7. cfg'[p] # Invalid => DOMAIN cfg'[p] = DOMAIN Defaults
  <2>1. cfg' = cfg \/ \E files \in Files[p] : cfg' = [cfg EXCEPT ![p] = load(files)]
    BY DEF Step, begin, check_host_dir, resolve, look, create_source, mountpoints, build,
           finish, start
  <2> QED BY <1>1, <2>1, TypedAssumption DEF HostTypes, PInv
<1>8. ASSUME NEW q \in Procs
      PROVE  /\ pc'[q] = "failed" <=> why'[q] # "none"
             /\ cfg'[q] # Invalid => DOMAIN cfg'[q] = DOMAIN Defaults
  BY <1>1, <1>6, <1>7, OthersStill DEF Unmoved, HostTypes
<1> QED BY <1>2, <1>3, <1>4, <1>5, <1>6, <1>8 DEF HostTypes

\* What happens to the entries a launch has gone through
LEMMA Gathered ==
    ASSUME HInv, NEW p \in Procs, Step(p)
    PROVE  /\ cfg' = cfg /\ pc[p] \notin Ended
           /\ \/ shares' = shares
              \/ build(p) /\ shares' = [shares EXCEPT ![p] = <<>>]
              \/ /\ pc[p] \in {"look", "create"} /\ Push(p)
                 /\ Len(shares[p]) < Len(cfg[p].mount) /\ SourceOK(entry(p))
                 /\ Expand[entry(p).destination] # Relative
                 /\ shares' = [shares EXCEPT ![p] = Append(@,
                      [source |-> source(p), destination |-> Expand[entry(p).destination],
                       readonly |-> entry(p).readonly])]
<1>1. cfg' = cfg /\ pc[p] \notin Ended
  BY DEF Ended, Step, check_host_dir, resolve, look, create_source, mountpoints, build, finish,
         start
<1>2. CASE look(p) \/ create_source(p)
  <2>1. LaunchOK(p) /\ shares[p] \in Seq(Share)
    BY DEF HInv, PInv
  <2>2. \/ shares' = shares
        \/ /\ pc[p] \in {"look", "create"} /\ Push(p)
           /\ look(p) => Len(shares[p]) # Len(cfg[p].mount) /\ SourceOK(entry(p))
           /\ create_source(p) => pc[p] = "create"
    BY <1>2 DEF look, create_source
  <2>3. pc[p] = "create" => Len(shares[p]) < Len(cfg[p].mount) /\ SourceOK(entry(p))
    BY <2>1 DEF LaunchOK
  <2>4. Len(shares[p]) # Len(cfg[p].mount) => Len(shares[p]) < Len(cfg[p].mount)
    BY <1>1, <2>1 DEF LaunchOK, Known, Ended
  <2> QED BY <1>1, <1>2, <2>2, <2>3, <2>4 DEF Push
<1>3. CASE build(p)
  BY <1>1, <1>3 DEF build
<1>4. CASE check_host_dir(p) \/ resolve(p) \/ mountpoints(p) \/ finish(p) \/ start(p)
  BY <1>1, <1>4 DEF check_host_dir, resolve, mountpoints, finish, start
<1> QED BY <1>1, <1>2, <1>3, <1>4 DEF Step

\* The entry just done, as extra_mounts() writes it
LEMMA ShareMade ==
    ASSUME HInv, NEW p \in Procs, pc[p] \notin {"idle", "failed"},
           Len(shares[p]) < Len(cfg[p].mount), SourceOK(entry(p)),
           Expand[entry(p).destination] # Relative
    PROVE  /\ ShareOf(cfg[p].mount[Len(shares[p]) + 1]) =
                [source |-> source(p), destination |-> Expand[entry(p).destination],
                 readonly |-> entry(p).readonly]
           /\ source(p) \in Paths /\ Expand[entry(p).destination] \in Paths \cup {Root}
           /\ entry(p).readonly \in BOOLEAN
<1>1. Known(cfg[p]) /\ shares[p] \in Seq(Share)
  BY DEF HInv, PInv, LaunchOK
<1>2. /\ Len(shares[p]) + 1 \in 1..Len(cfg[p].mount)
      /\ cfg[p].mount[Len(shares[p]) + 1] \in Seq(DOMAIN Expand)
  BY <1>1 DEF Known
<1>3. entry(p) = parse_mount(cfg[p].mount[Len(shares[p]) + 1]) /\ entry(p) # Invalid
  BY DEF entry, SourceOK
<1>4. /\ entry(p).source \in DOMAIN Expand /\ entry(p).destination \in DOMAIN Expand
      /\ entry(p).readonly \in BOOLEAN
  BY <1>2, <1>3, ParseMount
<1>5. \A field \in DOMAIN Expand : Expand[field] \in Paths \cup {Root, Relative}
  BY LaunchAssumption
<1> QED BY <1>3, <1>4, <1>5 DEF ShareOf, source, SourceOK

LEMMA SharesNext ==
    ASSUME HInv, NEW p \in Procs, Step(p)
    PROVE  SharesOK(p)'
<1>1. /\ SharesOK(p) /\ shares \in [Procs -> Seq(Share)] /\ shares[p] \in Seq(Share)
      /\ pc[p] \notin Ended /\ cfg' = cfg
  BY Gathered DEF HInv, PInv
<1>2. CASE shares' = shares
  BY <1>1, <1>2 DEF SharesOK
<1>3. CASE shares' = [shares EXCEPT ![p] = <<>>]
  BY <1>1, <1>3 DEF SharesOK
<1>4. ASSUME Len(shares[p]) < Len(cfg[p].mount), SourceOK(entry(p)),
             Expand[entry(p).destination] # Relative,
             shares' = [shares EXCEPT ![p] = Append(@,
                      [source |-> source(p), destination |-> Expand[entry(p).destination],
                       readonly |-> entry(p).readonly])]
      PROVE  SharesOK(p)'
  <2> DEFINE share == [source |-> source(p), destination |-> Expand[entry(p).destination],
                       readonly |-> entry(p).readonly]
             n == Len(shares[p])
  <2>1. /\ share = ShareOf(cfg[p].mount[n + 1])
        /\ share.source \in Paths /\ share.destination \in Paths \cup {Root}
        /\ share.readonly \in BOOLEAN
    BY <1>1, <1>4, ShareMade DEF Ended
  <2>2. share \in Share /\ shares'[p] = Append(shares[p], share)
    BY <1>1, <1>4, <2>1 DEF Share, Anywhere
  <2> HIDE DEF share
  <2>3. /\ Len(shares'[p]) = n + 1 /\ shares'[p][n + 1] = share
        /\ \A i \in 1..n : shares'[p][i] = shares[p][i]
    BY <1>1, <2>2
  <2>4. \A i \in 1..(n + 1) : i = n + 1 \/ i \in 1..n
    BY <1>1
  <2> QED BY <1>1, <2>1, <2>3, <2>4 DEF SharesOK
<1> QED BY <1>2, <1>3, <1>4, Gathered

LEMMA KeptNext ==
    ASSUME HInv, NEW p \in Procs, Step(p)
    PROVE  KeptOK(p)'
<1>1. /\ HostTypes /\ KeptOK(p) /\ pc[p] \notin Ended /\ cfg' = cfg /\ Steady(p)
      /\ touched' = touched /\ kept' = kept
  <2>1. kept' = kept
    BY DEF Step, check_host_dir, resolve, look, create_source, mountpoints, build, finish, start
  <2>2. Next
    BY DEF Next
  <2> QED BY <2>1, <2>2, Gathered, NextSteady, HostChanges DEF HInv
<1>2. kept[p] \subseteq Paths
  BY <1>1 DEF HostTypes
<1>3. \A path \in kept'[p] \ touched'[p] : host'[path] # "none"
  BY <1>1, <1>2 DEF KeptOK, Steady
<1>4. ASSUME pc'[p] = "create" PROVE source(p)' \notin kept'[p] \ touched'[p] /\ ~entry(p)'.readonly
  <2>1. look(p)
    BY <1>1, <1>4 DEF Step, check_host_dir, resolve, create_source, mountpoints, build, finish,
       start, Push, Fail, GoOn, Goto, HostTypes
  <2>2. host[source(p)] = "none" /\ ~entry(p).readonly /\ shares' = shares
    BY <1>1, <1>4, <2>1 DEF look, Push, Fail, GoOn, Goto, HostTypes
  <2>3. source(p)' = source(p) /\ entry(p)' = entry(p)
    BY <1>1, <2>2 DEF source, entry
  <2> QED BY <1>1, <2>2, <2>3 DEF KeptOK
<1> QED BY <1>3, <1>4 DEF KeptOK

LEMMA HInit == Init => HInv
<1> SUFFICES ASSUME Init PROVE HInv
  OBVIOUS
<1>1. HostTypes
  BY LaunchAssumption DEF Init, HostTypes, PcLabels
<1>2. ASSUME NEW p \in Procs PROVE SharesOK(p) /\ KeptOK(p)
  BY DEF Init, SharesOK, KeptOK, Ended
<1> QED BY <1>1, <1>2, PInit DEF HInv

\* A launch that another one's step, or a user, leaves where it is
LEMMA StaysOK ==
    ASSUME HInv, NEW q \in Procs, Unmoved(q), Still(q), pc[q] \notin Ended => Steady(q)
    PROVE  SharesOK(q)' /\ KeptOK(q)'
<1>1. HostTypes /\ SharesOK(q) /\ KeptOK(q) /\ kept[q] \subseteq Paths
  BY DEF HInv, HostTypes
<1>2. SharesOK(q)'
  BY <1>1 DEF SharesOK, Unmoved
<1>3. source(q)' = source(q) /\ entry(q)' = entry(q)
  BY DEF source, entry, Unmoved
<1>4. KeptOK(q)'
  BY <1>1, <1>3 DEF KeptOK, Unmoved, Still, Steady, Ended
<1> QED BY <1>2, <1>4

LEMMA HNext == HInv /\ [Next]_vars => HInv'
<1> SUFFICES ASSUME HInv, [Next]_vars PROVE HInv'
  OBVIOUS
<1>1. PInv' /\ HostTypes
  BY PNext DEF HInv
<1>2. CASE UNCHANGED vars
  <2>1. HostTypes'
    BY <1>1, <1>2 DEF HostTypes, vars, localVars
  <2>2. ASSUME NEW q \in Procs PROVE SharesOK(q)' /\ KeptOK(q)'
    BY <1>2 DEF HInv, SharesOK, KeptOK, entry, source, vars, localVars
  <2> QED BY <1>1, <2>1, <2>2 DEF HInv
<1>3. ASSUME NEW path \in Paths, user_changes(path) PROVE HInv'
  <2>1. HostTypes'
    <3>1. host' \in [Paths -> Kinds] /\ changes' \in 0..MaxChanges
      BY <1>1, <1>3, LaunchAssumption DEF HostTypes, user_changes
    <3>2. touched' \in [Procs -> SUBSET Paths]
      BY <1>1, <1>3 DEF HostTypes, user_changes
    <3> QED BY <1>1, <1>3, <3>1, <3>2 DEF HostTypes, user_changes, localVars
  <2>2. ASSUME NEW q \in Procs PROVE SharesOK(q)' /\ KeptOK(q)'
    <3>1. Unmoved(q) /\ Still(q)
      BY <1>3 DEF Unmoved, Still, user_changes, localVars
    <3>2. Next
      BY <1>3 DEF Next
    <3> QED BY <3>1, <3>2, StaysOK, NextSteady
  <2> QED BY <1>1, <2>1, <2>2 DEF HInv
<1>4. ASSUME NEW p \in Procs, Step(p) \/ \E files \in Files[p] : begin(p, files) PROVE HInv'
  <2>1. HostTypes'
    BY <1>4, HostTypesNext
  <2>2. ASSUME NEW q \in Procs \ {p} PROVE SharesOK(q)' /\ KeptOK(q)'
    <3>1. Next
      BY <1>4 DEF Next
    <3> QED BY <1>4, <3>1, OthersStill, StaysOK, NextSteady
  <2>3. CASE Step(p)
    BY <1>1, <2>1, <2>2, <2>3, SharesNext, KeptNext DEF HInv
  <2>4. ASSUME NEW files \in Files[p], begin(p, files) PROVE SharesOK(p)' /\ KeptOK(p)'
    <3>1. LaunchOK(p) /\ pc[p] = "idle" /\ shares' = shares /\ host' = host
      BY <2>4 DEF begin, HInv, PInv
    <3>2. shares'[p] = <<>>
      BY <3>1 DEF LaunchOK
    <3>3. kept'[p] = {path \in Paths : host[path] # "none"}
      BY <1>1, <2>4 DEF begin, HostTypes
    <3>4. pc'[p] # "create"
      BY <1>1, <2>4 DEF begin, Fail, GoOn, Goto, HostTypes
    <3> QED BY <3>1, <3>2, <3>3, <3>4 DEF SharesOK, KeptOK
  <2> QED BY <1>1, <1>4, <2>1, <2>2, <2>3, <2>4 DEF HInv
<1> QED BY <1>2, <1>3, <1>4 DEF Next
-----------------------------------------------------------------------------
\* config.rs, spec.rs: at every point of a launch its state is of these types; what it
\* has gone through are entries of its definition, in order, with paths of the host.
THEOREM LaunchTypeCorrect == Spec => []TypeOK
<1>1. HInv => TypeOK
  <2> SUFFICES ASSUME HInv PROVE TypeOK
    OBVIOUS
  <2>1. HostTypes /\ PInv
    BY DEF HInv
  <2>2. ASSUME NEW p \in Procs
        PROVE  /\ (pc[p] = "failed") = (why[p] # "none")
               /\ pc[p] \notin {"idle", "failed"} => DOMAIN cfg[p] = DOMAIN Defaults
    BY <2>1 DEF HostTypes, PInv, LaunchOK
  <2>3. ASSUME NEW p \in Procs, NEW i \in DOMAIN shares[p]
        PROVE  /\ shares[p][i] \in
                    [source : Paths, destination : Paths \cup {Root}, readonly : BOOLEAN]
               /\ shares[p][i].source = Expand[parse_mount(cfg[p].mount[i]).source]
    <3>1. shares[p] \in Seq(Share) /\ SharesOK(p)
      BY <2>1 DEF HInv, PInv
    <3>2. i \in 1..Len(shares[p]) /\ shares[p][i] \in Share
      BY <3>1
    <3>3. /\ shares[p][i] = ShareOf(cfg[p].mount[i])
          /\ shares[p][i].source \in Paths /\ shares[p][i].destination \in Paths \cup {Root}
      BY <3>1, <3>2 DEF SharesOK
    <3>4. shares[p][i] \in
            [source : Paths, destination : Paths \cup {Root}, readonly : BOOLEAN]
      BY <3>2, <3>3 DEF Share
    <3>5. ShareOf(cfg[p].mount[i]).source = Expand[parse_mount(cfg[p].mount[i]).source]
      BY DEF ShareOf
    <3> QED BY <3>3, <3>4, <3>5
  <2> QED BY <2>1, <2>2, <2>3 DEF TypeOK, HostTypes
<1> QED BY HInit, HNext, <1>1, PTL DEF Spec

\* spec.rs:302: a launch alters no path of the host that was there when it began, whatever
\* other launches create of the same shares meanwhile.
THEOREM LaunchKeepsShares == Spec => SharesKept
<1>1. HInv /\ [Next]_vars => [AltersOnlyMissing]_vars
  <2> SUFFICES ASSUME HInv, Next PROVE AltersOnlyMissing
    BY DEF AltersOnlyMissing
  <2> SUFFICES ASSUME NEW path \in Paths, host'[path] # host[path], changes' = changes
               PROVE  \E p \in Procs : pc[p] = "create" /\ path \notin kept[p] \ touched[p]
    BY DEF AltersOnlyMissing
  <2>1. ~\E other \in Paths : user_changes(other)
    BY DEF user_changes, HInv, HostTypes
  <2>2. PICK p \in Procs : Step(p) \/ \E files \in Files[p] : begin(p, files)
    BY <2>1 DEF Next
  <2>3. /\ pc[p] = "create" /\ source(p) \in Paths
        /\ \E made \in {"dir", "empty"} : host' = [host EXCEPT ![source(p)] = made]
    BY <2>2, HostChanges
  <2>4. path = source(p)
    BY <2>3 DEF HInv, HostTypes
  <2>5. source(p) \notin kept[p] \ touched[p]
    BY <2>3 DEF HInv, KeptOK
  <2> QED BY <2>3, <2>4, <2>5
<1> QED BY HInit, HNext, <1>1, PTL DEF Spec, SharesKept
-----------------------------------------------------------------------------
(* MInv is inductive, when no definition has climate create a network file *)

\* The network files change under users' hands only.
NetSteady(q) ==
    \A file \in HOST_NET_FILES : file \in touched'[q] \/ host'[file] = host[file]

LEMMA NetUntouched ==
    ASSUME MInv, NEW p \in Procs, Step(p) \/ \E files \in Files[p] : begin(p, files)
    PROVE  \A file \in HOST_NET_FILES : host'[file] = host[file]
<1>1. HInv /\ NetOK /\ host \in [Paths -> Kinds] /\ HOST_NET_FILES \subseteq Paths
  BY LaunchAssumption DEF MInv, HInv, HostTypes
<1>2. CASE host' = host
  BY <1>2
<1>3. CASE host' # host
  <2>1. /\ pc[p] = "create" /\ source(p) \in Paths
        /\ \E made \in {"dir", "empty"} : host' = [host EXCEPT ![source(p)] = made]
    BY <1>1, <1>3, HostChanges
  <2>2. /\ entry(p) # Invalid /\ ~entry(p).readonly
        /\ Len(shares[p]) + 1 \in DOMAIN cfg[p].mount
        /\ entry(p) = parse_mount(cfg[p].mount[Len(shares[p]) + 1])
    BY <1>1, <2>1, SourceCreated
  <2>3. cfg[p] # Invalid
    BY <1>1, <2>1 DEF HInv, PInv, LaunchOK
  <2>4. source(p) \notin HOST_NET_FILES
    BY <1>1, <2>2, <2>3 DEF NetOK, Apart, source
  <2> QED BY <1>1, <2>1, <2>4
<1> QED BY <1>2, <1>3

LEMMA NextNetSteady ==
    ASSUME MInv, Next, NEW q \in Procs, pc[q] \notin Ended
    PROVE  Steady(q) /\ NetSteady(q)
<1>1. HInv
  BY DEF MInv
<1>2. ASSUME NEW p \in Procs, Step(p) \/ \E files \in Files[p] : begin(p, files)
      PROVE  NetSteady(q)
  BY <1>2, NetUntouched DEF NetSteady
<1>3. ASSUME NEW path \in Paths, user_changes(path) PROVE NetSteady(q)
  <2>1. touched'[q] = touched[q] \cup {path}
        /\ \A other \in Paths \ {path} : host'[other] = host[other]
    BY <1>1, <1>3 DEF user_changes, HInv, HostTypes
  <2> QED BY <2>1, LaunchAssumption DEF NetSteady
<1> QED BY <1>1, <1>2, <1>3, NextSteady DEF Next

LEMMA FitsSteady ==
    ASSUME NEW q \in Procs, NEW m, Fits(q, m), Steady(q), points'[q] = points[q]
    PROVE  \/ m.source \in touched'[q]
           \/ /\ m.source \in Paths /\ host'[m.source] # "none"
              /\ Point(m.destination, KindOf(host'[m.source])) \in points'[q]
BY DEF Fits, Steady

LEMMA PointedSteady ==
    ASSUME NEW q \in Procs, Pointed(q), Steady(q), NetSteady(q),
           points'[q] = points[q], cfg'[q] = cfg[q]
    PROVE  Pointed(q)'
<1>1. host_dir(q)' = host_dir(q)
  BY DEF host_dir
<1>2. \A i \in DOMAIN cfg'[q].mount : Fits(q, ShareOf(cfg[q].mount[i]))'
  BY FitsSteady DEF Pointed, Fits
<1>3. \A file \in HOST_NET_FILES :
         file \in touched[q] \/ host[file] = "none" \/ Point(file, "file") \in points[q] =>
             file \in touched'[q] \/ host'[file] = "none" \/ Point(file, "file") \in points'[q]
  BY DEF Steady, NetSteady
<1>4. \A dir \in FixedDirs \cup host_dir(q)' : Point(dir, "dir") \in points'[q]
  BY <1>1 DEF Pointed
<1>5. cfg'[q].network = "full" =>
         \A file \in HOST_NET_FILES :
             file \in touched'[q] \/ host'[file] = "none" \/ Point(file, "file") \in points'[q]
  BY <1>3 DEF Pointed
<1> QED BY <1>2, <1>4, <1>5 DEF Pointed

LEMMA CwdSteady ==
    ASSUME NEW q \in Procs, Steady(q), cfg'[q] = cfg[q],
           \A dir \in host_dir(q) : dir \in Paths /\ (dir \in touched[q] \/ host[dir] = "dir")
    PROVE  CwdOK(q)'
<1>1. host_dir(q)' = host_dir(q)
  BY DEF host_dir
<1> QED BY <1>1 DEF CwdOK, Steady, KindOf

LEMMA SeenSteady ==
    ASSUME NEW q \in Procs, Steady(q), SharesOK(q), SeenOK(q), shares'[q] = shares[q]
    PROVE  SeenOK(q)'
BY DEF SeenOK, SharesOK, Steady

LEMMA MountsSteady ==
    ASSUME MInv, NEW q \in Procs, Unmoved(q), Still(q),
           pc[q] \notin Ended => Steady(q) /\ NetSteady(q)
    PROVE  MountsOK(q)'
<1>1. PassOK(q)'
  BY DEF MInv, MountsOK, PassOK, Unmoved, Still
<1>2. CASE pc[q] \notin Ended
  <2>1. CwdOK(q) /\ SeenOK(q) /\ PointsOK(q) /\ SpecOK(q) /\ SharesOK(q)
    BY <1>2 DEF MInv, MountsOK, HInv
  <2>2. CwdOK(q)'
    <3>1. CASE pc[q] = "check_host_dir"
      BY <3>1 DEF CwdOK, Unmoved
    <3>2. CASE pc[q] # "check_host_dir"
      BY <1>2, <2>1, <3>2, CwdSteady DEF CwdOK, Unmoved
    <3> QED BY <3>1, <3>2
  <2>3. SeenOK(q)'
    BY <1>2, <2>1, SeenSteady DEF Unmoved
  <2>4. PointsOK(q)'
    BY <1>2, <2>1, PointedSteady DEF PointsOK, Unmoved, Still
  <2>5. SpecOK(q)'
    BY <1>2, <2>1, FitsSteady DEF SpecOK, Fits, Unmoved, Still
  <2> QED BY <1>1, <2>2, <2>3, <2>4, <2>5 DEF MountsOK
<1>3. CASE pc[q] \in Ended
  BY <1>1, <1>3 DEF MountsOK, Unmoved
<1> QED BY <1>2, <1>3

\* What a launch has just listed, it has listed for all it shares.
LEMMA JustPointed ==
    ASSUME MInv, NEW p \in Procs, mountpoints(p)
    PROVE  Pointed(p)'
<1>1. /\ pc[p] = "mountpoints" /\ UNCHANGED <<host, cfg, shares, touched>>
      /\ points' = [points EXCEPT ![p] = Points(p)]
  BY DEF mountpoints
<1>2. /\ HostTypes /\ LaunchOK(p) /\ SharesOK(p) /\ SeenOK(p) /\ Len(shares[p]) = Len(cfg[p].mount)
      /\ shares[p] \in Seq(Share)
  BY <1>1 DEF MInv, HInv, PInv, MountsOK, PassOK, Ended
<1>3. points'[p] = Points(p) /\ host_dir(p)' = host_dir(p)
  BY <1>1, <1>2 DEF HostTypes, host_dir
<1>4. DOMAIN cfg[p].mount = 1..Len(shares[p])
  BY <1>1, <1>2 DEF LaunchOK, Known
<1>5. ASSUME NEW i \in 1..Len(shares[p]) PROVE Fits(p, ShareOf(cfg[p].mount[i]))'
  <2> DEFINE s == shares[p][i]
  <2>1. s = ShareOf(cfg[p].mount[i]) /\ s.source \in Paths
    BY <1>2 DEF SharesOK
  <2>2. s.source \in touched[p] \/ host[s.source] # "none"
    BY <1>2 DEF SeenOK
  <2>3. s \in Listed(p)
    BY <1>2 DEF Listed
  <2>4. host[s.source] # "none" => KindOf(host[s.source]) \in {"file", "dir"}
    BY <1>2, <2>1 DEF HostTypes, Kinds, KindOf
  <2>5. Point(s.destination, IF KindOf(host[s.source]) = "file" THEN "file" ELSE "dir") \in Points(p)
    BY <2>3 DEF Points
  <2> QED BY <1>1, <1>3, <2>1, <2>2, <2>4, <2>5 DEF Fits
<1>6. \A dir \in FixedDirs \cup host_dir(p) : Point(dir, "dir") \in Points(p)
  BY DEF Points
<1>7. cfg[p].network = "full" =>
         \A file \in HOST_NET_FILES : host[file] = "none" \/ Point(file, "file") \in Points(p)
  BY DEF Points, host_net_files
<1> QED BY <1>1, <1>3, <1>4, <1>5, <1>6, <1>7 DEF Pointed

\* What is mounted at last is what was listed.
LEMMA JustFits ==
    ASSUME MInv, NEW p \in Procs, finish(p), pc'[p] = "start"
    PROVE  \A m \in spec'[p].mounts : Fits(p, m)'
<1>1. /\ pc[p] = "finish" /\ UNCHANGED <<host, cfg, shares, touched, points>>
  BY DEF finish
<1>2. /\ HostTypes /\ LaunchOK(p) /\ SharesOK(p) /\ CwdOK(p) /\ Pointed(p) /\ NetOK
      /\ shares[p] \in Seq(Share) /\ spec = [q \in Procs |-> spec[q]]
  BY <1>1 DEF MInv, HInv, PInv, MountsOK, PassOK, PointsOK, Ended
<1>3. spec'[p].mounts =
        {Bind(dir, dir, FALSE) : dir \in host_dir(p)} \cup Listed(p)
        \cup {Bind(file, file, TRUE) : file \in host_net_files(p)}
  <2> DEFINE mounts == {Bind(dir, dir, FALSE) : dir \in host_dir(p)} \cup Listed(p)
                       \cup {Bind(file, file, TRUE) : file \in host_net_files(p)}
             whole ==
                 [argv |-> spec[p].argv,
                  mounts |-> mounts,
                  network_namespace |-> cfg[p].network # "full",
                  capabilities |-> cfg[p].capabilities,
                  resources |-> resources(limits(cfg[p])),
                  seccomp |-> profile(cfg[p])]
  <2>1. resources(limits(cfg[p])) # Invalid
    BY <1>2 DEF finish, Fail, Goto, HostTypes
  <2>2. spec' = [spec EXCEPT ![p] = whole]
    BY <2>1, Zenon DEF finish
  <2>3. whole.mounts = mounts
    BY Zenon
  <2> HIDE DEF whole, mounts
  <2>4. spec'[p] = whole
    BY <1>2, <2>2
  <2> QED BY <2>3, <2>4 DEF mounts
<1>4. ASSUME NEW dir \in host_dir(p) PROVE Fits(p, Bind(dir, dir, FALSE))
  BY <1>1, <1>2 DEF CwdOK, Pointed, Fits, Bind, KindOf
<1>5. ASSUME NEW s \in Listed(p) PROVE Fits(p, s)
  <2>1. PICK i \in 1..Len(shares[p]) : s = shares[p][i]
    BY <1>2 DEF Listed
  <2>2. s = ShareOf(cfg[p].mount[i]) /\ i \in DOMAIN cfg[p].mount
    BY <1>1, <1>2, <2>1 DEF SharesOK, LaunchOK, Known
  <2> QED BY <1>2, <2>2 DEF Pointed
<1>6. ASSUME NEW file \in host_net_files(p) PROVE Fits(p, Bind(file, file, TRUE))
  <2>1. /\ cfg[p].network = "full" /\ file \in HOST_NET_FILES /\ host[file] # "none" /\ file \in Paths
    BY LaunchAssumption DEF host_net_files
  <2>2. KindOf(host[file]) = "file"
    BY <1>2, <2>1 DEF NetOK, HostTypes, Kinds, KindOf
  <2> QED BY <1>2, <2>1, <2>2 DEF Pointed, Fits, Bind
<1> QED BY <1>1, <1>3, <1>4, <1>5, <1>6 DEF Fits

LEMMA MountsNext ==
    ASSUME MInv, NEW p \in Procs, Step(p)
    PROVE  MountsOK(p)'
<1>1. /\ HInv /\ HostTypes /\ PInv /\ MountsOK(p) /\ LaunchOK(p) /\ SharesOK(p) /\ NetOK
      /\ pc[p] \notin Ended /\ cfg' = cfg
  BY Gathered DEF MInv, HInv, PInv
<1>2. Steady(p) /\ NetSteady(p)
  <2>1. Next
    BY DEF Next
  <2> QED BY <1>1, <2>1, NextNetSteady
<1>3. PassOK(p) /\ CwdOK(p) /\ SeenOK(p) /\ PointsOK(p) /\ SpecOK(p)
  BY <1>1 DEF MountsOK
<1>4. CASE \E reason \in {"definition", "host", "image"} : Fail(p, reason)
  <2>1. pc'[p] = "failed"
    BY <1>1, <1>4 DEF Fail, Goto, HostTypes
  <2> QED BY <2>1 DEF MountsOK, PassOK, Ended
<1>5. ASSUME NEW label \in PcLabels \ {"idle", "failed"}, GoOn(p, label) PROVE MountsOK(p)'
  <2>1. pc'[p] = label
    BY <1>1, <1>5 DEF GoOn, Goto, HostTypes
  <2>2. /\ pass'[p] = IF build(p) THEN "build" ELSE pass[p]
        /\ ~mountpoints(p) => points' = points
    BY <1>1 DEF Step, check_host_dir, resolve, look, create_source, mountpoints, build, finish,
       start, HostTypes
  <2>3. PassOK(p)'
    <3>1. CASE check_host_dir(p) \/ resolve(p) \/ start(p)
      BY <1>1, <1>3, <2>1, <2>2, <3>1 DEF PassOK, check_host_dir, resolve, start, build,
         Fail, GoOn, Goto, HostTypes
    <3>2. CASE mountpoints(p) \/ build(p)
      BY <1>1, <1>3, <2>1, <2>2, <3>2 DEF PassOK, mountpoints, build, Fail, GoOn, Goto,
         HostTypes
    <3>3. CASE finish(p)
      <4>1. label = "start" /\ pc[p] = "finish" /\ ~build(p)
        BY <1>1, <2>1, <3>3 DEF finish, build, Fail, GoOn, Goto, HostTypes
      <4> QED BY <1>3, <2>1, <2>2, <4>1 DEF PassOK
    <3>4. CASE look(p) \/ create_source(p)
      BY <1>1, <1>3, <1>5, <2>1, <2>2, <3>4 DEF PassOK, look, create_source, build, Push, Fail,
         GoOn, Goto, HostTypes
    <3> QED BY <3>1, <3>2, <3>3, <3>4 DEF Step
  <2>4. CwdOK(p)'
    <3>1. CASE pc[p] # "check_host_dir"
      BY <1>1, <1>2, <1>3, <3>1, CwdSteady DEF CwdOK
    <3>2. CASE pc[p] = "check_host_dir"
      <4>1. check_host_dir(p)
        BY <3>2 DEF Step, check_host_dir, resolve, look, create_source, mountpoints, build,
           finish, start
      <4>2. Root \notin host_dir(p) /\ ~Gone(p) /\ host' = host
        BY <1>1, <2>1, <4>1 DEF check_host_dir, Fail, Goto, HostTypes
      <4>3. host_dir(p) \subseteq Paths \cup {Root} /\ host_dir(p)' = host_dir(p)
        BY <1>1, LaunchAssumption DEF host_dir
      <4>4. \A dir \in host_dir(p) : dir \in Paths /\ host[dir] = "dir"
        BY <4>2, <4>3 DEF Gone
      <4> QED BY <4>2, <4>3, <4>4 DEF CwdOK
    <3> QED BY <3>1, <3>2
  <2>5. SeenOK(p)'
    <3>1. shares' \in [Procs -> Seq(Share)] /\ shares \in [Procs -> Seq(Share)]
          /\ shares[p] \in Seq(Share)
      BY <1>1, PNext DEF PInv, Next
    <3>2. CASE shares' = shares
      BY <1>1, <1>2, <1>3, <3>2, SeenSteady
    <3>3. CASE shares' = [shares EXCEPT ![p] = <<>>]
      BY <3>1, <3>3 DEF SeenOK
    <3>4. CASE pc[p] \in {"look", "create"} /\ Push(p) /\ Len(shares[p]) < Len(cfg[p].mount)
               /\ SourceOK(entry(p)) /\ Expand[entry(p).destination] # Relative
               /\ shares' = [shares EXCEPT ![p] = Append(@,
                      [source |-> source(p), destination |-> Expand[entry(p).destination],
                       readonly |-> entry(p).readonly])]
      <4> DEFINE share == [source |-> source(p), destination |-> Expand[entry(p).destination],
                           readonly |-> entry(p).readonly]
                 n == Len(shares[p])
      <4>1. share \in Share /\ share.source = source(p) /\ source(p) \in Paths
        BY <1>1, <3>4, ShareMade DEF Share, Anywhere, Ended
      <4>2. shares'[p] = Append(shares[p], share)
        BY <3>1, <3>4
      <4>3. source(p) \in touched'[p] \/ host'[source(p)] # "none"
        <5>1. CASE look(p)
          <6>1. host' = host /\ (host[source(p)] # "none" \/ shares' = shares)
            BY <3>4, <5>1 DEF look
          <6>2. shares'[p] # shares[p]
            <7>1. Len(Append(shares[p], share)) # Len(shares[p])
              BY <3>1, <4>1
            <7> QED BY <4>2, <7>1
          <6> QED BY <6>1, <6>2
        <5>2. CASE create_source(p)
          BY <1>1, <2>1, <4>1, <5>2 DEF create_source, HostTypes, Fail, Goto
        <5> QED BY <3>4, <5>1, <5>2 DEF Step, check_host_dir, resolve, mountpoints, build, finish,
                start
      <4> HIDE DEF share
      <4>4. /\ Len(shares'[p]) = n + 1 /\ shares'[p][n + 1] = share
            /\ \A i \in 1..n : shares'[p][i] = shares[p][i]
        BY <3>1, <4>1, <4>2
      <4>5. \A i \in 1..(n + 1) : i = n + 1 \/ i \in 1..n
        BY <3>1
      <4>6. \A i \in 1..n : shares[p][i].source \in touched'[p] \/ host'[shares[p][i].source] # "none"
        BY <1>1, <1>2, <1>3 DEF SeenOK, SharesOK, Steady
      <4> QED BY <4>1, <4>3, <4>4, <4>5, <4>6 DEF SeenOK
    <3> QED BY <1>1, <3>2, <3>3, <3>4, Gathered
  <2>6. PointsOK(p)'
    <3>1. CASE mountpoints(p)
      BY <3>1, JustPointed DEF PointsOK
    <3>2. CASE ~mountpoints(p) /\ Pointed(p)
      BY <1>1, <1>2, <2>2, <3>2, PointedSteady DEF PointsOK
    <3>3. CASE ~mountpoints(p) /\ ~Pointed(p)
      <4>1. pc[p] # "build" /\ pass[p] # "build"
        BY <1>3, <3>3 DEF PointsOK
      <4>2. ~build(p)
        BY <4>1 DEF build
      <4>3. pc'[p] # "build"
        BY <1>1, <2>1, <3>3, <4>2, <1>5 DEF Step, check_host_dir, resolve, look, create_source,
           finish, start, Push, Fail, GoOn, Goto, HostTypes
      <4> QED BY <2>2, <4>1, <4>2, <4>3 DEF PointsOK
    <3> QED BY <3>1, <3>2, <3>3
  <2>7. SpecOK(p)'
    <3>1. CASE finish(p)
      BY <3>1, JustFits DEF SpecOK
    <3>2. CASE ~finish(p)
      BY <1>1, <2>1, <3>2, <1>5 DEF SpecOK, Step, check_host_dir, resolve, look, create_source,
         mountpoints, build, start, Push, Fail, GoOn, Goto, HostTypes
    <3> QED BY <3>1, <3>2
  <2> QED BY <2>3, <2>4, <2>5, <2>6, <2>7 DEF MountsOK
<1> QED BY <1>1, <1>4, <1>5, Ways

LEMMA MInit == Init => MInv
<1> SUFFICES ASSUME Init PROVE MInv
  OBVIOUS
<1>1. NetOK
  BY LaunchAssumption DEF Init, NetOK
<1>2. ASSUME NEW p \in Procs PROVE MountsOK(p)
  BY DEF Init, MountsOK, PassOK, Ended
<1> QED BY <1>1, <1>2, HInit DEF MInv

LEMMA MNext == ASSUME NetFilesApart PROVE MInv /\ [Next]_vars => MInv'
<1> SUFFICES ASSUME MInv, [Next]_vars PROVE MInv'
  OBVIOUS
<1>1. HInv' /\ HostTypes /\ PInv /\ NetOK
  BY HNext DEF MInv, HInv
<1>2. CASE UNCHANGED vars
  <2>1. NetOK'
    BY <1>1, <1>2 DEF NetOK, vars, localVars
  <2>2. ASSUME NEW q \in Procs PROVE MountsOK(q)'
    <3>1. Unmoved(q) /\ Still(q) /\ Steady(q) /\ NetSteady(q)
      BY <1>2 DEF Unmoved, Still, Steady, NetSteady, vars, localVars
    <3> QED BY <3>1, MountsSteady
  <2> QED BY <1>1, <2>1, <2>2 DEF MInv
<1>3. ASSUME NEW path \in Paths, user_changes(path) PROVE MInv'
  <2>1. NetOK'
    BY <1>1, <1>3 DEF NetOK, user_changes, localVars, HostTypes
  <2>2. ASSUME NEW q \in Procs PROVE MountsOK(q)'
    <3>1. Unmoved(q) /\ Still(q)
      BY <1>3 DEF Unmoved, Still, user_changes, localVars
    <3>2. Next
      BY <1>3 DEF Next
    <3> QED BY <3>1, <3>2, MountsSteady, NextNetSteady
  <2> QED BY <1>1, <2>1, <2>2 DEF MInv
<1>4. ASSUME NEW p \in Procs, Step(p) \/ \E files \in Files[p] : begin(p, files) PROVE MInv'
  <2>1. NetOK'
    <3>1. \A file \in HOST_NET_FILES : host'[file] # "dir"
      BY <1>1, <1>4, NetUntouched DEF NetOK
    <3>2. cfg' = cfg \/ \E files \in Files[p] : cfg' = [cfg EXCEPT ![p] = load(files)]
      BY <1>4 DEF Step, begin, check_host_dir, resolve, look, create_source, mountpoints,
         build, finish, start
    <3>3. \A q \in Procs : cfg'[q] # Invalid => Apart(cfg'[q])
      BY <1>1, <3>2 DEF NetFilesApart, NetOK, PInv
    <3> QED BY <3>1, <3>3 DEF NetOK, Apart
  <2>2. ASSUME NEW q \in Procs \ {p} PROVE MountsOK(q)'
    <3>1. Next
      BY <1>4 DEF Next
    <3>2. Unmoved(q) /\ Still(q)
      BY <1>4, OthersStill DEF MInv
    <3> QED BY <3>1, <3>2, MountsSteady, NextNetSteady
  <2>3. ASSUME Step(p) PROVE MountsOK(p)'
    BY <2>3, MountsNext
  <2>4. ASSUME NEW files \in Files[p], begin(p, files) PROVE MountsOK(p)'
    <3>1. /\ LaunchOK(p) /\ PassOK(p) /\ pc[p] = "idle" /\ UNCHANGED <<shares, pass>>
      BY <2>4 DEF begin, MInv, MountsOK, HInv, PInv
    <3>2. shares'[p] = <<>> /\ pass'[p] = "mountpoints"
      BY <3>1 DEF LaunchOK, PassOK
    <3>3. pc'[p] \in {"failed", "check_host_dir"}
      BY <1>1, <2>4 DEF begin, Fail, GoOn, Goto, HostTypes
    <3> QED BY <3>2, <3>3 DEF MountsOK, PassOK, CwdOK, SeenOK, PointsOK, SpecOK, Ended
  <2>5. MountsOK(p)'
    BY <1>4, <2>3, <2>4
  <2> QED BY <1>1, <2>1, <2>2, <2>5 DEF MInv
<1> QED BY <1>2, <1>3, <1>4 DEF Next

\* spec.rs:379, "Keep in step with the mounts in `build`": mountpoints() and build() look at
\* the host at different times, while other launches create the same shares; and yet
\* whatever build() mounts finds a mount point of its kind, unless a user has touched it.
THEOREM MountsFindPoints == ASSUME NetFilesApart PROVE Spec => []PointsMatch
<1>1. MInv => PointsMatch
  <2> SUFFICES ASSUME MInv, NEW p \in Procs, pc[p] = "start"
               PROVE  /\ \A dir \in FixedDirs : Point(dir, "dir") \in points[p]
                      /\ \A m \in spec[p].mounts :
                           \/ m.source \in touched[p]
                           \/ Point(m.destination, KindOf(host[m.source])) \in points[p]
    BY DEF PointsMatch
  <2>1. PassOK(p) /\ PointsOK(p) /\ SpecOK(p)
    BY DEF MInv, MountsOK, Ended
  <2> QED BY <2>1 DEF PassOK, PointsOK, SpecOK, Pointed, Fits
<1> QED BY MInit, MNext, <1>1, PTL DEF Spec
====
