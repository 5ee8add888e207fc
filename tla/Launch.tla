------------------------------- MODULE Launch -------------------------------
(***************************************************************************)
(* AppConfig::load() and AppConfig::run() of src/src/config.rs up to the   *)
(* container: the definition is read, the host paths it shares are looked  *)
(* for and created, the stub layer gets a mount point for each, and        *)
(* src/src/spec.rs writes the runtime spec, whose limits and system calls  *)
(* are those of Limits and Seccomp.  Launches run next to each other, and  *)
(* users and apps change the shared paths meanwhile.  The image's mount    *)
(* and the container are Runtime's.                                        *)
(***************************************************************************)
EXTENDS Limits, Seccomp, Sequences, FiniteSets, TLC

CONSTANTS
    Procs,      \* processes that launch an app
    Files,      \* Files[p]: what p may find of its app, see load()
    Defaults,   \* the value of each key that a definition leaves out
    Images,     \* what an image says: an entrypoint and a command, as sequences
    UserArgs,   \* the arguments a user may type
    Paths,      \* paths on the host
    Expand,     \* the path each field of a mount entry names, see expand_path()
    AsDir,      \* the fields that end in a '/'
    Cwd,        \* the working directory of each process
    HOST_NET_FILES,
    FixedDirs,  \* DEFAULT_MOUNT_DIRS and TMPFS_DIRS
    ResolvConf, \* /etc/resolv.conf, one of HOST_NET_FILES
    Root,       \* the path /
    Relative,   \* a field that is no absolute path
    Hosts,      \* what the host may hold to begin with
    NoFile,     \* no such file
    Broken,     \* a file with mistakes that loading it reports
    MaxChanges  \* bound on the changes users make to the shared paths

Kinds == {"none", "dir", "empty", "full"}
KindOf(state) == IF state \in {"empty", "full"} THEN "file" ELSE state

ASSUME LaunchAssumption ==
    /\ Expand \in [DOMAIN Expand -> Paths \cup {Root, Relative}]
    /\ {"ro", "rw"} \cup AsDir \subseteq DOMAIN Expand
    /\ \A access \in {"ro", "rw"} : Expand[access] = Relative
    /\ Cwd \in [Procs -> Paths \cup {Root}]
    /\ ResolvConf \in HOST_NET_FILES /\ HOST_NET_FILES \subseteq Paths
    /\ FixedDirs \cap (Paths \cup {Root}) = {}
    /\ \A h \in Hosts :
         /\ h \in [Paths -> Kinds]
         /\ \A p \in Procs : Cwd[p] # Root => h[Cwd[p]] = "dir"
         /\ \A file \in HOST_NET_FILES : h[file] # "dir"
    /\ MaxChanges \in Nat

VARIABLES
    host,       \* what is at each path of the host
    changes,    \* how often users have changed that
    pc,         \* where a process is
    cfg,        \* the app's AppConfig, or Invalid
    image,      \* what its image says
    pass,       \* the call of extra_mounts(): "mountpoints" or "build"
    shares,     \* what that call has gone through: its local `mounts`
    points,     \* the mount points in the stub layer
    spec,       \* the runtime spec and the seccomp policy
    why         \* why the launch failed: "none" while it has not

VARIABLES
    kept,       \* history: the paths that were there when p began
    touched     \* history: the paths users have changed since

localVars == <<cfg, image, pass, shares, points, spec, why>>
vars == <<host, changes, pc, localVars, kept, touched>>

Ended == {"idle", "failed", "running"}
Goto(p, label) == pc' = [pc EXCEPT ![p] = label]
Fail(p, reason) ==
    /\ why' = [why EXCEPT ![p] = reason]
    /\ Goto(p, "failed")
GoOn(p, label) == Goto(p, label) /\ UNCHANGED why
-----------------------------------------------------------------------------
(* The definition *)

\* Keys of `over` replace those of `base`; tables are flattened into their keys.
merge(base, over) == over @@ base

\* The first search directory with a file for the app, with the user's override
\* on top, and a default for each key neither has; or an error
load(files) ==
    LET present == {d \in DOMAIN files.dirs : files.dirs[d] # NoFile}
        base == files.dirs[CHOOSE d \in present : \A e \in present : d <= e]
        raw == IF files.over = NoFile THEN base ELSE merge(base, files.over)
    IN  IF present = {} THEN Invalid
        ELSE IF Broken \in {base, files.over} THEN Invalid
        ELSE IF check_syscall_names(raw @@ Defaults) THEN raw @@ Defaults
        ELSE Invalid

\* The [limits] of a definition
limits(config) == [key \in {"memory", "swap", "memory_high", "cpu", "cpu_shares", "pids"} |->
                     config[key]]

\* The types a definition is read into: a file with another, or with a key that
\* none of the structs has (deny_unknown_fields), is Broken.
ASSUME TypedAssumption ==
    \A p \in Procs : \A files \in Files[p] : load(files) # Invalid =>
        /\ DOMAIN load(files) = DOMAIN Defaults
        /\ limits(load(files)) \in LimitsConfig
        /\ load(files).mount \in Seq(Seq(DOMAIN Expand))
        /\ load(files).capabilities \subseteq Capabilities

\* Up to three fields: source, destination and access
parse_mount(entry) ==
    LET n == Len(entry)
        access == IF n \in {2, 3} THEN entry[n] ELSE "rw"
        flagged == n = 3 \/ (n = 2 /\ access \in {"ro", "rw"})
    IN  IF n \notin 1..3 \/ (n = 3 /\ access \notin {"ro", "rw"}) THEN Invalid
        ELSE [source |-> entry[1],
              destination |-> IF n = 3 \/ (n = 2 /\ ~flagged) THEN entry[2] ELSE entry[1],
              readonly |-> flagged /\ access = "ro"]

SourceOK(share) == share # Invalid /\ Expand[share.source] \notin {Root, Relative}

\* Mutant: `climate check` does not look at the paths inside the container.
check_sources(config) ==
    /\ resources(limits(config)) # Invalid
    /\ \A i \in DOMAIN config.mount : SourceOK(parse_mount(config.mount[i]))

\* check() of spec.rs, which `climate check` runs on a definition it has loaded
check(config) ==
    /\ resources(limits(config)) # Invalid
    /\ \A i \in DOMAIN config.mount :
         LET share == parse_mount(config.mount[i])
         IN  SourceOK(share) /\ Expand[share.destination] # Relative
-----------------------------------------------------------------------------
(* AppConfig::run *)

begin(p, files) ==
    /\ pc[p] = "idle"
    /\ cfg' = [cfg EXCEPT ![p] = load(files)]
    /\ kept' = [kept EXCEPT ![p] = {path \in Paths : host[path] # "none"}]
    /\ IF load(files) = Invalid THEN Fail(p, "definition") ELSE GoOn(p, "check_host_dir")
    /\ UNCHANGED <<host, changes, image, pass, shares, points, spec, touched>>

\* The working directory, if it is shared
host_dir(p) == IF cfg[p].mount_cwd THEN {Cwd[p]} ELSE {}
\* current_dir() fails once that is deleted.
Gone(p) == \E dir \in host_dir(p) \ {Root} : host[dir] # "dir"

check_host_dir(p) ==
    /\ pc[p] = "check_host_dir"
    /\ IF Root \in host_dir(p) \/ Gone(p) THEN Fail(p, "host") ELSE GoOn(p, "resolve")
    /\ UNCHANGED <<host, changes, cfg, image, pass, shares, points, spec, kept, touched>>

\* store::resolve(): Images shows when it succeeds.  Then mountpoints() begins.
resolve(p) ==
    /\ pc[p] = "resolve"
    /\ \/ Fail(p, "image") /\ UNCHANGED image
       \/ \E i \in Images :
            /\ image' = [image EXCEPT ![p] = i]
            /\ IF Gone(p) THEN Fail(p, "host") ELSE GoOn(p, "look")
    /\ UNCHANGED <<host, changes, cfg, pass, shares, points, spec, kept, touched>>

\* The entry extra_mounts() has come to
entry(p) == parse_mount(cfg[p].mount[Len(shares[p]) + 1])
source(p) == Expand[entry(p).source]

\* Mutant: the path inside the container is taken as it is written.
Push_relative(p) ==
    /\ shares' = [shares EXCEPT ![p] = Append(@,
           [source |-> source(p), destination |-> Expand[entry(p).destination],
            readonly |-> entry(p).readonly])]
    /\ GoOn(p, "look")

\* The path exists by now: the entry is done, unless its destination is wrong.
Push(p) ==
    IF Expand[entry(p).destination] = Relative
    THEN Fail(p, "definition") /\ UNCHANGED shares
    ELSE /\ shares' = [shares EXCEPT ![p] = Append(@,
                [source |-> source(p), destination |-> Expand[entry(p).destination],
                 readonly |-> entry(p).readonly])]
         /\ GoOn(p, "look")

\* Mutant: a share that exists is created like one that does not.
look_creates(p) ==
    /\ pc[p] = "look"
    /\ IF Len(shares[p]) = Len(cfg[p].mount)
       THEN GoOn(p, IF pass[p] = "build" THEN "finish" ELSE "mountpoints") /\ UNCHANGED shares
       ELSE IF ~SourceOK(entry(p)) THEN Fail(p, "definition") /\ UNCHANGED shares
       ELSE IF entry(p).readonly THEN Push(p)
       ELSE GoOn(p, "create") /\ UNCHANGED shares
    /\ UNCHANGED <<host, changes, cfg, image, pass, points, spec, kept, touched>>

\* extra_mounts(): is the next path there?  A read-only share has to be.
look(p) ==
    /\ pc[p] = "look"
    /\ IF Len(shares[p]) = Len(cfg[p].mount)
       THEN GoOn(p, IF pass[p] = "build" THEN "finish" ELSE "mountpoints") /\ UNCHANGED shares
       ELSE IF ~SourceOK(entry(p)) THEN Fail(p, "definition") /\ UNCHANGED shares
       ELSE IF host[source(p)] # "none" THEN Push(p)
       ELSE IF entry(p).readonly THEN Fail(p, "host") /\ UNCHANGED shares
       ELSE GoOn(p, "create") /\ UNCHANGED shares
    /\ UNCHANGED <<host, changes, cfg, image, pass, points, spec, kept, touched>>

\* create_source(): create_dir_all() takes a directory that is there by now,
\* File::create() a file, which it empties; each fails on the other.
create_source(p) ==
    LET made == IF entry(p).source \in AsDir THEN "dir" ELSE "empty"
    IN  /\ pc[p] = "create"
        /\ \/ /\ KindOf(host[source(p)]) \in {"none", KindOf(made)}
              /\ host' = [host EXCEPT ![source(p)] = made]
              /\ Push(p)
           \/ /\ KindOf(host[source(p)]) # KindOf(made)
              /\ Fail(p, "host")
              /\ UNCHANGED <<host, shares>>
        /\ UNCHANGED <<changes, cfg, image, pass, points, spec, kept, touched>>

host_net_files(p) ==
    IF cfg[p].network # "full" THEN {}
    ELSE {file \in HOST_NET_FILES : host[file] # "none"}

Point(path, kind) == [path |-> path, kind |-> kind]
Listed(p) == {shares[p][i] : i \in DOMAIN shares[p]}

\* Mutant: the host's network files get no mount point.
Points_no_net(p) ==
    {Point(path, "dir") : path \in FixedDirs \cup host_dir(p)}
    \cup {Point(s.destination, IF KindOf(host[s.source]) = "file" THEN "file" ELSE "dir") :
            s \in Listed(p)}
    \cup {Point(ResolvConf, "file") : n \in {cfg[p].network} \cap {"localnet"}}

\* What mountpoints() lists: resolv.conf is written in place in localnet mode.
Points(p) ==
    {Point(path, "dir") : path \in FixedDirs \cup host_dir(p)}
    \cup {Point(s.destination, IF KindOf(host[s.source]) = "file" THEN "file" ELSE "dir") :
            s \in Listed(p)}
    \cup {Point(file, "file") : file \in host_net_files(p)}
    \cup {Point(ResolvConf, "file") : n \in {cfg[p].network} \cap {"localnet"}}

\* mountpoints(), once extra_mounts() has returned, and then materialise_stub():
\* no path can be a file and a directory.  The rest of Mount::new() is Runtime's.
mountpoints(p) ==
    /\ pc[p] = "mountpoints"
    /\ points' = [points EXCEPT ![p] = Points(p)]
    /\ \/ Fail(p, "image")
       \/ IF \E a, b \in Points(p) : a.path = b.path /\ a.kind # b.kind
          THEN Fail(p, "host") ELSE GoOn(p, "build")
    /\ UNCHANGED <<host, changes, cfg, image, pass, shares, spec, kept, touched>>

\* The definition's entrypoint replaces the image's entrypoint and command; the
\* image's command is for a run without arguments.
command(config, i, args) ==
    LET extra == config.args \o args
        entrypoint == IF config.entrypoint = Unset THEN i.entrypoint ELSE config.entrypoint
    IN  entrypoint \o (IF config.entrypoint = Unset /\ extra = <<>> THEN i.cmd ELSE extra)

\* build(): the command line, and extra_mounts() all over again
build(p) ==
    /\ pc[p] = "build"
    /\ \E args \in UserArgs :
         IF command(cfg[p], image[p], args) = <<>> \/ Gone(p)
         THEN Fail(p, IF Gone(p) THEN "host" ELSE "image") /\ UNCHANGED spec
         ELSE /\ spec' = [spec EXCEPT ![p] = [argv |-> command(cfg[p], image[p], args)]]
              /\ GoOn(p, "look")
    /\ pass' = [pass EXCEPT ![p] = "build"]
    /\ shares' = [shares EXCEPT ![p] = <<>>]
    /\ UNCHANGED <<host, changes, cfg, image, points, kept, touched>>

Bind(path, destination, readonly) ==
    [source |-> path, destination |-> destination, readonly |-> readonly]

\* The rest of build(): binds, namespaces and limits; then seccomp::profile()
finish(p) ==
    /\ pc[p] = "finish"
    /\ IF resources(limits(cfg[p])) = Invalid
       THEN Fail(p, "definition") /\ UNCHANGED spec
       ELSE /\ spec' = [spec EXCEPT ![p] =
                 [argv |-> @.argv,
                  mounts |-> {Bind(dir, dir, FALSE) : dir \in host_dir(p)} \cup Listed(p)
                             \cup {Bind(file, file, TRUE) : file \in host_net_files(p)},
                  network_namespace |-> cfg[p].network # "full",
                  capabilities |-> cfg[p].capabilities,
                  resources |-> resources(limits(cfg[p])),
                  seccomp |-> profile(cfg[p])]]
            /\ GoOn(p, "start")
    /\ UNCHANGED <<host, changes, cfg, image, pass, shares, points, kept, touched>>

\* runtime::run(): youki mounts each bind onto its point, a file onto a file and a
\* directory onto a directory.
start(p) ==
    /\ pc[p] = "start"
    /\ IF \A m \in spec[p].mounts : Point(m.destination, KindOf(host[m.source])) \in points[p]
       THEN GoOn(p, "running")
       ELSE Fail(p, "host")
    /\ UNCHANGED <<host, changes, cfg, image, pass, shares, points, spec, kept, touched>>

\* Users and apps create, fill, replace and delete what is shared, during a launch:
\* what they do before one makes another initial host.  A working
\* directory that is deleted does not come back, as that would be another one, and
\* a network file of the system's is no directory.
user_changes(path) ==
    /\ changes < MaxChanges /\ \E p \in Procs : pc[p] \notin Ended
    /\ changes' = changes + 1
    /\ \E kind \in Kinds \ {host[path]} :
         /\ path \in {Cwd[p] : p \in Procs} \cup HOST_NET_FILES => kind # "dir"
         /\ host' = [host EXCEPT ![path] = kind]
    /\ touched' = [p \in Procs |-> touched[p] \cup
                     (IF pc[p] \in Ended THEN {} ELSE {path})]
    /\ UNCHANGED <<pc, localVars, kept>>
-----------------------------------------------------------------------------
NoSpec == [argv |-> <<>>]

Init ==
    /\ host \in Hosts
    /\ changes = 0
    /\ pc = [p \in Procs |-> "idle"]
    /\ cfg = [p \in Procs |-> Invalid]
    /\ image = [p \in Procs |-> Unset]
    /\ pass = [p \in Procs |-> "mountpoints"]
    /\ shares = [p \in Procs |-> <<>>]
    /\ points = [p \in Procs |-> {}]
    /\ spec = [p \in Procs |-> NoSpec]
    /\ why = [p \in Procs |-> "none"]
    /\ kept = [p \in Procs |-> {}]
    /\ touched = [p \in Procs |-> {}]

Step(p) ==
    \/ check_host_dir(p) \/ resolve(p) \/ look(p) \/ create_source(p)
    \/ mountpoints(p) \/ build(p) \/ finish(p) \/ start(p)

Next ==
    \/ \E p \in Procs : Step(p) \/ \E files \in Files[p] : begin(p, files)
    \/ \E path \in Paths : user_changes(path)

Spec == Init /\ [][Next]_vars
-----------------------------------------------------------------------------
PcLabels ==
    {"idle", "check_host_dir", "resolve", "look", "create", "mountpoints", "build",
     "finish", "start", "running", "failed"}

TypeOK ==
    /\ host \in [Paths -> Kinds]
    /\ changes \in 0..MaxChanges
    /\ pc \in [Procs -> PcLabels]
    /\ pass \in [Procs -> {"mountpoints", "build"}]
    /\ why \in [Procs -> {"none", "definition", "host", "image"}]
    /\ kept \in [Procs -> SUBSET Paths]
    /\ touched \in [Procs -> SUBSET Paths]
    /\ \A p \in Procs :
         /\ (pc[p] = "failed") = (why[p] # "none")
         /\ pc[p] \notin {"idle", "failed"} => DOMAIN cfg[p] = DOMAIN Defaults
         /\ \A i \in DOMAIN shares[p] :
              /\ shares[p][i] \in
                   [source : Paths, destination : Paths \cup {Root}, readonly : BOOLEAN]
              /\ shares[p][i].source = Expand[parse_mount(cfg[p].mount[i]).source]

\* spec.rs:379, "Keep in step with the mounts in `build`": what is mounted finds a
\* mount point of its kind, though mountpoints() and build() each look at the host
\* for themselves, and other launches create the same shares meanwhile.  Only a
\* path that users change in between may have none.
PointsMatch ==
    \A p \in Procs : pc[p] = "start" =>
        /\ \A dir \in FixedDirs : Point(dir, "dir") \in points[p]
        /\ \A m \in spec[p].mounts :
             \/ m.source \in touched[p]
             \/ Point(m.destination, KindOf(host[m.source])) \in points[p]

\* spec.rs:302, "A path that exists is shared as whatever it is": a launch alters
\* no path that was there when it began, whatever other launches create.  Only
\* one that users change while the launch runs it may still take for missing.
AltersOnlyMissing ==
    \A path \in Paths : host'[path] # host[path] /\ changes' = changes =>
        \E p \in Procs : pc[p] = "create" /\ path \notin kept[p] \ touched[p]
SharesKept == [][AltersOnlyMissing]_vars

\* spec.rs:328: `climate check` makes the checks of a run that depend on the
\* definition alone: one that passes never stops a run, and one that does not is
\* never run, although the two are made at different points of a launch.
CheckPredicts ==
    \A p \in Procs :
        /\ why[p] = "definition" => cfg[p] = Invalid \/ ~check(cfg[p])
        /\ pc[p] = "start" => check(cfg[p])

\* A run is held to the limits its definition states, and to no other.
LimitsHold ==
    \A p \in Procs : pc[p] = "start" =>
        \/ spec[p].resources = Unset /\ \A key \in DOMAIN limits(cfg[p]) : cfg[p][key] = Unset
        \/ HoldsTo(limits(cfg[p]), spec[p].resources)

\* seccomp.rs:187-189: what a definition says of a system call is what its run gets.
OwnDecisions ==
    \A p \in Procs : pc[p] = "start" =>
        OwnDecision(cfg[p], spec[p].seccomp) /\ Unambiguous(spec[p].seccomp)
=============================================================================
