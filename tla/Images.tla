------------------------------- MODULE Images -------------------------------
(***************************************************************************)
(* Any number of climate processes on one image store: `run` (up to the    *)
(* mounted image), `pull`, `pull -u`, `pull -u -r` and `clean`, with       *)
(* registries that publish new versions, users who edit definitions, and   *)
(* processes that are killed.                                              *)
(***************************************************************************)
EXTENDS Pull, Build, Clean

Init ==
    /\ tag \in [References -> Manifests]
    /\ \A r \in References : tag[r] \in Versions[r]
    /\ refs = [k \in Keys |-> IF k \in Preinstalled THEN tag[k] ELSE NoRef]
    /\ LET present == {tag[r] : r \in Preinstalled}
           layers == UNION {{Layers[m][i] : i \in DOMAIN Layers[m]} : m \in present}
       IN  /\ blobs = [b \in Blobs |->
                          IF b \in present \cup {Config[m] : m \in present}
                          THEN "ok" ELSE "none"]
           /\ dirs = [e \in Dirs |->
                         IF e \in {layer_path(l) : l \in layers} THEN Parts ELSE NoDir]
    /\ temps = {}
    /\ built = [b \in BuildIds |-> None]
    /\ defs = [a \in Apps |-> "ok"]
    /\ pc = [p \in Procs |-> "idle"]
    /\ cmd = [p \in Procs |-> "none"]
    /\ app = [p \in Procs |-> None]
    /\ nextApp = [p \in Procs |-> 1]
    /\ updated = [p \in Procs |-> {}]
    /\ failed = [p \in Procs |-> {}]
    /\ img = [p \in Procs |-> None]
    /\ bid = [p \in Procs |-> None]
    /\ task = [p \in Procs |-> NoTasks]
    /\ gcKeys = [p \in Procs |-> {}]
    /\ liveBlobs = [p \in Procs |-> {}]
    /\ liveLayers = [p \in Procs |-> {}]
    /\ victims = [p \in Procs |-> {}]
    /\ doomed = [p \in Procs |-> None]
    /\ left = [p \in Procs |-> {}]
    /\ stable = [p \in Procs |-> {}]
    /\ asked = [p \in Procs |-> [r \in References |-> 0]]
-----------------------------------------------------------------------------
\* `run a` and `pull a` load the definition first; `pull a` bails when there is
\* nothing to pull or build.
start_app(p, c, a) ==
    /\ pc[p] = "idle"
    /\ c \in Commands \cap {"run", "pull"}
    /\ defs[a] = "ok"
    /\ c = "pull" => a \in PullApps \cup InstallApps
    /\ cmd' = [cmd EXCEPT ![p] = c]
    /\ app' = [app EXCEPT ![p] = a]
    /\ Goto(p, "ensure")
    /\ UNCHANGED <<storeVars, worldVars, nextApp, updated, failed, workVars,
                   gcVars, asked>>

\* `pull -u`, with or without -r, and `clean`
start(p, c) ==
    /\ pc[p] = "idle"
    /\ c \in Commands \ {"run", "pull"}
    /\ cmd' = [cmd EXCEPT ![p] = c]
    /\ Goto(p, IF c = "clean" THEN "orphans" ELSE "next_app")
    /\ UNCHANGED <<storeVars, worldVars, app, nextApp, updated, failed, workVars,
                   gcVars, asked>>

\* resolve() after ensure(): the record, the manifest, the config, and then the
\* layers, which Mount::new looks for.
resolve(p) ==
    LET d == refs[image_key(app[p])]
    IN  /\ pc[p] = "resolve"
        /\ IF d \in {NoRef, Empty}
           THEN Goto(p, "exit") /\ UNCHANGED img
           ELSE Goto(p, "read_manifest") /\ img' = [img EXCEPT ![p] = d]
        /\ UNCHANGED <<storeVars, loopVars, bid, task, gcVars, asked>>

read_manifest(p) ==
    /\ pc[p] = "read_manifest"
    /\ Goto(p, IF blobs[img[p]] = "ok" THEN "image_config" ELSE "exit")
    /\ UNCHANGED <<storeVars, loopVars, workVars, gcVars, asked>>

image_config(p) ==
    /\ pc[p] = "image_config"
    /\ Goto(p, IF blobs[ConfigOf(img[p])] = "ok" THEN "mount" ELSE "exit")
    /\ UNCHANGED <<storeVars, loopVars, workVars, gcVars, asked>>

mount(p) ==
    /\ pc[p] = "mount"
    /\ Goto(p, IF \A l \in LayersOf(img[p]) : has_layer(l) THEN "running" ELSE "exit")
    /\ UNCHANGED <<storeVars, loopVars, workVars, gcVars, asked>>

\* The app ends, and so does the run.
app_exits(p) ==
    /\ pc[p] = "running"
    /\ Goto(p, "exit")
    /\ UNCHANGED <<storeVars, loopVars, workVars, gcVars, asked>>

RunNext(p) ==
    resolve(p) \/ read_manifest(p) \/ image_config(p) \/ mount(p)

exit(p) == pc[p] = "exit" /\ Terminate(p) /\ UNCHANGED worldVars

\* SIGKILL or a power cut.  Its threads die with the process.
kill(p) == pc[p] \in KillPoints /\ Terminate(p) /\ UNCHANGED worldVars
-----------------------------------------------------------------------------
publish(r) ==
    /\ TagsMove
    /\ tag' \in {[tag EXCEPT ![r] = m] : m \in Versions[r] \ {tag[r]}}
    /\ UNCHANGED <<storeVars, defs, pc, loopVars, workVars, gcVars, asked>>

edit(a) ==
    /\ defs' \in {[defs EXCEPT ![a] = s] : s \in DefStates \ {defs[a]}}
    /\ UNCHANGED <<storeVars, tag, pc, loopVars, workVars, gcVars, asked>>
-----------------------------------------------------------------------------
\* What a process does on its own once a command is started
Step(p) ==
    \/ /\ PullNext(p) \/ BuildNext(p) \/ CleanNext(p) \/ RunNext(p)
       /\ UNCHANGED worldVars
    \/ exit(p)

Next ==
    \/ \E p \in Procs :
         \/ Step(p)
         \/ app_exits(p) /\ UNCHANGED worldVars
         \/ \E c \in Commands : start(p, c) \/ \E a \in Apps : start_app(p, c, a)
         \/ kill(p)
    \/ \E r \in References : publish(r)
    \/ \E a \in Apps : edit(a)

Spec == Init /\ [][Next]_vars

\* The kernel schedules every process, a download ends one way or the other,
\* and an install script ends.  Nothing makes a user or a registry act.
FairSpec == Spec /\ \A p \in Procs : WF_vars(Step(p))
-----------------------------------------------------------------------------
PcLabels ==
    {"idle", "exit",
     "ensure", "fetch", "resolve_tag", "manifest_open", "manifest_fill",
     "config", "config_download", "config_commit", "pending", "layers", "abort",
     "ref_fill", "next_app",
     "build", "base_manifest", "build_dirs", "run_script", "script_1",
     "script_2", "build_rename", "build_open", "build_fill", "build_ref_open",
     "build_ref_fill",
     "orphans", "drop_refs", "gc_images", "live_ref", "live_manifest",
     "gc_blobs", "gc_layers", "remove_tree", "gc_temps",
     "resolve", "read_manifest", "image_config", "mount", "running"}

Victims == ({"blob"} \X Blobs) \cup Dirs \cup ({"temp"} \X Temps)

StoreTypeOK ==
    /\ refs \in [Keys -> Images \cup {Empty, NoRef}]
    /\ blobs \in [Blobs -> {"none", "torn", "ok"}]
    /\ dirs \in [Dirs -> DirStates]
    /\ temps \in SUBSET Temps
    /\ built \in [BuildIds -> Manifests \cup {None}]
    /\ tag \in [References -> Manifests]
    /\ defs \in [Apps -> {"ok", "broken", "gone"}]

FrameTypeOK ==
    /\ pc \in [Procs -> PcLabels]
    /\ cmd \in [Procs -> Commands \cup {"none"}]
    /\ app \in [Procs -> Apps \cup {None}]
    /\ nextApp \in [Procs -> 1..(Len(AppNames) + 1)]
    /\ updated \in [Procs -> SUBSET References]
    /\ failed \in [Procs -> SUBSET Apps]
    /\ img \in [Procs -> Images \cup {None}]
    /\ bid \in [Procs -> BuildIds \cup {None}]
    /\ task \in [Procs -> [Slots -> TaskStates]]
    /\ asked \in [Procs -> [References -> Nat]]

GcTypeOK ==
    /\ gcKeys \in [Procs -> SUBSET Keys]
    /\ liveBlobs \in [Procs -> SUBSET Blobs]
    /\ liveLayers \in [Procs -> SUBSET LayerIds]
    /\ victims \in [Procs -> SUBSET Victims]
    /\ doomed \in [Procs -> Dirs \cup {None}]
    /\ left \in [Procs -> SUBSET Parts]
    /\ stable \in [Procs -> SUBSET Keys]

TypeOK == StoreTypeOK /\ FrameTypeOK /\ GcTypeOK
-----------------------------------------------------------------------------
Quiet == \A p \in Procs : pc[p] = "idle"

Complete(d) ==
    /\ blobs[d] = "ok"
    /\ blobs[ConfigOf(d)] = "ok"
    /\ \A l \in LayersOf(d) : dirs[layer_path(l)] = Parts

\* Whatever failed, was killed or was collected before, once every command has
\* ended an image that refs/ records is complete: manifest, config, layers.
RecordedIntact == Quiet => \A k \in Keys : refs[k] \in Images => Complete(refs[k])

\* A `climate pull` that got as far as its collection delivered: the app's
\* image is recorded and complete, and one that was built stands on the base
\* recorded now.  Nothing an earlier, interrupted command left prevents that.
PullDelivers ==
    \A p \in Procs : pc[p] = "gc_images" /\ cmd[p] = "pull" =>
        LET d == refs[image_key(app[p])]
        IN  /\ d \in Images
            /\ Complete(d)
            /\ BaseOf(d) = refs[Reference[app[p]]]

\* One app that fails does not stop `pull -u`: when it comes to the collection
\* every app in the store was brought up to date, has nothing to download, or
\* is on the list of failures.  Apps sharing an image contact the registry only
\* for the first of them that does not fail.
UpdateReachesAll ==
    \A p \in Procs : Updating(p) =>
        /\ pc[p] = "gc_images" =>
             \A a \in PullApps : defs[a] = "ok" /\ has_ref(image_key(a)) =>
                \/ a \in failed[p]
                \/ Reference[a] \in updated[p]
                \/ a \in InstallApps /\ cmd[p] = "update"
        /\ \A r \in References :
             asked[p][r] <= 1 + Cardinality({a \in failed[p] : Reference[a] = r})

\* clean.rs:126-128: "An app with an install script keeps its base image too, so
\* the next build need not download it again."  However definitions come and go
\* before and during a clean, the two records of an app go or stay together.
BuildKeepsBase ==
    Quiet => \A a \in InstallApps : defs[a] = "ok" /\ has_ref(image_key(a)) =>
        refs[Reference[a]] \in Images /\ Complete(refs[Reference[a]])

\* A collection that runs to its end leaves only what refs/ leads to: no other
\* blob or layer, no staging directory, no temporary file.
EndsWithOnlyLive ==
    \A p \in Procs : pc[p] = "gc_temps" /\ pc'[p] = "exit" /\ victims[p] = {} =>
        LET recorded == {refs[k] : k \in Keys} \cap Images
        IN  /\ temps = {}
            /\ \A b \in Blobs : has_blob(b) =>
                 \E d \in recorded : b \in {d, ConfigOf(d)}
            /\ \A e \in Dirs : dirs[e] # NoDir =>
                 \E d \in recorded : \E l \in LayersOf(d) : e = layer_path(l)
GcLeavesOnlyLive == [][EndsWithOnlyLive]_vars

\* A collection deletes nothing of an image whose record has not been written
\* since it listed refs/, whatever other processes do at the same time: they
\* may pull, build, drop records and collect in any interleaving.
Deleting == {"gc_blobs", "gc_layers", "remove_tree", "gc_temps"}
GcSparesStable ==
    \A p \in Procs : pc[p] \in Deleting =>
        \A k \in stable[p] : refs[k] \in Images =>
            /\ <<"blob", refs[k]>> \notin victims[p]
            /\ <<"blob", ConfigOf(refs[k])>> \notin victims[p]
            /\ \A l \in LayersOf(refs[k]) :
                 layer_path(l) \notin victims[p] \cup {doomed[p]}

\* store.rs:177-179: "Unpacking happens in a temporary directory that is renamed
\* at the end, so a broken unpack never looks finished."
NoBrokenLayer ==
    \A l \in LayerIds : dirs[layer_path(l)] \in {NoDir, Parts}

\* Every command ends, or becomes a running app, however the other processes
\* interfere with it.
CommandEnds ==
    \A p \in Procs : pc[p] \notin {"idle", "running"} ~> pc[p] \in {"idle", "running"}
-----------------------------------------------------------------------------
(* The inductive invariant behind TypeOK and GcSparesStable *)

FetchPcs ==
    {"manifest_open", "manifest_fill", "config", "config_download",
     "config_commit", "pending", "layers", "abort", "ref_fill"}
BuildingPcs ==
    {"run_script", "script_1", "script_2", "build_rename", "build_open",
     "build_fill", "build_ref_open", "build_ref_fill"}
BasePcs == FetchPcs \cup BuildingPcs \cup {"base_manifest", "build_dirs"}
BuildPcs == BuildingPcs \cup {"build", "base_manifest", "build_dirs"}
ResolvedPcs == {"read_manifest", "image_config", "mount", "running"}
AppPcs ==
    {"ensure", "fetch", "resolve_tag", "build", "resolve"} \cup BasePcs
GcPcs == {"live_ref", "live_manifest"} \cup Deleting

\* What a process holds at each point of the code
ProcOK(p) ==
    /\ pc[p] \in AppPcs => app[p] \in Apps
    /\ pc[p] \in BuildPcs => app[p] \in InstallApps
    /\ pc[p] \in BasePcs => img[p] \in Manifests
    /\ pc[p] \in ResolvedPcs \cup {"live_manifest"} => img[p] \in Images
    /\ pc[p] \in BuildingPcs => bid[p] \in BuildIds /\ built[bid[p]] \in Manifests
    /\ \A i \in Slots : task[p][i] # "none" =>
         /\ pc[p] \in {"layers", "abort", "ref_fill"}
         /\ i \in DOMAIN Layers[img[p]]
    /\ pc[p] \in {"gc_layers", "remove_tree"} => victims[p] \subseteq Dirs
    /\ IF pc[p] = "remove_tree" THEN doomed[p] \in Dirs ELSE doomed[p] = None

\* An app's reference is never recorded with a built manifest, and a built
\* manifest that is stored, recorded or at hand has a base.
RefsOK == \A r \in References : refs[r] \notin BuildIds
BuiltOK ==
    \A b \in BuildIds :
        \/ blobs[b] # "none"
        \/ \E k \in Keys : refs[k] = b
        \/ \E p \in Procs : img[p] = b
        => built[b] \in Manifests

FrameOK == (\A p \in Procs : ProcOK(p)) /\ RefsOK /\ BuiltOK

\* An image the collection of p has found to be in use
Covered(p, d) ==
    /\ {d, ConfigOf(d)} \subseteq liveBlobs[p]
    /\ LayersOf(d) \subseteq liveLayers[p]

\* Each stable record is still to be read, is being read, or was read;
CoverOK(p) ==
    pc[p] \in GcPcs => \A k \in stable[p] : refs[k] \in Images =>
        \/ pc[p] \in {"live_ref", "live_manifest"} /\ k \in gcKeys[p]
        \/ /\ pc[p] = "live_manifest"
           /\ refs[k] = img[p] /\ img[p] \in liveBlobs[p]
        \/ Covered(p, refs[k])

\* and what was read is not among the victims.
SpareOK(p) ==
    pc[p] \in Deleting =>
        /\ \A b \in liveBlobs[p] : <<"blob", b>> \notin victims[p]
        /\ \A l \in liveLayers[p] : layer_path(l) \notin victims[p] \cup {doomed[p]}

GcOK == \A p \in Procs : CoverOK(p) /\ SpareOK(p)

IInv == TypeOK /\ FrameOK /\ GcOK
=============================================================================
