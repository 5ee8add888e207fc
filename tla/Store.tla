------------------------------- MODULE Store -------------------------------
(***************************************************************************)
(* The image store of src/src/store.rs, ~/.local/share/climate/images, as  *)
(* every climate process on the machine sees it, and the call frame of     *)
(* such a process.  There is no lock anywhere: processes meet only in the  *)
(* file system, and every file-system operation is a step of its own.      *)
(*                                                                         *)
(* Pull, Build and Clean extend this module with the operations of         *)
(* pull.rs, build.rs and clean.rs; Images composes them.                   *)
(***************************************************************************)
EXTENDS Naturals, Sequences, FiniteSets

CONSTANTS
    Procs,          \* climate processes that may run at the same time
    AppNames,       \* sequence of the app names, in the order of app_names()
    PullApps,       \* apps with `pull = true`
    InstallApps,    \* apps with an install script
    References,     \* image references, normalised by Reference::whole()
    Reference,      \* Reference[a]: the image.reference of app a
    Manifests,      \* digests of the manifests registries serve
    Config,         \* Config[m]: digest of the config manifest m points at
    Layers,         \* Layers[m]: the layer digests of manifest m, bottom-up
    Versions,       \* Versions[r]: the manifests the tag of r may point at
    BuildIds,       \* digests `build:<id>` available to install scripts
    MaxDownloads,   \* MAX_CONCURRENT_DOWNLOADS
    Preinstalled,   \* references put in the store out of band
    Commands,       \* the commands processes are started with
    KillPoints,     \* values of pc at which SIGKILL or a power cut may hit
    TagsMove,       \* whether registries may publish new versions
    DefStates,      \* states a definition file may be edited into
    None            \* no digest, no app

Apps == {AppNames[i] : i \in DOMAIN AppNames}
Configs == {Config[m] : m \in Manifests}
Blobs == Manifests \cup Configs \cup BuildIds
RegistryLayers == UNION {{Layers[m][i] : i \in DOMAIN Layers[m]} : m \in Manifests}
LayerIds == RegistryLayers \cup BuildIds
Images == Manifests \cup BuildIds
MaxLayers == 2      \* bound on the number of layers of a registry manifest
Slots == 1..MaxLayers

\* A layer's content in two parts, so that unpacking one and deleting one are
\* not atomic.  A directory is the set of parts in it, or NoDir.
Parts == {1, 2}
NoDir == {0}
DirStates == (SUBSET Parts) \cup {NoDir}

\* A `.download-` file: slot 0 is the config's, slot i that of layer i.  The
\* names are unique, so those no process uses any more count as one.
Leftover == <<None, 0>>
Temps == (Procs \X (0..MaxLayers)) \cup {Leftover}

\* What a record under refs/ holds: fs::write truncates the file first.
NoRef == "no-ref"
Empty == "empty"
Keys == References \cup InstallApps

layer_path(l) == <<"layer", l>>
staging_path(l) == <<"extract", l>>
Dirs == {"layer", "extract"} \X LayerIds

ASSUME ConstantsAssumption ==
    /\ AppNames \in Seq(Apps)
    /\ \A i, j \in DOMAIN AppNames : AppNames[i] = AppNames[j] => i = j
    /\ PullApps \subseteq Apps
    /\ InstallApps \subseteq Apps
    /\ Reference \in [Apps -> References]
    /\ Config \in [Manifests -> Configs]
    /\ Layers \in [Manifests -> Seq(RegistryLayers)]
    /\ \A m \in Manifests : DOMAIN Layers[m] \subseteq Slots
    /\ Versions \in [References -> SUBSET Manifests]
    /\ \A r \in References : Versions[r] # {}
    /\ Preinstalled \subseteq References
    /\ MaxDownloads \in Nat \ {0}
    /\ BuildIds \cap (Manifests \cup Configs \cup RegistryLayers) = {}
    /\ Manifests \cap Configs = {}
    /\ References \cap InstallApps = {}
    /\ None \notin Images \cup Apps \cup Procs \cup Dirs
    /\ {NoRef, Empty} \cap Images = {}
    /\ DefStates \subseteq {"ok", "broken", "gone"}
    /\ TagsMove \in BOOLEAN
-----------------------------------------------------------------------------
VARIABLES
    refs,       \* refs/: the digest recorded for a key, Empty or NoRef
    blobs,      \* blobs/: "none", "torn" (written in part) or "ok"
    dirs,       \* layers/: finished layers and `.extract-` directories
    temps,      \* the `.download-` files present
    built,      \* built[b]: the base of the manifest stored as b
    tag,        \* tag[r]: the manifest the registry serves for r
    defs        \* defs[a]: whether a's definition loads

VARIABLES
    pc,         \* where the process is
    cmd,        \* the command it was started with
    app,        \* the app ensure() works on
    nextApp,    \* index in AppNames of the update loop's next app
    updated,    \* the HashSet `updated` of pull()
    failed,     \* the Vec `failed` of pull()
    img,        \* the manifest digest at hand
    bid,        \* the id of the build in progress
    task        \* task[p][i]: the fetch_layer future of layer i

VARIABLES
    gcKeys,     \* refs/ entries listed and not looked at yet
    liveBlobs,  \* live_blobs of live_set()
    liveLayers, \* live_layers of live_set()
    victims,    \* entries listed for deletion
    doomed,     \* the directory remove_tree() is deleting
    left        \* the parts of it remove_tree() has listed and not deleted

VARIABLES
    stable,     \* history: keys not written since p's collection listed refs/
    asked       \* history: registry queries of the command, per reference

storeVars == <<refs, blobs, dirs, temps, built>>
worldVars == <<tag, defs>>
loopVars == <<cmd, app, nextApp, updated, failed>>
workVars == <<img, bid, task>>
gcVars == <<gcKeys, liveBlobs, liveLayers, victims, doomed, left, stable>>
vars == <<storeVars, worldVars, pc, loopVars, workVars, gcVars, asked>>
-----------------------------------------------------------------------------
\* store::image_key
image_key(a) == IF a \in InstallApps THEN a ELSE Reference[a]

has_ref(k) == refs[k] # NoRef
has_blob(b) == blobs[b] # "none"
has_layer(l) == dirs[layer_path(l)] # NoDir

\* The parsed manifest: a build's is its base's with one more layer on top.
BaseOf(d) == IF d \in BuildIds THEN built[d] ELSE d
ConfigOf(d) == Config[BaseOf(d)]
LayersOf(d) == {Layers[BaseOf(d)][i] : i \in DOMAIN Layers[BaseOf(d)]}
                    \cup (IF d \in BuildIds THEN {d} ELSE {})

\* The two halves of fs::write(blob_path(d), bytes) in write_blob.  The second
\* goes to the open file, so it is lost when the file was unlinked meanwhile.
write_blob_open(d) == blobs' = [blobs EXCEPT ![d] = "torn"]
write_blob_fill(d) ==
    blobs' = [blobs EXCEPT ![d] = IF has_blob(d) THEN "ok" ELSE "none"]

\* The same two halves in record_ref.
record_ref_open(k) ==
    /\ refs' = [refs EXCEPT ![k] = Empty]
    /\ stable' = [q \in Procs |-> stable[q] \ {k}]
record_ref_fill(k, d) ==
    /\ refs' = [refs EXCEPT ![k] = IF has_ref(k) THEN d ELSE NoRef]
    /\ stable' = [q \in Procs |-> stable[q] \ {k}]

-----------------------------------------------------------------------------
Goto(p, label) == pc' = [pc EXCEPT ![p] = label]

NoTasks == [i \in Slots |-> "none"]

ClearWork(p) ==
    /\ img' = [img EXCEPT ![p] = None]
    /\ bid' = [bid EXCEPT ![p] = None]
    /\ task' = [task EXCEPT ![p] = NoTasks]

\* The arguments resolve() and pull() call ensure() with.
Updating(p) == cmd[p] \in {"update", "rebuild"}
UpdateArg(p) == \/ cmd[p] = "pull"
                \/ Updating(p) /\ Reference[app[p]] \notin updated[p]
RebuildArg(p) == cmd[p] \in {"pull", "rebuild"}

\* ensure() returns to its caller: resolve() goes on to read the image, pull()
\* of one app to the collection, and the update loop notes the result and goes
\* on to the next app.  An error ends the first two.
EnsureReturns(p, ok) ==
    LET a == app[p]
    IN  /\ Goto(p, CASE Updating(p) -> "next_app"
                     [] ok /\ cmd[p] = "pull" -> "gc_images"
                     [] ok /\ cmd[p] = "run" -> "resolve"
                     [] OTHER -> "exit")
        /\ updated' =
             IF /\ ok /\ Updating(p) /\ a \in PullApps
                /\ a \notin InstallApps \/ cmd[p] = "rebuild"
             THEN [updated EXCEPT ![p] = @ \cup {Reference[a]}]
             ELSE updated
        /\ failed' = IF ~ok /\ Updating(p)
                     THEN [failed EXCEPT ![p] = @ \cup {a}]
                     ELSE failed
        /\ UNCHANGED <<cmd, app, nextApp>>
        /\ ClearWork(p)

\* The temporary files of p lose their owner, also as victims of collections.
Abandon(p) ==
    LET S == {<<p, i>> : i \in 0..MaxLayers}
        V == {<<"temp", t>> : t \in S}
    IN  /\ temps' = IF temps \cap S = {} THEN temps
                    ELSE (temps \ S) \cup {Leftover}
        /\ victims' = [q \in Procs |->
                         IF q = p THEN {}
                         ELSE IF victims[q] \cap V = {} THEN victims[q]
                         ELSE (victims[q] \ V) \cup {<<"temp", Leftover>>}]

\* The process ends: its memory is gone, the store stays as it is.
Terminate(p) ==
    /\ Goto(p, "idle")
    /\ cmd' = [cmd EXCEPT ![p] = "none"]
    /\ app' = [app EXCEPT ![p] = None]
    /\ nextApp' = [nextApp EXCEPT ![p] = 1]
    /\ updated' = [updated EXCEPT ![p] = {}]
    /\ failed' = [failed EXCEPT ![p] = {}]
    /\ asked' = [asked EXCEPT ![p] = [r \in References |-> 0]]
    /\ ClearWork(p)
    /\ gcKeys' = [gcKeys EXCEPT ![p] = {}]
    /\ liveBlobs' = [liveBlobs EXCEPT ![p] = {}]
    /\ liveLayers' = [liveLayers EXCEPT ![p] = {}]
    /\ doomed' = [doomed EXCEPT ![p] = None]
    /\ left' = [left EXCEPT ![p] = {}]
    /\ stable' = [stable EXCEPT ![p] = {}]
    /\ Abandon(p)
    /\ UNCHANGED <<refs, blobs, dirs, built>>
=============================================================================
