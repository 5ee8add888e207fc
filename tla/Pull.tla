-------------------------------- MODULE Pull --------------------------------
(***************************************************************************)
(* src/src/pull.rs: ensure(), fetch(), fetch_image() and the concurrent    *)
(* fetch_layer() futures with store::extract_layer().                      *)
(***************************************************************************)
EXTENDS Store

\* ensure(): which of fetch() and build() the app needs.  An app that neither
\* pulls nor builds has its image supplied some other way.
ensure(p) ==
    LET a == app[p]
        kept == a \in InstallApps /\ ~RebuildArg(p) /\ has_ref(image_key(a))
    IN  /\ pc[p] = "ensure"
        /\ \/ /\ kept \/ (a \notin InstallApps /\ a \notin PullApps)
              /\ EnsureReturns(p, TRUE)
           \/ /\ ~kept /\ a \in PullApps
              /\ Goto(p, "fetch")
              /\ UNCHANGED <<loopVars, workVars>>
           \/ /\ ~kept /\ a \in InstallApps \ PullApps
              /\ Goto(p, "build")
              /\ UNCHANGED <<loopVars, workVars>>
        /\ UNCHANGED <<storeVars, gcVars, asked>>

\* fetch() returns Ok: an app with an install script is then built.
FetchReturns(p) ==
    IF app[p] \in InstallApps
    THEN Goto(p, "build") /\ ClearWork(p) /\ UNCHANGED loopVars
    ELSE EnsureReturns(p, TRUE)

\* fetch(): an image already recorded is left alone unless updating.
fetch(p) ==
    /\ pc[p] = "fetch"
    /\ IF ~UpdateArg(p) /\ has_ref(Reference[app[p]])
       THEN FetchReturns(p)
       ELSE Goto(p, "resolve_tag") /\ UNCHANGED <<loopVars, workVars>>
    /\ UNCHANGED <<storeVars, gcVars, asked>>

\* pull_image_manifest() and pull_manifest_raw(): the registry answers with the
\* manifest its tag points at now, or cannot be reached.
resolve_tag(p) ==
    LET r == Reference[app[p]]
    IN  /\ pc[p] = "resolve_tag"
        /\ asked' = [asked EXCEPT ![p][r] = @ + 1]
        /\ \/ /\ img' = [img EXCEPT ![p] = tag[r]]
              /\ Goto(p, "manifest_open")
              /\ UNCHANGED <<loopVars, bid, task>>
           \/ EnsureReturns(p, FALSE)
        /\ UNCHANGED <<storeVars, gcVars>>

\* store::write_blob of the manifest
manifest_open(p) ==
    /\ pc[p] = "manifest_open"
    /\ write_blob_open(img[p])
    /\ Goto(p, "manifest_fill")
    /\ UNCHANGED <<refs, dirs, temps, built, loopVars, workVars, gcVars, asked>>

manifest_fill(p) ==
    /\ pc[p] = "manifest_fill"
    /\ write_blob_fill(img[p])
    /\ Goto(p, "config")
    /\ UNCHANGED <<refs, dirs, temps, built, loopVars, workVars, gcVars, asked>>

\* The config is downloaded to a temporary file unless the blob exists.
config(p) ==
    /\ pc[p] = "config"
    /\ IF has_blob(ConfigOf(img[p]))
       THEN Goto(p, "pending") /\ UNCHANGED temps
       ELSE /\ temps' = temps \cup {<<p, 0>>}
            /\ Goto(p, "config_download")
    /\ UNCHANGED <<refs, blobs, dirs, built, loopVars, workVars, gcVars, asked>>

\* download_blob() of the config: the `?` leaves the temporary file behind.
config_download(p) ==
    /\ pc[p] = "config_download"
    /\ \/ /\ Goto(p, "config_commit")
          /\ UNCHANGED <<loopVars, workVars, temps, victims>>
       \/ Abandon(p) /\ EnsureReturns(p, FALSE)
    /\ UNCHANGED <<refs, blobs, dirs, built, gcKeys, liveBlobs, liveLayers,
                   doomed, left, stable, asked>>

\* Mutant: a failed rename starts the download again.
config_commit_retry(p) ==
    /\ pc[p] = "config_commit"
    /\ IF <<p, 0>> \in temps
       THEN /\ blobs' = [blobs EXCEPT ![ConfigOf(img[p])] = "ok"]
            /\ temps' = temps \ {<<p, 0>>}
            /\ Goto(p, "pending")
       ELSE Goto(p, "config") /\ UNCHANGED <<blobs, temps>>
    /\ UNCHANGED <<refs, dirs, built, loopVars, workVars, gcVars, asked>>

\* store::commit_blob: the rename fails if the temporary file was deleted.
config_commit(p) ==
    /\ pc[p] = "config_commit"
    /\ IF <<p, 0>> \in temps
       THEN /\ blobs' = [blobs EXCEPT ![ConfigOf(img[p])] = "ok"]
            /\ temps' = temps \ {<<p, 0>>}
            /\ Goto(p, "pending")
            /\ UNCHANGED <<loopVars, workVars>>
       ELSE EnsureReturns(p, FALSE) /\ UNCHANGED <<blobs, temps>>
    /\ UNCHANGED <<refs, dirs, built, gcVars, asked>>

\* The layers has_layer() does not know become futures.
pending(p) ==
    LET layers == Layers[img[p]]
    IN  /\ pc[p] = "pending"
        /\ task' = [task EXCEPT ![p] = [i \in Slots |->
                       IF i \in DOMAIN layers /\ ~has_layer(layers[i])
                       THEN "queued" ELSE "none"]]
        /\ Goto(p, "layers")
        /\ UNCHANGED <<storeVars, loopVars, img, bid, gcVars, asked>>
-----------------------------------------------------------------------------
\* The states of a fetch_layer future: in the stream's buffer from "download"
\* until its result is taken, on a blocking thread while extracting.
Extracting == {"clear", "open", "unpack_1", "unpack_2", "rename"}
InFlight == {"download"} \cup Extracting \cup {"ok", "failed"}
TaskStates == {"none", "queued", "done"} \cup InFlight

Task(p, i, state) == task' = [task EXCEPT ![p][i] = state]

\* buffer_unordered(MAX_CONCURRENT_DOWNLOADS) starts the futures in order.
layer_start(p, i) ==
    /\ pc[p] = "layers"
    /\ task[p][i] = "queued"
    /\ \A j \in Slots : j < i => task[p][j] # "queued"
    /\ Cardinality({j \in Slots : task[p][j] \in InFlight}) < MaxDownloads
    /\ Task(p, i, "download")
    /\ temps' = temps \cup {<<p, i>>}
    /\ UNCHANGED <<refs, blobs, dirs, built, pc, loopVars, img, bid, gcVars, asked>>

\* download_blob() of a layer ends
layer_download(p, i) ==
    /\ pc[p] = "layers"
    /\ task[p][i] = "download"
    /\ Task(p, i, "clear") \/ Task(p, i, "failed")
    /\ UNCHANGED <<storeVars, pc, loopVars, img, bid, gcVars, asked>>

\* extract_layer(), which runs on after the other futures are dropped.  First
\* the staging directory is cleared,
Unpacking(p, i, state) == pc[p] \in {"layers", "abort"} /\ task[p][i] = state
layer_at(p, i) == Layers[img[p]][i]

\* which may fail when a collection or another extraction of the layer is at
\* work on the same directory,
Contested(p, i) ==
    LET staging == staging_path(layer_at(p, i))
    IN  \E q \in Procs :
           \/ doomed[q] = staging
           \/ \E j \in Slots : /\ <<q, j>> # <<p, i>>
                               /\ task[q][j] \in Extracting
                               /\ staging_path(layer_at(q, j)) = staging

clear_staging(p, i) ==
    /\ Unpacking(p, i, "clear")
    /\ \/ /\ dirs' = [dirs EXCEPT ![staging_path(layer_at(p, i))] = NoDir]
          /\ Task(p, i, "open")
       \/ Contested(p, i) /\ Task(p, i, "failed") /\ UNCHANGED dirs
    /\ UNCHANGED <<refs, blobs, temps, built, pc, loopVars, img, bid, gcVars, asked>>

\* the temporary file is opened,
open_temp(p, i) ==
    /\ Unpacking(p, i, "open")
    /\ Task(p, i, IF <<p, i>> \in temps THEN "unpack_1" ELSE "failed")
    /\ UNCHANGED <<storeVars, pc, loopVars, img, bid, gcVars, asked>>

\* the archive is unpacked, which creates the staging directory at its start
\* and fails when that is gone later, or when the archive is damaged,
unpack(p, i, part) ==
    LET staging == staging_path(layer_at(p, i))
    IN  /\ Unpacking(p, i, IF part = 1 THEN "unpack_1" ELSE "unpack_2")
        /\ \/ /\ dirs[staging] # NoDir \/ part = 1
              /\ dirs' = [dirs EXCEPT ![staging] =
                             (IF @ = NoDir THEN {} ELSE @) \cup {part}]
              /\ Task(p, i, IF part = 1 THEN "unpack_2" ELSE "rename")
           \/ Task(p, i, "failed") /\ UNCHANGED dirs
        /\ UNCHANGED <<refs, blobs, temps, built, pc, loopVars, img, bid, gcVars, asked>>

\* and the directory is renamed to the layer's own path, which has to be free
\* or an empty directory.
rename_layer(p, i) ==
    LET staging == staging_path(layer_at(p, i))
        dest == layer_path(layer_at(p, i))
    IN  /\ Unpacking(p, i, "rename")
        /\ IF dirs[staging] # NoDir /\ dirs[dest] \in {NoDir, {}}
           THEN /\ dirs' = [dirs EXCEPT ![dest] = dirs[staging], ![staging] = NoDir]
                /\ Task(p, i, "ok")
           ELSE Task(p, i, "failed") /\ UNCHANGED dirs
        /\ UNCHANGED <<refs, blobs, temps, built, pc, loopVars, img, bid, gcVars, asked>>

extract_layer(p, i) ==
    \/ clear_staging(p, i) \/ open_temp(p, i)
    \/ \E part \in Parts : unpack(p, i, part)
    \/ rename_layer(p, i)

\* fetch_layer() removes its temporary file and the loop takes its result: an
\* error ends the loop and drops every future that is not on a thread.
layer_result(p, i) ==
    /\ pc[p] = "layers"
    /\ \/ /\ task[p][i] = "ok"
          /\ Task(p, i, "done")
          /\ UNCHANGED pc
       \/ /\ task[p][i] = "failed"
          /\ task' = [task EXCEPT ![p] = [j \in Slots |->
                         IF task[p][j] \in Extracting THEN task[p][j] ELSE "none"]]
          /\ Goto(p, "abort")
    /\ temps' = temps \ {<<p, i>>}
    /\ UNCHANGED <<refs, blobs, dirs, built, loopVars, img, bid, gcVars, asked>>

\* Dropping the async runtime waits for the threads; the temporary files of the
\* dropped futures stay.
abort(p) ==
    /\ pc[p] = "abort"
    /\ \A i \in Slots : task[p][i] \notin Extracting
    /\ Abandon(p)
    /\ EnsureReturns(p, FALSE)
    /\ UNCHANGED <<refs, blobs, dirs, built, gcKeys, liveBlobs, liveLayers,
                   doomed, left, stable, asked>>

\* Mutant: the record is written once every layer is on its way.
ref_open_early(p) ==
    /\ pc[p] = "layers"
    /\ \A i \in Slots : task[p][i] # "queued"
    /\ record_ref_open(Reference[app[p]])
    /\ Goto(p, "ref_fill")
    /\ UNCHANGED <<blobs, dirs, temps, built, loopVars, workVars, gcKeys,
                   liveBlobs, liveLayers, victims, doomed, left, asked>>

\* Every layer is in place: record_ref
ref_open(p) ==
    /\ pc[p] = "layers"
    /\ \A i \in Slots : task[p][i] \in {"none", "done"}
    /\ record_ref_open(Reference[app[p]])
    /\ Goto(p, "ref_fill")
    /\ UNCHANGED <<blobs, dirs, temps, built, loopVars, workVars, gcKeys,
                   liveBlobs, liveLayers, victims, doomed, left, asked>>

ref_fill(p) ==
    /\ pc[p] = "ref_fill"
    /\ record_ref_fill(Reference[app[p]], img[p])
    /\ FetchReturns(p)
    /\ UNCHANGED <<blobs, dirs, temps, built, gcKeys, liveBlobs, liveLayers,
                   victims, doomed, left, asked>>
-----------------------------------------------------------------------------
\* Mutant: an app that is not in the store ends the loop.
next_app_break(p) ==
    /\ pc[p] = "next_app"
    /\ IF nextApp[p] \in DOMAIN AppNames
       THEN LET a == AppNames[nextApp[p]]
            IN  /\ app' = [app EXCEPT ![p] = a]
                /\ nextApp' = [nextApp EXCEPT ![p] = @ + 1]
                /\ Goto(p, IF defs[a] = "ok" /\ has_ref(image_key(a))
                           THEN "ensure" ELSE "gc_images")
       ELSE Goto(p, "gc_images") /\ UNCHANGED <<app, nextApp>>
    /\ UNCHANGED <<storeVars, cmd, updated, failed, workVars, gcVars, asked>>

\* pull -u: the next app that loads and is in the store, or the collection.
next_app(p) ==
    /\ pc[p] = "next_app"
    /\ IF nextApp[p] \in DOMAIN AppNames
       THEN LET a == AppNames[nextApp[p]]
            IN  /\ app' = [app EXCEPT ![p] = a]
                /\ nextApp' = [nextApp EXCEPT ![p] = @ + 1]
                /\ IF defs[a] = "ok" /\ has_ref(image_key(a))
                   THEN Goto(p, "ensure")
                   ELSE UNCHANGED pc
       ELSE Goto(p, "gc_images") /\ UNCHANGED <<app, nextApp>>
    /\ UNCHANGED <<storeVars, cmd, updated, failed, workVars, gcVars, asked>>

PullNext(p) ==
    \/ ensure(p) \/ fetch(p) \/ resolve_tag(p)
    \/ manifest_open(p) \/ manifest_fill(p)
    \/ config(p) \/ config_download(p) \/ config_commit(p)
    \/ pending(p)
    \/ \E i \in Slots : \/ layer_start(p, i) \/ layer_download(p, i)
                        \/ extract_layer(p, i) \/ layer_result(p, i)
    \/ abort(p) \/ ref_open(p) \/ ref_fill(p)
    \/ next_app(p)
=============================================================================
