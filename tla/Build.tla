------------------------------- MODULE Build -------------------------------
(***************************************************************************)
(* src/src/build.rs: an app's install script runs in a container of its    *)
(* base image, and what it wrote becomes one more layer.                   *)
(***************************************************************************)
EXTENDS Store

BuildFails(p) == EnsureReturns(p, FALSE)

\* Mutant: a record that is there is taken for a digest.
base_ref_unchecked(p) ==
    LET d == refs[Reference[app[p]]]
    IN  /\ pc[p] = "build"
        /\ IF d = NoRef
           THEN BuildFails(p)
           ELSE /\ img' = [img EXCEPT ![p] = d]
                /\ Goto(p, "base_manifest")
                /\ UNCHANGED <<loopVars, bid, task>>
        /\ UNCHANGED <<storeVars, gcVars, asked>>

\* read_manifest(&base_key): the record, then the manifest it names
base_ref(p) ==
    LET d == refs[Reference[app[p]]]
    IN  /\ pc[p] = "build"
        /\ IF d \in {NoRef, Empty}
           THEN BuildFails(p)
           ELSE /\ img' = [img EXCEPT ![p] = d]
                /\ Goto(p, "base_manifest")
                /\ UNCHANGED <<loopVars, bid, task>>
        /\ UNCHANGED <<storeVars, gcVars, asked>>

base_manifest(p) ==
    /\ pc[p] = "base_manifest"
    /\ IF blobs[img[p]] = "ok"
       THEN Goto(p, "build_dirs") /\ UNCHANGED <<loopVars, workVars>>
       ELSE BuildFails(p)
    /\ UNCHANGED <<storeVars, gcVars, asked>>

\* unique_id() never repeats: an id of the pool with no trace left stands for a
\* new one.
Fresh(b) ==
    /\ blobs[b] = "none"
    /\ dirs[layer_path(b)] = NoDir /\ dirs[staging_path(b)] = NoDir
    /\ \A k \in Keys : refs[k] # b
    /\ \A q \in Procs : img[q] # b /\ bid[q] # b

\* Create the upper and the work directory, both in staging_path(b).
build_dirs(p) ==
    /\ pc[p] = "build_dirs"
    /\ \/ \E b \in BuildIds :
            /\ Fresh(b)
            /\ bid' = [bid EXCEPT ![p] = b]
            /\ built' = [built EXCEPT ![b] = img[p]]
            /\ dirs' = [dirs EXCEPT ![staging_path(b)] = {}]
            /\ Goto(p, "run_script")
            /\ UNCHANGED <<loopVars, img, task>>
       \/ BuildFails(p) /\ UNCHANGED <<built, dirs>>    \* create_dir_all
    /\ UNCHANGED <<refs, blobs, temps, gcVars, asked>>

\* run_script() up to the container: the base's config is read and Mount::new
\* looks for every layer.  A failure removes the upper and work directories.
run_script(p) ==
    /\ pc[p] = "run_script"
    /\ \/ /\ blobs[ConfigOf(img[p])] = "ok"
          /\ \A l \in LayersOf(img[p]) : has_layer(l)
          /\ Goto(p, "script_1")
          /\ UNCHANGED <<loopVars, workVars, dirs>>
       \/ /\ dirs' = [dirs EXCEPT ![staging_path(bid[p])] = NoDir]
          /\ BuildFails(p)
    /\ UNCHANGED <<refs, blobs, temps, built, gcVars, asked>>

\* The container writes to the upper directory; nothing arrives if that is gone.
script_writes(p, part) ==
    /\ pc[p] = (IF part = 1 THEN "script_1" ELSE "script_2")
    /\ dirs' = [dirs EXCEPT ![staging_path(bid[p])] =
                   IF @ = NoDir THEN NoDir ELSE @ \cup {part}]
    /\ Goto(p, IF part = 1 THEN "script_2" ELSE "build_rename")
    /\ UNCHANGED <<refs, blobs, temps, built, loopVars, workVars, gcVars, asked>>

\* It exits with another code than 0: the upper and work directories go.
script_fails(p) ==
    /\ pc[p] \in {"script_1", "script_2"}
    /\ dirs' = [dirs EXCEPT ![staging_path(bid[p])] = NoDir]
    /\ BuildFails(p)
    /\ UNCHANGED <<refs, blobs, temps, built, gcVars, asked>>

build_rename(p) ==
    LET upper == staging_path(bid[p])
    IN  /\ pc[p] = "build_rename"
        /\ IF dirs[upper] # NoDir
           THEN /\ dirs' = [dirs EXCEPT ![layer_path(bid[p])] = dirs[upper],
                                        ![upper] = NoDir]
                /\ Goto(p, "build_open")
                /\ UNCHANGED <<loopVars, workVars>>
           ELSE BuildFails(p) /\ UNCHANGED dirs
        /\ UNCHANGED <<refs, blobs, temps, built, gcVars, asked>>

\* write_blob of the built manifest
build_open(p) ==
    /\ pc[p] = "build_open"
    /\ write_blob_open(bid[p])
    /\ Goto(p, "build_fill")
    /\ UNCHANGED <<refs, dirs, temps, built, loopVars, workVars, gcVars, asked>>

build_fill(p) ==
    /\ pc[p] = "build_fill"
    /\ write_blob_fill(bid[p])
    /\ Goto(p, "build_ref_open")
    /\ UNCHANGED <<refs, dirs, temps, built, loopVars, workVars, gcVars, asked>>

\* record_ref of the app's own image
build_ref_open(p) ==
    /\ pc[p] = "build_ref_open"
    /\ record_ref_open(image_key(app[p]))
    /\ Goto(p, "build_ref_fill")
    /\ UNCHANGED <<blobs, dirs, temps, built, loopVars, workVars, gcKeys,
                   liveBlobs, liveLayers, victims, doomed, left, asked>>

build_ref_fill(p) ==
    /\ pc[p] = "build_ref_fill"
    /\ record_ref_fill(image_key(app[p]), bid[p])
    /\ EnsureReturns(p, TRUE)
    /\ UNCHANGED <<blobs, dirs, temps, built, gcKeys, liveBlobs, liveLayers,
                   victims, doomed, left, asked>>

BuildNext(p) ==
    \/ base_ref(p) \/ base_manifest(p) \/ build_dirs(p)
    \/ run_script(p) \/ script_fails(p) \/ build_rename(p)
    \/ \E part \in Parts : script_writes(p, part)
    \/ build_open(p) \/ build_fill(p)
    \/ build_ref_open(p) \/ build_ref_fill(p)
=============================================================================
