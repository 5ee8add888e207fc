------------------------------- MODULE Clean -------------------------------
(***************************************************************************)
(* The store half of src/src/clean.rs: drop_orphan_refs(), live_set() and  *)
(* gc_images(), run by `climate clean` and at the end of `climate pull`.   *)
(***************************************************************************)
EXTENDS Store

Exit(p) == Goto(p, "exit")

\* Mutant: only the images the apps run are live, not the bases of builds.
orphans_no_base(p) ==
    LET live == {image_key(a) : a \in {b \in Apps : defs[b] = "ok"}}
    IN  /\ pc[p] = "orphans"
        /\ gcKeys' = [gcKeys EXCEPT ![p] = {k \in Keys : has_ref(k)} \ live]
        /\ Goto(p, "drop_refs")
        /\ UNCHANGED <<storeVars, loopVars, workVars, liveBlobs, liveLayers,
                       victims, doomed, left, stable, asked>>

\* drop_orphan_refs(): the keys and references of the apps that load are live.
\* A definition that does not load is skipped, like one that is gone.
orphans(p) ==
    LET loaded == {a \in Apps : defs[a] = "ok"}
        live == {image_key(a) : a \in loaded} \cup {Reference[a] : a \in loaded}
    IN  /\ pc[p] = "orphans"
        /\ gcKeys' = [gcKeys EXCEPT ![p] = {k \in Keys : has_ref(k)} \ live]
        /\ Goto(p, "drop_refs")
        /\ UNCHANGED <<storeVars, loopVars, workVars, liveBlobs, liveLayers,
                       victims, doomed, left, stable, asked>>

\* Removing a record that vanished meanwhile is an error.
drop_refs(p) ==
    /\ pc[p] = "drop_refs"
    /\ \/ /\ gcKeys[p] = {}
          /\ Goto(p, "gc_images")
          /\ UNCHANGED <<refs, gcKeys, stable>>
       \/ \E k \in gcKeys[p] :
            /\ gcKeys' = [gcKeys EXCEPT ![p] = @ \ {k}]
            /\ refs' = [refs EXCEPT ![k] = NoRef]
            /\ stable' = [q \in Procs |-> stable[q] \ {k}]
            /\ IF has_ref(k) THEN UNCHANGED pc ELSE Exit(p)
    /\ UNCHANGED <<blobs, dirs, temps, built, loopVars, workVars, liveBlobs,
                   liveLayers, victims, doomed, left, asked>>
-----------------------------------------------------------------------------
\* live_set(): list refs/
gc_images(p) ==
    /\ pc[p] = "gc_images"
    /\ gcKeys' = [gcKeys EXCEPT ![p] = {k \in Keys : has_ref(k)}]
    /\ stable' = [stable EXCEPT ![p] = {k \in Keys : has_ref(k)}]
    /\ Goto(p, "live_ref")
    /\ UNCHANGED <<storeVars, loopVars, workVars, liveBlobs, liveLayers,
                   victims, doomed, left, asked>>

\* One entry of refs/: an empty one is passed over, one that vanished makes
\* live_set() fail, and then nothing is deleted.
live_ref(p) ==
    /\ pc[p] = "live_ref"
    /\ \E k \in gcKeys[p] :
         /\ gcKeys' = [gcKeys EXCEPT ![p] = @ \ {k}]
         /\ \/ /\ refs[k] = NoRef
               /\ Exit(p)
               /\ UNCHANGED <<liveBlobs, img>>
            \/ /\ refs[k] = Empty
               /\ UNCHANGED <<liveBlobs, img, pc>>
            \/ /\ refs[k] \in Images
               /\ liveBlobs' = [liveBlobs EXCEPT ![p] = @ \cup {refs[k]}]
               /\ img' = [img EXCEPT ![p] = refs[k]]
               /\ Goto(p, "live_manifest")
    /\ UNCHANGED <<storeVars, loopVars, bid, task, liveLayers, victims,
                   doomed, left, stable, asked>>

\* Mutant: the config of the image is not noted as in use.
live_manifest_no_config(p) ==
    /\ pc[p] = "live_manifest"
    /\ IF blobs[img[p]] = "ok"
       THEN /\ liveLayers' = [liveLayers EXCEPT ![p] = @ \cup LayersOf(img[p])]
            /\ Goto(p, "live_ref")
       ELSE Exit(p) /\ UNCHANGED liveLayers
    /\ img' = [img EXCEPT ![p] = None]
    /\ UNCHANGED <<storeVars, loopVars, bid, task, gcKeys, liveBlobs, victims,
                   doomed, left, stable, asked>>

\* Mutant: a manifest that cannot be read is passed over.
live_manifest_skip(p) ==
    /\ pc[p] = "live_manifest"
    /\ IF blobs[img[p]] = "ok"
       THEN /\ liveBlobs' = [liveBlobs EXCEPT ![p] = @ \cup {ConfigOf(img[p])}]
            /\ liveLayers' = [liveLayers EXCEPT ![p] = @ \cup LayersOf(img[p])]
       ELSE UNCHANGED <<liveBlobs, liveLayers>>
    /\ Goto(p, "live_ref")
    /\ img' = [img EXCEPT ![p] = None]
    /\ UNCHANGED <<storeVars, loopVars, bid, task, gcKeys, victims,
                   doomed, left, stable, asked>>

\* Its manifest: one that is missing or damaged makes live_set() fail.
live_manifest(p) ==
    /\ pc[p] = "live_manifest"
    /\ IF blobs[img[p]] = "ok"
       THEN /\ liveBlobs' = [liveBlobs EXCEPT ![p] = @ \cup {ConfigOf(img[p])}]
            /\ liveLayers' = [liveLayers EXCEPT ![p] = @ \cup LayersOf(img[p])]
            /\ Goto(p, "live_ref")
       ELSE Exit(p) /\ UNCHANGED <<liveBlobs, liveLayers>>
    /\ img' = [img EXCEPT ![p] = None]
    /\ UNCHANGED <<storeVars, loopVars, bid, task, gcKeys, victims,
                   doomed, left, stable, asked>>
-----------------------------------------------------------------------------
List(p, S, label) ==
    /\ victims' = [victims EXCEPT ![p] = S]
    /\ Goto(p, label)

list_blobs(p) ==
    /\ pc[p] = "live_ref"
    /\ gcKeys[p] = {}
    /\ List(p, {<<"blob", b>> : b \in {c \in Blobs \ liveBlobs[p] : has_blob(c)}},
            "gc_blobs")
    /\ UNCHANGED <<storeVars, loopVars, workVars, gcKeys, liveBlobs, liveLayers,
                   doomed, left, stable, asked>>

\* Removing a blob that vanished meanwhile is an error.
gc_blob(p) ==
    /\ pc[p] = "gc_blobs"
    /\ \E b \in Blobs :
         /\ <<"blob", b>> \in victims[p]
         /\ victims' = [victims EXCEPT ![p] = @ \ {<<"blob", b>>}]
         /\ blobs' = [blobs EXCEPT ![b] = "none"]
         /\ IF has_blob(b) THEN UNCHANGED pc ELSE Exit(p)
    /\ UNCHANGED <<refs, dirs, temps, built, loopVars, workVars, gcKeys,
                   liveBlobs, liveLayers, doomed, left, stable, asked>>

\* Mutant: directories a killed extraction left are not listed.
list_layers_finished(p) ==
    /\ pc[p] = "gc_blobs"
    /\ victims[p] = {}
    /\ List(p, {layer_path(l) : l \in {k \in LayerIds \ liveLayers[p] : has_layer(k)}},
            "gc_layers")
    /\ UNCHANGED <<storeVars, loopVars, workVars, gcKeys, liveBlobs, liveLayers,
                   doomed, left, stable, asked>>

\* Every `.extract-` directory is listed, and the layers not in use.
list_layers(p) ==
    /\ pc[p] = "gc_blobs"
    /\ victims[p] = {}
    /\ List(p, {e \in Dirs : /\ dirs[e] # NoDir
                             /\ e \notin {layer_path(l) : l \in liveLayers[p]}},
            "gc_layers")
    /\ UNCHANGED <<storeVars, loopVars, workVars, gcKeys, liveBlobs, liveLayers,
                   doomed, left, stable, asked>>

\* remove_tree(): a directory that vanished is fine; otherwise its entries are
\* listed,
remove_tree(p) ==
    /\ pc[p] = "gc_layers"
    /\ \E e \in victims[p] :
         /\ victims' = [victims EXCEPT ![p] = @ \ {e}]
         /\ IF dirs[e] = NoDir
            THEN UNCHANGED <<pc, doomed, left>>
            ELSE /\ doomed' = [doomed EXCEPT ![p] = e]
                 /\ left' = [left EXCEPT ![p] = dirs[e]]
                 /\ Goto(p, "remove_tree")
    /\ UNCHANGED <<storeVars, loopVars, workVars, gcKeys, liveBlobs, liveLayers,
                   stable, asked>>

\* removed one by one,
remove_part(p) ==
    /\ pc[p] = "remove_tree"
    /\ \E part \in left[p] :
         /\ left' = [left EXCEPT ![p] = @ \ {part}]
         /\ dirs' = [dirs EXCEPT ![doomed[p]] =
                        IF @ = NoDir THEN NoDir ELSE @ \ {part}]
    /\ UNCHANGED <<refs, blobs, temps, built, loopVars, workVars, gcKeys,
                   liveBlobs, liveLayers, victims, doomed, stable, asked, pc>>

\* and the directory itself last, which fails if something was added to it.
\* Before that, grant_writable() fails on what somebody else removed meanwhile.
remove_dir(p) ==
    LET e == doomed[p]
        added == left[p] = {} /\ dirs[e] \notin {NoDir, {}}
        vanished == dirs[e] = NoDir \/ ~(left[p] \subseteq dirs[e])
    IN  /\ pc[p] = "remove_tree"
        /\ doomed' = [doomed EXCEPT ![p] = None]
        /\ left' = [left EXCEPT ![p] = {}]
        /\ \/ /\ left[p] = {} /\ dirs[e] \in {NoDir, {}}
              /\ dirs' = [dirs EXCEPT ![e] = NoDir]
              /\ Goto(p, "gc_layers")
           \/ (added \/ vanished) /\ Exit(p) /\ UNCHANGED dirs
        /\ UNCHANGED <<refs, blobs, temps, built, loopVars, workVars, gcKeys,
                       liveBlobs, liveLayers, victims, stable, asked>>

list_temps(p) ==
    /\ pc[p] = "gc_layers"
    /\ victims[p] = {}
    /\ List(p, {<<"temp", t>> : t \in temps}, "gc_temps")
    /\ UNCHANGED <<storeVars, loopVars, workVars, gcKeys, liveBlobs, liveLayers,
                   doomed, left, stable, asked>>

\* Removing a temporary file that vanished meanwhile is an error.
gc_temp(p) ==
    /\ pc[p] = "gc_temps"
    /\ \E t \in Temps :
         /\ <<"temp", t>> \in victims[p]
         /\ victims' = [victims EXCEPT ![p] = @ \ {<<"temp", t>>}]
         /\ temps' = temps \ {t}
         /\ IF t \in temps THEN UNCHANGED pc ELSE Exit(p)
    /\ UNCHANGED <<refs, blobs, dirs, built, loopVars, workVars, gcKeys,
                   liveBlobs, liveLayers, doomed, left, stable, asked>>

gc_done(p) ==
    /\ pc[p] = "gc_temps"
    /\ victims[p] = {}
    /\ Exit(p)
    /\ UNCHANGED <<storeVars, loopVars, workVars, gcVars, asked>>

CleanNext(p) ==
    \/ orphans(p) \/ drop_refs(p)
    \/ gc_images(p) \/ live_ref(p) \/ live_manifest(p)
    \/ list_blobs(p) \/ gc_blob(p)
    \/ list_layers(p) \/ remove_tree(p) \/ remove_part(p) \/ remove_dir(p)
    \/ list_temps(p) \/ gc_temp(p) \/ gc_done(p)
=============================================================================
