---------------------------- MODULE ImagesProofs ----------------------------
(***************************************************************************)
(* Type correctness of the image store model, and the safety of its        *)
(* garbage collection under any interleaving of any number of processes,   *)
(* for every choice of apps, manifests and definitions.  Then what holds   *)
(* of a process that has the store to itself: an update reaches every app  *)
(* (UpdateReaches), and an image that is recorded is complete and stays so *)
(* (RecordedStaysIntact, PullDeliversImage, GcLeavesLive, BuildsKeepBase). *)
(***************************************************************************)
EXTENDS Images, FiniteSetTheorems, TLAPS

-----------------------------------------------------------------------------
(* The values the operators of Store return                                *)

\* Unpacking, deleting and writing a part keep a directory a set of parts.
LEMMA DirStatesAdd ==
    ASSUME NEW s \in DirStates, NEW part \in Parts
    PROVE  (IF s = NoDir THEN {} ELSE s) \cup {part} \in DirStates
  BY DEF DirStates, NoDir, Parts

\* The same of remove_part, which finds a directory there or not.
LEMMA DirStatesRemove ==
    ASSUME NEW s \in DirStates, NEW part
    PROVE  (IF s = NoDir THEN NoDir ELSE s \ {part}) \in DirStates
  BY DEF DirStates, NoDir, Parts

\* The same of script_writes, whose directory may be gone.
LEMMA DirStatesWrite ==
    ASSUME NEW s \in DirStates, NEW part \in Parts
    PROVE  (IF s = NoDir THEN NoDir ELSE s \cup {part}) \in DirStates
  BY DEF DirStates, NoDir, Parts

\* What the other directory operations write.
LEMMA DirStatesValues ==
    NoDir \in DirStates /\ {} \in DirStates /\ Parts \in DirStates
  BY DEF DirStates

\* An app's image.reference and image_key are keys of refs/.
LEMMA KeyTypes ==
    ASSUME NEW a \in Apps
    PROVE  Reference[a] \in References /\ image_key(a) \in Keys
  BY ConstantsAssumption DEF image_key, Keys

\* What a manifest names is in the store's blobs and layers.
LEMMA ImageTypes ==
    ASSUME NEW d \in Images, d \in BuildIds => built[d] \in Manifests
    PROVE  ConfigOf(d) \in Blobs /\ LayersOf(d) \subseteq LayerIds
  BY ConstantsAssumption
  DEF ConfigOf, LayersOf, BaseOf, Images, Blobs, LayerIds, RegistryLayers

\* A layer of a registry manifest has both of its directories.
LEMMA LayerPaths ==
    ASSUME NEW m \in Manifests, NEW i \in DOMAIN Layers[m]
    PROVE  /\ layer_path(Layers[m][i]) \in Dirs
           /\ staging_path(Layers[m][i]) \in Dirs
  BY ConstantsAssumption
  DEF layer_path, staging_path, Dirs, LayerIds, RegistryLayers

\* So has the layer of a build.
LEMMA BuildPaths ==
    ASSUME NEW b \in BuildIds
    PROVE  layer_path(b) \in Dirs /\ staging_path(b) \in Dirs
  BY DEF layer_path, staging_path, Dirs, LayerIds

\* Abandoning temporary files leaves temporary files and victims.
LEMMA AbandonType ==
    ASSUME NEW p \in Procs, TypeOK, Abandon(p)
    PROVE  temps' \in SUBSET Temps /\ victims' \in [Procs -> SUBSET Victims]
  BY DEF TypeOK, StoreTypeOK, GcTypeOK, Abandon, Temps, Victims, Leftover

\* ensure() and everything it calls has an app.
LEMMA AppType ==
    ASSUME NEW p \in Procs, FrameOK, pc[p] \in AppPcs
    PROVE  app[p] \in Apps
  BY DEF FrameOK, ProcOK

-----------------------------------------------------------------------------
(* The store keeps its type                                                *)

\* The steps of pull.rs leave the store with records, blobs and
\* directories of the kinds it knows.
LEMMA StoreTypePull ==
    ASSUME NEW p \in Procs, TypeOK, FrameOK, PullNext(p), UNCHANGED worldVars
    PROVE  StoreTypeOK'
  <1> USE DEF TypeOK, StoreTypeOK, worldVars
  <1>1. CASE ensure(p)
    BY <1>1 DEF ensure, storeVars
  <1>2. CASE fetch(p)
    BY <1>2 DEF fetch, storeVars
  <1>3. CASE resolve_tag(p)
    BY <1>3 DEF resolve_tag, storeVars
  <1>4. CASE manifest_open(p)
    BY <1>4 DEF manifest_open, write_blob_open
  <1>5. CASE manifest_fill(p)
    BY <1>5 DEF manifest_fill, write_blob_fill
  <1>6. CASE config(p)
    BY <1>6 DEF config, Temps, MaxLayers
  <1>7. CASE config_download(p)
    BY <1>7, AbandonType DEF config_download
  <1>8. CASE config_commit(p)
    BY <1>8 DEF config_commit
  <1>9. CASE pending(p)
    BY <1>9 DEF pending, storeVars
  <1>10. ASSUME NEW i \in Slots, layer_start(p, i) PROVE StoreTypeOK'
    BY <1>10 DEF layer_start, Temps, Slots, MaxLayers
  <1>11. ASSUME NEW i \in Slots, layer_download(p, i) PROVE StoreTypeOK'
    BY <1>11 DEF layer_download, storeVars
  <1>12. ASSUME NEW i \in Slots, clear_staging(p, i) PROVE StoreTypeOK'
    BY <1>12, DirStatesValues DEF clear_staging
  <1>13. ASSUME NEW i \in Slots, open_temp(p, i) PROVE StoreTypeOK'
    BY <1>13 DEF open_temp, storeVars
  <1>14. ASSUME NEW i \in Slots, NEW part \in Parts, unpack(p, i, part)
         PROVE StoreTypeOK'
    <2>1. dirs' \in [Dirs -> DirStates]
      BY <1>14, DirStatesAdd DEF unpack
    <2> QED BY <1>14, <2>1 DEF unpack
  <1>15. ASSUME NEW i \in Slots, rename_layer(p, i) PROVE StoreTypeOK'
    <2> DEFINE st == staging_path(layer_at(p, i))
               de == layer_path(layer_at(p, i))
    <2>1. st \in Dirs /\ de \in Dirs
      BY <1>15, LayerPaths
      DEF rename_layer, Unpacking, layer_at, FrameOK, ProcOK, BasePcs, FetchPcs
    <2>2. \/ UNCHANGED dirs
          \/ dirs' = [dirs EXCEPT ![de] = dirs[st], ![st] = NoDir]
      BY <1>15 DEF rename_layer
    <2> HIDE DEF st, de
    <2>3. dirs' \in [Dirs -> DirStates]
      BY <2>1, <2>2, DirStatesValues
    <2> QED BY <1>15, <2>3 DEF rename_layer
  <1>16. ASSUME NEW i \in Slots, layer_result(p, i) PROVE StoreTypeOK'
    BY <1>16 DEF layer_result
  <1>17. CASE abort(p)
    BY <1>17, AbandonType DEF abort
  <1>18. CASE ref_open(p)
    BY <1>18 DEF ref_open, record_ref_open
  <1>19. CASE ref_fill(p)
    <2>1. img[p] \in Images
      BY <1>19 DEF ref_fill, FrameOK, ProcOK, BasePcs, FetchPcs, Images
    <2> QED BY <1>19, <2>1 DEF ref_fill, record_ref_fill
  <1>20. CASE next_app(p)
    BY <1>20 DEF next_app, storeVars
  <1> QED BY <1>1, <1>2, <1>3, <1>4, <1>5, <1>6, <1>7, <1>8, <1>9, <1>10,
    <1>11, <1>12, <1>13, <1>14, <1>15, <1>16, <1>17, <1>18, <1>19, <1>20 DEF
    PullNext, extract_layer

\* The steps of build.rs leave the store with records, blobs and
\* directories of the kinds it knows.
LEMMA StoreTypeBuild ==
    ASSUME NEW p \in Procs, TypeOK, FrameOK, BuildNext(p), UNCHANGED worldVars
    PROVE  StoreTypeOK'
  <1> USE DEF TypeOK, StoreTypeOK, worldVars
  <1>1. CASE base_ref(p)
    BY <1>1 DEF base_ref, storeVars
  <1>2. CASE base_manifest(p)
    BY <1>2 DEF base_manifest, storeVars
  <1>3. CASE build_dirs(p)
    <2>1. CASE BuildFails(p) /\ UNCHANGED <<built, dirs>>
      BY <1>3, <2>1 DEF build_dirs
    <2>2. ASSUME NEW b \in BuildIds,
                 built' = [built EXCEPT ![b] = img[p]],
                 dirs' = [dirs EXCEPT ![staging_path(b)] = {}]
          PROVE  StoreTypeOK'
      <3>1. img[p] \in Manifests
        BY <1>3 DEF build_dirs, FrameOK, ProcOK, BasePcs
      <3>2. built' \in [BuildIds -> Manifests \cup {None}]
        BY <2>2, <3>1
      <3>3. dirs' \in [Dirs -> DirStates]
        BY <2>2, DirStatesValues
      <3> QED BY <1>3, <3>2, <3>3 DEF build_dirs
    <2> QED BY <1>3, <2>1, <2>2 DEF build_dirs
  <1>4. CASE run_script(p)
    <2>1. \/ UNCHANGED dirs
          \/ dirs' = [dirs EXCEPT ![staging_path(bid[p])] = NoDir]
      BY <1>4 DEF run_script
    <2>2. dirs' \in [Dirs -> DirStates]
      BY <2>1, DirStatesValues
    <2> QED BY <1>4, <2>2 DEF run_script
  <1>5. ASSUME NEW part \in Parts, script_writes(p, part) PROVE StoreTypeOK'
    BY <1>5, DirStatesWrite DEF script_writes
  <1>6. CASE script_fails(p)
    BY <1>6, DirStatesValues DEF script_fails
  <1>7. CASE build_rename(p)
    <2> DEFINE st == staging_path(bid[p])
               de == layer_path(bid[p])
    <2>1. st \in Dirs /\ de \in Dirs
      BY <1>7, BuildPaths DEF build_rename, FrameOK, ProcOK, BuildingPcs
    <2>2. \/ UNCHANGED dirs
          \/ dirs' = [dirs EXCEPT ![de] = dirs[st], ![st] = NoDir]
      BY <1>7 DEF build_rename
    <2> HIDE DEF st, de
    <2>3. dirs' \in [Dirs -> DirStates]
      BY <2>1, <2>2, DirStatesValues
    <2> QED BY <1>7, <2>3 DEF build_rename
  <1>8. CASE build_open(p)
    BY <1>8 DEF build_open, write_blob_open
  <1>9. CASE build_fill(p)
    BY <1>9 DEF build_fill, write_blob_fill
  <1>10. CASE build_ref_open(p)
    BY <1>10 DEF build_ref_open, record_ref_open
  <1>11. CASE build_ref_fill(p)
    <2>1. bid[p] \in Images
      BY <1>11 DEF build_ref_fill, FrameOK, ProcOK, BuildingPcs, Images
    <2> QED BY <1>11, <2>1 DEF build_ref_fill, record_ref_fill
  <1> QED BY <1>1, <1>2, <1>3, <1>4, <1>5, <1>6, <1>7, <1>8, <1>9, <1>10,
    <1>11 DEF BuildNext

\* The steps of clean.rs leave the store with records, blobs and
\* directories of the kinds it knows.
LEMMA StoreTypeClean ==
    ASSUME NEW p \in Procs, TypeOK, FrameOK, CleanNext(p), UNCHANGED worldVars
    PROVE  StoreTypeOK'
  <1> USE DEF TypeOK, StoreTypeOK, worldVars
  <1>1. CASE orphans(p)
    BY <1>1 DEF orphans, storeVars
  <1>2. CASE drop_refs(p)
    BY <1>2 DEF drop_refs
  <1>3. CASE gc_images(p)
    BY <1>3 DEF gc_images, storeVars
  <1>4. CASE live_ref(p)
    BY <1>4 DEF live_ref, storeVars
  <1>5. CASE live_manifest(p)
    BY <1>5 DEF live_manifest, storeVars
  <1>6. CASE list_blobs(p)
    BY <1>6 DEF list_blobs, storeVars
  <1>7. CASE gc_blob(p)
    BY <1>7 DEF gc_blob
  <1>8. CASE list_layers(p)
    BY <1>8 DEF list_layers, storeVars
  <1>9. CASE remove_tree(p)
    BY <1>9 DEF remove_tree, storeVars
  <1>10. CASE remove_part(p)
    <2>1. PICK part \in left[p] :
            dirs' = [dirs EXCEPT ![doomed[p]] =
                       IF @ = NoDir THEN NoDir ELSE @ \ {part}]
      BY <1>10 DEF remove_part
    <2>2. doomed[p] \in Dirs
      BY <1>10 DEF remove_part, FrameOK, ProcOK
    <2>3. dirs' \in [Dirs -> DirStates]
      BY <2>1, <2>2, DirStatesRemove
    <2> QED BY <1>10, <2>3 DEF remove_part
  <1>11. CASE remove_dir(p)
    <2>1. \/ UNCHANGED dirs
          \/ dirs' = [dirs EXCEPT ![doomed[p]] = NoDir]
      BY <1>11 DEF remove_dir
    <2>2. dirs' \in [Dirs -> DirStates]
      BY <2>1, DirStatesValues
    <2> QED BY <1>11, <2>2 DEF remove_dir
  <1>12. CASE list_temps(p)
    BY <1>12 DEF list_temps, storeVars
  <1>13. CASE gc_temp(p)
    BY <1>13 DEF gc_temp
  <1>14. CASE gc_done(p)
    BY <1>14 DEF gc_done, storeVars
  <1> QED BY <1>1, <1>2, <1>3, <1>4, <1>5, <1>6, <1>7, <1>8, <1>9, <1>10,
    <1>11, <1>12, <1>13, <1>14 DEF CleanNext

\* The steps of resolve() leave the store with records, blobs and
\* directories of the kinds it knows.
LEMMA StoreTypeRun ==
    ASSUME NEW p \in Procs, TypeOK, FrameOK, RunNext(p), UNCHANGED worldVars
    PROVE  StoreTypeOK'
  <1> USE DEF TypeOK, StoreTypeOK, worldVars
  <1>1. CASE resolve(p)
    BY <1>1 DEF resolve, storeVars
  <1>2. CASE read_manifest(p)
    BY <1>2 DEF read_manifest, storeVars
  <1>3. CASE image_config(p)
    BY <1>3 DEF image_config, storeVars
  <1>4. CASE mount(p)
    BY <1>4 DEF mount, storeVars
  <1> QED BY <1>1, <1>2, <1>3, <1>4 DEF RunNext

-----------------------------------------------------------------------------
(* The frame keeps its type                                                *)

\* A jump to a label.
LEMMA GotoType ==
    ASSUME NEW p \in Procs, FrameTypeOK, NEW l \in PcLabels, Goto(p, l)
    PROVE  pc' \in [Procs -> PcLabels]
  BY DEF FrameTypeOK, Goto

\* An action that only jumps.
LEMMA MoveType ==
    ASSUME NEW p \in Procs, FrameTypeOK, NEW l \in PcLabels, Goto(p, l),
           UNCHANGED <<loopVars, workVars, asked>>
    PROVE  FrameTypeOK'
  BY DEF FrameTypeOK, Goto, loopVars, workVars

\* An action that changes the state of a fetch_layer future.
LEMMA TaskType ==
    ASSUME NEW p \in Procs, NEW i \in Slots, NEW s \in TaskStates, FrameTypeOK,
           Task(p, i, s), UNCHANGED <<pc, loopVars, img, bid, asked>>
    PROVE  FrameTypeOK'
  BY DEF FrameTypeOK, Task, loopVars

\* A step that asks no registry leaves the counts of queries.
LEMMA AskedType ==
    ASSUME FrameTypeOK, UNCHANGED asked
    PROVE  asked' \in [Procs -> [References -> Nat]]
  BY DEF FrameTypeOK

\* A process without futures.
LEMMA NoTasksType == NoTasks \in [Slots -> TaskStates]
  BY DEF NoTasks, TaskStates

\* ensure() returning to any of its callers.
LEMMA ReturnsType ==
    ASSUME NEW p \in Procs, NEW ok \in BOOLEAN, FrameTypeOK, app[p] \in Apps,
           EnsureReturns(p, ok), asked' \in [Procs -> [References -> Nat]]
    PROVE  FrameTypeOK'
  <1>1. pc' \in [Procs -> PcLabels]
    BY DEF FrameTypeOK, EnsureReturns, Goto, PcLabels
  <1>2. updated' \in [Procs -> SUBSET References]
    BY ConstantsAssumption DEF FrameTypeOK, EnsureReturns
  <1>3. failed' \in [Procs -> SUBSET Apps]
    BY DEF FrameTypeOK, EnsureReturns
  <1>4. /\ img' \in [Procs -> Images \cup {None}]
        /\ bid' \in [Procs -> BuildIds \cup {None}]
        /\ task' \in [Procs -> [Slots -> TaskStates]]
    BY NoTasksType DEF FrameTypeOK, EnsureReturns, ClearWork
  <1> QED BY <1>1, <1>2, <1>3, <1>4 DEF FrameTypeOK, EnsureReturns

\* fetch() returning to ensure().
LEMMA FetchReturnsType ==
    ASSUME NEW p \in Procs, FrameTypeOK, app[p] \in Apps, FetchReturns(p),
           UNCHANGED asked
    PROVE  FrameTypeOK'
  <1>1. CASE app[p] \in InstallApps
    <2>1. pc' \in [Procs -> PcLabels]
      BY <1>1, GotoType DEF FetchReturns, PcLabels
    <2> QED
      BY <1>1, <2>1, NoTasksType
      DEF FrameTypeOK, FetchReturns, ClearWork, loopVars
  <1>2. CASE app[p] \notin InstallApps
    BY <1>2, ReturnsType, AskedType DEF FetchReturns
  <1> QED BY <1>1, <1>2

\* The steps of pull.rs leave every process at a label of the code with
\* an app, images and tasks that exist.
LEMMA FrameTypePull ==
    ASSUME NEW p \in Procs, TypeOK, FrameOK, PullNext(p), UNCHANGED worldVars
    PROVE  FrameTypeOK'
  <1> USE DEF TypeOK
  <1>1. CASE ensure(p)
    <2>1. app[p] \in Apps
      BY <1>1, AppType DEF ensure, AppPcs
    <2> QED
      BY <1>1, <2>1, ReturnsType, AskedType, MoveType DEF ensure, PcLabels
  <1>2. CASE fetch(p)
    <2>1. app[p] \in Apps
      BY <1>2, AppType DEF fetch, AppPcs
    <2> QED
      BY <1>2, <2>1, FetchReturnsType, MoveType DEF fetch, PcLabels
  <1>3. CASE resolve_tag(p)
    <2>1. app[p] \in Apps
      BY <1>3, AppType DEF resolve_tag, AppPcs
    <2>2. asked' \in [Procs -> [References -> Nat]]
      BY <1>3, <2>1, KeyTypes DEF resolve_tag, FrameTypeOK
    <2>3. CASE EnsureReturns(p, FALSE)
      BY <2>1, <2>2, <2>3, ReturnsType
    <2>4. CASE ~EnsureReturns(p, FALSE)
      <3>1. pc' \in [Procs -> PcLabels]
        BY <1>3, <2>4, GotoType DEF resolve_tag, PcLabels
      <3>2. tag[Reference[app[p]]] \in Images
        BY <2>1, KeyTypes DEF StoreTypeOK, Images
      <3> QED
        BY <1>3, <2>2, <2>4, <3>1, <3>2 DEF resolve_tag, FrameTypeOK, loopVars
    <2> QED BY <2>3, <2>4
  <1>4. CASE manifest_open(p)
    BY <1>4, MoveType DEF manifest_open, PcLabels
  <1>5. CASE manifest_fill(p)
    BY <1>5, MoveType DEF manifest_fill, PcLabels
  <1>6. CASE config(p)
    BY <1>6, MoveType DEF config, PcLabels
  <1>7. CASE config_download(p)
    <2>1. app[p] \in Apps
      BY <1>7, AppType DEF config_download, AppPcs, BasePcs, FetchPcs
    <2> QED
      BY <1>7, <2>1, ReturnsType, AskedType, MoveType
      DEF config_download, PcLabels
  <1>8. CASE config_commit(p)
    <2>1. app[p] \in Apps
      BY <1>8, AppType DEF config_commit, AppPcs, BasePcs, FetchPcs
    <2> QED
      BY <1>8, <2>1, ReturnsType, AskedType, MoveType
      DEF config_commit, PcLabels
  <1>9. CASE pending(p)
    <2>1. pc' \in [Procs -> PcLabels]
      BY <1>9, GotoType DEF pending, PcLabels
    <2>2. task' \in [Procs -> [Slots -> TaskStates]]
      BY <1>9 DEF pending, FrameTypeOK, TaskStates
    <2> QED BY <1>9, <2>1, <2>2 DEF pending, FrameTypeOK, loopVars
  <1>10. ASSUME NEW i \in Slots, layer_start(p, i) PROVE FrameTypeOK'
    BY <1>10, TaskType DEF layer_start, TaskStates, InFlight, Extracting
  <1>11. ASSUME NEW i \in Slots, layer_download(p, i) PROVE FrameTypeOK'
    BY <1>11, TaskType DEF layer_download, TaskStates, InFlight, Extracting
  <1>12. ASSUME NEW i \in Slots, clear_staging(p, i) PROVE FrameTypeOK'
    BY <1>12, TaskType DEF clear_staging, TaskStates, InFlight, Extracting
  <1>13. ASSUME NEW i \in Slots, open_temp(p, i) PROVE FrameTypeOK'
    BY <1>13, TaskType DEF open_temp, TaskStates, InFlight, Extracting
  <1>14. ASSUME NEW i \in Slots, NEW part \in Parts, unpack(p, i, part)
         PROVE FrameTypeOK'
    BY <1>14, TaskType DEF unpack, TaskStates, InFlight, Extracting
  <1>15. ASSUME NEW i \in Slots, rename_layer(p, i) PROVE FrameTypeOK'
    BY <1>15, TaskType DEF rename_layer, TaskStates, InFlight, Extracting
  <1>16. ASSUME NEW i \in Slots, layer_result(p, i) PROVE FrameTypeOK'
    <2>1. CASE task[p][i] = "ok"
      BY <1>16, <2>1, TaskType DEF layer_result, TaskStates
    <2>2. CASE task[p][i] = "failed"
      <3> DEFINE rest == [j \in Slots |->
                           IF task[p][j] \in Extracting THEN task[p][j] ELSE "none"]
      <3>1. task' = [task EXCEPT ![p] = rest]
        BY <1>16, <2>2 DEF layer_result
      <3>2. rest \in [Slots -> TaskStates]
        BY DEF FrameTypeOK, TaskStates
      <3> HIDE DEF rest
      <3>3. task' \in [Procs -> [Slots -> TaskStates]]
        BY <3>1, <3>2 DEF FrameTypeOK
      <3>4. pc' \in [Procs -> PcLabels]
        BY <1>16, <2>2, GotoType DEF layer_result, PcLabels
      <3> QED BY <1>16, <3>3, <3>4 DEF layer_result, FrameTypeOK, loopVars
    <2> QED BY <1>16, <2>1, <2>2 DEF layer_result
  <1>17. CASE abort(p)
    <2>1. app[p] \in Apps
      BY <1>17, AppType DEF abort, AppPcs, BasePcs, FetchPcs
    <2> QED
      BY <1>17, <2>1, ReturnsType, AskedType, MoveType DEF abort, PcLabels
  <1>18. CASE ref_open(p)
    BY <1>18, MoveType DEF ref_open, PcLabels
  <1>19. CASE ref_fill(p)
    <2>1. app[p] \in Apps
      BY <1>19, AppType DEF ref_fill, AppPcs, BasePcs, FetchPcs
    <2> QED
      BY <1>19, <2>1, FetchReturnsType, MoveType DEF ref_fill, PcLabels
  <1>20. CASE next_app(p)
    <2>1. CASE nextApp[p] \in DOMAIN AppNames
      <3> DEFINE a == AppNames[nextApp[p]]
      <3>1. a \in Apps /\ nextApp[p] + 1 \in 1..(Len(AppNames) + 1)
        BY <2>1, ConstantsAssumption DEF Apps
      <3>2. /\ app' = [app EXCEPT ![p] = a]
            /\ nextApp' = [nextApp EXCEPT ![p] = @ + 1]
            /\ Goto(p, "ensure") \/ UNCHANGED pc
        BY <1>20, <2>1 DEF next_app
      <3>3. pc' \in [Procs -> PcLabels]
        BY <3>2, GotoType DEF FrameTypeOK, PcLabels
      <3> HIDE DEF a
      <3> QED BY <1>20, <3>1, <3>2, <3>3 DEF FrameTypeOK, next_app, workVars
    <2>2. CASE nextApp[p] \notin DOMAIN AppNames
      BY <1>20, <2>2, MoveType DEF next_app, loopVars, PcLabels
    <2> QED BY <2>1, <2>2
  <1> QED BY <1>1, <1>2, <1>3, <1>4, <1>5, <1>6, <1>7, <1>8, <1>9, <1>10,
    <1>11, <1>12, <1>13, <1>14, <1>15, <1>16, <1>17, <1>18, <1>19, <1>20 DEF
    PullNext, extract_layer

\* The steps of build.rs leave every process at a label of the code with
\* an app, images and tasks that exist.
LEMMA FrameTypeBuild ==
    ASSUME NEW p \in Procs, TypeOK, FrameOK, BuildNext(p), UNCHANGED worldVars
    PROVE  FrameTypeOK'
  <1> USE DEF TypeOK
  <1>1. CASE base_ref(p)
    <2>1. app[p] \in Apps
      BY <1>1, AppType DEF base_ref, AppPcs
    <2> DEFINE d == refs[Reference[app[p]]]
    <2>2. CASE BuildFails(p)
      BY <1>1, <2>1, <2>2, ReturnsType, AskedType DEF base_ref, BuildFails
    <2>3. CASE d \notin {NoRef, Empty}
      <3>1. d \in Images
        BY <2>1, <2>3, KeyTypes DEF StoreTypeOK, Keys
      <3>2. pc' \in [Procs -> PcLabels]
        BY <1>1, <2>3, GotoType DEF base_ref, PcLabels
      <3> QED BY <1>1, <2>3, <3>1, <3>2 DEF base_ref, FrameTypeOK, loopVars
    <2> QED BY <1>1, <2>2, <2>3 DEF base_ref
  <1>2. CASE base_manifest(p)
    <2>1. app[p] \in Apps
      BY <1>2, AppType DEF base_manifest, AppPcs, BasePcs
    <2> QED
      BY <1>2, <2>1, ReturnsType, AskedType, MoveType
      DEF base_manifest, PcLabels, BuildFails
  <1>3. CASE build_dirs(p)
    <2>1. app[p] \in Apps
      BY <1>3, AppType DEF build_dirs, AppPcs, BasePcs
    <2>2. CASE BuildFails(p)
      BY <1>3, <2>1, <2>2, ReturnsType, AskedType DEF build_dirs, BuildFails
    <2>3. ASSUME NEW b \in BuildIds, bid' = [bid EXCEPT ![p] = b],
                 Goto(p, "run_script"), UNCHANGED <<loopVars, img, task>>
          PROVE  FrameTypeOK'
      <3>1. pc' \in [Procs -> PcLabels]
        BY <2>3, GotoType DEF PcLabels
      <3> QED BY <1>3, <2>3, <3>1 DEF build_dirs, FrameTypeOK, loopVars
    <2> QED BY <1>3, <2>2, <2>3 DEF build_dirs
  <1>4. CASE run_script(p)
    <2>1. app[p] \in Apps
      BY <1>4, AppType DEF run_script, AppPcs, BasePcs, BuildingPcs
    <2> QED
      BY <1>4, <2>1, ReturnsType, AskedType, MoveType
      DEF run_script, PcLabels, BuildFails
  <1>5. ASSUME NEW part \in Parts, script_writes(p, part) PROVE FrameTypeOK'
    BY <1>5, MoveType DEF script_writes, PcLabels
  <1>6. CASE script_fails(p)
    <2>1. app[p] \in Apps
      BY <1>6, AppType DEF script_fails, AppPcs, BasePcs, BuildingPcs
    <2> QED
      BY <1>6, <2>1, ReturnsType, AskedType, MoveType
      DEF script_fails, PcLabels, BuildFails
  <1>7. CASE build_rename(p)
    <2>1. app[p] \in Apps
      BY <1>7, AppType DEF build_rename, AppPcs, BasePcs, BuildingPcs
    <2> QED
      BY <1>7, <2>1, ReturnsType, AskedType, MoveType
      DEF build_rename, PcLabels, BuildFails
  <1>8. CASE build_open(p)
    BY <1>8, MoveType DEF build_open, PcLabels
  <1>9. CASE build_fill(p)
    BY <1>9, MoveType DEF build_fill, PcLabels
  <1>10. CASE build_ref_open(p)
    BY <1>10, MoveType DEF build_ref_open, PcLabels
  <1>11. CASE build_ref_fill(p)
    <2>1. app[p] \in Apps
      BY <1>11, AppType DEF build_ref_fill, AppPcs, BasePcs, BuildingPcs
    <2> QED
      BY <1>11, <2>1, ReturnsType, AskedType, MoveType
      DEF build_ref_fill, PcLabels
  <1> QED BY <1>1, <1>2, <1>3, <1>4, <1>5, <1>6, <1>7, <1>8, <1>9, <1>10,
    <1>11 DEF BuildNext

\* The steps of clean.rs leave every process at a label of the code with
\* an app, images and tasks that exist.
LEMMA FrameTypeClean ==
    ASSUME NEW p \in Procs, TypeOK, FrameOK, CleanNext(p), UNCHANGED worldVars
    PROVE  FrameTypeOK'
  <1> USE DEF TypeOK
  <1>1. CASE orphans(p)
    BY <1>1, MoveType DEF orphans, PcLabels
  <1>2. CASE drop_refs(p)
    <2>1. pc' \in [Procs -> PcLabels]
      BY <1>2, GotoType DEF drop_refs, FrameTypeOK, PcLabels, Exit
    <2> QED BY <1>2, <2>1 DEF drop_refs, FrameTypeOK, loopVars, workVars
  <1>3. CASE gc_images(p)
    BY <1>3, MoveType DEF gc_images, PcLabels
  <1>4. CASE live_ref(p)
    <2>1. pc' \in [Procs -> PcLabels]
      BY <1>4, GotoType DEF live_ref, FrameTypeOK, PcLabels, Exit
    <2>2. img' \in [Procs -> Images \cup {None}]
      BY <1>4 DEF live_ref, FrameTypeOK
    <2> QED BY <1>4, <2>1, <2>2 DEF live_ref, FrameTypeOK, loopVars
  <1>5. CASE live_manifest(p)
    <2>1. pc' \in [Procs -> PcLabels]
      BY <1>5, GotoType DEF live_manifest, PcLabels, Exit
    <2> QED BY <1>5, <2>1 DEF live_manifest, FrameTypeOK, loopVars
  <1>6. CASE list_blobs(p)
    BY <1>6, MoveType DEF list_blobs, PcLabels, List
  <1>7. CASE gc_blob(p)
    <2>1. pc' \in [Procs -> PcLabels]
      BY <1>7, GotoType DEF gc_blob, FrameTypeOK, PcLabels, Exit
    <2> QED BY <1>7, <2>1 DEF gc_blob, FrameTypeOK, loopVars, workVars
  <1>8. CASE list_layers(p)
    BY <1>8, MoveType DEF list_layers, PcLabels, List
  <1>9. CASE remove_tree(p)
    <2>1. pc' \in [Procs -> PcLabels]
      BY <1>9, GotoType DEF remove_tree, FrameTypeOK, PcLabels
    <2> QED BY <1>9, <2>1 DEF remove_tree, FrameTypeOK, loopVars, workVars
  <1>10. CASE remove_part(p)
    <2>1. pc' \in [Procs -> PcLabels]
      BY <1>10, GotoType DEF remove_part, FrameTypeOK, PcLabels
    <2> QED BY <1>10, <2>1 DEF remove_part, FrameTypeOK, loopVars, workVars
  <1>11. CASE remove_dir(p)
    BY <1>11, MoveType DEF remove_dir, PcLabels, Exit
  <1>12. CASE list_temps(p)
    BY <1>12, MoveType DEF list_temps, PcLabels, List
  <1>13. CASE gc_temp(p)
    <2>1. pc' \in [Procs -> PcLabels]
      BY <1>13, GotoType DEF gc_temp, FrameTypeOK, PcLabels, Exit
    <2> QED BY <1>13, <2>1 DEF gc_temp, FrameTypeOK, loopVars, workVars
  <1>14. CASE gc_done(p)
    BY <1>14, MoveType DEF gc_done, PcLabels, Exit
  <1> QED BY <1>1, <1>2, <1>3, <1>4, <1>5, <1>6, <1>7, <1>8, <1>9, <1>10,
    <1>11, <1>12, <1>13, <1>14 DEF CleanNext

\* The steps of resolve() leave every process at a label of the code with
\* an app, images and tasks that exist.
LEMMA FrameTypeRun ==
    ASSUME NEW p \in Procs, TypeOK, FrameOK, RunNext(p), UNCHANGED worldVars
    PROVE  FrameTypeOK'
  <1> USE DEF TypeOK
  <1>1. CASE resolve(p)
    <2>1. app[p] \in Apps
      BY <1>1, AppType DEF resolve, AppPcs
    <2>2. pc' \in [Procs -> PcLabels]
      BY <1>1, GotoType DEF resolve, PcLabels
    <2>3. img' \in [Procs -> Images \cup {None}]
      BY <1>1, <2>1, KeyTypes DEF resolve, FrameTypeOK, StoreTypeOK
    <2> QED BY <1>1, <2>2, <2>3 DEF resolve, FrameTypeOK, loopVars
  <1>2. CASE read_manifest(p)
    BY <1>2, MoveType DEF read_manifest, PcLabels
  <1>3. CASE image_config(p)
    BY <1>3, MoveType DEF image_config, PcLabels
  <1>4. CASE mount(p)
    BY <1>4, MoveType DEF mount, PcLabels
  <1> QED BY <1>1, <1>2, <1>3, <1>4 DEF RunNext

-----------------------------------------------------------------------------
(* The collector's variables keep their type                               *)

\* The steps of pull.rs leave the sets a collection works on within the
\* store.
LEMMA GcTypePull ==
    ASSUME NEW p \in Procs, TypeOK, FrameOK, PullNext(p), UNCHANGED worldVars
    PROVE  GcTypeOK'
  <1> USE DEF TypeOK, GcTypeOK
  <1>1. CASE ensure(p)
    BY <1>1 DEF ensure, gcVars
  <1>2. CASE fetch(p)
    BY <1>2 DEF fetch, gcVars
  <1>3. CASE resolve_tag(p)
    BY <1>3 DEF resolve_tag, gcVars
  <1>4. CASE manifest_open(p)
    BY <1>4 DEF manifest_open, gcVars
  <1>5. CASE manifest_fill(p)
    BY <1>5 DEF manifest_fill, gcVars
  <1>6. CASE config(p)
    BY <1>6 DEF config, gcVars
  <1>7. CASE config_download(p)
    <2>1. victims' \in [Procs -> SUBSET Victims]
      BY <1>7, AbandonType DEF config_download
    <2> QED BY <1>7, <2>1 DEF config_download
  <1>8. CASE config_commit(p)
    BY <1>8 DEF config_commit, gcVars
  <1>9. CASE pending(p)
    BY <1>9 DEF pending, gcVars
  <1>10. ASSUME NEW i \in Slots, layer_start(p, i) PROVE GcTypeOK'
    BY <1>10 DEF layer_start, gcVars
  <1>11. ASSUME NEW i \in Slots, layer_download(p, i) PROVE GcTypeOK'
    BY <1>11 DEF layer_download, gcVars
  <1>12. ASSUME NEW i \in Slots, clear_staging(p, i) PROVE GcTypeOK'
    BY <1>12 DEF clear_staging, gcVars
  <1>13. ASSUME NEW i \in Slots, open_temp(p, i) PROVE GcTypeOK'
    BY <1>13 DEF open_temp, gcVars
  <1>14. ASSUME NEW i \in Slots, NEW part \in Parts, unpack(p, i, part)
         PROVE GcTypeOK'
    BY <1>14 DEF unpack, gcVars
  <1>15. ASSUME NEW i \in Slots, rename_layer(p, i) PROVE GcTypeOK'
    BY <1>15 DEF rename_layer, gcVars
  <1>16. ASSUME NEW i \in Slots, layer_result(p, i) PROVE GcTypeOK'
    BY <1>16 DEF layer_result, gcVars
  <1>17. CASE abort(p)
    <2>1. victims' \in [Procs -> SUBSET Victims]
      BY <1>17, AbandonType DEF abort
    <2> QED BY <1>17, <2>1 DEF abort
  <1>18. CASE ref_open(p)
    BY <1>18 DEF ref_open, record_ref_open
  <1>19. CASE ref_fill(p)
    BY <1>19 DEF ref_fill, record_ref_fill
  <1>20. CASE next_app(p)
    BY <1>20 DEF next_app, gcVars
  <1> QED BY <1>1, <1>2, <1>3, <1>4, <1>5, <1>6, <1>7, <1>8, <1>9, <1>10,
    <1>11, <1>12, <1>13, <1>14, <1>15, <1>16, <1>17, <1>18, <1>19, <1>20 DEF
    PullNext, extract_layer

\* The steps of build.rs leave the sets a collection works on within the
\* store.
LEMMA GcTypeBuild ==
    ASSUME NEW p \in Procs, TypeOK, FrameOK, BuildNext(p), UNCHANGED worldVars
    PROVE  GcTypeOK'
  <1> USE DEF TypeOK, GcTypeOK
  <1>1. CASE base_ref(p)
    BY <1>1 DEF base_ref, gcVars
  <1>2. CASE base_manifest(p)
    BY <1>2 DEF base_manifest, gcVars
  <1>3. CASE build_dirs(p)
    BY <1>3 DEF build_dirs, gcVars
  <1>4. CASE run_script(p)
    BY <1>4 DEF run_script, gcVars
  <1>5. ASSUME NEW part \in Parts, script_writes(p, part) PROVE GcTypeOK'
    BY <1>5 DEF script_writes, gcVars
  <1>6. CASE script_fails(p)
    BY <1>6 DEF script_fails, gcVars
  <1>7. CASE build_rename(p)
    BY <1>7 DEF build_rename, gcVars
  <1>8. CASE build_open(p)
    BY <1>8 DEF build_open, gcVars
  <1>9. CASE build_fill(p)
    BY <1>9 DEF build_fill, gcVars
  <1>10. CASE build_ref_open(p)
    BY <1>10 DEF build_ref_open, record_ref_open
  <1>11. CASE build_ref_fill(p)
    BY <1>11 DEF build_ref_fill, record_ref_fill
  <1> QED BY <1>1, <1>2, <1>3, <1>4, <1>5, <1>6, <1>7, <1>8, <1>9, <1>10,
    <1>11 DEF BuildNext

\* The steps of clean.rs leave the sets a collection works on within the
\* store.
LEMMA GcTypeClean ==
    ASSUME NEW p \in Procs, TypeOK, FrameOK, CleanNext(p), UNCHANGED worldVars
    PROVE  GcTypeOK'
  <1> USE DEF TypeOK, GcTypeOK
  <1>1. CASE orphans(p)
    BY <1>1 DEF orphans
  <1>2. CASE drop_refs(p)
    <2>1. stable' \in [Procs -> SUBSET Keys]
      BY <1>2 DEF drop_refs
    <2>2. gcKeys' \in [Procs -> SUBSET Keys]
      BY <1>2 DEF drop_refs
    <2> QED BY <1>2, <2>1, <2>2 DEF drop_refs
  <1>3. CASE gc_images(p)
    BY <1>3 DEF gc_images
  <1>4. CASE live_ref(p)
    <2>1. PICK k \in gcKeys[p] :
            /\ gcKeys' = [gcKeys EXCEPT ![p] = @ \ {k}]
            /\ \/ UNCHANGED liveBlobs
               \/ /\ refs[k] \in Images
                  /\ liveBlobs' = [liveBlobs EXCEPT ![p] = @ \cup {refs[k]}]
      BY <1>4 DEF live_ref
    <2>2. Images \subseteq Blobs
      BY DEF Images, Blobs
    <2>3. liveBlobs' \in [Procs -> SUBSET Blobs]
      BY <2>1, <2>2
    <2> QED BY <1>4, <2>1, <2>3 DEF live_ref
  <1>5. CASE live_manifest(p)
    <2>1. img[p] \in Images
      BY <1>5 DEF live_manifest, FrameOK, ProcOK, BuiltOK
    <2>2. img[p] \in BuildIds => built[img[p]] \in Manifests
      BY <1>5 DEF live_manifest, FrameOK, ProcOK, BuiltOK
    <2>3. ConfigOf(img[p]) \in Blobs /\ LayersOf(img[p]) \subseteq LayerIds
      BY <2>1, <2>2, ImageTypes
    <2> QED BY <1>5, <2>3 DEF live_manifest
  <1>6. CASE list_blobs(p)
    BY <1>6 DEF list_blobs, List, Victims
  <1>7. CASE gc_blob(p)
    BY <1>7 DEF gc_blob
  <1>8. CASE list_layers(p)
    BY <1>8 DEF list_layers, List, Victims
  <1>9. CASE remove_tree(p)
    <2>1. PICK e \in victims[p] :
            /\ victims' = [victims EXCEPT ![p] = @ \ {e}]
            /\ \/ UNCHANGED <<doomed, left>>
               \/ /\ dirs[e] # NoDir
                  /\ doomed' = [doomed EXCEPT ![p] = e]
                  /\ left' = [left EXCEPT ![p] = dirs[e]]
      BY <1>9 DEF remove_tree
    <2>2. e \in Dirs
      BY <1>9, <2>1 DEF remove_tree, FrameOK, ProcOK
    <2>3. dirs[e] # NoDir => dirs[e] \in SUBSET Parts
      BY <2>2 DEF StoreTypeOK, DirStates
    <2> QED BY <1>9, <2>1, <2>2, <2>3 DEF remove_tree
  <1>10. CASE remove_part(p)
    BY <1>10 DEF remove_part
  <1>11. CASE remove_dir(p)
    BY <1>11 DEF remove_dir
  <1>12. CASE list_temps(p)
    BY <1>12 DEF list_temps, List, Victims, StoreTypeOK
  <1>13. CASE gc_temp(p)
    BY <1>13 DEF gc_temp
  <1>14. CASE gc_done(p)
    BY <1>14 DEF gc_done, gcVars
  <1> QED BY <1>1, <1>2, <1>3, <1>4, <1>5, <1>6, <1>7, <1>8, <1>9, <1>10,
    <1>11, <1>12, <1>13, <1>14 DEF CleanNext

\* The steps of resolve() leave the sets a collection works on within the
\* store.
LEMMA GcTypeRun ==
    ASSUME NEW p \in Procs, TypeOK, FrameOK, RunNext(p), UNCHANGED worldVars
    PROVE  GcTypeOK'
  <1> USE DEF TypeOK, GcTypeOK
  <1>1. CASE resolve(p)
    BY <1>1 DEF resolve, gcVars
  <1>2. CASE read_manifest(p)
    BY <1>2 DEF read_manifest, gcVars
  <1>3. CASE image_config(p)
    BY <1>3 DEF image_config, gcVars
  <1>4. CASE mount(p)
    BY <1>4 DEF mount, gcVars
  <1> QED BY <1>1, <1>2, <1>3, <1>4 DEF RunNext

-----------------------------------------------------------------------------

\* A process that exits or is killed.
LEMMA TerminateType ==
    ASSUME NEW p \in Procs, TypeOK, Terminate(p), UNCHANGED worldVars
    PROVE  TypeOK'
  <1>1. StoreTypeOK'
    BY AbandonType DEF Terminate, TypeOK, StoreTypeOK, worldVars
  <1>2. FrameTypeOK'
    <2>1. pc' \in [Procs -> PcLabels]
      BY GotoType DEF Terminate, TypeOK, PcLabels
    <2>2. nextApp' \in [Procs -> 1..(Len(AppNames) + 1)]
      BY ConstantsAssumption DEF Terminate, TypeOK, FrameTypeOK
    <2> QED
      BY <2>1, <2>2, NoTasksType DEF Terminate, TypeOK, FrameTypeOK, ClearWork
  <1>3. GcTypeOK'
    <2>1. victims' \in [Procs -> SUBSET Victims]
      BY AbandonType DEF Terminate
    <2> QED BY <2>1 DEF Terminate, TypeOK, GcTypeOK
  <1> QED BY <1>1, <1>2, <1>3 DEF TypeOK

\* A process that starts a command.
LEMMA StartType ==
    ASSUME NEW p \in Procs, NEW c \in Commands, TypeOK,
           start(p, c) \/ \E a \in Apps : start_app(p, c, a)
    PROVE  TypeOK'
  <1>1. StoreTypeOK' /\ GcTypeOK'
    BY DEF start, start_app, TypeOK, StoreTypeOK, GcTypeOK, storeVars,
           worldVars, gcVars
  <1>2. pc' \in [Procs -> PcLabels]
    BY GotoType DEF start, start_app, TypeOK, PcLabels
  <1>3. /\ cmd' = [cmd EXCEPT ![p] = c]
        /\ \/ UNCHANGED app
           \/ \E a \in Apps : app' = [app EXCEPT ![p] = a]
    BY DEF start, start_app
  <1>4. UNCHANGED <<nextApp, updated, failed, workVars, asked>>
    BY DEF start, start_app
  <1>5. FrameTypeOK'
    <2>1. app' \in [Procs -> Apps \cup {None}]
      BY <1>3 DEF TypeOK, FrameTypeOK
    <2>2. cmd' \in [Procs -> Commands \cup {"none"}]
      BY <1>3 DEF TypeOK, FrameTypeOK
    <2> QED BY <2>1, <2>2, <1>2, <1>4 DEF TypeOK, FrameTypeOK, workVars
  <1> QED BY <1>1, <1>5 DEF TypeOK

\* Registries and users.
LEMMA WorldType ==
    ASSUME TypeOK, \/ \E r \in References : publish(r)
                   \/ \E a \in Apps : edit(a)
    PROVE  TypeOK'
  <1>1. CASE \E r \in References : publish(r)
    <2>1. PICK r \in References : \E m \in Versions[r] : tag' = [tag EXCEPT ![r] = m]
      BY <1>1 DEF publish
    <2>2. Versions[r] \subseteq Manifests
      BY ConstantsAssumption
    <2>3. tag' \in [References -> Manifests]
      BY <2>1, <2>2 DEF TypeOK, StoreTypeOK
    <2> QED
      BY <1>1, <2>3
      DEF publish, TypeOK, StoreTypeOK, FrameTypeOK, GcTypeOK, storeVars,
          loopVars, workVars, gcVars
  <1>2. CASE \E a \in Apps : edit(a)
    <2>1. PICK a \in Apps : \E s \in DefStates : defs' = [defs EXCEPT ![a] = s]
      BY <1>2 DEF edit
    <2>2. DefStates \subseteq {"ok", "broken", "gone"}
      BY ConstantsAssumption
    <2>3. defs' \in [Apps -> {"ok", "broken", "gone"}]
      BY <2>1, <2>2 DEF TypeOK, StoreTypeOK
    <2> QED
      BY <1>2, <2>3
      DEF edit, TypeOK, StoreTypeOK, FrameTypeOK, GcTypeOK, storeVars,
          loopVars, workVars, gcVars
  <1> QED BY <1>1, <1>2

\* Every step keeps the types.
LEMMA TypeStep ==
    ASSUME TypeOK, FrameOK, [Next]_vars
    PROVE  TypeOK'
  <1>1. ASSUME NEW p \in Procs,
               PullNext(p) \/ BuildNext(p) \/ CleanNext(p) \/ RunNext(p),
               UNCHANGED worldVars
        PROVE  TypeOK'
    <2>1. StoreTypeOK'
      BY <1>1, StoreTypePull, StoreTypeBuild, StoreTypeClean, StoreTypeRun
    <2>2. FrameTypeOK'
      BY <1>1, FrameTypePull, FrameTypeBuild, FrameTypeClean, FrameTypeRun
    <2>3. GcTypeOK'
      BY <1>1, GcTypePull, GcTypeBuild, GcTypeClean, GcTypeRun
    <2> QED BY <2>1, <2>2, <2>3 DEF TypeOK
  <1>2. ASSUME NEW p \in Procs, exit(p) \/ kill(p)
        PROVE  TypeOK'
    BY <1>2, TerminateType DEF exit, kill
  <1>3. ASSUME NEW p \in Procs, app_exits(p), UNCHANGED worldVars
        PROVE  TypeOK'
    <2>1. FrameTypeOK'
      BY <1>3, MoveType DEF app_exits, TypeOK, PcLabels
    <2> QED
      BY <1>3, <2>1
      DEF app_exits, TypeOK, StoreTypeOK, GcTypeOK, storeVars, gcVars, worldVars
  <1>4. CASE UNCHANGED vars
    BY <1>4
    DEF TypeOK, StoreTypeOK, FrameTypeOK, GcTypeOK, vars, storeVars, worldVars,
        loopVars, workVars, gcVars
  <1> QED BY <1>1, <1>2, <1>3, <1>4, StartType, WorldType DEF Next, Step

-----------------------------------------------------------------------------
(* What each process holds                                                 *)

\* The names of the store are told apart.
LEMMA Distinct ==
    /\ {NoRef, Empty, None} \cap BuildIds = {}
    /\ {NoRef, Empty, None} \cap Manifests = {}
    /\ Manifests \cap BuildIds = {}
    /\ InstallApps \cap References = {}
    /\ Blobs = Manifests \cup Configs \cup BuildIds
    /\ Configs \cap BuildIds = {}
    /\ None \notin Dirs
  BY ConstantsAssumption DEF Images, Blobs

\* ensure() returning to resolve() or pull() leaves the process without tasks.
LEMMA ReturnsProc ==
    ASSUME NEW p \in Procs, NEW ok \in BOOLEAN, FrameTypeOK, ProcOK(p),
           pc[p] \in AppPcs, EnsureReturns(p, ok), UNCHANGED doomed
    PROVE  ProcOK(p)'
  <1>1. /\ pc'[p] \in {"next_app", "gc_images", "resolve", "exit"}
        /\ task'[p] = NoTasks
        /\ UNCHANGED app
    BY DEF EnsureReturns, ClearWork, Goto, FrameTypeOK
  <1>2. doomed'[p] = None /\ app'[p] \in Apps
    BY <1>1 DEF ProcOK, AppPcs, BasePcs, FetchPcs, BuildingPcs
  <1> QED
    BY <1>1, <1>2
    DEF ProcOK, NoTasks, AppPcs, BasePcs, FetchPcs, BuildingPcs,
            BuildPcs, ResolvedPcs

\* The same of fetch() returning to ensure(), which may go on to build().
LEMMA FetchReturnsProc ==
    ASSUME NEW p \in Procs, FrameTypeOK, ProcOK(p), pc[p] \in AppPcs,
           FetchReturns(p), UNCHANGED doomed
    PROVE  ProcOK(p)'
  <1>1. CASE app[p] \in InstallApps
    <2>1. pc'[p] = "build" /\ task'[p] = NoTasks /\ UNCHANGED app
      BY <1>1 DEF FetchReturns, ClearWork, Goto, FrameTypeOK, loopVars
    <2>2. doomed'[p] = None /\ app'[p] \in Apps
      BY <2>1 DEF ProcOK, AppPcs, BasePcs, FetchPcs, BuildingPcs
    <2> QED
      BY <1>1, <2>1, <2>2
      DEF ProcOK, NoTasks, AppPcs, BasePcs, FetchPcs, BuildingPcs,
            BuildPcs, ResolvedPcs
  <1>2. CASE app[p] \notin InstallApps
    BY <1>2, ReturnsProc DEF FetchReturns
  <1> QED BY <1>1, <1>2

\* A step of pull.rs leaves its own process with what the code holds at
\* the point it got to.
LEMMA ProcPull ==
    ASSUME NEW p \in Procs, TypeOK, FrameOK, PullNext(p), UNCHANGED worldVars
    PROVE  ProcOK(p)'
  <1> USE DEF TypeOK, FrameOK
  <1>1. CASE ensure(p)
    <2>1. pc[p] = "ensure" /\ pc[p] \in AppPcs /\ UNCHANGED doomed
      BY <1>1 DEF ensure, gcVars, AppPcs
    <2>2. CASE EnsureReturns(p, TRUE)
      BY <2>1, <2>2, ReturnsProc
    <2>3. CASE ~EnsureReturns(p, TRUE)
      <3>1. UNCHANGED <<app, img, bid, task, built, victims, doomed>>
        BY <1>1, <2>3 DEF ensure, storeVars, loopVars, workVars, gcVars
      <3>2. \/ pc'[p] = "fetch"
            \/ pc'[p] = "build" /\ app[p] \in InstallApps
        BY <1>1, <2>3 DEF ensure, Goto, FrameTypeOK
      <3> QED
        BY <2>1, <3>1, <3>2
        DEF ProcOK, AppPcs, BasePcs, FetchPcs, BuildingPcs, BuildPcs,
            ResolvedPcs
    <2> QED BY <2>2, <2>3
  <1>2. CASE fetch(p)
    <2>1. pc[p] \in AppPcs /\ UNCHANGED doomed
      BY <1>2 DEF fetch, gcVars, AppPcs, BasePcs, FetchPcs, BuildingPcs,
          BuildPcs, ResolvedPcs
    <2>2. CASE FetchReturns(p)
      BY <2>1, <2>2, FetchReturnsProc
    <2>3. CASE ~FetchReturns(p)
      <3>1. UNCHANGED <<app, img, bid, task, built, victims, doomed>>
        BY <1>2, <2>3 DEF fetch, storeVars, loopVars, workVars, gcVars
      <3>2. pc[p] = "fetch" /\ pc'[p] = "resolve_tag"
        BY <1>2, <2>3 DEF fetch, Goto, FrameTypeOK
      <3> QED
        BY <3>1, <3>2
        DEF ProcOK, AppPcs, BasePcs, FetchPcs, BuildingPcs,
            BuildPcs, ResolvedPcs
    <2> QED BY <2>2, <2>3
  <1>3. CASE resolve_tag(p)
    <2>1. pc[p] \in AppPcs /\ UNCHANGED doomed
      BY <1>3 DEF resolve_tag, gcVars, AppPcs
    <2>2. CASE EnsureReturns(p, FALSE)
      BY <2>1, <2>2, ReturnsProc
    <2>3. CASE ~EnsureReturns(p, FALSE)
      <3>1. UNCHANGED <<app, bid, task, built, victims, doomed>>
        BY <1>3, <2>3 DEF resolve_tag, storeVars, loopVars, gcVars
      <3>2. pc[p] = "resolve_tag" /\ pc'[p] = "manifest_open"
        BY <1>3, <2>3 DEF resolve_tag, Goto, FrameTypeOK
      <3>3. app[p] \in Apps
        BY <2>1 DEF ProcOK
      <3>4. img'[p] \in Manifests
        <4>1. img' = [img EXCEPT ![p] = tag[Reference[app[p]]]]
          BY <1>3, <2>3 DEF resolve_tag
        <4>2. tag[Reference[app[p]]] \in Manifests
          BY <3>3, KeyTypes DEF StoreTypeOK
        <4> QED BY <4>1, <4>2 DEF FrameTypeOK
      <3>5. img'[p] \in Images
        BY <3>4 DEF Images
      <3> QED
        BY <3>1, <3>2, <3>3, <3>4, <3>5
        DEF ProcOK, AppPcs, BasePcs, FetchPcs, BuildingPcs,
            BuildPcs, ResolvedPcs
    <2> QED BY <2>2, <2>3
  <1>4. CASE manifest_open(p)
    <2>1. UNCHANGED <<app, img, bid, task, built, victims, doomed>>
      BY <1>4 DEF manifest_open, storeVars, loopVars, workVars, gcVars
    <2>2. pc[p] = "manifest_open" /\ pc'[p] = "manifest_fill"
      BY <1>4 DEF manifest_open, Goto, FrameTypeOK
    <2> QED
      BY <2>1, <2>2
      DEF ProcOK, AppPcs, BasePcs, FetchPcs, BuildingPcs,
          BuildPcs, ResolvedPcs
  <1>5. CASE manifest_fill(p)
    <2>1. UNCHANGED <<app, img, bid, task, built, victims, doomed>>
      BY <1>5 DEF manifest_fill, storeVars, loopVars, workVars, gcVars
    <2>2. pc[p] = "manifest_fill" /\ pc'[p] = "config"
      BY <1>5 DEF manifest_fill, Goto, FrameTypeOK
    <2> QED
      BY <2>1, <2>2
      DEF ProcOK, AppPcs, BasePcs, FetchPcs, BuildingPcs,
          BuildPcs, ResolvedPcs
  <1>6. CASE config(p)
    <2>1. UNCHANGED <<app, img, bid, task, built, victims, doomed>>
      BY <1>6 DEF config, storeVars, loopVars, workVars, gcVars
    <2>2. pc[p] = "config" /\ pc'[p] \in {"pending", "config_download"}
      BY <1>6 DEF config, Goto, FrameTypeOK
    <2> QED
      BY <2>1, <2>2
      DEF ProcOK, AppPcs, BasePcs, FetchPcs, BuildingPcs,
          BuildPcs, ResolvedPcs
  <1>7. CASE config_download(p)
    <2>1. pc[p] \in AppPcs /\ UNCHANGED doomed
      BY <1>7
      DEF config_download, gcVars, AppPcs, BasePcs, FetchPcs, BuildingPcs,
          BuildPcs, ResolvedPcs
    <2>2. CASE EnsureReturns(p, FALSE)
      BY <2>1, <2>2, ReturnsProc
    <2>3. CASE ~EnsureReturns(p, FALSE)
      <3>1. UNCHANGED <<app, img, bid, task, built, victims, doomed>>
        BY <1>7, <2>3
        DEF config_download, storeVars, loopVars, workVars, gcVars
      <3>2. pc[p] = "config_download" /\ pc'[p] = "config_commit"
        BY <1>7, <2>3 DEF config_download, Goto, FrameTypeOK
      <3> QED
        BY <3>1, <3>2
        DEF ProcOK, AppPcs, BasePcs, FetchPcs, BuildingPcs,
            BuildPcs, ResolvedPcs
    <2> QED BY <2>2, <2>3
  <1>8. CASE config_commit(p)
    <2>1. pc[p] \in AppPcs /\ UNCHANGED doomed
      BY <1>8
      DEF config_commit, gcVars, AppPcs, BasePcs, FetchPcs, BuildingPcs,
          BuildPcs, ResolvedPcs
    <2>2. CASE EnsureReturns(p, FALSE)
      BY <2>1, <2>2, ReturnsProc
    <2>3. CASE ~EnsureReturns(p, FALSE)
      <3>1. UNCHANGED <<app, img, bid, task, built, victims, doomed>>
        BY <1>8, <2>3 DEF config_commit, storeVars, loopVars, workVars, gcVars
      <3>2. pc[p] = "config_commit" /\ pc'[p] = "pending"
        BY <1>8, <2>3 DEF config_commit, Goto, FrameTypeOK
      <3> QED
        BY <3>1, <3>2
        DEF ProcOK, AppPcs, BasePcs, FetchPcs, BuildingPcs,
            BuildPcs, ResolvedPcs
    <2> QED BY <2>2, <2>3
  <1>9. CASE pending(p)
    <2>1. UNCHANGED <<app, img, bid, built, victims, doomed>>
      BY <1>9 DEF pending, storeVars, loopVars, gcVars
    <2>2. pc[p] = "pending" /\ pc'[p] = "layers"
      BY <1>9 DEF pending, Goto, FrameTypeOK
    <2>3. \A i \in Slots : task'[p][i] # "none" => i \in DOMAIN Layers[img[p]]
      BY <1>9 DEF pending, FrameTypeOK
    <2> QED
      BY <2>1, <2>2, <2>3
      DEF ProcOK, AppPcs, BasePcs, FetchPcs, BuildingPcs,
            BuildPcs, ResolvedPcs
  <1>10. ASSUME NEW i \in Slots, layer_start(p, i) PROVE ProcOK(p)'
    <2>1. UNCHANGED <<pc, app, img, bid, built, victims, doomed>>
      BY <1>10 DEF layer_start, storeVars, loopVars, gcVars
    <2>2. pc[p] \in {"layers", "abort"} /\ task[p][i] # "none"
      BY <1>10 DEF layer_start
    <2>3. \A j \in Slots : task'[p][j] # "none" => task[p][j] # "none"
      BY <1>10, <2>2 DEF layer_start, Task, FrameTypeOK
    <2> QED BY <2>1, <2>2, <2>3 DEF ProcOK
  <1>11. ASSUME NEW i \in Slots, layer_download(p, i) PROVE ProcOK(p)'
    <2>1. UNCHANGED <<pc, app, img, bid, built, victims, doomed>>
      BY <1>11 DEF layer_download, storeVars, loopVars, gcVars
    <2>2. pc[p] \in {"layers", "abort"} /\ task[p][i] # "none"
      BY <1>11 DEF layer_download
    <2>3. \A j \in Slots : task'[p][j] # "none" => task[p][j] # "none"
      BY <1>11, <2>2 DEF layer_download, Task, FrameTypeOK
    <2> QED BY <2>1, <2>2, <2>3 DEF ProcOK
  <1>12. ASSUME NEW i \in Slots, clear_staging(p, i) PROVE ProcOK(p)'
    <2>1. UNCHANGED <<pc, app, img, bid, built, victims, doomed>>
      BY <1>12 DEF clear_staging, storeVars, loopVars, gcVars
    <2>2. pc[p] \in {"layers", "abort"} /\ task[p][i] # "none"
      BY <1>12 DEF clear_staging, Unpacking
    <2>3. \A j \in Slots : task'[p][j] # "none" => task[p][j] # "none"
      BY <1>12, <2>2 DEF clear_staging, Task, FrameTypeOK
    <2> QED BY <2>1, <2>2, <2>3 DEF ProcOK
  <1>13. ASSUME NEW i \in Slots, open_temp(p, i) PROVE ProcOK(p)'
    <2>1. UNCHANGED <<pc, app, img, bid, built, victims, doomed>>
      BY <1>13 DEF open_temp, storeVars, loopVars, gcVars
    <2>2. pc[p] \in {"layers", "abort"} /\ task[p][i] # "none"
      BY <1>13 DEF open_temp, Unpacking
    <2>3. \A j \in Slots : task'[p][j] # "none" => task[p][j] # "none"
      BY <1>13, <2>2 DEF open_temp, Task, FrameTypeOK
    <2> QED BY <2>1, <2>2, <2>3 DEF ProcOK
  <1>14. ASSUME NEW i \in Slots, NEW part \in Parts, unpack(p, i, part)
         PROVE ProcOK(p)'
    <2>1. UNCHANGED <<pc, app, img, bid, built, victims, doomed>>
      BY <1>14 DEF unpack, storeVars, loopVars, gcVars
    <2>2. pc[p] \in {"layers", "abort"} /\ task[p][i] # "none"
      BY <1>14 DEF unpack, Unpacking
    <2>3. \A j \in Slots : task'[p][j] # "none" => task[p][j] # "none"
      BY <1>14, <2>2 DEF unpack, Task, FrameTypeOK
    <2> QED BY <2>1, <2>2, <2>3 DEF ProcOK
  <1>15. ASSUME NEW i \in Slots, rename_layer(p, i) PROVE ProcOK(p)'
    <2>1. UNCHANGED <<pc, app, img, bid, built, victims, doomed>>
      BY <1>15 DEF rename_layer, storeVars, loopVars, gcVars
    <2>2. pc[p] \in {"layers", "abort"} /\ task[p][i] # "none"
      BY <1>15 DEF rename_layer, Unpacking
    <2>3. \A j \in Slots : task'[p][j] # "none" => task[p][j] # "none"
      BY <1>15, <2>2 DEF rename_layer, Task, FrameTypeOK
    <2> QED BY <2>1, <2>2, <2>3 DEF ProcOK
  <1>16. ASSUME NEW i \in Slots, layer_result(p, i) PROVE ProcOK(p)'
    <2>1. UNCHANGED <<app, img, bid, built, victims, doomed>>
      BY <1>16 DEF layer_result, storeVars, loopVars, gcVars
    <2>2. pc[p] = "layers" /\ pc'[p] \in {"layers", "abort"} /\ task[p][i] # "none"
      BY <1>16 DEF layer_result, Goto, FrameTypeOK
    <2>3. \A j \in Slots : task'[p][j] # "none" => task[p][j] # "none"
      BY <1>16, <2>2 DEF layer_result, Task, FrameTypeOK
    <2> QED
      BY <2>1, <2>2, <2>3
      DEF ProcOK, AppPcs, BasePcs, FetchPcs, BuildingPcs,
            BuildPcs, ResolvedPcs
  <1>17. CASE abort(p)
    <2>1. pc[p] \in AppPcs /\ UNCHANGED doomed
      BY <1>17 DEF abort, gcVars, AppPcs, BasePcs, FetchPcs, BuildingPcs,
          BuildPcs, ResolvedPcs
    <2> QED BY <1>17, <2>1, ReturnsProc DEF abort
  <1>18. CASE ref_open(p)
    <2>1. UNCHANGED <<app, img, bid, task, built, victims, doomed>>
      BY <1>18 DEF ref_open, storeVars, loopVars, workVars, gcVars
    <2>2. pc[p] = "layers" /\ pc'[p] = "ref_fill"
      BY <1>18 DEF ref_open, Goto, FrameTypeOK
    <2> QED
      BY <2>1, <2>2
      DEF ProcOK, AppPcs, BasePcs, FetchPcs, BuildingPcs,
          BuildPcs, ResolvedPcs
  <1>19. CASE ref_fill(p)
    <2>1. pc[p] \in AppPcs /\ UNCHANGED doomed
      BY <1>19 DEF ref_fill, gcVars, AppPcs, BasePcs, FetchPcs, BuildingPcs,
          BuildPcs, ResolvedPcs
    <2> QED BY <1>19, <2>1, FetchReturnsProc DEF ref_fill
  <1>20. CASE next_app(p)
    <2>1. UNCHANGED <<img, bid, task, built, victims, doomed>>
      BY <1>20 DEF next_app, storeVars, workVars, gcVars
    <2>2. CASE nextApp[p] \in DOMAIN AppNames
      <3>1. pc[p] = "next_app" /\ pc'[p] \in {"next_app", "ensure"}
        BY <1>20, <2>2 DEF next_app, Goto, FrameTypeOK
      <3>2. app'[p] \in Apps
        BY <1>20, <2>2 DEF next_app, FrameTypeOK, Apps
      <3> QED
        BY <2>1, <3>1, <3>2
        DEF ProcOK, AppPcs, BasePcs, FetchPcs, BuildingPcs,
            BuildPcs, ResolvedPcs
    <2>3. CASE nextApp[p] \notin DOMAIN AppNames
      <3>1. pc[p] = "next_app" /\ pc'[p] = "gc_images"
        BY <1>20, <2>3 DEF next_app, Goto, FrameTypeOK
      <3> QED
        BY <2>1, <3>1
        DEF ProcOK, AppPcs, BasePcs, FetchPcs, BuildingPcs,
            BuildPcs, ResolvedPcs
    <2> QED BY <2>2, <2>3
  <1> QED BY <1>1, <1>2, <1>3, <1>4, <1>5, <1>6, <1>7, <1>8, <1>9, <1>10,
    <1>11, <1>12, <1>13, <1>14, <1>15, <1>16, <1>17, <1>18, <1>19, <1>20 DEF
    PullNext, extract_layer

\* A step of build.rs leaves its own process with what the code holds at
\* the point it got to.
LEMMA ProcBuild ==
    ASSUME NEW p \in Procs, TypeOK, FrameOK, BuildNext(p), UNCHANGED worldVars
    PROVE  ProcOK(p)'
  <1> USE DEF TypeOK, FrameOK
  <1>1. CASE base_ref(p)
    <2>1. pc[p] \in AppPcs /\ UNCHANGED doomed
      BY <1>1 DEF base_ref, gcVars, AppPcs
    <2>2. CASE BuildFails(p)
      BY <2>1, <2>2, ReturnsProc DEF BuildFails
    <2>3. CASE ~BuildFails(p)
      <3>1. UNCHANGED <<app, bid, task, built, victims, doomed>>
        BY <1>1, <2>3 DEF base_ref, storeVars, loopVars, gcVars
      <3>2. pc[p] = "build" /\ pc'[p] = "base_manifest"
        BY <1>1, <2>3 DEF base_ref, Goto, FrameTypeOK
      <3>3. app[p] \in Apps
        BY <2>1 DEF ProcOK
      <3>4. img'[p] = refs[Reference[app[p]]] /\ img'[p] \notin {NoRef, Empty}
        BY <1>1, <2>3 DEF base_ref, FrameTypeOK
      <3>5. img'[p] \in Manifests
        BY <3>3, <3>4, KeyTypes DEF StoreTypeOK, Keys, Images, RefsOK
      <3> QED
        BY <3>1, <3>2, <3>3, <3>5
        DEF ProcOK, AppPcs, BasePcs, FetchPcs, BuildingPcs,
            BuildPcs, ResolvedPcs
    <2> QED BY <2>2, <2>3
  <1>2. CASE base_manifest(p)
    <2>1. pc[p] \in AppPcs /\ UNCHANGED doomed
      BY <1>2
      DEF base_manifest, gcVars, AppPcs, BasePcs, FetchPcs, BuildingPcs,
          BuildPcs, ResolvedPcs
    <2>2. CASE EnsureReturns(p, FALSE)
      BY <2>1, <2>2, ReturnsProc
    <2>3. CASE ~EnsureReturns(p, FALSE)
      <3>1. UNCHANGED <<app, img, bid, task, built, victims, doomed>>
        BY <1>2, <2>3
        DEF base_manifest, storeVars, loopVars, workVars, gcVars, BuildFails
      <3>2. pc[p] = "base_manifest" /\ pc'[p] = "build_dirs"
        BY <1>2, <2>3 DEF base_manifest, Goto, FrameTypeOK, BuildFails
      <3> QED
        BY <3>1, <3>2
        DEF ProcOK, AppPcs, BasePcs, FetchPcs, BuildingPcs,
            BuildPcs, ResolvedPcs
    <2> QED BY <2>2, <2>3
  <1>3. CASE build_dirs(p)
    <2>1. pc[p] \in AppPcs /\ UNCHANGED doomed
      BY <1>3 DEF build_dirs, gcVars, AppPcs, BasePcs
    <2>2. CASE BuildFails(p)
      BY <2>1, <2>2, ReturnsProc DEF BuildFails
    <2>3. ASSUME NEW b \in BuildIds,
                 bid' = [bid EXCEPT ![p] = b],
                 built' = [built EXCEPT ![b] = img[p]],
                 Goto(p, "run_script"), UNCHANGED <<loopVars, img, task>>
          PROVE  ProcOK(p)'
      <3>1. UNCHANGED <<app, img, task, victims, doomed>>
        BY <1>3, <2>3 DEF build_dirs, loopVars, gcVars
      <3>2. pc[p] = "build_dirs" /\ pc'[p] = "run_script"
        BY <1>3, <2>3 DEF build_dirs, Goto, FrameTypeOK
      <3>3. img[p] \in Manifests
        BY <3>2 DEF ProcOK, BasePcs
      <3>4. bid'[p] \in BuildIds /\ built'[bid'[p]] \in Manifests
        BY <2>3, <3>3 DEF FrameTypeOK, StoreTypeOK
      <3> QED
        BY <3>1, <3>2, <3>3, <3>4
        DEF ProcOK, AppPcs, BasePcs, FetchPcs, BuildingPcs,
            BuildPcs, ResolvedPcs
    <2> QED BY <1>3, <2>2, <2>3 DEF build_dirs
  <1>4. CASE run_script(p)
    <2>1. pc[p] \in AppPcs /\ UNCHANGED doomed
      BY <1>4 DEF run_script, gcVars, AppPcs, BasePcs, FetchPcs, BuildingPcs,
          BuildPcs, ResolvedPcs
    <2>2. CASE EnsureReturns(p, FALSE)
      BY <2>1, <2>2, ReturnsProc
    <2>3. CASE ~EnsureReturns(p, FALSE)
      <3>1. UNCHANGED <<app, img, bid, task, built, victims, doomed>>
        BY <1>4, <2>3
        DEF run_script, storeVars, loopVars, workVars, gcVars, BuildFails
      <3>2. pc[p] = "run_script" /\ pc'[p] = "script_1"
        BY <1>4, <2>3 DEF run_script, Goto, FrameTypeOK, BuildFails
      <3> QED
        BY <3>1, <3>2
        DEF ProcOK, AppPcs, BasePcs, FetchPcs, BuildingPcs,
            BuildPcs, ResolvedPcs
    <2> QED BY <2>2, <2>3
  <1>5. ASSUME NEW part \in Parts, script_writes(p, part) PROVE ProcOK(p)'
    <2>1. UNCHANGED <<app, img, bid, task, built, victims, doomed>>
      BY <1>5 DEF script_writes, storeVars, loopVars, workVars, gcVars
    <2>2. pc[p] \in {"script_1", "script_2"} /\ pc'[p] \in {"script_2", "build_rename"}
      BY <1>5 DEF script_writes, Goto, FrameTypeOK
    <2> QED
      BY <2>1, <2>2
      DEF ProcOK, AppPcs, BasePcs, FetchPcs, BuildingPcs,
          BuildPcs, ResolvedPcs
  <1>6. CASE script_fails(p)
    <2>1. pc[p] \in AppPcs /\ UNCHANGED doomed
      BY <1>6 DEF script_fails, gcVars, AppPcs, BasePcs, FetchPcs, BuildingPcs,
          BuildPcs, ResolvedPcs
    <2> QED BY <1>6, <2>1, ReturnsProc DEF script_fails, BuildFails
  <1>7. CASE build_rename(p)
    <2>1. pc[p] \in AppPcs /\ UNCHANGED doomed
      BY <1>7 DEF build_rename, gcVars, AppPcs, BasePcs, FetchPcs, BuildingPcs,
          BuildPcs, ResolvedPcs
    <2>2. CASE EnsureReturns(p, FALSE)
      BY <2>1, <2>2, ReturnsProc
    <2>3. CASE ~EnsureReturns(p, FALSE)
      <3>1. UNCHANGED <<app, img, bid, task, built, victims, doomed>>
        BY <1>7, <2>3
        DEF build_rename, storeVars, loopVars, workVars, gcVars, BuildFails
      <3>2. pc[p] = "build_rename" /\ pc'[p] = "build_open"
        BY <1>7, <2>3 DEF build_rename, Goto, FrameTypeOK, BuildFails
      <3> QED
        BY <3>1, <3>2
        DEF ProcOK, AppPcs, BasePcs, FetchPcs, BuildingPcs,
            BuildPcs, ResolvedPcs
    <2> QED BY <2>2, <2>3
  <1>8. CASE build_open(p)
    <2>1. UNCHANGED <<app, img, bid, task, built, victims, doomed>>
      BY <1>8 DEF build_open, storeVars, loopVars, workVars, gcVars
    <2>2. pc[p] = "build_open" /\ pc'[p] = "build_fill"
      BY <1>8 DEF build_open, Goto, FrameTypeOK
    <2> QED
      BY <2>1, <2>2
      DEF ProcOK, AppPcs, BasePcs, FetchPcs, BuildingPcs,
          BuildPcs, ResolvedPcs
  <1>9. CASE build_fill(p)
    <2>1. UNCHANGED <<app, img, bid, task, built, victims, doomed>>
      BY <1>9 DEF build_fill, storeVars, loopVars, workVars, gcVars
    <2>2. pc[p] = "build_fill" /\ pc'[p] = "build_ref_open"
      BY <1>9 DEF build_fill, Goto, FrameTypeOK
    <2> QED
      BY <2>1, <2>2
      DEF ProcOK, AppPcs, BasePcs, FetchPcs, BuildingPcs,
          BuildPcs, ResolvedPcs
  <1>10. CASE build_ref_open(p)
    <2>1. UNCHANGED <<app, img, bid, task, built, victims, doomed>>
      BY <1>10 DEF build_ref_open, storeVars, loopVars, workVars, gcVars
    <2>2. pc[p] = "build_ref_open" /\ pc'[p] = "build_ref_fill"
      BY <1>10 DEF build_ref_open, Goto, FrameTypeOK
    <2> QED
      BY <2>1, <2>2
      DEF ProcOK, AppPcs, BasePcs, FetchPcs, BuildingPcs,
          BuildPcs, ResolvedPcs
  <1>11. CASE build_ref_fill(p)
    <2>1. pc[p] \in AppPcs /\ UNCHANGED doomed
      BY <1>11
      DEF build_ref_fill, gcVars, AppPcs, BasePcs, FetchPcs, BuildingPcs,
          BuildPcs, ResolvedPcs
    <2> QED BY <1>11, <2>1, ReturnsProc DEF build_ref_fill
  <1> QED BY <1>1, <1>2, <1>3, <1>4, <1>5, <1>6, <1>7, <1>8, <1>9, <1>10,
    <1>11 DEF BuildNext

\* A step of clean.rs leaves its own process with what the code holds at
\* the point it got to.
LEMMA ProcClean ==
    ASSUME NEW p \in Procs, TypeOK, FrameOK, CleanNext(p), UNCHANGED worldVars
    PROVE  ProcOK(p)'
  <1> USE DEF TypeOK, FrameOK
  <1>1. CASE orphans(p)
    <2>1. UNCHANGED <<app, img, bid, task, built, victims, doomed>>
      BY <1>1 DEF orphans, storeVars, loopVars, workVars, gcVars
    <2>2. pc[p] = "orphans" /\ pc'[p] = "drop_refs"
      BY <1>1 DEF orphans, Goto, FrameTypeOK
    <2> QED
      BY <2>1, <2>2
      DEF ProcOK, AppPcs, BasePcs, FetchPcs, BuildingPcs,
          BuildPcs, ResolvedPcs
  <1>2. CASE drop_refs(p)
    <2>1. UNCHANGED <<app, img, bid, task, built, victims, doomed>>
      BY <1>2 DEF drop_refs, storeVars, loopVars, workVars, gcVars, Exit
    <2>2. pc[p] = "drop_refs" /\ pc'[p] \in {"drop_refs", "gc_images", "exit"}
      BY <1>2 DEF drop_refs, Goto, FrameTypeOK, Exit
    <2> QED
      BY <2>1, <2>2
      DEF ProcOK, AppPcs, BasePcs, FetchPcs, BuildingPcs,
          BuildPcs, ResolvedPcs
  <1>3. CASE gc_images(p)
    <2>1. UNCHANGED <<app, img, bid, task, built, victims, doomed>>
      BY <1>3 DEF gc_images, storeVars, loopVars, workVars, gcVars
    <2>2. pc[p] = "gc_images" /\ pc'[p] = "live_ref"
      BY <1>3 DEF gc_images, Goto, FrameTypeOK
    <2> QED
      BY <2>1, <2>2
      DEF ProcOK, AppPcs, BasePcs, FetchPcs, BuildingPcs,
          BuildPcs, ResolvedPcs
  <1>4. CASE live_ref(p)
    <2>1. UNCHANGED <<app, bid, task, built, victims, doomed>>
      BY <1>4 DEF live_ref, storeVars, loopVars
    <2>2. pc[p] = "live_ref" /\ pc'[p] \in {"live_ref", "live_manifest", "exit"}
      BY <1>4 DEF live_ref, Goto, Exit, FrameTypeOK
    <2>3. pc'[p] = "live_manifest" => img'[p] \in Images
      BY <1>4, <2>2 DEF live_ref, Goto, Exit, FrameTypeOK
    <2> QED
      BY <2>1, <2>2, <2>3
      DEF ProcOK, AppPcs, BasePcs, FetchPcs, BuildingPcs,
            BuildPcs, ResolvedPcs
  <1>5. CASE live_manifest(p)
    <2>1. UNCHANGED <<app, bid, task, built, victims, doomed>>
      BY <1>5 DEF live_manifest, storeVars, loopVars, workVars, gcVars, Exit
    <2>2. pc[p] = "live_manifest" /\ pc'[p] \in {"live_ref", "exit"}
      BY <1>5 DEF live_manifest, Goto, FrameTypeOK, Exit
    <2> QED
      BY <2>1, <2>2
      DEF ProcOK, AppPcs, BasePcs, FetchPcs, BuildingPcs,
          BuildPcs, ResolvedPcs
  <1>6. CASE list_blobs(p)
    <2>1. UNCHANGED <<app, img, bid, task, built, doomed>>
      BY <1>6 DEF list_blobs, storeVars, loopVars, workVars, gcVars, List
    <2>2. pc[p] = "live_ref" /\ pc'[p] = "gc_blobs"
      BY <1>6 DEF list_blobs, Goto, FrameTypeOK, List
    <2> QED
      BY <2>1, <2>2
      DEF ProcOK, AppPcs, BasePcs, FetchPcs, BuildingPcs,
          BuildPcs, ResolvedPcs
  <1>7. CASE gc_blob(p)
    <2>1. UNCHANGED <<app, img, bid, task, built, doomed>>
      BY <1>7 DEF gc_blob, storeVars, loopVars, workVars, gcVars, Exit
    <2>2. pc[p] = "gc_blobs" /\ pc'[p] \in {"gc_blobs", "exit"}
      BY <1>7 DEF gc_blob, Goto, FrameTypeOK, Exit
    <2> QED
      BY <2>1, <2>2
      DEF ProcOK, AppPcs, BasePcs, FetchPcs, BuildingPcs,
          BuildPcs, ResolvedPcs
  <1>8. CASE list_layers(p)
    <2>1. UNCHANGED <<app, img, bid, task, built, doomed>>
      BY <1>8 DEF list_layers, storeVars, loopVars, workVars
    <2>2. pc[p] = "gc_blobs" /\ pc'[p] = "gc_layers"
      BY <1>8 DEF list_layers, List, Goto, FrameTypeOK
    <2>3. victims'[p] \subseteq Dirs
      BY <1>8 DEF list_layers, List, GcTypeOK
    <2> QED
      BY <2>1, <2>2, <2>3
      DEF ProcOK, AppPcs, BasePcs, FetchPcs, BuildingPcs,
            BuildPcs, ResolvedPcs
  <1>9. CASE remove_tree(p)
    <2>1. UNCHANGED <<app, img, bid, task, built>>
      BY <1>9 DEF remove_tree, storeVars, loopVars, workVars
    <2>2. pc[p] = "gc_layers" /\ doomed[p] = None /\ victims[p] \subseteq Dirs
      BY <1>9 DEF remove_tree, ProcOK
    <2>3. PICK e \in victims[p] :
            /\ victims' = [victims EXCEPT ![p] = @ \ {e}]
            /\ \/ UNCHANGED <<pc, doomed>>
               \/ doomed' = [doomed EXCEPT ![p] = e] /\ Goto(p, "remove_tree")
      BY <1>9 DEF remove_tree
    <2>4. victims'[p] \subseteq Dirs
      BY <2>2, <2>3 DEF GcTypeOK
    <2>5. \/ pc'[p] = "gc_layers" /\ doomed'[p] = None
          \/ pc'[p] = "remove_tree" /\ doomed'[p] \in Dirs
      BY <2>2, <2>3 DEF Goto, FrameTypeOK, GcTypeOK
    <2> QED
      BY <2>1, <2>2, <2>4, <2>5
      DEF ProcOK, AppPcs, BasePcs, FetchPcs, BuildingPcs,
            BuildPcs, ResolvedPcs
  <1>10. CASE remove_part(p)
    <2>1. UNCHANGED <<app, img, bid, task, built, victims, doomed>>
      BY <1>10 DEF remove_part, storeVars, loopVars, workVars, gcVars
    <2>2. pc[p] = "remove_tree" /\ pc'[p] = "remove_tree"
      BY <1>10 DEF remove_part, Goto, FrameTypeOK
    <2> QED
      BY <2>1, <2>2
      DEF ProcOK, AppPcs, BasePcs, FetchPcs, BuildingPcs,
          BuildPcs, ResolvedPcs
  <1>11. CASE remove_dir(p)
    <2>1. UNCHANGED <<app, img, bid, task, built, victims>>
      BY <1>11 DEF remove_dir, loopVars, workVars
    <2>2. pc[p] = "remove_tree" /\ pc'[p] \in {"gc_layers", "exit"}
      BY <1>11 DEF remove_dir, Goto, Exit, FrameTypeOK
    <2>3. doomed'[p] = None
      BY <1>11 DEF remove_dir, GcTypeOK
    <2> QED
      BY <2>1, <2>2, <2>3
      DEF ProcOK, AppPcs, BasePcs, FetchPcs, BuildingPcs,
            BuildPcs, ResolvedPcs
  <1>12. CASE list_temps(p)
    <2>1. UNCHANGED <<app, img, bid, task, built, doomed>>
      BY <1>12 DEF list_temps, storeVars, loopVars, workVars, gcVars, List
    <2>2. pc[p] = "gc_layers" /\ pc'[p] = "gc_temps"
      BY <1>12 DEF list_temps, Goto, FrameTypeOK, List
    <2> QED
      BY <2>1, <2>2
      DEF ProcOK, AppPcs, BasePcs, FetchPcs, BuildingPcs,
          BuildPcs, ResolvedPcs
  <1>13. CASE gc_temp(p)
    <2>1. UNCHANGED <<app, img, bid, task, built, doomed>>
      BY <1>13 DEF gc_temp, storeVars, loopVars, workVars, gcVars, Exit
    <2>2. pc[p] = "gc_temps" /\ pc'[p] \in {"gc_temps", "exit"}
      BY <1>13 DEF gc_temp, Goto, FrameTypeOK, Exit
    <2> QED
      BY <2>1, <2>2
      DEF ProcOK, AppPcs, BasePcs, FetchPcs, BuildingPcs,
          BuildPcs, ResolvedPcs
  <1>14. CASE gc_done(p)
    <2>1. UNCHANGED <<app, img, bid, task, built, victims, doomed>>
      BY <1>14 DEF gc_done, storeVars, loopVars, workVars, gcVars, Exit
    <2>2. pc[p] = "gc_temps" /\ pc'[p] = "exit"
      BY <1>14 DEF gc_done, Goto, FrameTypeOK, Exit
    <2> QED
      BY <2>1, <2>2
      DEF ProcOK, AppPcs, BasePcs, FetchPcs, BuildingPcs,
          BuildPcs, ResolvedPcs
  <1> QED BY <1>1, <1>2, <1>3, <1>4, <1>5, <1>6, <1>7, <1>8, <1>9, <1>10,
    <1>11, <1>12, <1>13, <1>14 DEF CleanNext

\* A step of resolve() leaves its own process with what the code holds at
\* the point it got to.
LEMMA ProcRun ==
    ASSUME NEW p \in Procs, TypeOK, FrameOK, RunNext(p), UNCHANGED worldVars
    PROVE  ProcOK(p)'
  <1> USE DEF TypeOK, FrameOK
  <1>1. CASE resolve(p)
    <2>1. UNCHANGED <<app, bid, task, built, victims, doomed>>
      BY <1>1 DEF resolve, storeVars, loopVars, gcVars
    <2>2. pc[p] = "resolve" /\ pc'[p] \in {"read_manifest", "exit"}
      BY <1>1 DEF resolve, Goto, FrameTypeOK
    <2>3. app[p] \in Apps
      BY <2>2 DEF ProcOK, AppPcs
    <2>4. pc'[p] = "read_manifest" => img'[p] \in Images
      BY <1>1, <2>2, <2>3, KeyTypes DEF resolve, Goto, FrameTypeOK, StoreTypeOK
    <2> QED
      BY <2>1, <2>2, <2>4
      DEF ProcOK, AppPcs, BasePcs, FetchPcs, BuildingPcs,
            BuildPcs, ResolvedPcs
  <1>2. CASE read_manifest(p)
    <2>1. UNCHANGED <<app, img, bid, task, built, victims, doomed>>
      BY <1>2 DEF read_manifest, storeVars, loopVars, workVars, gcVars
    <2>2. pc[p] = "read_manifest" /\ pc'[p] \in {"image_config", "exit"}
      BY <1>2 DEF read_manifest, Goto, FrameTypeOK
    <2> QED
      BY <2>1, <2>2
      DEF ProcOK, AppPcs, BasePcs, FetchPcs, BuildingPcs,
          BuildPcs, ResolvedPcs
  <1>3. CASE image_config(p)
    <2>1. UNCHANGED <<app, img, bid, task, built, victims, doomed>>
      BY <1>3 DEF image_config, storeVars, loopVars, workVars, gcVars
    <2>2. pc[p] = "image_config" /\ pc'[p] \in {"mount", "exit"}
      BY <1>3 DEF image_config, Goto, FrameTypeOK
    <2> QED
      BY <2>1, <2>2
      DEF ProcOK, AppPcs, BasePcs, FetchPcs, BuildingPcs,
          BuildPcs, ResolvedPcs
  <1>4. CASE mount(p)
    <2>1. UNCHANGED <<app, img, bid, task, built, victims, doomed>>
      BY <1>4 DEF mount, storeVars, loopVars, workVars, gcVars
    <2>2. pc[p] = "mount" /\ pc'[p] \in {"running", "exit"}
      BY <1>4 DEF mount, Goto, FrameTypeOK
    <2> QED
      BY <2>1, <2>2
      DEF ProcOK, AppPcs, BasePcs, FetchPcs, BuildingPcs,
          BuildPcs, ResolvedPcs
  <1> QED BY <1>1, <1>2, <1>3, <1>4 DEF RunNext

-----------------------------------------------------------------------------
(* What the other processes hold is not touched                            *)

OthersOK(p) == \A q \in Procs \ {p} : ProcOK(q)

\* Temporary files without an owner do not become directories to delete.
LEMMA AbandonDirs ==
    ASSUME NEW p \in Procs, NEW q \in Procs \ {p}, TypeOK, Abandon(p)
    PROVE  victims[q] \subseteq Dirs => victims'[q] \subseteq Dirs
  <1> DEFINE S == {<<p, i>> : i \in 0..MaxLayers}
             V == {<<"temp", t>> : t \in S}
  <1>1. V \cap Dirs = {}
    BY DEF Dirs
  <1>2. victims'[q] = IF victims[q] \cap V = {} THEN victims[q]
                      ELSE (victims[q] \ V) \cup {<<"temp", Leftover>>}
    BY DEF Abandon, TypeOK, GcTypeOK
  <1> QED BY <1>1, <1>2

\* A step of pull.rs leaves what every other process holds alone.
LEMMA OthersPull ==
    ASSUME NEW p \in Procs, TypeOK, FrameOK, PullNext(p), UNCHANGED worldVars
    PROVE  OthersOK(p)'
  <1> USE DEF TypeOK, StoreTypeOK, FrameTypeOK, GcTypeOK, FrameOK, ProcOK,
             OthersOK
  <1>1. CASE ensure(p)
    BY <1>1 DEF ensure, EnsureReturns, Goto, loopVars, workVars, storeVars,
      gcVars, ClearWork
  <1>2. CASE fetch(p)
    BY <1>2 DEF fetch, FetchReturns, Goto, loopVars, workVars, storeVars,
      gcVars, ClearWork, EnsureReturns
  <1>3. CASE resolve_tag(p)
    BY <1>3 DEF resolve_tag, Goto, loopVars, EnsureReturns, storeVars, gcVars,
      ClearWork
  <1>4. CASE manifest_open(p)
    BY <1>4 DEF manifest_open, write_blob_open, Goto, loopVars, workVars,
      gcVars
  <1>5. CASE manifest_fill(p)
    BY <1>5 DEF manifest_fill, write_blob_fill, Goto, loopVars, workVars,
      gcVars
  <1>6. CASE config(p)
    BY <1>6 DEF config, Goto, loopVars, workVars, gcVars
  <1>7. CASE config_download(p)
    <2>1. CASE Abandon(p) /\ EnsureReturns(p, FALSE)
      <3> SUFFICES ASSUME NEW q \in Procs \ {p} PROVE ProcOK(q)'
        OBVIOUS
      <3>1. victims[q] \subseteq Dirs => victims'[q] \subseteq Dirs
        BY <2>1, AbandonDirs
      <3>2. UNCHANGED <<app, built, doomed>>
        BY <1>7, <2>1 DEF config_download, EnsureReturns
      <3>3. /\ pc'[q] = pc[q] /\ img'[q] = img[q]
            /\ bid'[q] = bid[q] /\ task'[q] = task[q]
        BY <2>1 DEF EnsureReturns, Goto, ClearWork
      <3>4. ProcOK(q)
        OBVIOUS
      <3> QED
        BY ONLY <3>1, <3>2, <3>3, <3>4 DEF ProcOK
    <2>2. CASE Goto(p, "config_commit")
               /\ UNCHANGED <<loopVars, workVars, temps, victims>>
      BY <1>7, <2>2 DEF config_download, Goto, loopVars, workVars
    <2> QED BY <1>7, <2>1, <2>2 DEF config_download
  <1>8. CASE config_commit(p)
    BY <1>8 DEF config_commit, Goto, loopVars, workVars, EnsureReturns,
      gcVars, ClearWork
  <1>9. CASE pending(p)
    BY <1>9 DEF pending, Goto, storeVars, loopVars, gcVars
  <1>10. ASSUME NEW i \in Slots, layer_start(p, i) PROVE OthersOK(p)'
    BY <1>10 DEF layer_start, Task, loopVars, gcVars
  <1>11. ASSUME NEW i \in Slots, layer_download(p, i) PROVE OthersOK(p)'
    BY <1>11 DEF layer_download, Task, storeVars, loopVars, gcVars
  <1>12. ASSUME NEW i \in Slots, clear_staging(p, i) PROVE OthersOK(p)'
    BY <1>12 DEF clear_staging, Unpacking, Task, loopVars, gcVars
  <1>13. ASSUME NEW i \in Slots, open_temp(p, i) PROVE OthersOK(p)'
    BY <1>13 DEF open_temp, Unpacking, Task, storeVars, loopVars, gcVars
  <1>14. ASSUME NEW i \in Slots, NEW part \in Parts, unpack(p, i, part)
         PROVE OthersOK(p)'
    BY <1>14 DEF unpack, Unpacking, Task, loopVars, gcVars
  <1>15. ASSUME NEW i \in Slots, rename_layer(p, i) PROVE OthersOK(p)'
    BY <1>15 DEF rename_layer, Unpacking, Task, loopVars, gcVars
  <1>16. ASSUME NEW i \in Slots, layer_result(p, i) PROVE OthersOK(p)'
    BY <1>16 DEF layer_result, Task, Extracting, Goto, loopVars, gcVars
  <1>17. CASE abort(p)
    <2> SUFFICES ASSUME NEW q \in Procs \ {p} PROVE ProcOK(q)'
      OBVIOUS
    <2>1. victims[q] \subseteq Dirs => victims'[q] \subseteq Dirs
      BY <1>17, AbandonDirs DEF abort
    <2>2. UNCHANGED <<app, built, doomed>>
      BY <1>17 DEF abort, EnsureReturns
    <2>3. /\ pc'[q] = pc[q] /\ img'[q] = img[q]
          /\ bid'[q] = bid[q] /\ task'[q] = task[q]
      BY <1>17 DEF abort, EnsureReturns, Goto, ClearWork
    <2>4. ProcOK(q)
      OBVIOUS
    <2> QED
      BY ONLY <2>1, <2>2, <2>3, <2>4 DEF ProcOK
  <1>18. CASE ref_open(p)
    BY <1>18 DEF ref_open, record_ref_open, Goto, loopVars, workVars
  <1>19. CASE ref_fill(p)
    BY <1>19 DEF ref_fill, record_ref_fill, FetchReturns, Goto, ClearWork,
      loopVars, EnsureReturns
  <1>20. CASE next_app(p)
    BY <1>20 DEF next_app, Goto, storeVars, workVars, gcVars
  <1> QED BY <1>1, <1>2, <1>3, <1>4, <1>5, <1>6, <1>7, <1>8, <1>9, <1>10,
    <1>11, <1>12, <1>13, <1>14, <1>15, <1>16, <1>17, <1>18, <1>19, <1>20 DEF
    PullNext, extract_layer

\* A step of build.rs leaves what every other process holds alone.
LEMMA OthersBuild ==
    ASSUME NEW p \in Procs, TypeOK, FrameOK, BuildNext(p), UNCHANGED worldVars
    PROVE  OthersOK(p)'
  <1> USE DEF TypeOK, StoreTypeOK, FrameTypeOK, GcTypeOK, FrameOK, ProcOK,
             OthersOK
  <1>1. CASE base_ref(p)
    BY <1>1 DEF base_ref, BuildFails, Goto, loopVars, storeVars, gcVars,
      EnsureReturns, ClearWork
  <1>2. CASE base_manifest(p)
    BY <1>2 DEF base_manifest, Goto, loopVars, workVars, BuildFails,
      storeVars, gcVars, EnsureReturns, ClearWork
  <1>3. CASE build_dirs(p)
    <2>1. CASE BuildFails(p) /\ UNCHANGED <<built, dirs>>
      BY <1>3, <2>1
      DEF build_dirs, BuildFails, EnsureReturns, Goto, ClearWork, gcVars
    <2>2. ASSUME NEW b \in BuildIds, Fresh(b),
                 bid' = [bid EXCEPT ![p] = b],
                 built' = [built EXCEPT ![b] = img[p]],
                 Goto(p, "run_script"), UNCHANGED <<loopVars, img, task>>
          PROVE  OthersOK(p)'
      BY <1>3, <2>2 DEF build_dirs, Fresh, Goto, loopVars, gcVars
    <2> QED BY <1>3, <2>1, <2>2 DEF build_dirs
  <1>4. CASE run_script(p)
    BY <1>4 DEF run_script, Goto, loopVars, workVars, BuildFails, gcVars,
      EnsureReturns, ClearWork
  <1>5. ASSUME NEW part \in Parts, script_writes(p, part) PROVE OthersOK(p)'
    BY <1>5 DEF script_writes, Goto, loopVars, workVars, gcVars
  <1>6. CASE script_fails(p)
    BY <1>6 DEF script_fails, BuildFails, gcVars, EnsureReturns, Goto,
      ClearWork
  <1>7. CASE build_rename(p)
    BY <1>7 DEF build_rename, Goto, loopVars, workVars, BuildFails, gcVars,
      EnsureReturns, ClearWork
  <1>8. CASE build_open(p)
    BY <1>8 DEF build_open, write_blob_open, Goto, loopVars, workVars, gcVars
  <1>9. CASE build_fill(p)
    BY <1>9 DEF build_fill, write_blob_fill, Goto, loopVars, workVars, gcVars
  <1>10. CASE build_ref_open(p)
    BY <1>10 DEF build_ref_open, record_ref_open, Goto, loopVars, workVars
  <1>11. CASE build_ref_fill(p)
    BY <1>11 DEF build_ref_fill, record_ref_fill, EnsureReturns, Goto,
      ClearWork
  <1> QED BY <1>1, <1>2, <1>3, <1>4, <1>5, <1>6, <1>7, <1>8, <1>9, <1>10,
    <1>11 DEF BuildNext

\* A step of clean.rs leaves what every other process holds alone.
LEMMA OthersClean ==
    ASSUME NEW p \in Procs, TypeOK, FrameOK, CleanNext(p), UNCHANGED worldVars
    PROVE  OthersOK(p)'
  <1> USE DEF TypeOK, StoreTypeOK, FrameTypeOK, GcTypeOK, FrameOK, ProcOK,
             OthersOK
  <1>1. CASE orphans(p)
    BY <1>1 DEF orphans, Goto, storeVars, loopVars, workVars
  <1>2. CASE drop_refs(p)
    BY <1>2 DEF drop_refs, Goto, Exit, loopVars, workVars
  <1>3. CASE gc_images(p)
    BY <1>3 DEF gc_images, Goto, storeVars, loopVars, workVars
  <1>4. CASE live_ref(p)
    BY <1>4 DEF live_ref, Exit, Goto, storeVars, loopVars
  <1>5. CASE live_manifest(p)
    BY <1>5 DEF live_manifest, Goto, Exit, storeVars, loopVars
  <1>6. CASE list_blobs(p)
    BY <1>6 DEF list_blobs, List, storeVars, loopVars, workVars, Goto
  <1>7. CASE gc_blob(p)
    BY <1>7 DEF gc_blob, Exit, loopVars, workVars, Goto
  <1>8. CASE list_layers(p)
    BY <1>8 DEF list_layers, List, storeVars, loopVars, workVars, Goto
  <1>9. CASE remove_tree(p)
    BY <1>9 DEF remove_tree, Goto, storeVars, loopVars, workVars
  <1>10. CASE remove_part(p)
    BY <1>10 DEF remove_part, loopVars, workVars
  <1>11. CASE remove_dir(p)
    BY <1>11 DEF remove_dir, Goto, Exit, loopVars, workVars
  <1>12. CASE list_temps(p)
    BY <1>12 DEF list_temps, List, storeVars, loopVars, workVars, Goto
  <1>13. CASE gc_temp(p)
    BY <1>13 DEF gc_temp, Exit, loopVars, workVars, Goto
  <1>14. CASE gc_done(p)
    BY <1>14 DEF gc_done, Exit, storeVars, loopVars, workVars, gcVars, Goto
  <1> QED BY <1>1, <1>2, <1>3, <1>4, <1>5, <1>6, <1>7, <1>8, <1>9, <1>10,
    <1>11, <1>12, <1>13, <1>14 DEF CleanNext

\* A step of resolve() leaves what every other process holds alone.
LEMMA OthersRun ==
    ASSUME NEW p \in Procs, TypeOK, FrameOK, RunNext(p), UNCHANGED worldVars
    PROVE  OthersOK(p)'
  <1> USE DEF TypeOK, StoreTypeOK, FrameTypeOK, GcTypeOK, FrameOK, ProcOK,
             OthersOK
  <1>1. CASE resolve(p)
    BY <1>1 DEF resolve, Goto, storeVars, loopVars, gcVars
  <1>2. CASE read_manifest(p)
    BY <1>2 DEF read_manifest, Goto, storeVars, loopVars, workVars, gcVars
  <1>3. CASE image_config(p)
    BY <1>3 DEF image_config, Goto, storeVars, loopVars, workVars, gcVars
  <1>4. CASE mount(p)
    BY <1>4 DEF mount, Goto, storeVars, loopVars, workVars, gcVars
  <1> QED BY <1>1, <1>2, <1>3, <1>4 DEF RunNext

-----------------------------------------------------------------------------
(* The records, and the manifests of builds                                *)

\* A record is written with what the frame holds, and nothing else is.
LEMMA RecordRefs ==
    ASSUME NEW k \in Keys, NEW d, TypeOK, RefsOK,
           record_ref_open(k) \/ record_ref_fill(k, d),
           k \in References => d \notin BuildIds
    PROVE  RefsOK'
  <1> USE Distinct DEF RefsOK, TypeOK, StoreTypeOK, Keys
  <1>1. CASE record_ref_open(k)
    BY <1>1 DEF record_ref_open
  <1>2. CASE record_ref_fill(k, d)
    BY <1>2 DEF record_ref_fill
  <1> QED BY <1>1, <1>2

\* The built manifests stay what they are when nothing but known ones is
\* stored, recorded or taken in hand.
BlobsKnown ==
    \A b \in BuildIds :
        blobs'[b] # "none" => blobs[b] # "none" \/ built[b] \in Manifests
RefsKnown ==
    \A k \in Keys : refs'[k] \in BuildIds =>
        refs'[k] = refs[k] \/ built[refs'[k]] \in Manifests
ImgKnown ==
    \A q \in Procs : img'[q] \in BuildIds =>
        \/ img'[q] = img[q]
        \/ \E k \in Keys : img'[q] = refs[k]

\* A step that does no more than that leaves each built manifest its base.
LEMMA BuiltKept ==
    ASSUME BuiltOK, UNCHANGED built, BlobsKnown, RefsKnown, ImgKnown
    PROVE  BuiltOK'
  <1> SUFFICES ASSUME NEW b \in BuildIds,
                      \/ blobs'[b] # "none"
                      \/ \E k \in Keys : refs'[k] = b
                      \/ \E q \in Procs : img'[q] = b
               PROVE  built[b] \in Manifests
    BY DEF BuiltOK
  <1>1. CASE blobs'[b] # "none"
    BY <1>1 DEF BuiltOK, BlobsKnown
  <1>2. CASE \E k \in Keys : refs'[k] = b
    BY <1>2 DEF BuiltOK, RefsKnown
  <1>3. CASE \E q \in Procs : img'[q] = b
    BY <1>3 DEF BuiltOK, ImgKnown
  <1> QED BY <1>1, <1>2, <1>3

\* ensure() or fetch() returning lets go of the image at hand.
LEMMA ReturnsImg ==
    ASSUME NEW p \in Procs, TypeOK,
           \/ \E ok \in BOOLEAN : EnsureReturns(p, ok)
           \/ FetchReturns(p)
    PROVE  ImgKnown
  BY Distinct
  DEF ImgKnown, EnsureReturns, FetchReturns, ClearWork, TypeOK, FrameTypeOK

\* The steps of pull.rs record no build under an image reference.
LEMMA RefsPull ==
    ASSUME NEW p \in Procs, TypeOK, FrameOK, PullNext(p), UNCHANGED worldVars
    PROVE  RefsOK'
  <1> USE DEF FrameOK, RefsOK
  <1>1. CASE ensure(p)
    BY <1>1 DEF ensure, storeVars
  <1>2. CASE fetch(p)
    BY <1>2 DEF fetch, storeVars
  <1>3. CASE resolve_tag(p)
    BY <1>3 DEF resolve_tag, storeVars
  <1>4. CASE manifest_open(p)
    BY <1>4 DEF manifest_open
  <1>5. CASE manifest_fill(p)
    BY <1>5 DEF manifest_fill
  <1>6. CASE config(p)
    BY <1>6 DEF config
  <1>7. CASE config_download(p)
    BY <1>7 DEF config_download
  <1>8. CASE config_commit(p)
    BY <1>8 DEF config_commit
  <1>9. CASE pending(p)
    BY <1>9 DEF pending, storeVars
  <1>10. ASSUME NEW i \in Slots, layer_start(p, i) PROVE RefsOK'
    BY <1>10 DEF layer_start
  <1>11. ASSUME NEW i \in Slots, layer_download(p, i) PROVE RefsOK'
    BY <1>11 DEF layer_download, storeVars
  <1>12. ASSUME NEW i \in Slots, clear_staging(p, i) PROVE RefsOK'
    BY <1>12 DEF clear_staging
  <1>13. ASSUME NEW i \in Slots, open_temp(p, i) PROVE RefsOK'
    BY <1>13 DEF open_temp, storeVars
  <1>14. ASSUME NEW i \in Slots, NEW part \in Parts, unpack(p, i, part)
         PROVE RefsOK'
    BY <1>14 DEF unpack
  <1>15. ASSUME NEW i \in Slots, rename_layer(p, i) PROVE RefsOK'
    BY <1>15 DEF rename_layer
  <1>16. ASSUME NEW i \in Slots, layer_result(p, i) PROVE RefsOK'
    BY <1>16 DEF layer_result
  <1>17. CASE abort(p)
    BY <1>17 DEF abort
  <1>18. CASE ref_open(p)
    <2>1. record_ref_open(Reference[app[p]])
      BY <1>18 DEF ref_open
    <2> QED
      BY <2>1, Distinct
      DEF record_ref_open, FrameOK, RefsOK, TypeOK, StoreTypeOK, Keys
  <1>19. CASE ref_fill(p)
    <2>1. app[p] \in Apps /\ img[p] \notin BuildIds
      BY <1>19, Distinct
      DEF ref_fill, FrameOK, ProcOK, AppPcs, BasePcs, FetchPcs
    <2>2. Reference[app[p]] \in Keys
      BY <2>1, KeyTypes DEF Keys
    <2> QED BY <1>19, <2>1, <2>2, RecordRefs DEF ref_fill, FrameOK
  <1>20. CASE next_app(p)
    BY <1>20 DEF next_app, storeVars
  <1> QED BY <1>1, <1>2, <1>3, <1>4, <1>5, <1>6, <1>7, <1>8, <1>9, <1>10,
    <1>11, <1>12, <1>13, <1>14, <1>15, <1>16, <1>17, <1>18, <1>19, <1>20 DEF
    PullNext, extract_layer

\* The steps of build.rs record no build under an image reference.
LEMMA RefsBuild ==
    ASSUME NEW p \in Procs, TypeOK, FrameOK, BuildNext(p), UNCHANGED worldVars
    PROVE  RefsOK'
  <1> USE DEF FrameOK, RefsOK
  <1>1. CASE base_ref(p)
    BY <1>1 DEF base_ref, storeVars
  <1>2. CASE base_manifest(p)
    BY <1>2 DEF base_manifest, storeVars
  <1>3. CASE build_dirs(p)
    BY <1>3 DEF build_dirs
  <1>4. CASE run_script(p)
    BY <1>4 DEF run_script
  <1>5. ASSUME NEW part \in Parts, script_writes(p, part) PROVE RefsOK'
    BY <1>5 DEF script_writes
  <1>6. CASE script_fails(p)
    BY <1>6 DEF script_fails
  <1>7. CASE build_rename(p)
    BY <1>7 DEF build_rename
  <1>8. CASE build_open(p)
    BY <1>8 DEF build_open
  <1>9. CASE build_fill(p)
    BY <1>9 DEF build_fill
  <1>10. CASE build_ref_open(p)
    <2>1. record_ref_open(image_key(app[p]))
      BY <1>10 DEF build_ref_open
    <2> QED
      BY <2>1, Distinct
      DEF record_ref_open, FrameOK, RefsOK, TypeOK, StoreTypeOK, Keys
  <1>11. CASE build_ref_fill(p)
    <2>1. app[p] \in InstallApps
      BY <1>11 DEF build_ref_fill, FrameOK, ProcOK, BuildPcs, BuildingPcs
    <2>2. image_key(app[p]) = app[p] /\ app[p] \in Keys \ References
      BY <2>1, Distinct DEF image_key, Keys
    <2> QED BY <1>11, <2>2, RecordRefs DEF build_ref_fill, FrameOK
  <1> QED BY <1>1, <1>2, <1>3, <1>4, <1>5, <1>6, <1>7, <1>8, <1>9, <1>10,
    <1>11 DEF BuildNext

\* The steps of clean.rs record no build under an image reference.
LEMMA RefsClean ==
    ASSUME NEW p \in Procs, TypeOK, FrameOK, CleanNext(p), UNCHANGED worldVars
    PROVE  RefsOK'
  <1> USE DEF FrameOK, RefsOK
  <1>1. CASE orphans(p)
    BY <1>1 DEF orphans, storeVars
  <1>2. CASE drop_refs(p)
    <2>1. \A r \in References : refs'[r] \in {refs[r], NoRef}
      BY <1>2 DEF drop_refs, TypeOK, StoreTypeOK, Keys
    <2> QED BY <2>1, Distinct DEF FrameOK, RefsOK
  <1>3. CASE gc_images(p)
    BY <1>3 DEF gc_images, storeVars
  <1>4. CASE live_ref(p)
    BY <1>4 DEF live_ref, storeVars
  <1>5. CASE live_manifest(p)
    BY <1>5 DEF live_manifest, storeVars
  <1>6. CASE list_blobs(p)
    BY <1>6 DEF list_blobs, storeVars
  <1>7. CASE gc_blob(p)
    BY <1>7 DEF gc_blob
  <1>8. CASE list_layers(p)
    BY <1>8 DEF list_layers, storeVars
  <1>9. CASE remove_tree(p)
    BY <1>9 DEF remove_tree, storeVars
  <1>10. CASE remove_part(p)
    BY <1>10 DEF remove_part
  <1>11. CASE remove_dir(p)
    BY <1>11 DEF remove_dir
  <1>12. CASE list_temps(p)
    BY <1>12 DEF list_temps, storeVars
  <1>13. CASE gc_temp(p)
    BY <1>13 DEF gc_temp
  <1>14. CASE gc_done(p)
    BY <1>14 DEF gc_done, storeVars
  <1> QED BY <1>1, <1>2, <1>3, <1>4, <1>5, <1>6, <1>7, <1>8, <1>9, <1>10,
    <1>11, <1>12, <1>13, <1>14 DEF CleanNext

\* The steps of pull.rs store, record and take up no built manifest
\* without a base.
LEMMA BuiltPull ==
    ASSUME NEW p \in Procs, TypeOK, FrameOK, PullNext(p), UNCHANGED worldVars
    PROVE  BuiltOK'
  <1>1. CASE ensure(p)
    <2>1. UNCHANGED <<built, blobs, refs>>
      BY <1>1 DEF ensure, storeVars, loopVars, workVars
    <2>2. ImgKnown
      BY <1>1, ReturnsImg DEF ensure, ImgKnown, workVars
    <2> QED
      BY <2>1, <2>2, BuiltKept DEF FrameOK, BlobsKnown, RefsKnown, ImgKnown
  <1>2. CASE fetch(p)
    <2>1. UNCHANGED <<built, blobs, refs>>
      BY <1>2 DEF fetch, storeVars, loopVars, workVars
    <2>2. ImgKnown
      BY <1>2, ReturnsImg DEF fetch, ImgKnown, workVars
    <2> QED
      BY <2>1, <2>2, BuiltKept DEF FrameOK, BlobsKnown, RefsKnown, ImgKnown
  <1>3. CASE resolve_tag(p)
    <2>1. UNCHANGED <<built, blobs, refs>>
      BY <1>3 DEF resolve_tag, storeVars
    <2>2. CASE EnsureReturns(p, FALSE)
      BY <2>1, <2>2, ReturnsImg, BuiltKept DEF FrameOK, BlobsKnown, RefsKnown
    <2>3. CASE img' = [img EXCEPT ![p] = tag[Reference[app[p]]]]
      <3>1. app[p] \in Apps
        BY <1>3 DEF resolve_tag, FrameOK, ProcOK, AppPcs
      <3>2. tag[Reference[app[p]]] \notin BuildIds
        BY <3>1, KeyTypes, Distinct DEF TypeOK, StoreTypeOK
      <3>3. ImgKnown
        BY <2>3, <3>2 DEF ImgKnown, TypeOK, FrameTypeOK
      <3> QED BY <2>1, <3>3, BuiltKept DEF FrameOK, BlobsKnown, RefsKnown
    <2> QED BY <1>3, <2>2, <2>3 DEF resolve_tag
  <1>4. CASE manifest_open(p)
    <2>1. UNCHANGED <<built, refs, img>>
      BY <1>4 DEF manifest_open, workVars
    <2>2. img[p] \notin BuildIds
      BY <1>4, Distinct DEF manifest_open, FrameOK, ProcOK, BasePcs, FetchPcs
    <2>3. BlobsKnown
      BY <1>4, <2>2
      DEF manifest_open, write_blob_open, BlobsKnown, TypeOK, StoreTypeOK
    <2> QED BY <2>1, <2>3, BuiltKept DEF FrameOK, RefsKnown, ImgKnown
  <1>5. CASE manifest_fill(p)
    <2>1. UNCHANGED <<built, refs, img>>
      BY <1>5 DEF manifest_fill, workVars
    <2>2. img[p] \notin BuildIds
      BY <1>5, Distinct DEF manifest_fill, FrameOK, ProcOK, BasePcs, FetchPcs
    <2>3. BlobsKnown
      BY <1>5, <2>2
      DEF manifest_fill, write_blob_fill, BlobsKnown, TypeOK, StoreTypeOK
    <2> QED BY <2>1, <2>3, BuiltKept DEF FrameOK, RefsKnown, ImgKnown
  <1>6. CASE config(p)
    BY <1>6 DEF config, FrameOK, BuiltOK, storeVars, workVars, loopVars
  <1>7. CASE config_download(p)
    <2>1. UNCHANGED <<built, blobs, refs>>
      BY <1>7 DEF config_download, storeVars, loopVars, workVars
    <2>2. ImgKnown
      BY <1>7, ReturnsImg DEF config_download, ImgKnown, workVars
    <2> QED
      BY <2>1, <2>2, BuiltKept DEF FrameOK, BlobsKnown, RefsKnown, ImgKnown
  <1>8. CASE config_commit(p)
    <2>1. UNCHANGED <<built, refs>>
      BY <1>8 DEF config_commit
    <2>2. img[p] \in Manifests
      BY <1>8 DEF config_commit, FrameOK, ProcOK, BasePcs, FetchPcs
    <2>3. PICK c \in Configs \ BuildIds :
            UNCHANGED blobs \/ blobs' = [blobs EXCEPT ![c] = "ok"]
      BY <1>8, <2>2, Distinct, ConstantsAssumption
      DEF config_commit, ConfigOf, BaseOf
    <2>4. BlobsKnown
      BY <2>3, Distinct DEF BlobsKnown, TypeOK, StoreTypeOK
    <2>5. ImgKnown
      BY <1>8, ReturnsImg DEF config_commit, ImgKnown, workVars
    <2> QED BY <2>1, <2>4, <2>5, BuiltKept DEF FrameOK, RefsKnown
  <1>9. CASE pending(p)
    BY <1>9 DEF pending, FrameOK, BuiltOK, storeVars, workVars, loopVars
  <1>10. ASSUME NEW i \in Slots, layer_start(p, i) PROVE BuiltOK'
    BY <1>10 DEF layer_start, FrameOK, BuiltOK, storeVars, workVars, loopVars
  <1>11. ASSUME NEW i \in Slots, layer_download(p, i) PROVE BuiltOK'
    BY <1>11 DEF layer_download, FrameOK, BuiltOK, storeVars, workVars,
      loopVars
  <1>12. ASSUME NEW i \in Slots, clear_staging(p, i) PROVE BuiltOK'
    BY <1>12 DEF clear_staging, FrameOK, BuiltOK, storeVars, workVars,
      loopVars
  <1>13. ASSUME NEW i \in Slots, open_temp(p, i) PROVE BuiltOK'
    BY <1>13 DEF open_temp, FrameOK, BuiltOK, storeVars, workVars, loopVars
  <1>14. ASSUME NEW i \in Slots, NEW part \in Parts, unpack(p, i, part)
         PROVE BuiltOK'
    BY <1>14 DEF unpack, FrameOK, BuiltOK, storeVars, workVars, loopVars
  <1>15. ASSUME NEW i \in Slots, rename_layer(p, i) PROVE BuiltOK'
    BY <1>15 DEF rename_layer, FrameOK, BuiltOK, storeVars, workVars, loopVars
  <1>16. ASSUME NEW i \in Slots, layer_result(p, i) PROVE BuiltOK'
    BY <1>16 DEF layer_result, FrameOK, BuiltOK, storeVars, workVars, loopVars
  <1>17. CASE abort(p)
    <2>1. UNCHANGED <<built, blobs, refs>>
      BY <1>17 DEF abort, storeVars, loopVars, workVars
    <2>2. ImgKnown
      BY <1>17, ReturnsImg DEF abort, ImgKnown, workVars
    <2> QED
      BY <2>1, <2>2, BuiltKept DEF FrameOK, BlobsKnown, RefsKnown, ImgKnown
  <1>18. CASE ref_open(p)
    <2>1. UNCHANGED <<built, blobs, img>>
      BY <1>18 DEF ref_open, storeVars, loopVars, workVars
    <2>2. RefsKnown
      BY <1>18, Distinct
      DEF ref_open, record_ref_open, RefsKnown, TypeOK, StoreTypeOK
    <2> QED
      BY <2>1, <2>2, BuiltKept DEF FrameOK, BlobsKnown, RefsKnown, ImgKnown
  <1>19. CASE ref_fill(p)
    <2>1. UNCHANGED <<built, blobs>>
      BY <1>19 DEF ref_fill
    <2>2. img[p] \notin BuildIds
      BY <1>19, Distinct DEF ref_fill, FrameOK, ProcOK, BasePcs, FetchPcs
    <2>3. RefsKnown
      BY <1>19, <2>2, Distinct
      DEF ref_fill, record_ref_fill, RefsKnown, TypeOK, StoreTypeOK
    <2>4. ImgKnown
      BY <1>19, ReturnsImg DEF ref_fill
    <2> QED BY <2>1, <2>3, <2>4, BuiltKept DEF FrameOK, BlobsKnown
  <1>20. CASE next_app(p)
    BY <1>20 DEF next_app, FrameOK, BuiltOK, storeVars, workVars, loopVars
  <1> QED BY <1>1, <1>2, <1>3, <1>4, <1>5, <1>6, <1>7, <1>8, <1>9, <1>10,
    <1>11, <1>12, <1>13, <1>14, <1>15, <1>16, <1>17, <1>18, <1>19, <1>20 DEF
    PullNext, extract_layer

\* The steps of build.rs store, record and take up no built manifest
\* without a base.
LEMMA BuiltBuild ==
    ASSUME NEW p \in Procs, TypeOK, FrameOK, BuildNext(p), UNCHANGED worldVars
    PROVE  BuiltOK'
  <1>1. CASE base_ref(p)
    <2>1. UNCHANGED <<built, blobs, refs>>
      BY <1>1 DEF base_ref, storeVars
    <2>2. app[p] \in Apps
      BY <1>1 DEF base_ref, FrameOK, ProcOK, AppPcs
    <2>3. Reference[app[p]] \in Keys
      BY <2>2, KeyTypes DEF Keys
    <2>4. ImgKnown
      BY <1>1, <2>3, ReturnsImg
      DEF base_ref, BuildFails, ImgKnown, TypeOK, FrameTypeOK
    <2> QED BY <2>1, <2>4, BuiltKept DEF FrameOK, BlobsKnown, RefsKnown
  <1>2. CASE base_manifest(p)
    <2>1. UNCHANGED <<built, blobs, refs>>
      BY <1>2 DEF base_manifest, storeVars, loopVars, workVars
    <2>2. ImgKnown
      BY <1>2, ReturnsImg DEF base_manifest, ImgKnown, workVars, BuildFails
    <2> QED
      BY <2>1, <2>2, BuiltKept DEF FrameOK, BlobsKnown, RefsKnown, ImgKnown
  <1>3. CASE build_dirs(p)
    <2>1. CASE BuildFails(p) /\ UNCHANGED <<built, dirs>>
      <3>1. ImgKnown
        BY <2>1, ReturnsImg DEF BuildFails
      <3> QED
        BY <1>3, <2>1, <3>1, BuiltKept
        DEF build_dirs, FrameOK, BlobsKnown, RefsKnown
    <2>2. ASSUME NEW b \in BuildIds, Fresh(b),
                 built' = [built EXCEPT ![b] = img[p]], UNCHANGED img
          PROVE  BuiltOK'
      <3>1. \A c \in BuildIds \ {b} : built'[c] = built[c]
        BY <2>2 DEF TypeOK, StoreTypeOK
      <3> QED BY <1>3, <2>2, <3>1 DEF build_dirs, Fresh, FrameOK, BuiltOK
    <2> QED BY <1>3, <2>1, <2>2 DEF build_dirs
  <1>4. CASE run_script(p)
    <2>1. UNCHANGED <<built, blobs, refs>>
      BY <1>4 DEF run_script, storeVars, loopVars, workVars
    <2>2. ImgKnown
      BY <1>4, ReturnsImg DEF run_script, ImgKnown, workVars, BuildFails
    <2> QED
      BY <2>1, <2>2, BuiltKept DEF FrameOK, BlobsKnown, RefsKnown, ImgKnown
  <1>5. ASSUME NEW part \in Parts, script_writes(p, part) PROVE BuiltOK'
    BY <1>5 DEF script_writes, FrameOK, BuiltOK, storeVars, workVars, loopVars
  <1>6. CASE script_fails(p)
    <2>1. UNCHANGED <<built, blobs, refs>>
      BY <1>6 DEF script_fails, storeVars, loopVars, workVars
    <2>2. ImgKnown
      BY <1>6, ReturnsImg DEF script_fails, ImgKnown, workVars, BuildFails
    <2> QED
      BY <2>1, <2>2, BuiltKept DEF FrameOK, BlobsKnown, RefsKnown, ImgKnown
  <1>7. CASE build_rename(p)
    <2>1. UNCHANGED <<built, blobs, refs>>
      BY <1>7 DEF build_rename, storeVars, loopVars, workVars
    <2>2. ImgKnown
      BY <1>7, ReturnsImg DEF build_rename, ImgKnown, workVars, BuildFails
    <2> QED
      BY <2>1, <2>2, BuiltKept DEF FrameOK, BlobsKnown, RefsKnown, ImgKnown
  <1>8. CASE build_open(p)
    <2>1. UNCHANGED <<built, refs, img>>
      BY <1>8 DEF build_open, workVars
    <2>2. built[bid[p]] \in Manifests
      BY <1>8 DEF build_open, FrameOK, ProcOK, BuildingPcs
    <2>3. BlobsKnown
      BY <1>8, <2>2
      DEF build_open, write_blob_open, BlobsKnown, TypeOK, StoreTypeOK
    <2> QED BY <2>1, <2>3, BuiltKept DEF FrameOK, RefsKnown, ImgKnown
  <1>9. CASE build_fill(p)
    <2>1. UNCHANGED <<built, refs, img>>
      BY <1>9 DEF build_fill, workVars
    <2>2. built[bid[p]] \in Manifests
      BY <1>9 DEF build_fill, FrameOK, ProcOK, BuildingPcs
    <2>3. BlobsKnown
      BY <1>9, <2>2
      DEF build_fill, write_blob_fill, BlobsKnown, TypeOK, StoreTypeOK
    <2> QED BY <2>1, <2>3, BuiltKept DEF FrameOK, RefsKnown, ImgKnown
  <1>10. CASE build_ref_open(p)
    <2>1. UNCHANGED <<built, blobs, img>>
      BY <1>10 DEF build_ref_open, storeVars, loopVars, workVars
    <2>2. RefsKnown
      BY <1>10, Distinct
      DEF build_ref_open, record_ref_open, RefsKnown, TypeOK, StoreTypeOK
    <2> QED
      BY <2>1, <2>2, BuiltKept DEF FrameOK, BlobsKnown, RefsKnown, ImgKnown
  <1>11. CASE build_ref_fill(p)
    <2>1. UNCHANGED <<built, blobs>>
      BY <1>11 DEF build_ref_fill
    <2>2. built[bid[p]] \in Manifests
      BY <1>11 DEF build_ref_fill, FrameOK, ProcOK, BuildingPcs
    <2>3. RefsKnown
      BY <1>11, <2>2, Distinct
      DEF build_ref_fill, record_ref_fill, RefsKnown, TypeOK, StoreTypeOK
    <2>4. ImgKnown
      BY <1>11, ReturnsImg DEF build_ref_fill
    <2> QED BY <2>1, <2>3, <2>4, BuiltKept DEF FrameOK, BlobsKnown
  <1> QED BY <1>1, <1>2, <1>3, <1>4, <1>5, <1>6, <1>7, <1>8, <1>9, <1>10,
    <1>11 DEF BuildNext

\* The steps of clean.rs store, record and take up no built manifest
\* without a base.
LEMMA BuiltClean ==
    ASSUME NEW p \in Procs, TypeOK, FrameOK, CleanNext(p), UNCHANGED worldVars
    PROVE  BuiltOK'
  <1>1. CASE orphans(p)
    BY <1>1 DEF orphans, FrameOK, BuiltOK, storeVars, workVars, loopVars
  <1>2. CASE drop_refs(p)
    <2>1. UNCHANGED <<built, blobs, img>>
      BY <1>2 DEF drop_refs, storeVars, loopVars, workVars
    <2>2. RefsKnown
      BY <1>2, Distinct DEF drop_refs, RefsKnown, TypeOK, StoreTypeOK
    <2> QED
      BY <2>1, <2>2, BuiltKept DEF FrameOK, BlobsKnown, RefsKnown, ImgKnown
  <1>3. CASE gc_images(p)
    BY <1>3 DEF gc_images, FrameOK, BuiltOK, storeVars, workVars, loopVars
  <1>4. CASE live_ref(p)
    <2>1. UNCHANGED <<built, blobs, refs>>
      BY <1>4 DEF live_ref, storeVars, loopVars, workVars
    <2>2. ImgKnown
      BY <1>4 DEF live_ref, ImgKnown, FrameTypeOK, TypeOK, GcTypeOK
    <2> QED
      BY <2>1, <2>2, BuiltKept DEF FrameOK, BlobsKnown, RefsKnown, ImgKnown
  <1>5. CASE live_manifest(p)
    <2>1. UNCHANGED <<built, blobs, refs>>
      BY <1>5 DEF live_manifest, storeVars, loopVars, workVars
    <2>2. ImgKnown
      BY <1>5, Distinct DEF live_manifest, ImgKnown, TypeOK, FrameTypeOK
    <2> QED
      BY <2>1, <2>2, BuiltKept DEF FrameOK, BlobsKnown, RefsKnown, ImgKnown
  <1>6. CASE list_blobs(p)
    BY <1>6 DEF list_blobs, FrameOK, BuiltOK, storeVars, workVars, loopVars
  <1>7. CASE gc_blob(p)
    <2>1. UNCHANGED <<built, refs, img>>
      BY <1>7 DEF gc_blob, storeVars, loopVars, workVars
    <2>2. BlobsKnown
      BY <1>7 DEF gc_blob, BlobsKnown, TypeOK, StoreTypeOK
    <2> QED
      BY <2>1, <2>2, BuiltKept DEF FrameOK, BlobsKnown, RefsKnown, ImgKnown
  <1>8. CASE list_layers(p)
    BY <1>8 DEF list_layers, FrameOK, BuiltOK, storeVars, workVars, loopVars
  <1>9. CASE remove_tree(p)
    BY <1>9 DEF remove_tree, FrameOK, BuiltOK, storeVars, workVars, loopVars
  <1>10. CASE remove_part(p)
    BY <1>10 DEF remove_part, FrameOK, BuiltOK, storeVars, workVars, loopVars
  <1>11. CASE remove_dir(p)
    BY <1>11 DEF remove_dir, FrameOK, BuiltOK, storeVars, workVars, loopVars
  <1>12. CASE list_temps(p)
    BY <1>12 DEF list_temps, FrameOK, BuiltOK, storeVars, workVars, loopVars
  <1>13. CASE gc_temp(p)
    BY <1>13 DEF gc_temp, FrameOK, BuiltOK, storeVars, workVars, loopVars
  <1>14. CASE gc_done(p)
    BY <1>14 DEF gc_done, FrameOK, BuiltOK, storeVars, workVars, loopVars
  <1> QED BY <1>1, <1>2, <1>3, <1>4, <1>5, <1>6, <1>7, <1>8, <1>9, <1>10,
    <1>11, <1>12, <1>13, <1>14 DEF CleanNext

\* The steps of resolve() store, record and take up no built manifest
\* without a base.
LEMMA BuiltRun ==
    ASSUME NEW p \in Procs, TypeOK, FrameOK, RunNext(p), UNCHANGED worldVars
    PROVE  BuiltOK'
  <1>1. CASE resolve(p)
    <2>1. UNCHANGED <<built, blobs, refs>>
      BY <1>1 DEF resolve, storeVars
    <2>2. app[p] \in Apps
      BY <1>1 DEF resolve, FrameOK, ProcOK, AppPcs
    <2>3. image_key(app[p]) \in Keys
      BY <2>2, KeyTypes
    <2>4. ImgKnown
      BY <1>1, <2>3 DEF resolve, ImgKnown, TypeOK, FrameTypeOK
    <2> QED BY <2>1, <2>4, BuiltKept DEF FrameOK, BlobsKnown, RefsKnown
  <1>2. CASE read_manifest(p)
    BY <1>2 DEF read_manifest, FrameOK, BuiltOK, storeVars, workVars, loopVars
  <1>3. CASE image_config(p)
    BY <1>3 DEF image_config, FrameOK, BuiltOK, storeVars, workVars, loopVars
  <1>4. CASE mount(p)
    BY <1>4 DEF mount, FrameOK, BuiltOK, storeVars, workVars, loopVars
  <1> QED BY <1>1, <1>2, <1>3, <1>4 DEF RunNext

-----------------------------------------------------------------------------

\* A process that exits or is killed.
LEMMA TerminateFrame ==
    ASSUME NEW p \in Procs, TypeOK, FrameOK, Terminate(p)
    PROVE  FrameOK'
  <1>1. ProcOK(p)'
    <2>1. pc'[p] = "idle" /\ task'[p] = NoTasks /\ doomed'[p] = None
      BY DEF Terminate, Goto, ClearWork, TypeOK, FrameTypeOK, GcTypeOK
    <2> QED
      BY <2>1
      DEF ProcOK, NoTasks, AppPcs, BasePcs, FetchPcs, BuildingPcs, BuildPcs,
          ResolvedPcs
  <1>2. ASSUME NEW q \in Procs \ {p}
        PROVE  ProcOK(q)'
    <2>1. victims[q] \subseteq Dirs => victims'[q] \subseteq Dirs
      BY AbandonDirs DEF Terminate
    <2>2. UNCHANGED <<pc[q], app[q], img[q], bid[q], task[q], doomed[q], built>>
      BY DEF Terminate, Goto, ClearWork, TypeOK, FrameTypeOK, GcTypeOK
    <2> QED BY <2>1, <2>2 DEF FrameOK, ProcOK
  <1>3. RefsOK' /\ BuiltOK'
    <2>1. ImgKnown
      BY Distinct DEF Terminate, ClearWork, ImgKnown, TypeOK, FrameTypeOK
    <2> QED
      BY <2>1, BuiltKept DEF Terminate, FrameOK, RefsOK, BlobsKnown, RefsKnown
  <1> QED BY <1>1, <1>2, <1>3 DEF FrameOK

\* A process that starts a command.
LEMMA StartFrame ==
    ASSUME NEW p \in Procs, NEW c \in Commands, TypeOK, FrameOK,
           start(p, c) \/ \E a \in Apps : start_app(p, c, a)
    PROVE  FrameOK'
  <1>1. UNCHANGED <<img, bid, task, doomed, victims, refs, blobs, built>>
    BY DEF start, start_app, workVars, gcVars, storeVars
  <1>2. /\ pc[p] = "idle"
        /\ \/ pc'[p] \in {"orphans", "next_app"}
           \/ pc'[p] = "ensure" /\ app'[p] \in Apps
        /\ \A q \in Procs \ {p} : UNCHANGED <<pc[q], app[q]>>
    BY DEF start, start_app, Goto, TypeOK, FrameTypeOK
  <1>3. ProcOK(p)'
    BY <1>1, <1>2
    DEF FrameOK, ProcOK, AppPcs, BasePcs, FetchPcs, BuildingPcs, BuildPcs,
        ResolvedPcs
  <1>4. \A q \in Procs \ {p} : ProcOK(q)'
    BY <1>1, <1>2 DEF FrameOK, ProcOK
  <1> QED BY <1>1, <1>3, <1>4 DEF FrameOK, RefsOK, BuiltOK

\* Every step keeps what the processes hold.
LEMMA FrameStep ==
    ASSUME TypeOK, FrameOK, [Next]_vars
    PROVE  FrameOK'
  <1>1. ASSUME NEW p \in Procs,
               PullNext(p) \/ BuildNext(p) \/ CleanNext(p) \/ RunNext(p),
               UNCHANGED worldVars
        PROVE  FrameOK'
    <2>1. ProcOK(p)'
      BY <1>1, ProcPull, ProcBuild, ProcClean, ProcRun
    <2>2. \A q \in Procs \ {p} : ProcOK(q)'
      BY <1>1, OthersPull, OthersBuild, OthersClean, OthersRun DEF OthersOK
    <2>3. RefsOK'
      <3>1. CASE RunNext(p)
        BY <3>1
        DEF RunNext, resolve, read_manifest, image_config, mount, storeVars,
            FrameOK, RefsOK
      <3> QED BY <1>1, <3>1, RefsPull, RefsBuild, RefsClean
    <2>4. BuiltOK'
      BY <1>1, BuiltPull, BuiltBuild, BuiltClean, BuiltRun
    <2> QED BY <2>1, <2>2, <2>3, <2>4 DEF FrameOK
  <1>2. ASSUME NEW p \in Procs, exit(p) \/ kill(p)
        PROVE  FrameOK'
    BY <1>2, TerminateFrame DEF exit, kill
  <1>3. ASSUME NEW p \in Procs, app_exits(p)
        PROVE  FrameOK'
    <2>1. /\ pc'[p] = "exit" /\ pc[p] = "running"
          /\ \A q \in Procs \ {p} : pc'[q] = pc[q]
      BY <1>3 DEF app_exits, Goto, TypeOK, FrameTypeOK
    <2>2. UNCHANGED <<storeVars, loopVars, workVars, gcVars>>
      BY <1>3 DEF app_exits
    <2>3. ProcOK(p)'
      BY <2>1, <2>2
      DEF FrameOK, ProcOK, storeVars, loopVars, workVars, gcVars, AppPcs,
          BasePcs, FetchPcs, BuildingPcs, BuildPcs, ResolvedPcs
    <2>4. \A q \in Procs \ {p} : ProcOK(q)'
      BY <2>1, <2>2
      DEF FrameOK, ProcOK, storeVars, loopVars, workVars, gcVars
    <2> QED
      BY <2>2, <2>3, <2>4 DEF FrameOK, RefsOK, BuiltOK, storeVars, workVars
  <1>4. CASE \/ UNCHANGED vars
             \/ \E r \in References : publish(r)
             \/ \E a \in Apps : edit(a)
    <2>1. UNCHANGED <<storeVars, pc, loopVars, workVars, gcVars>>
      BY <1>4 DEF publish, edit, vars
    <2> QED
      BY <2>1
      DEF FrameOK, ProcOK, RefsOK, BuiltOK, storeVars, loopVars, workVars, gcVars
  <1> QED BY <1>1, <1>2, <1>3, <1>4, StartFrame DEF Next, Step

-----------------------------------------------------------------------------
(* The collector and the records that do not change                        *)

\* The stable records of q, and the builds they name, stay as they are.
RecordsKept(q) ==
    \A k \in stable'[q] :
        /\ k \in stable[q]
        /\ refs'[k] = refs[k]
        /\ refs[k] \in BuildIds => built'[refs[k]] = built[refs[k]]

\* A collection of q goes on undisturbed: at most a temporary file it is about
\* to delete has become one without an owner.
CollectionKept(q) ==
    /\ pc'[q] = pc[q] /\ img'[q] = img[q] /\ doomed'[q] = doomed[q]
    /\ gcKeys'[q] = gcKeys[q]
    /\ liveBlobs'[q] = liveBlobs[q] /\ liveLayers'[q] = liveLayers[q]
    /\ \A v \in victims'[q] : v \in victims[q] \/ v = <<"temp", Leftover>>

\* What a step of p does to the others' collections, and one that is not part
\* of a collection itself
OthersKept(p) == \A q \in Procs \ {p} : RecordsKept(q) /\ CollectionKept(q)
Aside(p) == pc'[p] \notin GcPcs /\ OthersKept(p)

\* The image of an unchanged record needs the same blobs and layers.
LEMMA CoveredKept ==
    ASSUME NEW q \in Procs, NEW d,
           d \in BuildIds => built'[d] = built[d],
           liveBlobs[q] \subseteq liveBlobs'[q],
           liveLayers[q] \subseteq liveLayers'[q],
           Covered(q, d)
    PROVE  Covered(q, d)'
  <1>1. (BaseOf(d))' = BaseOf(d)
    BY DEF BaseOf
  <1>2. (ConfigOf(d))' = ConfigOf(d)
    BY <1>1 DEF ConfigOf
  <1>3. (LayersOf(d))' = LayersOf(d)
    BY <1>1 DEF LayersOf
  <1> QED BY <1>2, <1>3 DEF Covered

\* So a collection left alone keeps its invariant.
LEMMA KeptOK ==
    ASSUME NEW q \in Procs, RecordsKept(q), CollectionKept(q),
           CoverOK(q), SpareOK(q)
    PROVE  CoverOK(q)' /\ SpareOK(q)'
  <1>1. CoverOK(q)'
    <2> SUFFICES ASSUME pc'[q] \in GcPcs,
                        NEW k \in stable'[q], refs'[k] \in Images
                 PROVE  \/ /\ pc'[q] \in {"live_ref", "live_manifest"}
                           /\ k \in gcKeys'[q]
                        \/ /\ pc'[q] = "live_manifest"
                           /\ refs'[k] = img'[q] /\ img'[q] \in liveBlobs'[q]
                        \/ Covered(q, refs[k])'
      BY DEF CoverOK, RecordsKept
    <2>1. Covered(q, refs[k]) => Covered(q, refs[k])'
      BY CoveredKept DEF RecordsKept, CollectionKept
    <2> QED BY <2>1 DEF CoverOK, RecordsKept, CollectionKept
  <1>2. SpareOK(q)'
    BY DEF SpareOK, CollectionKept, layer_path
  <1> QED BY <1>1, <1>2

\* A process outside of a collection has nothing to keep.
LEMMA OutsideOK ==
    ASSUME NEW p \in Procs, pc[p] \notin GcPcs
    PROVE  CoverOK(p) /\ SpareOK(p)
  BY DEF CoverOK, SpareOK, GcPcs

\* Temporary files without an owner stay temporary files.
LEMMA AbandonVictims ==
    ASSUME NEW p \in Procs, NEW q \in Procs \ {p}, TypeOK, Abandon(p)
    PROVE  \A v \in victims'[q] : v \in victims[q] \/ v = <<"temp", Leftover>>
  BY DEF Abandon, TypeOK, GcTypeOK

\* The steps of pull.rs do not disturb the collections of others, and
\* are not part of one.
LEMMA AsidePull ==
    ASSUME NEW p \in Procs, TypeOK, FrameOK, PullNext(p), UNCHANGED worldVars
    PROVE  Aside(p)
  <1> USE DEF Aside, OthersKept, RecordsKept, CollectionKept, TypeOK,
             StoreTypeOK, FrameTypeOK, GcTypeOK, GcPcs, Deleting
  <1>1. CASE ensure(p)
    BY <1>1 DEF ensure, EnsureReturns, Goto, loopVars, workVars, storeVars,
      gcVars, ClearWork
  <1>2. CASE fetch(p)
    BY <1>2 DEF fetch, FetchReturns, Goto, loopVars, workVars, storeVars,
      gcVars, ClearWork, EnsureReturns
  <1>3. CASE resolve_tag(p)
    BY <1>3 DEF resolve_tag, Goto, loopVars, EnsureReturns, storeVars, gcVars,
      ClearWork
  <1>4. CASE manifest_open(p)
    BY <1>4 DEF manifest_open, Goto, loopVars, workVars, gcVars
  <1>5. CASE manifest_fill(p)
    BY <1>5 DEF manifest_fill, Goto, loopVars, workVars, gcVars
  <1>6. CASE config(p)
    BY <1>6 DEF config, Goto, loopVars, workVars, gcVars
  <1>7. CASE config_download(p)
    <2>1. UNCHANGED <<stable, refs, built, gcKeys, liveBlobs, liveLayers, doomed>>
      BY <1>7 DEF config_download
    <2>2. CASE Abandon(p) /\ EnsureReturns(p, FALSE)
      <3>1. \A q \in Procs \ {p} : \A v \in victims'[q] :
              v \in victims[q] \/ v = <<"temp", Leftover>>
        BY <2>2, AbandonVictims
      <3> QED BY <2>1, <2>2, <3>1 DEF EnsureReturns, Goto, ClearWork
    <2>3. CASE /\ Goto(p, "config_commit")
               /\ UNCHANGED <<loopVars, workVars, temps, victims>>
      BY <2>1, <2>3 DEF Goto, workVars
    <2> QED BY <1>7, <2>2, <2>3 DEF config_download
  <1>8. CASE config_commit(p)
    BY <1>8 DEF config_commit, Goto, loopVars, workVars, EnsureReturns,
      gcVars, ClearWork
  <1>9. CASE pending(p)
    BY <1>9 DEF pending, Goto, storeVars, loopVars, gcVars
  <1>10. ASSUME NEW i \in Slots, layer_start(p, i) PROVE Aside(p)
    BY <1>10 DEF layer_start, Task, loopVars, gcVars
  <1>11. ASSUME NEW i \in Slots, layer_download(p, i) PROVE Aside(p)
    BY <1>11 DEF layer_download, Task, storeVars, loopVars, gcVars
  <1>12. ASSUME NEW i \in Slots, clear_staging(p, i) PROVE Aside(p)
    BY <1>12 DEF clear_staging, Unpacking, Task, loopVars, gcVars
  <1>13. ASSUME NEW i \in Slots, open_temp(p, i) PROVE Aside(p)
    BY <1>13 DEF open_temp, Unpacking, Task, storeVars, loopVars, gcVars
  <1>14. ASSUME NEW i \in Slots, NEW part \in Parts, unpack(p, i, part)
         PROVE Aside(p)
    BY <1>14 DEF unpack, Unpacking, Task, loopVars, gcVars
  <1>15. ASSUME NEW i \in Slots, rename_layer(p, i) PROVE Aside(p)
    BY <1>15 DEF rename_layer, Unpacking, Task, loopVars, gcVars
  <1>16. ASSUME NEW i \in Slots, layer_result(p, i) PROVE Aside(p)
    BY <1>16 DEF layer_result, Task, Extracting, Goto, loopVars, gcVars
  <1>17. CASE abort(p)
    <2>1. UNCHANGED <<stable, refs, built, gcKeys, liveBlobs, liveLayers, doomed>>
      BY <1>17 DEF abort
    <2>2. \A q \in Procs \ {p} : \A v \in victims'[q] :
            v \in victims[q] \/ v = <<"temp", Leftover>>
      BY <1>17, AbandonVictims DEF abort
    <2> QED BY <1>17, <2>1, <2>2 DEF abort, EnsureReturns, Goto, ClearWork
  <1>18. CASE ref_open(p)
    BY <1>18 DEF ref_open, record_ref_open, Goto, loopVars, workVars
  <1>19. CASE ref_fill(p)
    BY <1>19 DEF ref_fill, record_ref_fill, FetchReturns, Goto, ClearWork,
      loopVars, EnsureReturns
  <1>20. CASE next_app(p)
    BY <1>20 DEF next_app, Goto, storeVars, workVars, gcVars
  <1> QED BY <1>1, <1>2, <1>3, <1>4, <1>5, <1>6, <1>7, <1>8, <1>9, <1>10,
    <1>11, <1>12, <1>13, <1>14, <1>15, <1>16, <1>17, <1>18, <1>19, <1>20 DEF
    PullNext, extract_layer

\* The steps of build.rs do not disturb the collections of others, and
\* are not part of one.
LEMMA AsideBuild ==
    ASSUME NEW p \in Procs, TypeOK, FrameOK, BuildNext(p), UNCHANGED worldVars
    PROVE  Aside(p)
  <1> USE DEF Aside, OthersKept, RecordsKept, CollectionKept, TypeOK,
             StoreTypeOK, FrameTypeOK, GcTypeOK, GcPcs, Deleting
  <1>1. CASE base_ref(p)
    BY <1>1 DEF base_ref, BuildFails, Goto, loopVars, storeVars, gcVars,
      EnsureReturns, ClearWork
  <1>2. CASE base_manifest(p)
    BY <1>2 DEF base_manifest, Goto, loopVars, workVars, BuildFails,
      storeVars, gcVars, EnsureReturns, ClearWork
  <1>3. CASE build_dirs(p)
    <2>1. UNCHANGED <<stable, refs, gcKeys, liveBlobs, liveLayers, doomed, victims>>
      BY <1>3 DEF build_dirs, gcVars
    <2>2. CASE BuildFails(p) /\ UNCHANGED <<built, dirs>>
      BY <2>1, <2>2 DEF BuildFails, EnsureReturns, Goto, ClearWork
    <2>3. ASSUME NEW b \in BuildIds, Fresh(b),
                 built' = [built EXCEPT ![b] = img[p]],
                 Goto(p, "run_script"), UNCHANGED <<loopVars, img, task>>
          PROVE  Aside(p)
      BY <2>1, <2>3 DEF Fresh, Goto
    <2> QED BY <1>3, <2>2, <2>3 DEF build_dirs
  <1>4. CASE run_script(p)
    BY <1>4 DEF run_script, Goto, loopVars, workVars, BuildFails, gcVars,
      EnsureReturns, ClearWork
  <1>5. ASSUME NEW part \in Parts, script_writes(p, part) PROVE Aside(p)
    BY <1>5 DEF script_writes, Goto, loopVars, workVars, gcVars
  <1>6. CASE script_fails(p)
    BY <1>6 DEF script_fails, BuildFails, gcVars, EnsureReturns, Goto,
      ClearWork
  <1>7. CASE build_rename(p)
    BY <1>7 DEF build_rename, Goto, loopVars, workVars, BuildFails, gcVars,
      EnsureReturns, ClearWork
  <1>8. CASE build_open(p)
    BY <1>8 DEF build_open, Goto, loopVars, workVars, gcVars
  <1>9. CASE build_fill(p)
    BY <1>9 DEF build_fill, Goto, loopVars, workVars, gcVars
  <1>10. CASE build_ref_open(p)
    BY <1>10 DEF build_ref_open, record_ref_open, Goto, loopVars, workVars
  <1>11. CASE build_ref_fill(p)
    BY <1>11 DEF build_ref_fill, record_ref_fill, EnsureReturns, Goto,
      ClearWork
  <1> QED BY <1>1, <1>2, <1>3, <1>4, <1>5, <1>6, <1>7, <1>8, <1>9, <1>10,
    <1>11 DEF BuildNext

\* The steps of resolve() do not disturb the collections of others, and
\* are not part of one.
LEMMA AsideRun ==
    ASSUME NEW p \in Procs, TypeOK, FrameOK, RunNext(p), UNCHANGED worldVars
    PROVE  Aside(p)
  <1> USE DEF Aside, OthersKept, RecordsKept, CollectionKept, TypeOK,
             StoreTypeOK, FrameTypeOK, GcTypeOK, GcPcs, Deleting
  <1>1. CASE resolve(p)
    BY <1>1 DEF resolve, Goto, storeVars, loopVars, gcVars
  <1>2. CASE read_manifest(p)
    BY <1>2 DEF read_manifest, Goto, storeVars, loopVars, workVars, gcVars
  <1>3. CASE image_config(p)
    BY <1>3 DEF image_config, Goto, storeVars, loopVars, workVars, gcVars
  <1>4. CASE mount(p)
    BY <1>4 DEF mount, Goto, storeVars, loopVars, workVars, gcVars
  <1> QED BY <1>1, <1>2, <1>3, <1>4 DEF RunNext

\* A collection (clean.rs) does not disturb another one.
LEMMA OthersKeptClean ==
    ASSUME NEW p \in Procs, TypeOK, FrameOK, CleanNext(p), UNCHANGED worldVars
    PROVE  OthersKept(p)
  <1> USE DEF OthersKept, RecordsKept, CollectionKept, TypeOK,
             StoreTypeOK, FrameTypeOK, GcTypeOK, GcPcs, Deleting
  <1>1. CASE orphans(p)
    BY <1>1 DEF orphans, Goto, storeVars, loopVars, workVars
  <1>2. CASE drop_refs(p)
    BY <1>2 DEF drop_refs, Goto, Exit, loopVars, workVars
  <1>3. CASE gc_images(p)
    BY <1>3 DEF gc_images, Goto, storeVars, loopVars, workVars
  <1>4. CASE live_ref(p)
    BY <1>4 DEF live_ref, Exit, Goto, storeVars, loopVars
  <1>5. CASE live_manifest(p)
    BY <1>5 DEF live_manifest, Goto, Exit, storeVars, loopVars
  <1>6. CASE list_blobs(p)
    BY <1>6 DEF list_blobs, List, storeVars, loopVars, workVars, Goto
  <1>7. CASE gc_blob(p)
    BY <1>7 DEF gc_blob, Exit, loopVars, workVars, Goto
  <1>8. CASE list_layers(p)
    BY <1>8 DEF list_layers, List, storeVars, loopVars, workVars, Goto
  <1>9. CASE remove_tree(p)
    BY <1>9 DEF remove_tree, Goto, storeVars, loopVars, workVars
  <1>10. CASE remove_part(p)
    BY <1>10 DEF remove_part, loopVars, workVars
  <1>11. CASE remove_dir(p)
    BY <1>11 DEF remove_dir, Goto, Exit, loopVars, workVars
  <1>12. CASE list_temps(p)
    BY <1>12 DEF list_temps, List, storeVars, loopVars, workVars, Goto
  <1>13. CASE gc_temp(p)
    BY <1>13 DEF gc_temp, Exit, loopVars, workVars, Goto
  <1>14. CASE gc_done(p)
    BY <1>14 DEF gc_done, Exit, storeVars, loopVars, workVars, gcVars, Goto
  <1> QED BY <1>1, <1>2, <1>3, <1>4, <1>5, <1>6, <1>7, <1>8, <1>9, <1>10,
    <1>11, <1>12, <1>13, <1>14 DEF CleanNext

-----------------------------------------------------------------------------
(* The collector itself                                                    *)

CollectorOK(p) == CoverOK(p) /\ SpareOK(p)

\* While the store is listed, only the images known to be in use matter.
LEMMA ListedCover ==
    ASSUME NEW p \in Procs, CoverOK(p), pc[p] \in GcPcs,
           pc[p] \in {"live_ref", "live_manifest"} => gcKeys[p] = {},
           pc[p] # "live_manifest",
           UNCHANGED <<stable, refs, built, liveBlobs, liveLayers>>
    PROVE  CoverOK(p)'
  <1> SUFFICES ASSUME NEW k \in stable[p], refs[k] \in Images
               PROVE  Covered(p, refs[k])'
    BY DEF CoverOK
  <1>1. Covered(p, refs[k])
    BY DEF CoverOK
  <1> QED BY <1>1, CoveredKept

\* Every step of clean.rs keeps the invariant of its own collection.
LEMMA CollectorClean ==
    ASSUME NEW p \in Procs, TypeOK, FrameOK, GcOK, CleanNext(p), UNCHANGED worldVars
    PROVE  CollectorOK(p)'
  <1>0. TypeOK /\ FrameTypeOK /\ StoreTypeOK /\ GcTypeOK /\ ProcOK(p)
        /\ CoverOK(p) /\ SpareOK(p)
    BY DEF TypeOK, FrameOK, GcOK
  <1> USE <1>0
  <1>1. CASE orphans(p)
    <2>1. pc'[p] \notin GcPcs
      BY <1>1 DEF orphans, Goto, Exit, FrameTypeOK, GcPcs, Deleting
    <2> QED BY <2>1 DEF CollectorOK, CoverOK, SpareOK, GcPcs
  <1>2. CASE drop_refs(p)
    <2>1. pc'[p] \notin GcPcs
      BY <1>2 DEF drop_refs, Goto, Exit, FrameTypeOK, GcPcs, Deleting
    <2> QED BY <2>1 DEF CollectorOK, CoverOK, SpareOK, GcPcs
  <1>3. CASE gc_images(p)
    <2>1. pc'[p] = "live_ref" /\ stable'[p] = gcKeys'[p]
      BY <1>3 DEF gc_images, Goto, FrameTypeOK, GcTypeOK
    <2> QED BY <2>1 DEF CollectorOK, CoverOK, SpareOK, Deleting
  <1>4. CASE live_ref(p)
    <2>1. /\ pc[p] = "live_ref"
          /\ UNCHANGED <<stable, refs, built, liveLayers>>
      BY <1>4 DEF live_ref, storeVars
    <2>2. PICK k \in gcKeys[p] :
            /\ gcKeys'[p] = gcKeys[p] \ {k}
            /\ \/ pc'[p] = "exit"
               \/ refs[k] = Empty /\ UNCHANGED <<liveBlobs, pc>>
               \/ /\ pc'[p] = "live_manifest"
                  /\ liveBlobs'[p] = liveBlobs[p] \cup {refs[k]}
                  /\ img'[p] = refs[k]
      BY <1>4 DEF live_ref, Exit, Goto, FrameTypeOK, GcTypeOK
    <2>3. CASE pc'[p] = "exit"
      BY <2>3 DEF CollectorOK, CoverOK, SpareOK, GcPcs, Deleting
    <2>4. CASE pc'[p] # "exit"
      <3>1. pc'[p] \in {"live_ref", "live_manifest"}
        BY <2>1, <2>2, <2>4
      <3>2. \A j \in stable[p] :
              refs[j] \in Images => j \in gcKeys[p] \/ Covered(p, refs[j])
        BY <2>1 DEF CoverOK, GcPcs
      <3>3. \A d : Covered(p, d) => Covered(p, d)'
        BY <2>1, <2>2, <2>4, CoveredKept
      <3>4. ASSUME NEW j \in stable'[p], refs'[j] \in Images
            PROVE  \/ j \in gcKeys'[p]
                   \/ /\ pc'[p] = "live_manifest"
                      /\ refs'[j] = img'[p] /\ img'[p] \in liveBlobs'[p]
                   \/ Covered(p, refs[j])'
        <4>1. CASE j = k
          BY <2>1, <2>2, <2>4, <3>4, <4>1, Distinct DEF Images
        <4>2. CASE j # k
          BY <2>1, <2>2, <3>2, <3>3, <3>4, <4>2
        <4> QED BY <4>1, <4>2
      <3>5. CoverOK(p)'
        BY <2>1, <3>1, <3>4 DEF CoverOK
      <3> QED BY <3>1, <3>5 DEF CollectorOK, SpareOK, Deleting
    <2> QED BY <2>3, <2>4
  <1>5. CASE live_manifest(p)
    <2>1. /\ pc[p] = "live_manifest"
          /\ UNCHANGED <<stable, refs, built, gcKeys>>
      BY <1>5 DEF live_manifest, storeVars
    <2>2. \/ pc'[p] = "exit"
          \/ /\ pc'[p] = "live_ref"
             /\ liveBlobs'[p] = liveBlobs[p] \cup {ConfigOf(img[p])}
             /\ liveLayers'[p] = liveLayers[p] \cup LayersOf(img[p])
      BY <1>5 DEF live_manifest, Exit, Goto, FrameTypeOK, GcTypeOK
    <2>3. CASE pc'[p] = "exit"
      BY <2>3 DEF CollectorOK, CoverOK, SpareOK, GcPcs, Deleting
    <2>4. CASE pc'[p] # "exit"
      <3>1. ASSUME NEW d, Covered(p, d) \/ (d = img[p] /\ d \in liveBlobs[p])
            PROVE  Covered(p, d)'
        <4>1. CASE Covered(p, d)
          BY <2>1, <2>2, <2>4, <4>1, CoveredKept
        <4>2. CASE d = img[p] /\ d \in liveBlobs[p]
          <5>1. (BaseOf(d))' = BaseOf(d)
            BY <2>1 DEF BaseOf
          <5>2. (ConfigOf(d))' = ConfigOf(d) /\ (LayersOf(d))' = LayersOf(d)
            BY <5>1 DEF ConfigOf, LayersOf
          <5> QED BY <2>2, <2>4, <4>2, <5>2 DEF Covered
        <4> QED BY <3>1, <4>1, <4>2
      <3>2. ASSUME NEW k \in stable'[p], refs'[k] \in Images
            PROVE  k \in gcKeys'[p] \/ Covered(p, refs[k])'
        <4>1. \/ k \in gcKeys[p]
              \/ refs[k] = img[p] /\ refs[k] \in liveBlobs[p]
              \/ Covered(p, refs[k])
          BY <2>1, <3>2 DEF CoverOK, GcPcs
        <4> QED BY <2>1, <3>1, <4>1
      <3>3. CoverOK(p)'
        BY <2>1, <2>2, <2>4, <3>2 DEF CoverOK
      <3> QED BY <2>2, <2>4, <3>3 DEF CollectorOK, SpareOK, Deleting
    <2> QED BY <2>3, <2>4
  <1>6. CASE list_blobs(p)
    <2>1. /\ pc[p] \in GcPcs /\ pc[p] # "live_manifest"
          /\ pc[p] = "live_ref" => gcKeys[p] = {}
          /\ UNCHANGED <<stable, refs, built, liveBlobs, liveLayers>>
      BY <1>6 DEF list_blobs, storeVars, GcPcs, Deleting
    <2>2. CoverOK(p)'
      BY <2>1, ListedCover
    <2>3. SpareOK(p)'
      <3>1. doomed'[p] = None
        BY <1>6 DEF list_blobs, ProcOK
      <3>2. victims'[p] =
              {<<"blob", b>> : b \in {c \in Blobs \ liveBlobs[p] : has_blob(c)}}
        BY <1>6 DEF list_blobs, List, GcTypeOK
      <3>3. \A l \in LayerIds : layer_path(l) \in Dirs
        BY DEF layer_path, Dirs
      <3> QED
        BY <2>1, <3>1, <3>2, <3>3, Distinct DEF SpareOK, layer_path, GcTypeOK
    <2> QED BY <2>2, <2>3 DEF CollectorOK
  <1>7. CASE gc_blob(p)
    <2>1. /\ pc[p] \in GcPcs /\ pc[p] # "live_manifest"
          /\ pc[p] = "live_ref" => gcKeys[p] = {}
          /\ UNCHANGED <<stable, refs, built, liveBlobs, liveLayers>>
      BY <1>7 DEF gc_blob, storeVars, GcPcs, Deleting
    <2>2. CoverOK(p)'
      BY <2>1, ListedCover
    <2>3. SpareOK(p)'
      BY <1>7, <2>1
      DEF gc_blob, SpareOK, Deleting, Goto, Exit, List, layer_path, FrameTypeOK,
          GcTypeOK, ProcOK
    <2> QED BY <2>2, <2>3 DEF CollectorOK
  <1>8. CASE list_layers(p)
    <2>1. /\ pc[p] \in GcPcs /\ pc[p] # "live_manifest"
          /\ pc[p] = "live_ref" => gcKeys[p] = {}
          /\ UNCHANGED <<stable, refs, built, liveBlobs, liveLayers>>
      BY <1>8 DEF list_layers, storeVars, GcPcs, Deleting
    <2>2. CoverOK(p)'
      BY <2>1, ListedCover
    <2>3. SpareOK(p)'
      <3>1. doomed'[p] = None
        BY <1>8 DEF list_layers, ProcOK
      <3>2. victims'[p] = {e \in Dirs : /\ dirs[e] # NoDir
                           /\ e \notin {layer_path(l) : l \in liveLayers[p]}}
        BY <1>8 DEF list_layers, List, GcTypeOK
      <3>3. \A l \in LayerIds : layer_path(l) \in Dirs
        BY DEF layer_path, Dirs
      <3>4. \A b : <<"blob", b>> \notin Dirs
        BY DEF Dirs
      <3> QED
        BY <2>1, <3>1, <3>2, <3>3, <3>4, Distinct DEF SpareOK, GcTypeOK
    <2> QED BY <2>2, <2>3 DEF CollectorOK
  <1>9. CASE remove_tree(p)
    <2>1. /\ pc[p] \in GcPcs /\ pc[p] # "live_manifest"
          /\ pc[p] = "live_ref" => gcKeys[p] = {}
          /\ UNCHANGED <<stable, refs, built, liveBlobs, liveLayers>>
      BY <1>9 DEF remove_tree, storeVars, GcPcs, Deleting
    <2>2. CoverOK(p)'
      BY <2>1, ListedCover
    <2>3. SpareOK(p)'
      <3>1. PICK e \in victims[p] :
              /\ victims'[p] = victims[p] \ {e}
              /\ doomed'[p] \in {doomed[p], e}
        BY <1>9 DEF remove_tree, GcTypeOK
      <3>2. pc[p] \in Deleting
        BY <1>9 DEF remove_tree, Deleting
      <3> QED BY <2>1, <3>1, <3>2 DEF SpareOK
    <2> QED BY <2>2, <2>3 DEF CollectorOK
  <1>10. CASE remove_part(p)
    <2>1. /\ pc[p] \in GcPcs /\ pc[p] # "live_manifest"
          /\ pc[p] = "live_ref" => gcKeys[p] = {}
          /\ UNCHANGED <<stable, refs, built, liveBlobs, liveLayers>>
      BY <1>10 DEF remove_part, storeVars, GcPcs, Deleting
    <2>2. CoverOK(p)'
      BY <2>1, ListedCover
    <2>3. SpareOK(p)'
      BY <1>10, <2>1 DEF remove_part, SpareOK
    <2> QED BY <2>2, <2>3 DEF CollectorOK
  <1>11. CASE remove_dir(p)
    <2>1. /\ pc[p] \in GcPcs /\ pc[p] # "live_manifest"
          /\ pc[p] = "live_ref" => gcKeys[p] = {}
          /\ UNCHANGED <<stable, refs, built, liveBlobs, liveLayers>>
      BY <1>11 DEF remove_dir, storeVars, GcPcs, Deleting
    <2>2. CoverOK(p)'
      BY <2>1, ListedCover
    <2>3. SpareOK(p)'
      <3>1. doomed'[p] = None /\ UNCHANGED victims /\ pc[p] \in Deleting
        BY <1>11 DEF remove_dir, GcTypeOK, Deleting
      <3>2. \A l \in LayerIds : layer_path(l) \in Dirs
        BY DEF layer_path, Dirs
      <3> QED BY <2>1, <3>1, <3>2, Distinct DEF SpareOK, GcTypeOK
    <2> QED BY <2>2, <2>3 DEF CollectorOK
  <1>12. CASE list_temps(p)
    <2>1. /\ pc[p] \in GcPcs /\ pc[p] # "live_manifest"
          /\ pc[p] = "live_ref" => gcKeys[p] = {}
          /\ UNCHANGED <<stable, refs, built, liveBlobs, liveLayers>>
      BY <1>12 DEF list_temps, storeVars, GcPcs, Deleting
    <2>2. CoverOK(p)'
      BY <2>1, ListedCover
    <2>3. SpareOK(p)'
      <3>1. doomed'[p] = None
        BY <1>12 DEF list_temps, ProcOK
      <3>2. victims'[p] = {<<"temp", t>> : t \in temps}
        BY <1>12 DEF list_temps, List, GcTypeOK
      <3>3. \A l \in LayerIds : layer_path(l) \in Dirs
        BY DEF layer_path, Dirs
      <3> QED
        BY <2>1, <3>1, <3>2, <3>3, Distinct DEF SpareOK, layer_path, GcTypeOK
    <2> QED BY <2>2, <2>3 DEF CollectorOK
  <1>13. CASE gc_temp(p)
    <2>1. /\ pc[p] \in GcPcs /\ pc[p] # "live_manifest"
          /\ pc[p] = "live_ref" => gcKeys[p] = {}
          /\ UNCHANGED <<stable, refs, built, liveBlobs, liveLayers>>
      BY <1>13 DEF gc_temp, storeVars, GcPcs, Deleting
    <2>2. CoverOK(p)'
      BY <2>1, ListedCover
    <2>3. SpareOK(p)'
      BY <1>13, <2>1
      DEF gc_temp, SpareOK, Deleting, Goto, Exit, List, layer_path, FrameTypeOK,
          GcTypeOK, ProcOK
    <2> QED BY <2>2, <2>3 DEF CollectorOK
  <1>14. CASE gc_done(p)
    <2>1. pc'[p] \notin GcPcs
      BY <1>14 DEF gc_done, Goto, Exit, FrameTypeOK, GcPcs, Deleting
    <2> QED BY <2>1 DEF CollectorOK, CoverOK, SpareOK, GcPcs
  <1> QED BY <1>1, <1>2, <1>3, <1>4, <1>5, <1>6, <1>7, <1>8, <1>9, <1>10,
    <1>11, <1>12, <1>13, <1>14 DEF CleanNext

-----------------------------------------------------------------------------
\* Every step keeps the collections' invariant.
LEMMA GcStep ==
    ASSUME TypeOK, FrameOK, GcOK, [Next]_vars
    PROVE  GcOK'
  <1>1. ASSUME NEW p \in Procs, Aside(p)
        PROVE  GcOK'
    <2>1. CoverOK(p)' /\ SpareOK(p)'
      BY <1>1 DEF Aside, CoverOK, SpareOK, GcPcs
    <2>2. ASSUME NEW q \in Procs \ {p}
          PROVE  CoverOK(q)' /\ SpareOK(q)'
      BY <1>1, KeptOK DEF Aside, OthersKept, GcOK
    <2> QED BY <2>1, <2>2 DEF GcOK
  <1>2. ASSUME NEW p \in Procs, CleanNext(p), UNCHANGED worldVars
        PROVE  GcOK'
    <2>1. CoverOK(p)' /\ SpareOK(p)'
      BY <1>2, CollectorClean DEF CollectorOK
    <2>2. OthersKept(p)
      BY <1>2, OthersKeptClean
    <2>3. ASSUME NEW q \in Procs \ {p}
          PROVE  CoverOK(q)' /\ SpareOK(q)'
      BY <2>2, KeptOK DEF OthersKept, GcOK
    <2> QED BY <2>1, <2>3 DEF GcOK
  <1>3. ASSUME NEW p \in Procs, exit(p) \/ kill(p)
        PROVE  Aside(p)
    <2>1. Terminate(p)
      BY <1>3 DEF exit, kill
    <2>2. pc'[p] \notin GcPcs
      BY <2>1 DEF Terminate, Goto, TypeOK, FrameTypeOK, GcPcs, Deleting
    <2>3. ASSUME NEW q \in Procs \ {p}
          PROVE  RecordsKept(q) /\ CollectionKept(q)
      <3>1. \A v \in victims'[q] : v \in victims[q] \/ v = <<"temp", Leftover>>
        BY <2>1, AbandonVictims DEF Terminate
      <3> QED
        BY <2>1, <3>1
        DEF Terminate, Goto, ClearWork, RecordsKept, CollectionKept, TypeOK,
            FrameTypeOK, GcTypeOK
    <2> QED BY <2>2, <2>3 DEF Aside, OthersKept
  <1>4. ASSUME NEW p \in Procs,
               \/ app_exits(p)
               \/ \E c \in Commands :
                    start(p, c) \/ \E a \in Apps : start_app(p, c, a)
        PROVE  Aside(p)
    BY <1>4
    DEF app_exits, start, start_app, Goto, Aside, OthersKept, RecordsKept,
        CollectionKept, TypeOK, FrameTypeOK, GcPcs, Deleting, storeVars,
        workVars, gcVars
  <1>5. CASE \/ UNCHANGED vars
             \/ \E r \in References : publish(r)
             \/ \E a \in Apps : edit(a)
    <2>1. UNCHANGED <<storeVars, pc, workVars, gcVars>>
      BY <1>5 DEF publish, edit, vars
    <2>2. ASSUME NEW q \in Procs
          PROVE  RecordsKept(q) /\ CollectionKept(q)
      BY <2>1 DEF RecordsKept, CollectionKept, storeVars, workVars, gcVars
    <2> QED BY <2>2, KeptOK DEF GcOK
  <1>6. ASSUME NEW p \in Procs, PullNext(p) \/ BuildNext(p) \/ RunNext(p),
               UNCHANGED worldVars
        PROVE  Aside(p)
    BY <1>6, AsidePull, AsideBuild, AsideRun
  <1> QED BY <1>1, <1>2, <1>3, <1>4, <1>5, <1>6 DEF Next, Step

\* The store and the processes start out as the invariant says.
LEMMA InitInv ==
    ASSUME Init
    PROVE  IInv
  <1>1. StoreTypeOK
    <2>1. Preinstalled \subseteq References /\ Manifests \subseteq Images
      BY ConstantsAssumption DEF Images
    <2>2. refs \in [Keys -> Images \cup {Empty, NoRef}]
      BY <2>1 DEF Init
    <2>3. blobs \in [Blobs -> {"none", "torn", "ok"}]
      BY DEF Init
    <2>4. dirs \in [Dirs -> DirStates]
      BY DirStatesValues DEF Init
    <2> QED BY <2>2, <2>3, <2>4 DEF Init, StoreTypeOK
  <1>2. FrameTypeOK
    <2>1. 1 \in 1..(Len(AppNames) + 1)
      BY ConstantsAssumption
    <2> QED BY <2>1, NoTasksType DEF Init, FrameTypeOK, PcLabels
  <1>3. GcTypeOK
    BY DEF Init, GcTypeOK
  <1>4. FrameOK
    <2>1. ASSUME NEW p \in Procs
          PROVE  ProcOK(p)
      BY DEF Init, ProcOK, NoTasks, AppPcs, BasePcs, FetchPcs, BuildingPcs,
             BuildPcs, ResolvedPcs
    <2>2. \A k \in Keys : refs[k] \notin BuildIds
      <3>1. Preinstalled \subseteq References
        BY ConstantsAssumption
      <3> QED BY <3>1, Distinct DEF Init
    <2>3. RefsOK
      BY <2>2 DEF RefsOK, Keys
    <2>4. BuiltOK
      <3>1. \A b \in BuildIds : b \notin Manifests \cup Configs /\ b # None
        BY Distinct
      <3>2. \A b \in BuildIds : blobs[b] = "none"
        <4>1. \A m \in Manifests : Config[m] \in Configs
          BY ConstantsAssumption
        <4>2. \A r \in Preinstalled : tag[r] \in Manifests
          BY ConstantsAssumption DEF Init
        <4> QED BY <3>1, <4>1, <4>2 DEF Init, Blobs
      <3> QED BY <2>2, <3>1, <3>2 DEF Init, BuiltOK
    <2> QED BY <2>1, <2>3, <2>4 DEF FrameOK
  <1>5. GcOK
    BY DEF Init, GcOK, CoverOK, SpareOK, GcPcs, Deleting
  <1> QED BY <1>1, <1>2, <1>3, <1>4, <1>5 DEF IInv, TypeOK

\* The invariant is inductive.
THEOREM Inductive == Spec => []IInv
  <1>1. Init => IInv
    BY InitInv
  <1>2. IInv /\ [Next]_vars => IInv'
    BY TypeStep, FrameStep, GcStep DEF IInv
  <1> QED BY <1>1, <1>2, PTL DEF Spec

\* Whatever processes do, are killed at and find in the store, every variable
\* stays in its type: store.rs, pull.rs, build.rs and clean.rs never use a
\* manifest, an app or a directory they do not have.
THEOREM TypeCorrect == Spec => []TypeOK
  <1>1. IInv => TypeOK
    BY DEF IInv
  <1> QED BY <1>1, Inductive, PTL

\* What was read is not among the victims, and each stable record was read.
LEMMA SparesStable == IInv => GcSparesStable
  <1> SUFFICES ASSUME IInv, NEW p \in Procs, pc[p] \in Deleting,
                      NEW k \in stable[p], refs[k] \in Images
               PROVE  /\ <<"blob", refs[k]>> \notin victims[p]
                      /\ <<"blob", ConfigOf(refs[k])>> \notin victims[p]
                      /\ \A l \in LayersOf(refs[k]) :
                           layer_path(l) \notin victims[p] \cup {doomed[p]}
    BY DEF GcSparesStable
  <1>1. Covered(p, refs[k])
    BY DEF IInv, GcOK, CoverOK, GcPcs, Deleting
  <1> QED BY <1>1 DEF IInv, GcOK, SpareOK, Covered

\* clean.rs gc_images(): any number of processes pulling, building, running and
\* collecting at once, a collection deletes nothing of an image whose record
\* was not written since it listed refs/.
THEOREM GcSafe == Spec => []GcSparesStable
  BY SparesStable, Inductive, PTL

-----------------------------------------------------------------------------
(* pull -u reaches every app                                               *)

\* The hypotheses: the store is this process's alone, so that no app comes
\* into it behind the loop's back, and every definition keeps loading, so that
\* no app is skipped when its turn comes and counted in the end.
OneProcess == \E p \in Procs : Procs = {p}
NoEdits == DefStates \subseteq {"ok"}

\* What ensure() may be doing once it has decided to fetch or to build
WorkPcs == FetchPcs \cup BuildPcs

\* Nothing but a definition that is gone takes a record away: the record of a
\* build never outlives that of its base.
KeysOK ==
    /\ \A a \in Apps : defs[a] = "ok"
    /\ \A a \in InstallApps : has_ref(a) => has_ref(Reference[a])
    /\ \A p \in Procs :
         /\ pc[p] = "drop_refs" => \A a \in Apps :
              Reference[a] \notin gcKeys[p] /\ image_key(a) \notin gcKeys[p]
         /\ pc[p] \in BuildPcs \ {"build"} => has_ref(Reference[app[p]])

\* What a command starts with
BegunOK(p) ==
    /\ pc[p] = "idle" =>
         /\ cmd[p] = "none" /\ nextApp[p] = 1
         /\ updated[p] = {} /\ failed[p] = {}
         /\ \A r \in References : asked[p][r] = 0
    /\ pc[p] \in {"orphans", "drop_refs"} => cmd[p] = "clean"

\* The app the loop has come to is in the store, was not reported as failed
\* before, and its image is asked for only once.
CurrentOK(p) ==
    Updating(p) /\ pc[p] \in AppPcs =>
        /\ nextApp[p] > 1 /\ app[p] = AppNames[nextApp[p] - 1]
        /\ app[p] \notin failed[p]
        /\ has_ref(image_key(app[p])) /\ has_ref(Reference[app[p]])
        /\ pc[p] # "ensure" => app[p] \notin InstallApps \/ cmd[p] = "rebuild"
        /\ pc[p] \in {"fetch", "resolve_tag"} \cup FetchPcs => app[p] \in PullApps
        /\ pc[p] = "resolve_tag" => Reference[app[p]] \notin updated[p]

\* The apps on the list of failures are apps the loop has passed.
FailedOK(p) ==
    Updating(p) => \A a \in failed[p] : \E i \in 1..(nextApp[p] - 1) : a = AppNames[i]

\* Each query was answered for an image that is up to date or about to be, or
\* ended in the failure of an app of its own.
FailedOn(p, r) == {a \in failed[p] : Reference[a] = r}
Spent(p, r) ==
    \/ r \in updated[p]
    \/ pc[p] \in WorkPcs /\ app[p] \in PullApps /\ Reference[app[p]] = r
AskedOK(p) ==
    Updating(p) => \A r \in References :
        asked[p][r] <= Cardinality(FailedOn(p, r)) + (IF Spent(p, r) THEN 1 ELSE 0)

\* The apps behind the loop are dealt with.
Dealt(p, a) ==
    \/ a \in failed[p]
    \/ Reference[a] \in updated[p]
    \/ a \in InstallApps /\ cmd[p] = "update"
ReachedOK(p) ==
    Updating(p) /\ pc[p] \in AppPcs \cup {"next_app", "gc_images"} =>
        /\ \A i \in 1..(nextApp[p] - 1) :
             LET a == AppNames[i]
             IN  a \in PullApps /\ has_ref(image_key(a)) =>
                   Dealt(p, a) \/ (pc[p] \in AppPcs /\ a = app[p])
        /\ pc[p] = "gc_images" => nextApp[p] = Len(AppNames) + 1

LoopOK ==
    \A p \in Procs :
        BegunOK(p) /\ CurrentOK(p) /\ FailedOK(p) /\ AskedOK(p) /\ ReachedOK(p)
LInv == KeysOK /\ LoopOK
-----------------------------------------------------------------------------
\* The steps of a process, by what they do to the loop: a move that leaves
\* the loop's variables alone,
LoopSame == UNCHANGED <<cmd, app, nextApp, updated, failed, asked>>
Elsewhere ==
    PcLabels \ (AppPcs \cup {"next_app", "gc_images", "idle", "orphans", "drop_refs"})
ChoicePcs == {"ensure", "fetch", "resolve_tag", "next_app"}
Carries(p, l) ==
    \/ pc[p] \notin WorkPcs \cup ChoicePcs /\ l \in Elsewhere
    \/ l = pc[p]
    \/ pc[p] \in FetchPcs /\ l \in FetchPcs
    \/ /\ pc[p] \in BuildPcs /\ l \in BuildPcs \ {"build"}
       /\ pc[p] = "build" => has_ref(Reference[app[p]])
    \/ pc[p] = "orphans" /\ l = "drop_refs"
    \/ pc[p] = "drop_refs" /\ l = "gc_images"
    \/ /\ pc[p] = "ensure"
       /\ \/ l = "fetch" /\ app[p] \in PullApps
          \/ l = "build"
       /\ app[p] \in InstallApps => RebuildArg(p) \/ ~has_ref(image_key(app[p]))
    \/ /\ pc[p] = "fetch" /\ l = "resolve_tag"
       /\ UpdateArg(p) \/ ~has_ref(Reference[app[p]])
    \/ pc[p] \in {"fetch", "ref_fill"} /\ l = "build"
Moves(p) ==
    LoopSame /\ \E l \in PcLabels : Goto(p, l) /\ Carries(p, l)

\* a query, and the end of ensure().
Asks(p) ==
    /\ pc[p] = "resolve_tag"
    /\ asked' = [asked EXCEPT ![p][Reference[app[p]]] = @ + 1]
    /\ \/ Goto(p, "manifest_open") /\ UNCHANGED loopVars
       \/ EnsureReturns(p, FALSE)
Returns(p) ==
    /\ pc[p] \in AppPcs \ {"resolve_tag"}
    /\ UNCHANGED asked
    /\ \E ok \in BOOLEAN : EnsureReturns(p, ok)

\* How a step changes which records there are
RefsStep(p) ==
    /\ \A k \in Keys : refs'[k] # NoRef =>
         \/ has_ref(k)
         \/ pc[p] = "layers" /\ k = Reference[app[p]]
         \/ pc[p] = "build_ref_open" /\ k = image_key(app[p])
    /\ \A k \in Keys : has_ref(k) =>
         refs'[k] # NoRef \/ (pc[p] = "drop_refs" /\ k \in gcKeys[p])

\* A step that goes to a label is a move.
LEMMA MovesTo ==
    ASSUME NEW p \in Procs, LoopSame, NEW l \in PcLabels, Goto(p, l), Carries(p, l)
    PROVE  Moves(p)
  BY DEF Moves

\* A step that ends ensure() is a return.
LEMMA ReturnsTo ==
    ASSUME NEW p \in Procs, pc[p] \in AppPcs \ {"resolve_tag"}, UNCHANGED asked,
           NEW ok \in BOOLEAN, EnsureReturns(p, ok)
    PROVE  Returns(p)
  BY DEF Returns

\* A step that goes nowhere is a move to where the process is.
LEMMA StaysPut ==
    ASSUME NEW p \in Procs, TypeOK, LoopSame, UNCHANGED pc
    PROVE  Moves(p)
  <1>1. pc[p] \in PcLabels /\ Goto(p, pc[p])
    BY DEF TypeOK, FrameTypeOK, Goto
  <1> QED BY <1>1, MovesTo DEF Carries

\* pull.rs
LEMMA ControlPull ==
    ASSUME NEW p \in Procs, IInv, PullNext(p)
    PROVE  Moves(p) \/ Asks(p) \/ Returns(p) \/ next_app(p)
  <1> USE DEF loopVars, workVars, LoopSame
  <1>a. TypeOK
    BY DEF IInv
  <1>b. FetchPcs \subseteq PcLabels /\ FetchPcs \subseteq AppPcs \ {"resolve_tag"}
        /\ {"fetch", "build", "resolve_tag"} \subseteq PcLabels
    BY DEF FetchPcs, PcLabels, AppPcs, BasePcs
  <1>1. CASE ensure(p)
    <2> DEFINE kept == /\ app[p] \in InstallApps /\ ~RebuildArg(p)
                       /\ has_ref(image_key(app[p]))
    <2>1. pc[p] = "ensure" /\ UNCHANGED asked
      BY <1>1 DEF ensure
    <2>2. CASE EnsureReturns(p, TRUE)
      BY <2>1, <2>2, ReturnsTo DEF AppPcs
    <2>3. CASE ~kept /\ app[p] \in PullApps /\ Goto(p, "fetch") /\ UNCHANGED loopVars
      <3>1. Carries(p, "fetch")
        BY <2>1, <2>3 DEF Carries
      <3> QED BY <1>b, <2>1, <2>3, <3>1, MovesTo
    <2>4. CASE ~kept /\ Goto(p, "build") /\ UNCHANGED loopVars
      <3>1. Carries(p, "build")
        BY <2>1, <2>4 DEF Carries
      <3> QED BY <1>b, <2>1, <2>4, <3>1, MovesTo
    <2> QED BY <1>1, <2>2, <2>3, <2>4 DEF ensure
  <1>c. ASSUME pc[p] \in {"fetch", "ref_fill"}, UNCHANGED asked, FetchReturns(p)
        PROVE  Moves(p) \/ Returns(p)
    <2>1. CASE EnsureReturns(p, TRUE)
      BY <1>c, <2>1 DEF Returns, AppPcs, BasePcs, FetchPcs
    <2>2. CASE Goto(p, "build") /\ UNCHANGED loopVars
      <3>1. Carries(p, "build")
        BY <1>c DEF Carries
      <3> QED BY <1>c, <1>b, <2>2, <3>1, MovesTo
    <2> QED BY <1>c, <2>1, <2>2 DEF FetchReturns
  <1>2. CASE fetch(p)
    <2> DEFINE kept == ~UpdateArg(p) /\ has_ref(Reference[app[p]])
    <2>1. CASE kept
      <3>1. pc[p] = "fetch" /\ UNCHANGED asked /\ FetchReturns(p)
        BY <1>2, <2>1 DEF fetch
      <3> QED BY <1>c, <3>1
    <2>2. CASE ~kept
      <3>1. pc[p] = "fetch" /\ LoopSame /\ Goto(p, "resolve_tag")
        BY <1>2, <2>2 DEF fetch
      <3>2. Carries(p, "resolve_tag")
        BY <2>2, <3>1 DEF Carries
      <3> QED BY <1>b, <3>1, <3>2, MovesTo
    <2> QED BY <2>1, <2>2
  <1>3. CASE resolve_tag(p)
    BY <1>3 DEF resolve_tag, Asks
  <1>d. ASSUME NEW l \in FetchPcs, pc[p] \in FetchPcs, LoopSame, Goto(p, l)
        PROVE  Moves(p)
    BY <1>b, <1>d, MovesTo DEF Carries
  <1>e. ASSUME pc[p] \in FetchPcs, UNCHANGED asked, EnsureReturns(p, FALSE)
        PROVE  Returns(p)
    BY <1>b, <1>e, ReturnsTo
  <1>4. CASE manifest_open(p)
    BY <1>4, <1>d DEF manifest_open, FetchPcs
  <1>5. CASE manifest_fill(p)
    BY <1>5, <1>d DEF manifest_fill, FetchPcs
  <1>6. CASE config(p)
    BY <1>6, <1>d DEF config, FetchPcs
  <1>7. CASE config_download(p)
    BY <1>7, <1>d, <1>e DEF config_download, FetchPcs
  <1>8. CASE config_commit(p)
    BY <1>8, <1>d, <1>e DEF config_commit, FetchPcs
  <1>9. CASE pending(p)
    BY <1>9, <1>d DEF pending, FetchPcs
  <1>10. ASSUME NEW i \in Slots, layer_start(p, i) PROVE Moves(p)
    BY <1>10, <1>a, StaysPut DEF layer_start
  <1>11. ASSUME NEW i \in Slots, layer_download(p, i) PROVE Moves(p)
    BY <1>11, <1>a, StaysPut DEF layer_download
  <1>12. ASSUME NEW i \in Slots, extract_layer(p, i) PROVE Moves(p)
    BY <1>12, <1>a, StaysPut
    DEF extract_layer, clear_staging, open_temp, unpack, rename_layer
  <1>13. ASSUME NEW i \in Slots, layer_result(p, i) PROVE Moves(p)
    <2>1. CASE UNCHANGED pc
      BY <1>13, <1>a, <2>1, StaysPut DEF layer_result
    <2>2. CASE Goto(p, "abort")
      BY <1>13, <1>d, <2>2 DEF layer_result, FetchPcs
    <2> QED BY <1>13, <2>1, <2>2 DEF layer_result
  <1>14. CASE abort(p)
    BY <1>14, <1>e DEF abort, FetchPcs
  <1>15. CASE ref_open(p)
    BY <1>15, <1>d DEF ref_open, FetchPcs
  <1>16. CASE ref_fill(p)
    BY <1>16, <1>c DEF ref_fill
  <1>17. CASE next_app(p)
    BY <1>17
  <1> QED BY <1>1, <1>2, <1>3, <1>4, <1>5, <1>6, <1>7, <1>8, <1>9, <1>10,
    <1>11, <1>12, <1>13, <1>14, <1>15, <1>16, <1>17 DEF PullNext

\* build.rs
LEMMA ControlBuild ==
    ASSUME NEW p \in Procs, IInv, BuildNext(p)
    PROVE  Moves(p) \/ Returns(p)
  <1> USE DEF loopVars, workVars, LoopSame
  <1>b. BuildPcs \subseteq PcLabels /\ BuildPcs \subseteq AppPcs \ {"resolve_tag"}
    BY DEF BuildPcs, BuildingPcs, PcLabels, AppPcs, BasePcs
  <1>d. ASSUME NEW l \in BuildPcs \ {"build"}, pc[p] \in BuildPcs, LoopSame, Goto(p, l),
               pc[p] = "build" => has_ref(Reference[app[p]])
        PROVE  Moves(p)
    BY <1>b, <1>d, MovesTo DEF Carries
  <1>e. ASSUME NEW ok \in BOOLEAN,
               pc[p] \in BuildPcs, UNCHANGED asked, EnsureReturns(p, ok)
        PROVE  Returns(p)
    BY <1>b, <1>e, ReturnsTo
  <1>1. CASE base_ref(p)
    <2>1. CASE BuildFails(p)
      BY <1>1, <1>e, <2>1 DEF base_ref, BuildFails, BuildPcs
    <2>2. CASE refs[Reference[app[p]]] \notin {NoRef, Empty}
      BY <1>1, <1>d, <2>2 DEF base_ref, BuildPcs, has_ref
    <2> QED BY <1>1, <2>1, <2>2 DEF base_ref
  <1>2. CASE base_manifest(p)
    BY <1>2, <1>d, <1>e DEF base_manifest, BuildPcs, BuildFails
  <1>3. CASE build_dirs(p)
    BY <1>3, <1>d, <1>e DEF build_dirs, BuildPcs, BuildingPcs, BuildFails
  <1>4. CASE run_script(p)
    BY <1>4, <1>d, <1>e DEF run_script, BuildPcs, BuildingPcs, BuildFails
  <1>5. ASSUME NEW part \in Parts, script_writes(p, part) PROVE Moves(p)
    <2>1. PICK l \in {"script_2", "build_rename"} : Goto(p, l)
      BY <1>5 DEF script_writes
    <2>2. l \in BuildPcs \ {"build"}
      BY DEF BuildPcs, BuildingPcs
    <2>3. pc[p] \in BuildPcs /\ pc[p] # "build"
      BY <1>5 DEF script_writes, BuildPcs, BuildingPcs
    <2> QED BY <1>5, <1>d, <2>1, <2>2, <2>3 DEF script_writes
  <1>6. CASE script_fails(p)
    BY <1>6, <1>e DEF script_fails, BuildPcs, BuildingPcs, BuildFails
  <1>7. CASE build_rename(p)
    BY <1>7, <1>d, <1>e DEF build_rename, BuildPcs, BuildingPcs, BuildFails
  <1>8. CASE build_open(p)
    BY <1>8, <1>d DEF build_open, BuildPcs, BuildingPcs
  <1>9. CASE build_fill(p)
    BY <1>9, <1>d DEF build_fill, BuildPcs, BuildingPcs
  <1>10. CASE build_ref_open(p)
    BY <1>10, <1>d DEF build_ref_open, BuildPcs, BuildingPcs
  <1>11. CASE build_ref_fill(p)
    BY <1>11, <1>e DEF build_ref_fill, BuildPcs, BuildingPcs
  <1> QED BY <1>1, <1>2, <1>3, <1>4, <1>5, <1>6, <1>7, <1>8, <1>9, <1>10,
    <1>11 DEF BuildNext

\* clean.rs and, up to the mounted image, runtime.rs
LEMMA ControlRest ==
    ASSUME NEW p \in Procs, IInv, CleanNext(p) \/ RunNext(p) \/ app_exits(p)
    PROVE  Moves(p)
  <1> USE DEF loopVars, workVars, LoopSame
  <1>a. TypeOK
    BY DEF IInv
  <1>b. Elsewhere \subseteq PcLabels
        /\ {"exit", "live_ref", "live_manifest", "gc_blobs", "gc_layers",
            "remove_tree", "gc_temps", "read_manifest", "image_config", "mount",
            "running"} \subseteq Elsewhere
    BY DEF Elsewhere, PcLabels, AppPcs, BasePcs, BuildingPcs, FetchPcs
  <1>c. ASSUME NEW l \in Elsewhere, pc[p] \notin WorkPcs \cup ChoicePcs, LoopSame, Goto(p, l)
        PROVE  Moves(p)
    BY <1>b, <1>c, MovesTo DEF Carries
  <1>d. \A l \in {"gc_images", "live_ref", "live_manifest", "gc_blobs",
                  "gc_layers", "remove_tree", "gc_temps", "resolve", "orphans",
                  "read_manifest", "image_config", "mount", "running", "drop_refs"} :
          l \notin WorkPcs \cup ChoicePcs
    BY DEF WorkPcs, ChoicePcs, FetchPcs, BuildPcs, BuildingPcs
  <1>1. CASE orphans(p)
    <2>1. Carries(p, "drop_refs") /\ "drop_refs" \in PcLabels
      BY <1>1 DEF orphans, Carries, PcLabels
    <2> QED BY <1>1, <2>1, MovesTo DEF orphans
  <1>2. CASE drop_refs(p)
    <2>1. CASE Goto(p, "gc_images")
      <3>1. Carries(p, "gc_images") /\ "gc_images" \in PcLabels
        BY <1>2 DEF drop_refs, Carries, PcLabels
      <3> QED BY <1>2, <2>1, <3>1, MovesTo DEF drop_refs
    <2>2. CASE UNCHANGED pc
      BY <1>2, <1>a, <2>2, StaysPut DEF drop_refs
    <2>3. CASE Exit(p)
      BY <1>2, <1>b, <1>c, <1>d, <2>3 DEF drop_refs, Exit
    <2> QED BY <1>2, <2>1, <2>2, <2>3 DEF drop_refs
  <1>3. CASE gc_images(p)
    BY <1>3, <1>b, <1>c, <1>d DEF gc_images
  <1>4. CASE live_ref(p)
    <2>1. CASE UNCHANGED pc
      BY <1>4, <1>a, <2>1, StaysPut DEF live_ref
    <2>2. CASE Exit(p) \/ Goto(p, "live_manifest")
      BY <1>4, <1>b, <1>c, <1>d, <2>2 DEF live_ref, Exit
    <2> QED BY <1>4, <2>1, <2>2 DEF live_ref
  <1>5. CASE live_manifest(p)
    BY <1>5, <1>b, <1>c, <1>d DEF live_manifest, Exit
  <1>6. CASE list_blobs(p) \/ list_layers(p) \/ list_temps(p)
    BY <1>6, <1>b, <1>c, <1>d DEF list_blobs, list_layers, list_temps, List
  <1>7. CASE gc_blob(p) \/ gc_temp(p)
    <2>1. CASE UNCHANGED pc
      BY <1>7, <1>a, <2>1, StaysPut DEF gc_blob, gc_temp
    <2>2. CASE Exit(p)
      BY <1>7, <1>b, <1>c, <1>d, <2>2 DEF gc_blob, gc_temp, Exit
    <2> QED BY <1>7, <2>1, <2>2 DEF gc_blob, gc_temp
  <1>8. CASE remove_tree(p)
    <2>1. CASE UNCHANGED pc
      BY <1>8, <1>a, <2>1, StaysPut DEF remove_tree
    <2>2. CASE Goto(p, "remove_tree")
      BY <1>8, <1>b, <1>c, <1>d, <2>2 DEF remove_tree
    <2> QED BY <1>8, <2>1, <2>2 DEF remove_tree
  <1>9. CASE remove_part(p)
    BY <1>9, <1>a, StaysPut DEF remove_part
  <1>10. CASE remove_dir(p) \/ gc_done(p)
    BY <1>10, <1>b, <1>c, <1>d DEF remove_dir, gc_done, Exit
  <1>11. CASE RunNext(p) \/ app_exits(p)
    BY <1>11, <1>b, <1>c, <1>d
    DEF RunNext, resolve, read_manifest, image_config, mount, app_exits
  <1> QED BY <1>1, <1>2, <1>3, <1>4, <1>5, <1>6, <1>7, <1>8, <1>9, <1>10,
    <1>11 DEF CleanNext

-----------------------------------------------------------------------------
(* The records                                                             *)

\* NoRef is no record.
LEMMA NotNoRef == Empty # NoRef /\ \A d \in Images : d # NoRef
  BY ConstantsAssumption DEF Empty, NoRef

\* A record is opened, filled or removed by name, and the others stay.
LEMMA RecordStep ==
    ASSUME TypeOK, NEW k \in Keys, NEW d \in Images,
           record_ref_open(k) \/ record_ref_fill(k, d)
    PROVE  /\ \A j \in Keys : refs'[j] # NoRef => has_ref(j) \/ j = k
           /\ \A j \in Keys : has_ref(j) => refs'[j] # NoRef
           /\ record_ref_fill(k, d) =>
                \A j \in Keys : refs'[j] # NoRef => has_ref(j)
  <1> USE NotNoRef DEF has_ref, TypeOK, StoreTypeOK
  <1>1. CASE record_ref_open(k) /\ ~record_ref_fill(k, d)
    BY <1>1 DEF record_ref_open
  <1>2. CASE record_ref_fill(k, d)
    BY <1>2 DEF record_ref_fill
  <1> QED BY <1>1, <1>2

\* A step that leaves refs/ alone
LEMMA RefsSame ==
    ASSUME NEW p \in Procs, refs' = refs
    PROVE  RefsStep(p)
  BY DEF RefsStep, has_ref

\* pull.rs records only the app's reference.
LEMMA RefsStepPull ==
    ASSUME NEW p \in Procs, IInv, PullNext(p)
    PROVE  RefsStep(p)
  <1>a. TypeOK /\ FrameOK
    BY DEF IInv
  <1>1. CASE ref_open(p)
    <2>1. app[p] \in Apps /\ pc[p] = "layers"
      BY <1>1, <1>a, AppType DEF ref_open, AppPcs, BasePcs, FetchPcs
    <2>2. img[p] \in Images
      BY <1>a, <2>1 DEF FrameOK, ProcOK, BasePcs, FetchPcs, Images
    <2>3. Reference[app[p]] \in Keys /\ record_ref_open(Reference[app[p]])
      BY <1>1, <2>1, KeyTypes DEF ref_open, Keys
    <2> QED BY <1>a, <2>1, <2>2, <2>3, RecordStep DEF RefsStep
  <1>2. CASE ref_fill(p)
    <2>1. app[p] \in Apps /\ pc[p] = "ref_fill"
      BY <1>2, <1>a, AppType DEF ref_fill, AppPcs, BasePcs, FetchPcs
    <2>2. img[p] \in Images
      BY <1>a, <2>1 DEF FrameOK, ProcOK, BasePcs, FetchPcs, Images
    <2>3. Reference[app[p]] \in Keys /\ record_ref_fill(Reference[app[p]], img[p])
      BY <1>2, <2>1, KeyTypes DEF ref_fill, Keys
    <2> QED BY <1>a, <2>1, <2>2, <2>3, RecordStep DEF RefsStep
  <1>3. CASE ensure(p) \/ fetch(p) \/ resolve_tag(p) \/ next_app(p) \/ pending(p)
    BY <1>3, RefsSame DEF ensure, fetch, resolve_tag, next_app, pending, storeVars
  <1>4. CASE \/ manifest_open(p) \/ manifest_fill(p) \/ config(p)
             \/ config_download(p) \/ config_commit(p) \/ abort(p)
    BY <1>4, RefsSame
    DEF manifest_open, manifest_fill, config, config_download, config_commit, abort
  <1>5. ASSUME NEW i \in Slots,
               \/ layer_start(p, i) \/ layer_download(p, i)
               \/ extract_layer(p, i) \/ layer_result(p, i)
        PROVE  RefsStep(p)
    BY <1>5, RefsSame
    DEF layer_start, layer_download, extract_layer, clear_staging, open_temp,
        unpack, rename_layer, layer_result, storeVars
  <1> QED BY <1>1, <1>2, <1>3, <1>4, <1>5 DEF PullNext

\* build.rs records only the app's own image.
LEMMA RefsStepBuild ==
    ASSUME NEW p \in Procs, IInv, BuildNext(p)
    PROVE  RefsStep(p)
  <1>a. TypeOK /\ FrameOK
    BY DEF IInv
  <1>1. CASE build_ref_open(p) \/ build_ref_fill(p)
    <2>1. pc[p] \in BuildingPcs /\ app[p] \in Apps
      BY <1>1, <1>a, AppType
      DEF build_ref_open, build_ref_fill, AppPcs, BasePcs, BuildingPcs
    <2>2. bid[p] \in Images
      BY <1>a, <2>1 DEF FrameOK, ProcOK, Images
    <2> DEFINE k == image_key(app[p])
    <2>3. k \in Keys
      BY <2>1, KeyTypes
    <2>4. \/ pc[p] = "build_ref_open" /\ record_ref_open(k)
          \/ record_ref_fill(k, bid[p])
      BY <1>1 DEF build_ref_open, build_ref_fill
    <2> HIDE DEF k
    <2>5. /\ \A j \in Keys : refs'[j] # NoRef =>
               has_ref(j) \/ (pc[p] = "build_ref_open" /\ j = k)
          /\ \A j \in Keys : has_ref(j) => refs'[j] # NoRef
      BY <1>a, <2>2, <2>3, <2>4, RecordStep
    <2> QED BY <2>5 DEF RefsStep, k
  <1>2. CASE base_ref(p) \/ base_manifest(p)
    BY <1>2, RefsSame DEF base_ref, base_manifest, storeVars
  <1>3. CASE \/ build_dirs(p) \/ run_script(p) \/ script_fails(p)
             \/ build_rename(p) \/ build_open(p) \/ build_fill(p)
    BY <1>3, RefsSame
    DEF build_dirs, run_script, script_fails, build_rename, build_open, build_fill
  <1>4. ASSUME NEW part \in Parts, script_writes(p, part) PROVE RefsStep(p)
    BY <1>4, RefsSame DEF script_writes
  <1> QED BY <1>1, <1>2, <1>3, <1>4 DEF BuildNext

\* clean.rs removes a record of its list.
LEMMA RefsStepRest ==
    ASSUME NEW p \in Procs, IInv, CleanNext(p) \/ RunNext(p) \/ app_exits(p)
    PROVE  RefsStep(p)
  <1>a. TypeOK
    BY DEF IInv
  <1>1. CASE drop_refs(p)
    <2>1. CASE refs' = refs
      BY <2>1, RefsSame
    <2>2. ASSUME NEW k \in gcKeys[p], refs' = [refs EXCEPT ![k] = NoRef]
          PROVE  RefsStep(p)
      <3>1. k \in Keys /\ pc[p] = "drop_refs"
        BY <1>1, <1>a, <2>2 DEF drop_refs, TypeOK, GcTypeOK
      <3>2. \A j \in Keys : refs'[j] = IF j = k THEN NoRef ELSE refs[j]
        BY <1>a, <2>2, <3>1 DEF TypeOK, StoreTypeOK
      <3> QED BY <2>2, <3>1, <3>2 DEF RefsStep, has_ref
    <2> QED BY <1>1, <2>1, <2>2 DEF drop_refs
  <1>2. CASE \/ orphans(p) \/ gc_images(p) \/ live_ref(p) \/ live_manifest(p)
             \/ list_blobs(p) \/ list_layers(p) \/ remove_tree(p)
             \/ list_temps(p) \/ gc_done(p)
    BY <1>2, RefsSame
    DEF orphans, gc_images, live_ref, live_manifest, list_blobs, list_layers,
        remove_tree, list_temps, gc_done, storeVars
  <1>3. CASE gc_blob(p) \/ remove_part(p) \/ remove_dir(p) \/ gc_temp(p)
    BY <1>3, RefsSame DEF gc_blob, remove_part, remove_dir, gc_temp
  <1>4. CASE RunNext(p) \/ app_exits(p)
    BY <1>4, RefsSame
    DEF RunNext, resolve, read_manifest, image_config, mount, app_exits, storeVars
  <1> QED BY <1>1, <1>2, <1>3, <1>4 DEF CleanNext

\* The records a clean is about to remove belong to no app that loads.
SparesApps(p) ==
    \A a \in Apps : Reference[a] \notin gcKeys'[p] /\ image_key(a) \notin gcKeys'[p]

\* Those records are chosen by orphans() and only become fewer afterwards.
LEMMA DropStep ==
    ASSUME NEW p \in Procs, IInv, KeysOK, Moves(p),
           orphans(p) \/ drop_refs(p) \/ pc[p] \notin {"orphans", "drop_refs"}
    PROVE  pc'[p] = "drop_refs" => SparesApps(p)
  <1>a. TypeOK
    BY DEF IInv
  <1>1. CASE orphans(p)
    BY <1>1, <1>a DEF orphans, SparesApps, KeysOK, TypeOK, GcTypeOK
  <1>2. CASE drop_refs(p)
    <2>1. gcKeys'[p] \subseteq gcKeys[p] /\ pc[p] = "drop_refs"
      BY <1>2, <1>a DEF drop_refs, TypeOK, GcTypeOK
    <2> QED BY <2>1 DEF KeysOK, SparesApps
  <1>3. CASE ~orphans(p) /\ ~drop_refs(p)
    <2>1. SUFFICES ASSUME pc'[p] = "drop_refs" PROVE SparesApps(p)
      OBVIOUS
    <2>2. PICK l \in PcLabels : Goto(p, l) /\ Carries(p, l)
      BY DEF Moves
    <2>3. l = "drop_refs"
      BY <1>a, <2>1, <2>2 DEF Goto, TypeOK, FrameTypeOK
    <2> QED
      BY <1>3, <2>2, <2>3 DEF Carries, Elsewhere, FetchPcs, BuildPcs, BuildingPcs
  <1> QED BY <1>1, <1>2, <1>3

\* A process's own step, other than starting a command or ending
OwnNext(p) ==
    PullNext(p) \/ BuildNext(p) \/ CleanNext(p) \/ RunNext(p) \/ app_exits(p)

\* Every step of a process's own is one of the kinds of step above.
LEMMA OwnStep ==
    ASSUME NEW p \in Procs, IInv, KeysOK, OwnNext(p)
    PROVE  /\ Moves(p) \/ Asks(p) \/ Returns(p) \/ next_app(p)
           /\ RefsStep(p)
           /\ pc'[p] = "drop_refs" => SparesApps(p)
  <1>a. TypeOK
    BY DEF IInv
  <1>1. Moves(p) \/ Asks(p) \/ Returns(p) \/ next_app(p)
    BY ControlPull, ControlBuild, ControlRest DEF OwnNext
  <1>2. RefsStep(p)
    BY RefsStepPull, RefsStepBuild, RefsStepRest DEF OwnNext
  <1>3. CASE Asks(p) \/ Returns(p) \/ next_app(p)
    <2>1. PICK l \in PcLabels \ {"drop_refs"} : pc' = [pc EXCEPT ![p] = l]
      <3>1. CASE \E ok \in BOOLEAN : EnsureReturns(p, ok)
        BY <3>1 DEF EnsureReturns, Goto, PcLabels
      <3>2. CASE next_app(p)
        <4>1. CASE pc' = pc
          BY <1>a, <3>2, <4>1 DEF TypeOK, FrameTypeOK, next_app
        <4>2. CASE Goto(p, "ensure") \/ Goto(p, "gc_images")
          BY <4>2 DEF Goto, PcLabels
        <4> QED BY <3>2, <4>1, <4>2 DEF next_app
      <3>3. CASE Goto(p, "manifest_open")
        BY <3>3 DEF Goto, PcLabels
      <3> QED BY <1>3, <3>1, <3>2, <3>3 DEF Asks, Returns
    <2>2. pc'[p] # "drop_refs"
      BY <1>a, <2>1 DEF TypeOK, FrameTypeOK
    <2> QED BY <1>1, <1>2, <2>2
  <1>4. CASE Moves(p)
    <2>1. orphans(p) \/ drop_refs(p) \/ pc[p] \notin {"orphans", "drop_refs"}
      <3>1. CASE PullNext(p)
        BY <3>1
        DEF PullNext, ensure, fetch, resolve_tag, manifest_open, manifest_fill,
            config, config_download, config_commit, pending, layer_start,
            layer_download, extract_layer, clear_staging, open_temp, unpack,
            rename_layer, Unpacking, layer_result, abort, ref_open, ref_fill,
            next_app
      <3>2. CASE BuildNext(p)
        BY <3>2
        DEF BuildNext, base_ref, base_manifest, build_dirs, run_script,
            script_fails, build_rename, script_writes, build_open, build_fill,
            build_ref_open, build_ref_fill
      <3>3. CASE CleanNext(p)
        BY <3>3
        DEF CleanNext, gc_images, live_ref, live_manifest, list_blobs, gc_blob,
            list_layers, remove_tree, remove_part, remove_dir, list_temps,
            gc_temp, gc_done
      <3>4. CASE RunNext(p) \/ app_exits(p)
        BY <3>4
        DEF RunNext, resolve, read_manifest, image_config, mount, app_exits
      <3> QED BY <3>1, <3>2, <3>3, <3>4 DEF OwnNext
    <2> QED BY <1>1, <1>2, <1>4, <2>1, DropStep
  <1> QED BY <1>1, <1>2, <1>3, <1>4

-----------------------------------------------------------------------------
(* The records under the steps                                             *)

\* What LoopOK says of one process
ProcLoopOK(p) ==
    BegunOK(p) /\ CurrentOK(p) /\ FailedOK(p) /\ AskedOK(p) /\ ReachedOK(p)

\* The places pc is in hold no claim in two of the lists.
LEMMA PcsApart ==
    /\ WorkPcs \subseteq AppPcs \ {"ensure", "fetch", "resolve_tag"}
    /\ AppPcs \cap {"idle", "next_app", "gc_images", "orphans", "drop_refs", "exit"} = {}
    /\ FetchPcs \cap BuildPcs = {}
    /\ Elsewhere \cap AppPcs = {}
  BY DEF WorkPcs, AppPcs, BasePcs, FetchPcs, BuildPcs, BuildingPcs, Elsewhere

\* Records go only when no app that loads has them.
LEMMA KeysStep ==
    ASSUME OneProcess, IInv, KeysOK, NEW p \in Procs, OwnNext(p), UNCHANGED defs
    PROVE  KeysOK'
  <1>a. TypeOK /\ FrameOK /\ RefsStep(p) /\ (pc'[p] = "drop_refs" => SparesApps(p))
    BY OwnStep DEF IInv
  <1>1. ASSUME NEW k \in Keys, has_ref(k), \E a \in Apps : k \in {Reference[a], image_key(a)}
        PROVE  refs'[k] # NoRef
    BY <1>a, <1>1 DEF RefsStep, KeysOK
  <1>2. \A a \in Apps : defs'[a] = "ok"
    BY DEF KeysOK
  <1>3. ASSUME NEW a \in InstallApps, refs'[a] # NoRef
        PROVE  refs'[Reference[a]] # NoRef
    <2>1. a \in Apps /\ a \in Keys /\ Reference[a] \in Keys /\ a \notin References
      BY ConstantsAssumption DEF Keys
    <2>2. CASE has_ref(a)
      BY <1>1, <2>1, <2>2 DEF KeysOK
    <2>3. CASE pc[p] = "layers" /\ a = Reference[app[p]]
      <3>1. app[p] \in Apps
        BY <1>a, <2>3, AppType DEF AppPcs, BasePcs, FetchPcs
      <3> QED BY <2>1, <2>3, <3>1, KeyTypes
    <2>4. CASE pc[p] = "build_ref_open" /\ a = image_key(app[p])
      <3>1. app[p] \in InstallApps /\ has_ref(Reference[app[p]])
        BY <1>a, <2>4 DEF KeysOK, FrameOK, ProcOK, BuildPcs, BuildingPcs
      <3>2. a = app[p]
        BY <2>4, <3>1 DEF image_key
      <3> QED BY <1>1, <2>1, <3>1, <3>2
    <2> QED BY <1>a, <1>3, <2>1, <2>2, <2>3, <2>4 DEF RefsStep
  <1>4. ASSUME pc'[p] \in BuildPcs \ {"build"}
        PROVE  refs'[Reference[app'[p]]] # NoRef
    <2>1. pc[p] \in AppPcs /\ has_ref(Reference[app[p]]) /\ app' = app
      <3>1. CASE Moves(p)
        <4>1. PICK l \in PcLabels : Goto(p, l) /\ Carries(p, l)
          BY <3>1 DEF Moves
        <4>2. l = pc'[p]
          BY <1>a, <4>1 DEF Goto, TypeOK, FrameTypeOK
        <4>3. pc[p] \in BuildPcs /\ (pc[p] = "build" => has_ref(Reference[app[p]]))
          BY <1>4, <4>1, <4>2, PcsApart DEF Carries, BuildPcs, BuildingPcs, WorkPcs
        <4> QED BY <3>1, <4>3, PcsApart DEF KeysOK, Moves, LoopSame, WorkPcs
      <3>2. CASE Asks(p) \/ Returns(p) \/ next_app(p)
        <4>1. pc'[p] \notin BuildPcs \ {"build"}
          <5>1. CASE \E ok \in BOOLEAN : EnsureReturns(p, ok)
            BY <1>a, <5>1
            DEF EnsureReturns, Goto, TypeOK, FrameTypeOK, BuildPcs, BuildingPcs
          <5>2. CASE next_app(p)
            BY <1>a, <5>2
            DEF next_app, Goto, TypeOK, FrameTypeOK, BuildPcs, BuildingPcs
          <5>3. CASE Goto(p, "manifest_open")
            BY <1>a, <5>3 DEF Goto, TypeOK, FrameTypeOK, BuildPcs, BuildingPcs
          <5> QED BY <3>2, <5>1, <5>2, <5>3 DEF Asks, Returns
        <4> QED BY <1>4, <4>1
      <3> QED BY <3>1, <3>2, OwnStep
    <2>2. app[p] \in Apps
      BY <1>a, <2>1, AppType
    <2> QED BY <1>1, <2>1, <2>2, KeyTypes DEF Keys
  <1>5. pc'[p] = "drop_refs" => \A a \in Apps :
          Reference[a] \notin gcKeys'[p] /\ image_key(a) \notin gcKeys'[p]
    BY <1>a DEF SparesApps
  <1> QED BY <1>2, <1>3, <1>4, <1>5 DEF KeysOK, OneProcess, has_ref

\* While the loop works on an app, the records of the apps stay and none comes.
LEMMA NoNewKeys ==
    ASSUME NEW p \in Procs, IInv, ProcLoopOK(p), Updating(p), RefsStep(p)
    PROVE  /\ \A a \in Apps : refs'[image_key(a)] # NoRef => has_ref(image_key(a))
           /\ pc[p] # "drop_refs" =>
                \A k \in Keys : has_ref(k) => refs'[k] # NoRef
  <1>1. ASSUME NEW a \in Apps, refs'[image_key(a)] # NoRef
        PROVE  has_ref(image_key(a))
    <2>1. pc[p] \in {"layers", "build_ref_open"} => pc[p] \in AppPcs
      BY DEF AppPcs, BasePcs, FetchPcs, BuildingPcs
    <2>2. pc[p] \in AppPcs =>
            has_ref(image_key(app[p])) /\ has_ref(Reference[app[p]])
      BY DEF ProcLoopOK, CurrentOK
    <2> QED BY <1>1, <2>1, <2>2, KeyTypes DEF RefsStep
  <1> QED BY <1>1 DEF RefsStep

-----------------------------------------------------------------------------
(* The loop under the steps                                                *)

\* The apps are those of a finite list.
LEMMA AppsFinite == IsFiniteSet(Apps)
  <1> DEFINE S == 1..Len(AppNames)
             f == [i \in S |-> AppNames[i]]
  <1>1. Len(AppNames) \in Nat /\ DOMAIN AppNames = S
    BY ConstantsAssumption
  <1>2. IsFiniteSet(S)
    BY <1>1, FS_Interval
  <1>3. f \in Surjection(S, Apps)
    BY <1>1 DEF Surjection, Apps
  <1> QED BY <1>2, <1>3, FS_Surjection

\* So the failures of one image can be counted.
LEMMA FailedOnFinite ==
    ASSUME TypeOK, NEW p \in Procs, NEW r \in References
    PROVE  IsFiniteSet(FailedOn(p, r)) /\ Cardinality(FailedOn(p, r)) \in Nat
  <1>1. FailedOn(p, r) \in SUBSET Apps
    BY DEF FailedOn, TypeOK, FrameTypeOK
  <1>2. IsFiniteSet(FailedOn(p, r))
    BY <1>1, AppsFinite, FS_Subset
  <1> QED BY <1>2, FS_CardinalityType

\* A move keeps what holds of the loop.
LEMMA MovesLoop ==
    ASSUME NEW p \in Procs, IInv, ProcLoopOK(p), RefsStep(p), Moves(p)
    PROVE  ProcLoopOK(p)'
  <1>a. TypeOK /\ FrameOK
    BY DEF IInv
  <1>b. PICK l \in PcLabels : Goto(p, l) /\ Carries(p, l)
    BY DEF Moves
  <1>c. pc'[p] = l
    BY <1>a, <1>b DEF Goto, TypeOK, FrameTypeOK
  <1>d. /\ cmd' = cmd /\ app' = app /\ nextApp' = nextApp
        /\ updated' = updated /\ failed' = failed /\ asked' = asked
    BY DEF Moves, LoopSame
  <1>e. Updating(p)' <=> Updating(p)
    BY <1>d DEF Updating
  <1>1. BegunOK(p)'
    <2>1. l = "idle" => pc[p] = "idle"
      BY <1>b DEF Carries, Elsewhere, FetchPcs, BuildPcs, BuildingPcs
    <2>2. l \in {"orphans", "drop_refs"} => pc[p] \in {"orphans", "drop_refs"}
      BY <1>b DEF Carries, Elsewhere, FetchPcs, BuildPcs, BuildingPcs
    <2>3. BegunOK(p)
      BY DEF ProcLoopOK
    <2> QED BY <1>c, <1>d, <2>1, <2>2, <2>3 DEF BegunOK
  <1>f. l \in AppPcs => pc[p] \in AppPcs
    <2>1. {"ensure", "fetch", "ref_fill"} \subseteq AppPcs
      BY DEF AppPcs, BasePcs, FetchPcs
    <2> QED BY <1>b, <2>1, PcsApart DEF Carries, WorkPcs
  <1>g. pc[p] \in WorkPcs => l \in WorkPcs
    BY <1>b, PcsApart DEF Carries, WorkPcs, BuildPcs
  <1>2. CurrentOK(p)'
    <2> SUFFICES ASSUME Updating(p), l \in AppPcs
                 PROVE  CurrentOK(p)'
      BY <1>c, <1>e DEF CurrentOK
    <2>1. /\ nextApp[p] > 1 /\ app[p] = AppNames[nextApp[p] - 1]
          /\ app[p] \notin failed[p]
          /\ has_ref(image_key(app[p])) /\ has_ref(Reference[app[p]])
          /\ pc[p] # "ensure" => app[p] \notin InstallApps \/ cmd[p] = "rebuild"
          /\ pc[p] \in {"fetch", "resolve_tag"} \cup FetchPcs => app[p] \in PullApps
          /\ pc[p] = "resolve_tag" => Reference[app[p]] \notin updated[p]
      BY <1>f DEF ProcLoopOK, CurrentOK
    <2>2. app[p] \in Apps /\ pc[p] # "drop_refs"
      BY <1>a, <1>f, AppType, PcsApart
    <2>3. refs'[image_key(app[p])] # NoRef /\ refs'[Reference[app[p]]] # NoRef
      BY <2>1, <2>2, NoNewKeys, KeyTypes DEF Keys
    <2>4. l # "ensure" => app[p] \notin InstallApps \/ cmd[p] = "rebuild"
      <3>1. CASE pc[p] # "ensure"
        BY <2>1, <3>1
      <3>2. CASE pc[p] = "ensure" /\ l # "ensure"
        <4>1. app[p] \in InstallApps => RebuildArg(p)
          BY <1>b, <2>1, <3>2, PcsApart DEF Carries, BuildPcs, BuildingPcs, FetchPcs
        <4> QED BY <4>1 DEF RebuildArg, Updating
      <3> QED BY <3>1, <3>2
    <2>5. l \in {"fetch", "resolve_tag"} \cup FetchPcs => app[p] \in PullApps
      BY <1>b, <2>1, PcsApart DEF Carries, WorkPcs, BuildPcs, BuildingPcs, FetchPcs
    <2>6. l = "resolve_tag" => Reference[app[p]] \notin updated[p]
      <3>1. CASE pc[p] = "resolve_tag"
        BY <2>1, <3>1
      <3>2. CASE pc[p] # "resolve_tag" /\ l = "resolve_tag"
        <4>1. UpdateArg(p)
          BY <1>b, <2>1, <3>2, PcsApart DEF Carries, WorkPcs, BuildPcs, BuildingPcs,
             FetchPcs
        <4> QED BY <4>1 DEF UpdateArg, Updating
      <3> QED BY <3>1, <3>2
    <2> QED BY <1>c, <1>d, <2>1, <2>3, <2>4, <2>5, <2>6 DEF CurrentOK, has_ref
  <1>3. FailedOK(p)'
    BY <1>d, <1>e DEF FailedOK, ProcLoopOK
  <1>4. AskedOK(p)'
    <2> SUFFICES ASSUME Updating(p), NEW r \in References
                 PROVE  asked'[p][r] <= Cardinality(FailedOn(p, r)')
                                          + (IF Spent(p, r)' THEN 1 ELSE 0)
      BY <1>e DEF AskedOK
    <2>1. FailedOn(p, r)' = FailedOn(p, r)
      BY <1>d DEF FailedOn
    <2>2. Spent(p, r) => Spent(p, r)'
      BY <1>c, <1>d, <1>g DEF Spent
    <2>3. asked[p][r] \in Nat /\ Cardinality(FailedOn(p, r)) \in Nat
      BY <1>a, FailedOnFinite DEF TypeOK, FrameTypeOK
    <2>4. asked[p][r] <= Cardinality(FailedOn(p, r)) + (IF Spent(p, r) THEN 1 ELSE 0)
      BY DEF ProcLoopOK, AskedOK
    <2> QED BY <1>d, <2>1, <2>2, <2>3, <2>4
  <1>5. ReachedOK(p)'
    <2> SUFFICES ASSUME Updating(p), l \in AppPcs \cup {"next_app", "gc_images"}
                 PROVE  ReachedOK(p)'
      BY <1>c, <1>e DEF ReachedOK
    <2>1. /\ pc[p] \in AppPcs \cup {"next_app", "gc_images"}
          /\ pc[p] \in AppPcs => l \in AppPcs
          /\ l = "gc_images" => pc[p] = "gc_images"
      <3>1. pc[p] \notin {"orphans", "drop_refs"}
        BY DEF ProcLoopOK, BegunOK, Updating
      <3> QED
        BY <1>b, <3>1, PcsApart
        DEF Carries, WorkPcs, Elsewhere, FetchPcs, BuildPcs, BuildingPcs, AppPcs, BasePcs
    <2>2. nextApp[p] \in 1..(Len(AppNames) + 1)
      BY <1>a DEF TypeOK, FrameTypeOK
    <2>3. ASSUME NEW i \in 1..(nextApp[p] - 1), AppNames[i] \in PullApps,
                 refs'[image_key(AppNames[i])] # NoRef
          PROVE  Dealt(p, AppNames[i])' \/ (l \in AppPcs /\ AppNames[i] = app[p])
      <3>1. AppNames[i] \in Apps
        BY <2>3, ConstantsAssumption
      <3>2. has_ref(image_key(AppNames[i]))
        BY <2>3, <3>1, NoNewKeys
      <3>3. Dealt(p, AppNames[i]) \/ (pc[p] \in AppPcs /\ AppNames[i] = app[p])
        BY <2>1, <2>3, <3>2 DEF ProcLoopOK, ReachedOK
      <3>4. Dealt(p, AppNames[i])' <=> Dealt(p, AppNames[i])
        BY <1>d DEF Dealt
      <3> QED BY <2>1, <3>3, <3>4
    <2>4. l = "gc_images" => nextApp[p] = Len(AppNames) + 1
      BY <2>1 DEF ProcLoopOK, ReachedOK
    <2> QED BY <1>c, <1>d, <2>3, <2>4 DEF ReachedOK, has_ref
  <1> QED BY <1>1, <1>2, <1>3, <1>4, <1>5 DEF ProcLoopOK

\* What the end of ensure() does to the loop: the app is up to date or on the
\* list of failures, and a query that has just been made is accounted for.
LEMMA ReturnsLoop ==
    ASSUME NEW p \in Procs, IInv, ProcLoopOK(p), RefsStep(p),
           pc[p] \in AppPcs, NEW ok \in BOOLEAN, EnsureReturns(p, ok),
           ok => pc[p] # "resolve_tag",
           \A r \in References :
             asked'[p][r] = IF pc[p] = "resolve_tag" /\ r = Reference[app[p]]
                            THEN asked[p][r] + 1 ELSE asked[p][r]
    PROVE  ProcLoopOK(p)'
  <1>a. TypeOK /\ FrameOK /\ app[p] \in Apps
    BY AppType DEF IInv
  <1>d. cmd' = cmd /\ app' = app /\ nextApp' = nextApp
    BY DEF EnsureReturns
  <1>e. Updating(p)' <=> Updating(p)
    BY <1>d DEF Updating
  <1>1. BegunOK(p)'
    <2>1. pc'[p] \in {"next_app", "gc_images", "resolve", "exit"}
      BY <1>a DEF EnsureReturns, Goto, TypeOK, FrameTypeOK
    <2> QED BY <2>1 DEF BegunOK
  <1>2. CASE ~Updating(p)
    BY <1>1, <1>2, <1>e DEF ProcLoopOK, CurrentOK, FailedOK, AskedOK, ReachedOK
  <1>3. CASE Updating(p)
    <2>1. pc'[p] = "next_app"
      BY <1>3, <1>a DEF EnsureReturns, Goto, TypeOK, FrameTypeOK, Updating
    <2>2. updated'[p] = IF /\ ok /\ app[p] \in PullApps
                           /\ app[p] \notin InstallApps \/ cmd[p] = "rebuild"
                        THEN updated[p] \cup {Reference[app[p]]} ELSE updated[p]
      BY <1>3, <1>a DEF EnsureReturns, TypeOK, FrameTypeOK
    <2>3. failed'[p] = IF ok THEN failed[p] ELSE failed[p] \cup {app[p]}
      BY <1>3, <1>a DEF EnsureReturns, TypeOK, FrameTypeOK
    <2>4. /\ nextApp[p] > 1 /\ app[p] = AppNames[nextApp[p] - 1]
          /\ app[p] \notin failed[p]
          /\ pc[p] # "ensure" => app[p] \notin InstallApps \/ cmd[p] = "rebuild"
      BY <1>3 DEF ProcLoopOK, CurrentOK
    <2>5. nextApp[p] \in 1..(Len(AppNames) + 1) /\ Len(AppNames) \in Nat
      BY <1>a, ConstantsAssumption DEF TypeOK, FrameTypeOK
    <2>6. CurrentOK(p)'
      BY <2>1, PcsApart DEF CurrentOK
    <2>7. FailedOK(p)'
      <3>1. nextApp[p] - 1 \in 1..(nextApp[p] - 1)
        BY <2>4, <2>5
      <3>2. \A a \in failed[p] : \E i \in 1..(nextApp[p] - 1) : a = AppNames[i]
        BY <1>3 DEF ProcLoopOK, FailedOK
      <3> QED BY <1>d, <2>3, <2>4, <3>1, <3>2 DEF FailedOK
    <2>8. AskedOK(p)'
      <3> SUFFICES ASSUME NEW r \in References
                   PROVE  asked'[p][r] <= Cardinality(FailedOn(p, r)')
                                            + (IF Spent(p, r)' THEN 1 ELSE 0)
        BY DEF AskedOK
      <3>1. asked[p][r] \in Nat /\ Cardinality(FailedOn(p, r)) \in Nat
        BY <1>a, FailedOnFinite DEF TypeOK, FrameTypeOK
      <3>2. asked[p][r] <= Cardinality(FailedOn(p, r)) + (IF Spent(p, r) THEN 1 ELSE 0)
        BY <1>3 DEF ProcLoopOK, AskedOK
      <3>3. CASE ok
        <4>1. FailedOn(p, r)' = FailedOn(p, r)
          BY <2>3, <3>3 DEF FailedOn
        <4>2. Spent(p, r) => Spent(p, r)'
          <5>1. CASE r \in updated[p]
            BY <2>2, <5>1 DEF Spent
          <5>2. CASE pc[p] \in WorkPcs /\ app[p] \in PullApps /\ Reference[app[p]] = r
            <6>1. r \in updated'[p]
              BY <2>2, <2>4, <3>3, <5>2, PcsApart
            <6> QED BY <6>1 DEF Spent
          <5> QED BY <5>1, <5>2 DEF Spent
        <4>3. asked'[p][r] = asked[p][r]
          BY <3>3
        <4> QED BY <3>1, <3>2, <4>1, <4>2, <4>3
      <3>4. CASE ~ok /\ r = Reference[app[p]]
        <4>1. FailedOn(p, r)' = FailedOn(p, r) \cup {app[p]}
          BY <2>3, <3>4 DEF FailedOn
        <4>2. app[p] \notin FailedOn(p, r) /\ IsFiniteSet(FailedOn(p, r))
          BY <1>a, <2>4, FailedOnFinite DEF FailedOn
        <4>3. Cardinality(FailedOn(p, r) \cup {app[p]})
                = Cardinality(FailedOn(p, r)) + 1
          BY <4>2, FS_AddElement
        <4>4. Spent(p, r) => pc[p] # "resolve_tag" \/ r \in updated'[p]
          BY <2>2, PcsApart DEF Spent
        <4>5. pc[p] = "resolve_tag" /\ Spent(p, r) => Spent(p, r)'
          BY <4>4 DEF Spent
        <4>6. asked'[p][r] <= asked[p][r] + (IF pc[p] = "resolve_tag" THEN 1 ELSE 0)
          BY <3>1
        <4> QED BY <3>1, <3>2, <4>1, <4>3, <4>5, <4>6
      <3>5. CASE ~ok /\ r # Reference[app[p]]
        <4>1. FailedOn(p, r)' = FailedOn(p, r)
          BY <2>3, <3>5 DEF FailedOn
        <4>2. Spent(p, r) => Spent(p, r)'
          BY <2>2, <3>5 DEF Spent
        <4>3. asked'[p][r] = asked[p][r]
          BY <3>5
        <4> QED BY <3>1, <3>2, <4>1, <4>2, <4>3
      <3> QED BY <3>3, <3>4, <3>5
    <2>9. ReachedOK(p)'
      <3> SUFFICES ASSUME NEW i \in 1..(nextApp[p] - 1), AppNames[i] \in PullApps,
                          refs'[image_key(AppNames[i])] # NoRef
                   PROVE  Dealt(p, AppNames[i])'
        BY <1>d, <2>1 DEF ReachedOK, has_ref
      <3> DEFINE a == AppNames[i]
      <3>1. a \in Apps
        BY <2>5, ConstantsAssumption
      <3>2. has_ref(image_key(a))
        BY <1>3, <3>1, NoNewKeys
      <3>3. Dealt(p, a) \/ a = app[p]
        BY <1>3, <3>2 DEF ProcLoopOK, ReachedOK
      <3>4. CASE Dealt(p, a)
        BY <1>d, <2>2, <2>3, <3>4 DEF Dealt
      <3>5. CASE a = app[p]
        <4>1. CASE ~ok
          BY <2>3, <3>5, <4>1 DEF Dealt
        <4>2. CASE ok /\ (a \notin InstallApps \/ cmd[p] = "rebuild")
          BY <2>2, <3>5, <4>2 DEF Dealt
        <4>3. CASE a \in InstallApps /\ cmd[p] # "rebuild"
          BY <1>3, <1>d, <4>3 DEF Dealt, Updating
        <4> QED BY <4>1, <4>2, <4>3
      <3> QED BY <3>3, <3>4, <3>5
    <2> QED BY <1>1, <2>6, <2>7, <2>8, <2>9 DEF ProcLoopOK
  <1> QED BY <1>2, <1>3

\* The query itself, answered: the image is not up to date yet, so it had not
\* been asked for more often than apps failed on it.
LEMMA AsksLoop ==
    ASSUME NEW p \in Procs, IInv, ProcLoopOK(p), RefsStep(p), Asks(p)
    PROVE  ProcLoopOK(p)'
  <1>a. TypeOK /\ pc[p] = "resolve_tag" /\ pc[p] \in AppPcs /\ app[p] \in Apps
    BY AppType DEF IInv, Asks, AppPcs
  <1>b. \A r \in References :
          asked'[p][r] = IF r = Reference[app[p]] THEN asked[p][r] + 1 ELSE asked[p][r]
    <2>1. Reference[app[p]] \in References
      BY <1>a, KeyTypes
    <2> QED BY <1>a, <2>1 DEF Asks, TypeOK, FrameTypeOK
  <1>1. CASE EnsureReturns(p, FALSE)
    BY <1>a, <1>b, <1>1, ReturnsLoop
  <1>2. CASE Goto(p, "manifest_open") /\ UNCHANGED loopVars
    <2>1. pc'[p] = "manifest_open"
      BY <1>a, <1>2 DEF Goto, TypeOK, FrameTypeOK
    <2>2. /\ cmd' = cmd /\ app' = app /\ nextApp' = nextApp
          /\ updated' = updated /\ failed' = failed
      BY <1>2 DEF loopVars
    <2>3. Updating(p)' <=> Updating(p)
      BY <2>2 DEF Updating
    <2>4. "manifest_open" \in WorkPcs \cap AppPcs \cap FetchPcs
      BY DEF WorkPcs, FetchPcs, AppPcs, BasePcs
    <2>5. BegunOK(p)'
      BY <2>1 DEF BegunOK
    <2>6. FailedOK(p)'
      BY <2>2, <2>3 DEF ProcLoopOK, FailedOK
    <2>7. CASE ~Updating(p)
      BY <2>3, <2>5, <2>6, <2>7 DEF ProcLoopOK, CurrentOK, AskedOK, ReachedOK
    <2>8. CASE Updating(p)
      <3>1. /\ nextApp[p] > 1 /\ app[p] = AppNames[nextApp[p] - 1]
            /\ app[p] \notin failed[p]
            /\ has_ref(image_key(app[p])) /\ has_ref(Reference[app[p]])
            /\ app[p] \notin InstallApps \/ cmd[p] = "rebuild"
            /\ app[p] \in PullApps
            /\ Reference[app[p]] \notin updated[p]
        BY <1>a, <2>8 DEF ProcLoopOK, CurrentOK
      <3>2. refs'[image_key(app[p])] # NoRef /\ refs'[Reference[app[p]]] # NoRef
        BY <1>a, <2>8, <3>1, NoNewKeys, KeyTypes DEF Keys
      <3>3. CurrentOK(p)'
        BY <2>1, <2>2, <3>1, <3>2 DEF CurrentOK, has_ref
      <3>4. AskedOK(p)'
        <4> SUFFICES ASSUME NEW r \in References
                     PROVE  asked'[p][r] <= Cardinality(FailedOn(p, r)')
                                              + (IF Spent(p, r)' THEN 1 ELSE 0)
          BY DEF AskedOK
        <4>1. asked[p][r] \in Nat /\ Cardinality(FailedOn(p, r)) \in Nat
          BY <1>a, FailedOnFinite DEF TypeOK, FrameTypeOK
        <4>2. asked[p][r] <= Cardinality(FailedOn(p, r))
                               + (IF Spent(p, r) THEN 1 ELSE 0)
          BY <2>8 DEF ProcLoopOK, AskedOK
        <4>3. FailedOn(p, r)' = FailedOn(p, r)
          BY <2>2 DEF FailedOn
        <4>4. Spent(p, r) <=> r \in updated[p]
          BY <1>a, PcsApart DEF Spent
        <4>5. Spent(p, r)' <=> r \in updated[p] \/ r = Reference[app[p]]
          BY <2>1, <2>2, <2>4, <3>1 DEF Spent
        <4> QED BY <1>b, <3>1, <4>1, <4>2, <4>3, <4>4, <4>5
      <3>5. ReachedOK(p)'
        <4>1. ASSUME NEW i \in 1..(nextApp[p] - 1), AppNames[i] \in PullApps,
                     refs'[image_key(AppNames[i])] # NoRef
              PROVE  Dealt(p, AppNames[i])' \/ AppNames[i] = app[p]
          <5>1. AppNames[i] \in Apps
            BY <1>a, ConstantsAssumption DEF TypeOK, FrameTypeOK
          <5>2. has_ref(image_key(AppNames[i]))
            BY <2>8, <4>1, <5>1, NoNewKeys
          <5>3. Dealt(p, AppNames[i]) \/ AppNames[i] = app[p]
            BY <1>a, <2>8, <4>1, <5>2 DEF ProcLoopOK, ReachedOK
          <5> QED BY <2>2, <5>3 DEF Dealt
        <4> QED BY <2>1, <2>2, <2>4, <4>1 DEF ReachedOK, has_ref
      <3> QED BY <2>5, <2>6, <3>3, <3>4, <3>5 DEF ProcLoopOK
    <2> QED BY <2>7, <2>8
  <1> QED BY <1>1, <1>2 DEF Asks

\* The loop comes to its next app, which is in the store, or passes one that
\* is not, or is through.
LEMMA NextAppLoop ==
    ASSUME NEW p \in Procs, IInv, KeysOK, ProcLoopOK(p), next_app(p)
    PROVE  ProcLoopOK(p)'
  <1>a. TypeOK /\ pc[p] = "next_app"
    BY DEF IInv, next_app
  <1>b. /\ cmd' = cmd /\ refs' = refs /\ asked' = asked
        /\ updated' = updated /\ failed' = failed
    BY DEF next_app, storeVars
  <1>c. Updating(p)' <=> Updating(p)
    BY <1>b DEF Updating
  <1>d. /\ nextApp[p] \in 1..(Len(AppNames) + 1)
        /\ Len(AppNames) \in Nat /\ DOMAIN AppNames = 1..Len(AppNames)
    BY <1>a, ConstantsAssumption DEF TypeOK, FrameTypeOK
  <1>e. pc'[p] \in {"next_app", "ensure", "gc_images"}
    BY <1>a DEF next_app, Goto, TypeOK, FrameTypeOK
  <1>1. BegunOK(p)'
    BY <1>e DEF BegunOK
  <1>2. AskedOK(p)'
    <2> SUFFICES ASSUME Updating(p), NEW r \in References
                 PROVE  asked'[p][r] <= Cardinality(FailedOn(p, r)')
                                          + (IF Spent(p, r)' THEN 1 ELSE 0)
      BY <1>c DEF AskedOK
    <2>1. FailedOn(p, r)' = FailedOn(p, r)
      BY <1>b DEF FailedOn
    <2>2. Spent(p, r) => Spent(p, r)'
      BY <1>a, <1>b, PcsApart DEF Spent
    <2>3. asked[p][r] \in Nat /\ Cardinality(FailedOn(p, r)) \in Nat
      BY <1>a, FailedOnFinite DEF TypeOK, FrameTypeOK
    <2>4. asked[p][r] <= Cardinality(FailedOn(p, r)) + (IF Spent(p, r) THEN 1 ELSE 0)
      BY DEF ProcLoopOK, AskedOK
    <2> QED BY <1>b, <2>1, <2>2, <2>3, <2>4
  <1>f. ASSUME Updating(p), NEW i \in 1..(nextApp[p] - 1), AppNames[i] \in PullApps,
               has_ref(image_key(AppNames[i]))
        PROVE  Dealt(p, AppNames[i])'
    <2>1. Dealt(p, AppNames[i])
      BY <1>a, <1>f, PcsApart DEF ProcLoopOK, ReachedOK
    <2> QED BY <1>b, <2>1 DEF Dealt
  <1>3. CASE nextApp[p] \notin DOMAIN AppNames
    <2>1. nextApp[p] = Len(AppNames) + 1
      BY <1>d, <1>3
    <2>2. pc'[p] = "gc_images" /\ app' = app /\ nextApp' = nextApp
      BY <1>a, <1>3 DEF next_app, Goto, TypeOK, FrameTypeOK
    <2>3. CurrentOK(p)'
      BY <2>2, PcsApart DEF CurrentOK
    <2>4. FailedOK(p)'
      BY <1>b, <1>c, <2>2 DEF ProcLoopOK, FailedOK
    <2>5. ReachedOK(p)'
      BY <1>b, <1>c, <1>f, <2>1, <2>2 DEF ReachedOK, has_ref
    <2> QED BY <1>1, <1>2, <2>3, <2>4, <2>5 DEF ProcLoopOK
  <1>4. CASE nextApp[p] \in DOMAIN AppNames
    <2> DEFINE n == nextApp[p]
               a == AppNames[n]
               in == has_ref(image_key(a))
    <2>1. /\ app' = [app EXCEPT ![p] = a] /\ nextApp' = [nextApp EXCEPT ![p] = n + 1]
          /\ IF defs[a] = "ok" /\ in THEN Goto(p, "ensure") ELSE UNCHANGED pc
      BY <1>4 DEF next_app
    <2>2. app'[p] = a /\ nextApp'[p] = n + 1
      BY <1>a, <2>1 DEF TypeOK, FrameTypeOK
    <2>3. a \in Apps /\ defs[a] = "ok"
      BY <1>4 DEF Apps, KeysOK
    <2>4. /\ in => pc'[p] = "ensure"
          /\ ~in => pc'[p] = "next_app"
      BY <1>a, <2>1, <2>3 DEF Goto, TypeOK, FrameTypeOK
    <2>5. ASSUME Updating(p)
          PROVE  a \notin failed[p]
      <3>1. SUFFICES ASSUME NEW i \in 1..(n - 1), a = AppNames[i] PROVE FALSE
        BY <2>5 DEF ProcLoopOK, FailedOK
      <3>2. i \in DOMAIN AppNames /\ i # n
        BY <1>d, <1>4
      <3> QED BY <1>4, <3>1, <3>2, ConstantsAssumption
    <2>6. in => has_ref(Reference[a])
      <3>1. CASE a \in InstallApps
        BY <3>1 DEF KeysOK, image_key
      <3>2. CASE a \notin InstallApps
        BY <3>2 DEF image_key
      <3> QED BY <3>1, <3>2
    <2>7. CurrentOK(p)'
      <3> SUFFICES ASSUME Updating(p), in
                   PROVE  CurrentOK(p)'
        BY <1>c, <2>4, PcsApart DEF CurrentOK
      <3>1. n + 1 > 1 /\ (n + 1) - 1 = n
        BY <1>d
      <3>2. "ensure" \notin FetchPcs
        BY DEF FetchPcs
      <3>3. refs'[image_key(a)] # NoRef /\ refs'[Reference[a]] # NoRef
        BY <1>b, <2>6 DEF has_ref
      <3> QED
        BY <1>b, <2>2, <2>4, <2>5, <3>1, <3>2, <3>3 DEF CurrentOK, has_ref
    <2>8. FailedOK(p)'
      <3> SUFFICES ASSUME Updating(p), NEW b \in failed[p]
                   PROVE  \E i \in 1..(nextApp'[p] - 1) : b = AppNames[i]
        BY <1>b, <1>c DEF FailedOK
      <3>1. PICK i \in 1..(n - 1) : b = AppNames[i]
        BY DEF ProcLoopOK, FailedOK
      <3>2. i \in 1..(nextApp'[p] - 1)
        BY <1>d, <2>2
      <3> QED BY <3>1, <3>2
    <2>9. ReachedOK(p)'
      <3> SUFFICES ASSUME Updating(p), NEW i \in 1..n, AppNames[i] \in PullApps,
                          has_ref(image_key(AppNames[i]))
                   PROVE  Dealt(p, AppNames[i])' \/ (pc'[p] \in AppPcs /\ AppNames[i] = a)
        <4>1. pc'[p] # "gc_images" /\ (n + 1) - 1 = n
          BY <1>d, <2>4
        <4> HIDE DEF a
        <4> QED BY <1>b, <1>c, <2>2, <4>1 DEF ReachedOK, has_ref
      <3>1. CASE i = n
        BY <2>4, <3>1 DEF AppPcs
      <3>2. CASE i # n
        <4>1. i \in 1..(n - 1)
          BY <1>d, <3>2
        <4> QED BY <1>f, <4>1
      <3> QED BY <3>1, <3>2
    <2> QED BY <1>1, <1>2, <2>7, <2>8, <2>9 DEF ProcLoopOK
  <1> QED BY <1>3, <1>4

\* A command starts with nothing passed, failed or asked.
LEMMA BeginsLoop ==
    ASSUME NEW p \in Procs, IInv, ProcLoopOK(p),
           \E c \in Commands : start(p, c) \/ \E a \in Apps : start_app(p, c, a)
    PROVE  ProcLoopOK(p)'
  <1>a. TypeOK /\ pc[p] = "idle"
    BY DEF IInv, start, start_app
  <1>b. /\ nextApp[p] = 1 /\ updated[p] = {} /\ failed[p] = {}
        /\ \A r \in References : asked[p][r] = 0
    BY <1>a DEF ProcLoopOK, BegunOK
  <1>c. /\ nextApp' = nextApp /\ updated' = updated /\ failed' = failed /\ asked' = asked
    BY DEF start, start_app
  <1>1. ASSUME NEW c \in Commands, NEW a \in Apps, start_app(p, c, a)
        PROVE  pc'[p] = "ensure" /\ ~Updating(p)'
    BY <1>a, <1>1 DEF start_app, Goto, Updating, TypeOK, FrameTypeOK
  <1>2. ASSUME NEW c \in Commands, start(p, c)
        PROVE  \/ pc'[p] = "orphans" /\ cmd'[p] = "clean"
               \/ pc'[p] = "next_app"
    BY <1>a, <1>2 DEF start, Goto, TypeOK, FrameTypeOK
  <1>d. Updating(p)' => pc'[p] = "next_app"
    BY <1>1, <1>2 DEF Updating
  <1>3. BegunOK(p)'
    BY <1>1, <1>2 DEF BegunOK
  <1>4. CurrentOK(p)'
    BY <1>d, PcsApart DEF CurrentOK
  <1>5. FailedOK(p)'
    BY <1>b, <1>c DEF FailedOK
  <1>6. AskedOK(p)'
    <2> SUFFICES ASSUME NEW r \in References
                 PROVE  asked'[p][r] <= Cardinality(FailedOn(p, r)')
                                          + (IF Spent(p, r)' THEN 1 ELSE 0)
      BY DEF AskedOK
    <2>1. FailedOn(p, r)' = FailedOn(p, r)
      BY <1>c DEF FailedOn
    <2>2. Cardinality(FailedOn(p, r)) \in Nat
      BY <1>a, FailedOnFinite
    <2> QED BY <1>b, <1>c, <2>1, <2>2
  <1>7. ReachedOK(p)'
    BY <1>b, <1>c, <1>d DEF ReachedOK
  <1> QED BY <1>3, <1>4, <1>5, <1>6, <1>7 DEF ProcLoopOK

\* A process that ends leaves nothing of the loop behind.
LEMMA EndsLoop ==
    ASSUME NEW p \in Procs, IInv, Terminate(p)
    PROVE  ProcLoopOK(p)'
  <1>a. TypeOK
    BY DEF IInv
  <1>1. /\ pc'[p] = "idle" /\ cmd'[p] = "none" /\ nextApp'[p] = 1
        /\ updated'[p] = {} /\ failed'[p] = {}
    BY <1>a DEF Terminate, Goto, TypeOK, FrameTypeOK
  <1>2. \A r \in References : asked'[p][r] = 0
    BY <1>a DEF Terminate, TypeOK, FrameTypeOK
  <1>3. ~Updating(p)'
    BY <1>1 DEF Updating
  <1> QED BY <1>1, <1>2, <1>3
    DEF ProcLoopOK, BegunOK, CurrentOK, FailedOK, AskedOK, ReachedOK

\* Starting and ending leave the records to the commands in between.
LEMMA KeysFrame ==
    ASSUME OneProcess, IInv, KeysOK, NEW p \in Procs, UNCHANGED <<refs, defs>>,
           \/ \E c \in Commands : start(p, c) \/ \E a \in Apps : start_app(p, c, a)
           \/ Terminate(p)
    PROVE  KeysOK'
  <1>1. pc'[p] \in {"idle", "ensure", "orphans", "next_app"}
    BY DEF IInv, TypeOK, FrameTypeOK, start, start_app, Terminate, Goto
  <1>2. pc'[p] # "drop_refs" /\ pc'[p] \notin BuildPcs
    BY <1>1 DEF BuildPcs, BuildingPcs
  <1> QED BY <1>2 DEF KeysOK, has_ref, OneProcess

\* Each step of the system keeps the invariant of the loop.
LEMMA LoopStep ==
    ASSUME OneProcess, NoEdits, IInv, LInv, [Next]_vars
    PROVE  LInv'
  <1>a. KeysOK /\ \A p \in Procs : ProcLoopOK(p)
    BY DEF LInv, LoopOK, ProcLoopOK
  <1>b. ASSUME NEW p \in Procs, KeysOK', ProcLoopOK(p)'
        PROVE  LInv'
    BY <1>b DEF LInv, LoopOK, ProcLoopOK, OneProcess
  <1>1. ASSUME NEW p \in Procs, OwnNext(p), UNCHANGED worldVars
        PROVE  LInv'
    <2>1. KeysOK'
      BY <1>a, <1>1, KeysStep DEF worldVars
    <2>2. Moves(p) \/ Asks(p) \/ Returns(p) \/ next_app(p)
      BY <1>a, <1>1, OwnStep
    <2>3. RefsStep(p)
      BY <1>a, <1>1, OwnStep
    <2>4. CASE Returns(p)
      <3>1. PICK ok \in BOOLEAN : EnsureReturns(p, ok)
        BY <2>4 DEF Returns
      <3>2. pc[p] # "resolve_tag" /\ pc[p] \in AppPcs /\ asked' = asked
        BY <2>4 DEF Returns
      <3>3. ProcLoopOK(p)'
        BY <1>a, <1>1, <2>3, <3>1, <3>2, ReturnsLoop
      <3> QED BY <1>b, <2>1, <3>3
    <2>5. CASE Moves(p) \/ Asks(p) \/ next_app(p)
      <3>1. ProcLoopOK(p)'
        BY <1>a, <2>3, <2>5, MovesLoop, AsksLoop, NextAppLoop
      <3> QED BY <1>b, <2>1, <3>1
    <2> QED BY <2>2, <2>4, <2>5
  <1>2. ASSUME NEW p \in Procs, exit(p) \/ kill(p)
        PROVE  LInv'
    <2>1. Terminate(p) /\ UNCHANGED <<refs, defs>>
      BY <1>2 DEF exit, kill, Terminate, worldVars
    <2> QED BY <1>a, <1>b, <2>1, KeysFrame, EndsLoop
  <1>3. ASSUME NEW p \in Procs, NEW c \in Commands,
               start(p, c) \/ \E a \in Apps : start_app(p, c, a)
        PROVE  LInv'
    <2>1. UNCHANGED <<refs, defs>>
      BY <1>3 DEF start, start_app, storeVars, worldVars
    <2>2. KeysOK'
      BY <1>a, <1>3, <2>1, KeysFrame
    <2>3. ProcLoopOK(p)'
      BY <1>a, <1>3, BeginsLoop
    <2> QED BY <1>b, <2>2, <2>3
  <1>4. CASE UNCHANGED vars \/ \E r \in References : publish(r)
    <2>1. UNCHANGED <<refs, defs, pc, cmd, app, nextApp, updated, failed, gcKeys, asked>>
      BY <1>4 DEF publish, vars, storeVars, worldVars, loopVars, gcVars
    <2> QED
      BY <2>1
      DEF LInv, KeysOK, LoopOK, BegunOK, CurrentOK, FailedOK, AskedOK, ReachedOK,
          FailedOn, Spent, Dealt, Updating, has_ref
  <1>5. ASSUME NEW a \in Apps, edit(a)
        PROVE  FALSE
    BY <1>a, <1>5 DEF edit, KeysOK, NoEdits
  <1> QED
    BY <1>1, <1>2, <1>3, <1>4, <1>5 DEF Next, Step, OwnNext

\* A store with no records but those of references, and nothing running.
LEMMA LoopInit ==
    ASSUME Init
    PROVE  LInv
  <1>1. KeysOK
    <2>1. \A a \in InstallApps : a \notin Preinstalled /\ a \in Keys
      BY ConstantsAssumption DEF Keys
    <2> QED BY <2>1 DEF Init, KeysOK, has_ref, BuildPcs, BuildingPcs
  <1>2. ASSUME NEW p \in Procs
        PROVE  BegunOK(p) /\ cmd[p] = "none"
    BY DEF Init, BegunOK
  <1> QED
    BY <1>1, <1>2
    DEF LInv, LoopOK, CurrentOK, FailedOK, AskedOK, ReachedOK, Updating

\* pull.rs:205-258, the loop of `pull -u`: one app that fails does not stop it.
\* Whatever fails and wherever the process is killed, the loop that comes to the
\* collection has brought every app in the store up to date or has it on the
\* list of failures, and has queried no registry twice for one image but after
\* a failure.
THEOREM UpdateReaches ==
    ASSUME OneProcess, NoEdits
    PROVE  Spec => []UpdateReachesAll
  <1>1. Init => LInv
    BY LoopInit
  <1>2. IInv /\ LInv /\ [Next]_vars => LInv'
    BY LoopStep
  <1>3. IInv /\ LInv => UpdateReachesAll
    <2> SUFFICES ASSUME IInv, LInv, NEW p \in Procs, Updating(p)
                 PROVE  /\ pc[p] = "gc_images" =>
                             \A a \in PullApps :
                               defs[a] = "ok" /\ has_ref(image_key(a)) => Dealt(p, a)
                        /\ \A r \in References :
                             asked[p][r] <= 1 + Cardinality(FailedOn(p, r))
      BY DEF UpdateReachesAll, Dealt, FailedOn
    <2>1. TypeOK /\ AskedOK(p) /\ ReachedOK(p)
      BY DEF IInv, LInv, LoopOK
    <2>2. ASSUME pc[p] = "gc_images", NEW a \in PullApps, has_ref(image_key(a))
          PROVE  Dealt(p, a)
      <3>1. PICK i \in DOMAIN AppNames : a = AppNames[i]
        BY ConstantsAssumption DEF Apps
      <3>2. nextApp[p] = Len(AppNames) + 1 /\ pc[p] \notin AppPcs
        BY <2>1, <2>2, PcsApart DEF ReachedOK
      <3>3. i \in 1..(nextApp[p] - 1)
        BY <3>2, ConstantsAssumption
      <3> QED BY <2>1, <2>2, <3>1, <3>2, <3>3 DEF ReachedOK
    <2>3. ASSUME NEW r \in References
          PROVE  asked[p][r] <= 1 + Cardinality(FailedOn(p, r))
      <3>1. asked[p][r] \in Nat /\ Cardinality(FailedOn(p, r)) \in Nat
        BY <2>1, FailedOnFinite DEF TypeOK, FrameTypeOK
      <3> QED BY <2>1, <3>1 DEF AskedOK
    <2> QED BY <2>2, <2>3
  <1> QED BY <1>1, <1>2, <1>3, Inductive, PTL DEF Spec

-----------------------------------------------------------------------------
(* One process leaves every recorded image complete                        *)

\* The hypotheses: no manifest names a layer twice, and no process is killed
\* while it rewrites a manifest in place or deletes a directory's entries.
LayersApart ==
    \A m \in Manifests : \A i, j \in DOMAIN Layers[m] :
        Layers[m][i] = Layers[m][j] => i = j
NoTornKill == KillPoints \cap {"manifest_fill", "remove_tree"} = {}

\* A recorded image is complete but for its manifest while that is rewritten;
RecordedOK(p, d) ==
    /\ blobs[d] = "ok" \/ (pc[p] = "manifest_fill" /\ img[p] = d)
    /\ blobs[ConfigOf(d)] = "ok"
    /\ \A l \in LayersOf(d) : dirs[layer_path(l)] = Parts

\* no other blob of a registry's is torn, and no layer but the one that is
\* being deleted is there in part.
SoundOK(p) ==
    /\ \A c \in Configs : blobs[c] # "torn"
    /\ \A m \in Manifests :
         blobs[m] = "torn" => pc[p] = "manifest_fill" /\ img[p] = m
    /\ \A l \in LayerIds :
         \/ dirs[layer_path(l)] \in {NoDir, Parts}
         \/ pc[p] = "remove_tree" /\ doomed[p] = layer_path(l)
    /\ \A k \in Keys : refs[k] \in Images => RecordedOK(p, refs[k])

\* What fetch_image() has stored at each point,
FetchOK(p) ==
    /\ pc[p] = "manifest_fill" => blobs[img[p]] = "torn"
    /\ pc[p] \in FetchPcs \ {"manifest_open", "manifest_fill"} => blobs[img[p]] = "ok"
    /\ pc[p] \in {"pending", "layers", "abort", "ref_fill"} =>
         blobs[ConfigOf(img[p])] = "ok"
    /\ pc[p] = "ref_fill" =>
         refs[Reference[app[p]]] = Empty /\ \A i \in Slots : task[p][i] \in {"none", "done"}

\* and each of its futures.
TaskOK(p, i) ==
    LET staging == dirs[staging_path(Layers[img[p]][i])]
        layer == dirs[layer_path(Layers[img[p]][i])]
    IN  /\ task[p][i] \in {"ok", "done"} => layer = Parts
        /\ task[p][i] = "none" /\ pc[p] # "abort" => layer = Parts
        /\ task[p][i] \in {"open", "unpack_1"} => staging = NoDir
        /\ task[p][i] = "unpack_2" => staging = {1}
        /\ task[p][i] = "rename" => staging = Parts
TasksOK(p) ==
    pc[p] \in {"layers", "abort", "ref_fill"} =>
        \A i \in DOMAIN Layers[img[p]] : TaskOK(p, i)

\* The build stands on the base recorded, and is recorded last of all.
BuildOK(p) ==
    /\ pc[p] \in BuildPcs \ {"build"} => refs[Reference[app[p]]] = img[p]
    /\ pc[p] \in BuildingPcs => built[bid[p]] = img[p] /\ \A k \in Keys : refs[k] # bid[p]
    /\ pc[p] \in {"run_script", "script_1"} => dirs[staging_path(bid[p])] = {}
    /\ pc[p] = "script_2" => dirs[staging_path(bid[p])] = {1}
    /\ pc[p] = "build_rename" => dirs[staging_path(bid[p])] = Parts
    /\ pc[p] \in {"build_open", "build_fill", "build_ref_open", "build_ref_fill"} =>
         dirs[layer_path(bid[p])] = Parts
    /\ pc[p] = "build_fill" => blobs[bid[p]] = "torn"
    /\ pc[p] \in {"build_ref_open", "build_ref_fill"} => blobs[bid[p]] = "ok"
    /\ pc[p] = "build_ref_fill" => refs[app[p]] = Empty

\* A collection that has the store to itself: every record it listed is stable,
\* what it has noted is recorded, and what it has not is on its list.
Recorded == {refs[k] : k \in Keys} \cap Images
SweepOK(p) ==
    /\ pc[p] \in GcPcs => \A k \in Keys : has_ref(k) => k \in stable[p]
    /\ pc[p] \notin GcPcs \cup {"exit"} => liveBlobs[p] = {} /\ liveLayers[p] = {}
    /\ pc[p] = "live_manifest" => img[p] \in Recorded
    /\ pc[p] \in GcPcs =>
         /\ \A b \in liveBlobs[p] : \E d \in Recorded : b \in {d, ConfigOf(d)}
         /\ \A l \in liveLayers[p] : \E d \in Recorded : l \in LayersOf(d)
    /\ pc[p] \in Deleting =>
         \A b \in Blobs : has_blob(b) =>
           b \in liveBlobs[p] \/ (pc[p] = "gc_blobs" /\ <<"blob", b>> \in victims[p])
    /\ pc[p] \in Deleting \ {"gc_blobs"} =>
         \A e \in Dirs : dirs[e] # NoDir =>
           \/ \E l \in liveLayers[p] : e = layer_path(l)
           \/ pc[p] # "gc_temps" /\ e \in victims[p]
           \/ e = doomed[p]
    /\ pc[p] = "remove_tree" => dirs[doomed[p]] = left[p]
    /\ pc[p] = "gc_temps" => \A t \in temps : <<"temp", t>> \in victims[p]

\* What `climate pull` of one app has delivered
PullOK(p) ==
    /\ pc[p] \in {"orphans", "drop_refs"} => cmd[p] = "clean"
    /\ cmd[p] = "pull" => pc[p] # "next_app"
    /\ cmd[p] = "pull" /\ pc[p] \in AppPcs \cup {"gc_images"} =>
         app[p] \in PullApps \cup InstallApps
    /\ cmd[p] = "pull" /\ pc[p] = "gc_images" =>
         /\ refs[image_key(app[p])] \in Images
         /\ BaseOf(refs[image_key(app[p])]) = refs[Reference[app[p]]]

ProcStoreOK(p) ==
    /\ SoundOK(p) /\ FetchOK(p) /\ TasksOK(p) /\ BuildOK(p)
    /\ SweepOK(p) /\ PullOK(p)
SInv == \A p \in Procs : ProcStoreOK(p)

-----------------------------------------------------------------------------
(* Where the steps of each file take a process                             *)

\* Pcs at which nothing is claimed of the work at hand
LEMMA StorePcs ==
    /\ FetchPcs \cap (BuildPcs \cup GcPcs \cup {"idle", "next_app", "gc_images", "exit"}) = {}
    /\ BuildPcs \cap (GcPcs \cup {"idle", "next_app", "gc_images", "exit"}) = {}
    /\ AppPcs \cap (GcPcs \cup {"idle", "next_app", "gc_images", "exit", "orphans",
                                "drop_refs"}) = {}
    /\ FetchPcs \subseteq AppPcs /\ BuildPcs \subseteq AppPcs
    /\ BuildingPcs \subseteq BuildPcs
    /\ GcPcs \cap {"idle", "next_app", "gc_images", "exit", "orphans", "drop_refs"} = {}
    /\ {"pending", "layers", "abort", "ref_fill", "manifest_open", "manifest_fill"}
         \subseteq FetchPcs
    /\ {"ensure", "fetch", "resolve_tag", "build", "resolve"}
         \cap (FetchPcs \cup (BuildPcs \ {"build"})) = {}
    /\ {"ensure", "fetch", "resolve_tag", "build", "resolve"} \subseteq AppPcs
    /\ {"manifest_fill", "remove_tree"} \cap (BuildPcs \cup ResolvedPcs) = {}
    /\ ResolvedPcs \cap (GcPcs \cup AppPcs \cup {"idle", "gc_images", "orphans", "drop_refs"}) = {}
  BY DEF FetchPcs, BuildPcs, BuildingPcs, AppPcs, BasePcs, GcPcs, Deleting, ResolvedPcs

\* pull.rs neither builds nor collects.
LEMMA PullZone ==
    ASSUME NEW p \in Procs, IInv, PullNext(p)
    PROVE  /\ pc[p] \in FetchPcs \cup {"ensure", "fetch", "resolve_tag", "next_app"}
           /\ pc'[p] \notin GcPcs \cup (BuildPcs \ {"build"})
           /\ pc'[p] \notin {"orphans", "drop_refs"}
           /\ liveBlobs' = liveBlobs /\ liveLayers' = liveLayers
           /\ cmd' = cmd /\ built' = built
  <1> USE DEF loopVars, gcVars, storeVars
  <1>a. TypeOK
    BY DEF IInv
  <1>1. pc[p] \in FetchPcs \cup {"ensure", "fetch", "resolve_tag", "next_app"}
    BY DEF PullNext, ensure, fetch, resolve_tag, manifest_open, manifest_fill,
           config, config_download, config_commit, pending, layer_start,
           layer_download, extract_layer, clear_staging, open_temp, unpack,
           rename_layer, Unpacking, layer_result, abort, ref_open, ref_fill,
           next_app, FetchPcs
  <1>2. /\ liveBlobs' = liveBlobs /\ liveLayers' = liveLayers
        /\ cmd' = cmd /\ built' = built
    BY DEF PullNext, ensure, fetch, resolve_tag, manifest_open, manifest_fill,
           config, config_download, config_commit, pending, layer_start,
           layer_download, extract_layer, clear_staging, open_temp, unpack,
           rename_layer, layer_result, abort, ref_open, ref_fill,
           next_app, FetchReturns, EnsureReturns
  <1>3. ASSUME NEW l, pc'[p] = l, l \in GcPcs \cup (BuildPcs \ {"build"})
                                            \cup {"orphans", "drop_refs"}
        PROVE  FALSE
    <2>1. CASE Moves(p)
      <3>1. PICK k \in PcLabels : Goto(p, k) /\ Carries(p, k)
        BY <2>1 DEF Moves
      <3>2. k = l
        BY <1>a, <1>3, <3>1 DEF Goto, TypeOK, FrameTypeOK
      <3>3. k # "fetch" /\ k # "resolve_tag" /\ k # "build" /\ k # "gc_images"
            /\ k \notin FetchPcs /\ pc[p] # k
        BY <1>1, <1>3, <3>2, StorePcs
      <3> QED
        BY <1>1, <1>3, <3>1, <3>2, <3>3, StorePcs DEF Carries, WorkPcs, ChoicePcs
    <2>2. CASE \E ok \in BOOLEAN : EnsureReturns(p, ok)
      <3>1. pc'[p] \in {"next_app", "gc_images", "resolve", "exit"}
        BY <1>a, <2>2 DEF EnsureReturns, Goto, TypeOK, FrameTypeOK
      <3> QED BY <1>3, <3>1, StorePcs
    <2>3. CASE next_app(p)
      <3>1. pc'[p] \in {"next_app", "gc_images", "ensure"}
        BY <1>a, <2>3 DEF next_app, Goto, TypeOK, FrameTypeOK
      <3> QED BY <1>3, <3>1, StorePcs
    <2>4. CASE Goto(p, "manifest_open")
      <3>1. pc'[p] = "manifest_open"
        BY <1>a, <2>4 DEF Goto, TypeOK, FrameTypeOK
      <3> QED BY <1>3, <3>1, StorePcs
    <2> QED BY <2>1, <2>2, <2>3, <2>4, ControlPull DEF Asks, Returns
  <1> QED BY <1>1, <1>2, <1>3

\* build.rs neither fetches nor collects.
LEMMA BuildZone ==
    ASSUME NEW p \in Procs, IInv, BuildNext(p)
    PROVE  /\ pc[p] \in BuildPcs
           /\ pc'[p] \notin GcPcs \cup FetchPcs \cup {"orphans", "drop_refs"}
           /\ liveBlobs' = liveBlobs /\ liveLayers' = liveLayers /\ cmd' = cmd
  <1> USE DEF loopVars, gcVars, storeVars
  <1>a. TypeOK
    BY DEF IInv
  <1>1. pc[p] \in BuildPcs
    BY DEF BuildNext, base_ref, base_manifest, build_dirs, run_script,
           script_fails, build_rename, script_writes, build_open, build_fill,
           build_ref_open, build_ref_fill, BuildPcs, BuildingPcs
  <1>2. liveBlobs' = liveBlobs /\ liveLayers' = liveLayers /\ cmd' = cmd
    BY DEF BuildNext, base_ref, base_manifest, build_dirs, run_script,
           script_fails, build_rename, script_writes, build_open, build_fill,
           build_ref_open, build_ref_fill, BuildFails, EnsureReturns
  <1>3. ASSUME NEW l, pc'[p] = l, l \in GcPcs \cup FetchPcs \cup {"orphans", "drop_refs"}
        PROVE  FALSE
    <2>1. CASE Moves(p)
      <3>1. PICK k \in PcLabels : Goto(p, k) /\ Carries(p, k)
        BY <2>1 DEF Moves
      <3>2. k = l
        BY <1>a, <1>3, <3>1 DEF Goto, TypeOK, FrameTypeOK
      <3> QED
        BY <1>1, <1>3, <3>1, <3>2, StorePcs DEF Carries, WorkPcs, ChoicePcs
    <2>2. CASE \E ok \in BOOLEAN : EnsureReturns(p, ok)
      <3>1. pc'[p] \in {"next_app", "gc_images", "resolve", "exit"}
        BY <1>a, <2>2 DEF EnsureReturns, Goto, TypeOK, FrameTypeOK
      <3> QED BY <1>3, <3>1, StorePcs
    <2> QED BY <2>1, <2>2, ControlBuild DEF Returns
  <1> QED BY <1>1, <1>2, <1>3

\* clean.rs and the start of a run do neither.
LEMMA RestZone ==
    ASSUME NEW p \in Procs, IInv, CleanNext(p) \/ RunNext(p) \/ app_exits(p)
    PROVE  pc[p] \notin WorkPcs \cup {"ensure", "fetch", "resolve_tag"}
           /\ pc'[p] \notin AppPcs /\ cmd' = cmd /\ app' = app
  <1>a. TypeOK
    BY DEF IInv
  <1>1. /\ pc[p] \notin WorkPcs \cup {"ensure", "fetch", "resolve_tag"}
        /\ pc'[p] \in {"exit", "live_ref", "live_manifest", "gc_blobs", "gc_layers",
                       "remove_tree", "gc_temps", "read_manifest", "image_config",
                       "mount", "running", "drop_refs", "gc_images"}
    BY <1>a
    DEF CleanNext, orphans, drop_refs, gc_images, live_ref, live_manifest,
        list_blobs, gc_blob, list_layers, remove_tree, remove_part, remove_dir,
        list_temps, gc_temp, gc_done, List, Exit, Goto, RunNext, resolve,
        read_manifest, image_config, mount, app_exits, TypeOK, FrameTypeOK,
        WorkPcs, FetchPcs, BuildPcs, BuildingPcs
  <1>2. LoopSame
    BY ControlRest DEF Moves
  <1> QED BY <1>1, <1>2 DEF LoopSame, AppPcs, BasePcs, FetchPcs, BuildingPcs

-----------------------------------------------------------------------------
(* The recorded images stay complete                                       *)

\* A process's image is what the invariant of the frame says.
LEMMA FrameFacts ==
    ASSUME NEW p \in Procs, IInv
    PROVE  /\ pc[p] \in AppPcs => app[p] \in Apps
           /\ pc[p] \in BuildPcs => app[p] \in InstallApps
           /\ pc[p] \in FetchPcs \cup (BuildPcs \ {"build"}) => img[p] \in Manifests
           /\ pc[p] \in BuildingPcs => bid[p] \in BuildIds /\ built[bid[p]] \in Manifests
           /\ \A k \in Keys : refs[k] \in BuildIds => built[refs[k]] \in Manifests
           /\ TypeOK
  BY DEF IInv, FrameOK, ProcOK, BuiltOK, BasePcs, BuildPcs

\* A registry's manifest is its own base.
LEMMA ManifestBase ==
    ASSUME NEW m \in Manifests
    PROVE  /\ ConfigOf(m) = Config[m] /\ BaseOf(m) = m
           /\ Config[m] \in Configs /\ Config[m] \in Blobs
           /\ LayersOf(m) = {Layers[m][i] : i \in DOMAIN Layers[m]}
           /\ LayersOf(m) \subseteq LayerIds
  <1>1. m \notin BuildIds
    BY Distinct
  <1> QED
    BY <1>1, ConstantsAssumption
    DEF ConfigOf, BaseOf, LayersOf, Configs, Blobs, LayerIds, RegistryLayers

\* The two directories of layers are apart.
LEMMA PathsApart ==
    ASSUME NEW k, NEW l
    PROVE  /\ layer_path(k) # staging_path(l)
           /\ layer_path(k) = layer_path(l) => k = l
           /\ staging_path(k) = staging_path(l) => k = l
  BY DEF layer_path, staging_path

\* A step that adds layers and blobs, and records nothing incomplete
LEMMA SoundGrows ==
    ASSUME NEW p \in Procs, TypeOK, SoundOK(p),
           pc[p] \notin {"manifest_fill", "remove_tree"},
           \A k \in Keys : refs'[k] \in Images =>
               /\ RecordedOK(p, refs'[k])
               /\ refs'[k] \in BuildIds =>
                    built[refs'[k]] \in Manifests /\ built'[refs'[k]] = built[refs'[k]],
           \A b \in Blobs : blobs'[b] \in {blobs[b], "ok"},
           \A l \in LayerIds : dirs'[layer_path(l)] \in {dirs[layer_path(l)], Parts}
    PROVE  SoundOK(p)'
  <1>1. \A c \in Configs : blobs'[c] # "torn"
    BY DEF SoundOK, Blobs
  <1>2. \A m \in Manifests : blobs'[m] # "torn"
    BY DEF SoundOK, Blobs
  <1>3. \A l \in LayerIds : dirs'[layer_path(l)] \in {NoDir, Parts}
    BY DEF SoundOK
  <1> DEFINE base(d) == IF d \in BuildIds THEN built'[d] ELSE d
  <1>4. ASSUME NEW k \in Keys, NEW d \in Images, d = refs'[k]
        PROVE  /\ blobs'[d] = "ok" /\ blobs'[Config[base(d)]] = "ok"
               /\ \A l \in {Layers[base(d)][i] : i \in DOMAIN Layers[base(d)]}
                            \cup (IF d \in BuildIds THEN {d} ELSE {}) :
                    dirs'[layer_path(l)] = Parts
    <2>1. RecordedOK(p, d) /\ (d \in BuildIds =>
            built[d] \in Manifests /\ built'[d] = built[d])
      BY <1>4
    <2>2. d \in Blobs /\ ConfigOf(d) \in Blobs /\ LayersOf(d) \subseteq LayerIds
      BY <2>1, ImageTypes DEF Blobs, Images
    <2>3. blobs'[d] = "ok" /\ blobs'[ConfigOf(d)] = "ok"
      BY <2>1, <2>2 DEF RecordedOK
    <2>4. \A l \in LayersOf(d) : dirs'[layer_path(l)] = Parts
      BY <2>1, <2>2 DEF RecordedOK
    <2>5. base(d) = BaseOf(d)
      BY <2>1 DEF BaseOf
    <2> QED BY <2>3, <2>4, <2>5 DEF ConfigOf, LayersOf
  <1> QED BY <1>1, <1>2, <1>3, <1>4 DEF SoundOK, RecordedOK, ConfigOf, LayersOf, BaseOf

\* The same of one that records nothing.
LEMMA SoundAdds ==
    ASSUME NEW p \in Procs, IInv, SoundOK(p),
           pc[p] \notin {"manifest_fill", "remove_tree"},
           refs' = refs, built' = built,
           \A b \in Blobs : blobs'[b] \in {blobs[b], "ok"},
           \A l \in LayerIds : dirs'[layer_path(l)] \in {dirs[layer_path(l)], Parts}
    PROVE  SoundOK(p)'
  <1>1. \A k \in Keys : refs'[k] \in Images =>
            /\ RecordedOK(p, refs'[k])
            /\ refs'[k] \in BuildIds =>
                 built[refs'[k]] \in Manifests /\ built'[refs'[k]] = built[refs'[k]]
    BY FrameFacts DEF SoundOK
  <1> QED BY <1>1, FrameFacts, SoundGrows

\* And of one that does not touch the store
LEMMA SoundSame ==
    ASSUME NEW p \in Procs, IInv, SoundOK(p),
           pc[p] \notin {"manifest_fill", "remove_tree"},
           UNCHANGED <<refs, blobs, dirs, built>>
    PROVE  SoundOK(p)'
  BY SoundAdds

\* Opening a record takes one away.
LEMMA SoundOpens ==
    ASSUME NEW p \in Procs, IInv, SoundOK(p), NEW k \in Keys,
           pc[p] \notin {"manifest_fill", "remove_tree"},
           refs' = [refs EXCEPT ![k] = Empty] \/ refs' = [refs EXCEPT ![k] = NoRef],
           UNCHANGED <<blobs, dirs, built>>
    PROVE  SoundOK(p)'
  <1>1. \A j \in Keys : refs'[j] \in Images => refs'[j] = refs[j]
    BY FrameFacts, ConstantsAssumption DEF TypeOK, StoreTypeOK
  <1>2. \A j \in Keys : refs'[j] \in Images =>
            /\ RecordedOK(p, refs'[j])
            /\ refs'[j] \in BuildIds =>
                 built[refs'[j]] \in Manifests /\ built'[refs'[j]] = built[refs'[j]]
    BY <1>1, FrameFacts DEF SoundOK
  <1> QED BY <1>2, FrameFacts, SoundGrows

\* Filling one records what is complete by then.
LEMMA SoundFills ==
    ASSUME NEW p \in Procs, IInv, SoundOK(p), NEW k \in Keys, NEW d \in Images,
           pc[p] \notin {"manifest_fill", "remove_tree"},
           RecordedOK(p, d), d \in BuildIds => built[d] \in Manifests,
           record_ref_fill(k, d), UNCHANGED <<blobs, dirs, built>>
    PROVE  SoundOK(p)'
  <1>1. \A j \in Keys : refs'[j] \in Images => refs'[j] = refs[j] \/ refs'[j] = d
    BY FrameFacts, NotNoRef DEF TypeOK, StoreTypeOK, record_ref_fill
  <1>2. \A j \in Keys : refs'[j] \in Images =>
            /\ RecordedOK(p, refs'[j])
            /\ refs'[j] \in BuildIds =>
                 built[refs'[j]] \in Manifests /\ built'[refs'[j]] = built[refs'[j]]
    BY <1>1, FrameFacts DEF SoundOK
  <1> QED BY <1>2, FrameFacts, SoundGrows

\* pull.rs: a manifest is torn only while it is rewritten, a layer arrives whole,
\* and the record is written when everything is in place.
LEMMA SoundPull ==
    ASSUME NEW p \in Procs, IInv, ProcStoreOK(p), PullNext(p)
    PROVE  SoundOK(p)'
  <1> USE DEF storeVars
  <1>a. TypeOK /\ SoundOK(p) /\ FetchOK(p) /\ TasksOK(p)
    BY FrameFacts DEF ProcStoreOK
  <1>b. pc[p] # "remove_tree"
    BY PullZone, StorePcs DEF GcPcs, Deleting, FetchPcs
  <1>c. pc[p] \in FetchPcs => img[p] \in Manifests /\ img[p] \in Blobs
    BY FrameFacts DEF Blobs
  <1>1. CASE /\ UNCHANGED <<refs, blobs, dirs, built>>
             /\ pc[p] # "manifest_fill"
    BY <1>1, <1>a, <1>b, SoundSame
  <1>2. CASE \/ ensure(p) \/ fetch(p) \/ resolve_tag(p) \/ config(p)
             \/ config_download(p) \/ pending(p) \/ abort(p) \/ next_app(p)
    BY <1>1, <1>2
    DEF ensure, fetch, resolve_tag, config, config_download, pending, abort, next_app
  <1>3. CASE manifest_open(p)
    <2>1. /\ pc[p] = "manifest_open" /\ refs' = refs /\ dirs' = dirs /\ built' = built
          /\ pc'[p] = "manifest_fill" /\ img' = img
          /\ blobs' = [blobs EXCEPT ![img[p]] = "torn"]
      BY <1>3, <1>a
      DEF manifest_open, write_blob_open, Goto, workVars, TypeOK, FrameTypeOK
    <2>2. img[p] \in Manifests
      BY <1>c, <2>1, StorePcs
    <2>3. \A b \in Blobs : blobs'[b] = IF b = img[p] THEN "torn" ELSE blobs[b]
      BY <1>a, <2>1 DEF TypeOK, StoreTypeOK
    <2>4. \A c \in Configs : c # img[p] /\ blobs'[c] # "torn"
      <3>1. \A c \in Configs : c \notin Manifests
        BY ConstantsAssumption
      <3> QED BY <1>a, <2>2, <2>3, <3>1 DEF SoundOK, Blobs
    <2>5. \A m \in Manifests : blobs'[m] = "torn" => img[p] = m
      BY <1>a, <2>1, <2>3 DEF SoundOK, Blobs
    <2>6. ASSUME NEW k \in Keys, refs[k] \in Images
          PROVE  /\ blobs'[refs[k]] = "ok" \/ img[p] = refs[k]
                 /\ blobs'[ConfigOf(refs[k])] = "ok"
                 /\ \A l \in LayersOf(refs[k]) : dirs[layer_path(l)] = Parts
      <3>1. RecordedOK(p, refs[k]) /\ blobs[refs[k]] = "ok"
        BY <1>a, <2>1, <2>6 DEF SoundOK, RecordedOK
      <3>2. ConfigOf(refs[k]) \in Configs /\ refs[k] \in Blobs
        BY <2>6, FrameFacts, ConstantsAssumption
        DEF ConfigOf, BaseOf, Configs, Blobs, Images
      <3> QED BY <2>3, <2>4, <3>1, <3>2 DEF RecordedOK, Blobs
    <2> QED
      BY <1>a, <2>1, <2>4, <2>5, <2>6
      DEF SoundOK, RecordedOK, ConfigOf, LayersOf, BaseOf
  <1>4. CASE manifest_fill(p)
    <2>1. /\ pc[p] = "manifest_fill" /\ refs' = refs /\ dirs' = dirs /\ built' = built
          /\ blobs' = [blobs EXCEPT ![img[p]] = IF blobs[img[p]] # "none"
                                                THEN "ok" ELSE "none"]
      BY <1>4, <1>a DEF manifest_fill, write_blob_fill, has_blob
    <2>2. \A b \in Blobs : blobs'[b] = IF b = img[p] THEN "ok" ELSE blobs[b]
      BY <1>a, <2>1 DEF TypeOK, StoreTypeOK, FetchOK
    <2>3. \A c \in Configs : blobs'[c] # "torn"
      BY <1>a, <2>2 DEF SoundOK, Blobs
    <2>4. \A m \in Manifests : blobs'[m] # "torn"
      BY <1>a, <2>2 DEF SoundOK, Blobs
    <2>5. ASSUME NEW k \in Keys, refs[k] \in Images
          PROVE  /\ blobs'[refs[k]] = "ok" /\ blobs'[ConfigOf(refs[k])] = "ok"
                 /\ \A l \in LayersOf(refs[k]) : dirs[layer_path(l)] = Parts
      <3>1. RecordedOK(p, refs[k])
        BY <1>a, <2>5 DEF SoundOK
      <3>2. ConfigOf(refs[k]) \in Configs /\ refs[k] \in Blobs
        BY <2>5, FrameFacts, ConstantsAssumption
        DEF ConfigOf, BaseOf, Configs, Blobs, Images
      <3> QED BY <2>2, <3>1, <3>2 DEF RecordedOK, Blobs
    <2>6. \A l \in LayerIds : dirs[layer_path(l)] \in {NoDir, Parts}
      BY <1>a, <1>b DEF SoundOK
    <2> QED
      BY <2>1, <2>3, <2>4, <2>5, <2>6
      DEF SoundOK, RecordedOK, ConfigOf, LayersOf, BaseOf
  <1>5. CASE config_commit(p)
    <2>1. /\ pc[p] = "config_commit" /\ refs' = refs /\ dirs' = dirs /\ built' = built
          /\ \/ blobs' = blobs
             \/ blobs' = [blobs EXCEPT ![ConfigOf(img[p])] = "ok"]
      BY <1>5 DEF config_commit
    <2>2. \A b \in Blobs : blobs'[b] \in {blobs[b], "ok"}
      BY <1>a, <2>1 DEF TypeOK, StoreTypeOK
    <2> QED BY <1>a, <2>1, <2>2, SoundAdds
  <1>6. ASSUME NEW i \in Slots,
               layer_start(p, i) \/ layer_download(p, i) \/ open_temp(p, i) \/ layer_result(p, i)
        PROVE  SoundOK(p)'
    BY <1>1, <1>6
    DEF layer_start, layer_download, open_temp, Unpacking, layer_result
  <1>7. ASSUME NEW i \in Slots, pc[p] \in {"layers", "abort"},
               \A e \in Dirs : e # staging_path(layer_at(p, i)) => dirs'[e] = dirs[e],
               UNCHANGED <<refs, blobs, built>>
        PROVE  SoundOK(p)'
    <2>1. \A l \in LayerIds : dirs'[layer_path(l)] = dirs[layer_path(l)]
      <3>1. \A l \in LayerIds : layer_path(l) \in Dirs
        BY DEF layer_path, Dirs
      <3> QED BY <1>7, <3>1, PathsApart
    <2> QED BY <1>a, <1>7, <2>1, SoundAdds
  <1>8. ASSUME NEW i \in Slots, clear_staging(p, i)
        PROVE  SoundOK(p)'
    <2>1. \A e \in Dirs : e # staging_path(layer_at(p, i)) => dirs'[e] = dirs[e]
      BY <1>8, <1>a DEF clear_staging, TypeOK, StoreTypeOK
    <2> QED BY <1>7, <1>8, <2>1 DEF clear_staging, Unpacking
  <1>9. ASSUME NEW i \in Slots, NEW part \in Parts, unpack(p, i, part)
        PROVE  SoundOK(p)'
    <2>1. pc[p] \in {"layers", "abort"} /\ UNCHANGED <<refs, blobs, built>>
      BY <1>9 DEF unpack, Unpacking
    <2>2. \A e \in Dirs : e # staging_path(layer_at(p, i)) => dirs'[e] = dirs[e]
      BY <1>9, <1>a DEF unpack, TypeOK, StoreTypeOK
    <2> QED BY <1>7, <2>1, <2>2
  <1>10. ASSUME NEW i \in Slots, rename_layer(p, i)
         PROVE  SoundOK(p)'
    <2> DEFINE st == staging_path(layer_at(p, i))
               de == layer_path(layer_at(p, i))
    <2>1. /\ pc[p] \in {"layers", "abort"} /\ task[p][i] = "rename"
          /\ UNCHANGED <<refs, blobs, built>>
          /\ dirs' = dirs \/ dirs' = [dirs EXCEPT ![de] = dirs[st], ![st] = NoDir]
      BY <1>10 DEF rename_layer, Unpacking
    <2>2. i \in DOMAIN Layers[img[p]]
      BY <2>1 DEF IInv, FrameOK, ProcOK
    <2>3. dirs[st] = Parts
      BY <1>a, <2>1, <2>2 DEF TasksOK, TaskOK, layer_at
    <2>4. \A l \in LayerIds : dirs'[layer_path(l)] \in {dirs[layer_path(l)], Parts}
      <3>1. \A l \in LayerIds : layer_path(l) \in Dirs /\ layer_path(l) # st
        BY PathsApart DEF layer_path, Dirs
      <3> HIDE DEF st, de
      <3> QED BY <1>a, <2>1, <2>3, <3>1 DEF TypeOK, StoreTypeOK
    <2> QED BY <1>a, <2>1, <2>4, SoundAdds
  <1>11. CASE ref_open(p)
    <2>1. pc[p] = "layers" /\ app[p] \in Apps
      BY <1>11, FrameFacts, StorePcs DEF ref_open
    <2> QED
      BY <1>11, <1>a, <2>1, SoundOpens, KeyTypes DEF ref_open, record_ref_open, Keys
  <1>12. CASE ref_fill(p)
    <2>1. pc[p] = "ref_fill" /\ app[p] \in Apps /\ img[p] \in Manifests
      BY <1>12, FrameFacts, StorePcs DEF ref_fill
    <2>2. RecordedOK(p, img[p])
      <3>1. blobs[img[p]] = "ok" /\ blobs[ConfigOf(img[p])] = "ok"
        BY <1>a, <2>1, StorePcs DEF FetchOK
      <3>2. \A i \in DOMAIN Layers[img[p]] : dirs[layer_path(Layers[img[p]][i])] = Parts
        <4>1. \A i \in DOMAIN Layers[img[p]] : i \in Slots
          BY <2>1, ConstantsAssumption
        <4> QED BY <1>a, <2>1, <4>1 DEF FetchOK, TasksOK, TaskOK
      <3> QED BY <2>1, <3>1, <3>2, ManifestBase DEF RecordedOK
    <2>3. Reference[app[p]] \in Keys /\ record_ref_fill(Reference[app[p]], img[p])
      BY <1>12, <2>1, KeyTypes DEF ref_fill, Keys
    <2>4. img[p] \in Images /\ img[p] \notin BuildIds
      BY <2>1, Distinct DEF Images
    <2> QED BY <1>12, <1>a, <2>1, <2>2, <2>3, <2>4, SoundFills DEF ref_fill
  <1> QED BY <1>2, <1>3, <1>4, <1>5, <1>6, <1>8, <1>9, <1>10, <1>11, <1>12
    DEF PullNext, extract_layer

\* A step at a build's staging directory
LEMMA SoundStages ==
    ASSUME NEW p \in Procs, IInv, SoundOK(p),
           pc[p] \notin {"manifest_fill", "remove_tree"}, NEW b,
           \A e \in Dirs : e # staging_path(b) => dirs'[e] = dirs[e],
           UNCHANGED <<refs, blobs, built>>
    PROVE  SoundOK(p)'
  <1>1. \A l \in LayerIds : layer_path(l) \in Dirs /\ layer_path(l) # staging_path(b)
    BY PathsApart DEF layer_path, Dirs
  <1>2. \A l \in LayerIds : dirs'[layer_path(l)] = dirs[layer_path(l)]
    BY <1>1
  <1> QED BY <1>2, SoundAdds

\* What is stored of a build that is about to be recorded
LEMMA BuildComplete ==
    ASSUME NEW p \in Procs, IInv, SoundOK(p), BuildOK(p), pc[p] = "build_ref_fill"
    PROVE  RecordedOK(p, bid[p])
  <1>1. /\ pc[p] \in BuildingPcs /\ pc[p] \in BuildPcs \ {"build"}
        /\ app[p] \in Apps /\ img[p] \in Manifests /\ bid[p] \in BuildIds
    <2>1. pc[p] \in BuildingPcs /\ pc[p] \in BuildPcs \ {"build"} /\ pc[p] \in AppPcs
      BY DEF BuildPcs, BuildingPcs, AppPcs, BasePcs
    <2> QED BY <2>1, FrameFacts
  <1>2. built[bid[p]] = img[p] /\ refs[Reference[app[p]]] = img[p]
    BY <1>1 DEF BuildOK
  <1>3. dirs[layer_path(bid[p])] = Parts /\ blobs[bid[p]] = "ok"
    BY DEF BuildOK
  <1>4. RecordedOK(p, img[p])
    BY <1>1, <1>2, KeyTypes DEF SoundOK, Keys, Images
  <1>5. /\ ConfigOf(bid[p]) = Config[img[p]]
        /\ LayersOf(bid[p]) = {Layers[img[p]][i] : i \in DOMAIN Layers[img[p]]} \cup {bid[p]}
    BY <1>1, <1>2 DEF ConfigOf, LayersOf, BaseOf
  <1>6. ConfigOf(img[p]) = Config[img[p]]
        /\ LayersOf(img[p]) = {Layers[img[p]][i] : i \in DOMAIN Layers[img[p]]}
    BY <1>1, ManifestBase
  <1> QED BY <1>3, <1>4, <1>5, <1>6 DEF RecordedOK

\* build.rs: a build touches its own new layer and manifest, and is recorded
\* when both are in place.
LEMMA SoundBuild ==
    ASSUME NEW p \in Procs, IInv, ProcStoreOK(p), BuildNext(p)
    PROVE  SoundOK(p)'
  <1> USE DEF storeVars
  <1>a. TypeOK /\ SoundOK(p) /\ BuildOK(p)
    BY FrameFacts DEF ProcStoreOK
  <1>b. pc[p] \notin {"manifest_fill", "remove_tree"}
    BY BuildZone, StorePcs
  <1>c. pc[p] \in BuildingPcs => bid[p] \in BuildIds /\ bid[p] \in Blobs
    BY FrameFacts DEF Blobs
  <1>d. app[p] \in Apps /\ Reference[app[p]] \in Keys /\ image_key(app[p]) \in Keys
    <2>1. app[p] \in Apps
      BY BuildZone, FrameFacts, StorePcs
    <2> QED BY <2>1, KeyTypes DEF Keys
  <1>1. CASE base_ref(p) \/ base_manifest(p)
    BY <1>1, <1>a, <1>b, SoundSame DEF base_ref, base_manifest
  <1>2. CASE build_dirs(p)
    <2>1. CASE UNCHANGED <<built, dirs>>
      BY <1>2, <1>a, <1>b, <2>1, SoundSame DEF build_dirs
    <2>2. ASSUME NEW b \in BuildIds, Fresh(b), built' = [built EXCEPT ![b] = img[p]],
                 dirs' = [dirs EXCEPT ![staging_path(b)] = {}]
          PROVE  SoundOK(p)'
      <3>1. refs' = refs /\ blobs' = blobs
        BY <1>2 DEF build_dirs
      <3>2. \A k \in Keys : refs[k] # b
        BY <2>2 DEF Fresh
      <3>3. \A k \in Keys : refs'[k] \in Images =>
              /\ RecordedOK(p, refs'[k])
              /\ refs'[k] \in BuildIds =>
                   built[refs'[k]] \in Manifests /\ built'[refs'[k]] = built[refs'[k]]
        BY <1>a, <2>2, <3>1, <3>2, FrameFacts DEF SoundOK, TypeOK, StoreTypeOK
      <3>4. \A l \in LayerIds : layer_path(l) \in Dirs /\ layer_path(l) # staging_path(b)
        BY PathsApart DEF layer_path, Dirs
      <3>5. \A l \in LayerIds : dirs'[layer_path(l)] = dirs[layer_path(l)]
        BY <1>a, <2>2, <3>4 DEF TypeOK, StoreTypeOK
      <3> QED BY <1>a, <1>b, <3>1, <3>3, <3>5, SoundGrows
    <2> QED BY <1>2, <2>1, <2>2 DEF build_dirs
  <1>3. ASSUME UNCHANGED <<refs, blobs, built>>,
               \/ dirs' = dirs
               \/ \E v : dirs' = [dirs EXCEPT ![staging_path(bid[p])] = v]
        PROVE  SoundOK(p)'
    <2>1. \A e \in Dirs : e # staging_path(bid[p]) => dirs'[e] = dirs[e]
      BY <1>3, <1>a DEF TypeOK, StoreTypeOK
    <2> QED BY <1>3, <1>a, <1>b, <2>1, SoundStages
  <1>4. CASE run_script(p) \/ script_fails(p)
    BY <1>3, <1>4 DEF run_script, script_fails
  <1>5. ASSUME NEW part \in Parts, script_writes(p, part)
        PROVE  SoundOK(p)'
    BY <1>3, <1>5 DEF script_writes
  <1>6. CASE build_rename(p)
    <2> DEFINE up == staging_path(bid[p])
               de == layer_path(bid[p])
    <2>1. /\ pc[p] = "build_rename" /\ UNCHANGED <<refs, blobs, built>>
          /\ dirs' = dirs \/ dirs' = [dirs EXCEPT ![de] = dirs[up], ![up] = NoDir]
      BY <1>6 DEF build_rename
    <2>2. dirs[up] = Parts
      BY <1>a, <2>1 DEF BuildOK
    <2>3. \A l \in LayerIds : layer_path(l) \in Dirs /\ layer_path(l) # up
      BY PathsApart DEF layer_path, Dirs
    <2>4. \A l \in LayerIds : dirs'[layer_path(l)] \in {dirs[layer_path(l)], Parts}
      <3> HIDE DEF up, de
      <3> QED BY <1>a, <2>1, <2>2, <2>3 DEF TypeOK, StoreTypeOK
    <2> QED BY <1>a, <1>b, <2>1, <2>4, SoundAdds
  <1>7. CASE build_open(p)
    <2>1. /\ pc[p] \in BuildingPcs /\ UNCHANGED <<refs, dirs, built>>
          /\ blobs' = [blobs EXCEPT ![bid[p]] = "torn"]
      BY <1>7 DEF build_open, write_blob_open, BuildingPcs
    <2>2. \A b \in Blobs : b # bid[p] => blobs'[b] = blobs[b]
      BY <1>a, <1>c, <2>1 DEF TypeOK, StoreTypeOK
    <2>3. /\ \A c \in Configs : c # bid[p] /\ c \in Blobs
          /\ \A m \in Manifests : m # bid[p] /\ m \in Blobs
      BY <1>c, <2>1, ConstantsAssumption DEF Blobs
    <2>4. ASSUME NEW k \in Keys, refs[k] \in Images
          PROVE  /\ blobs'[refs[k]] = "ok" /\ blobs'[ConfigOf(refs[k])] = "ok"
                 /\ \A l \in LayersOf(refs[k]) : dirs[layer_path(l)] = Parts
      <3>1. RecordedOK(p, refs[k]) /\ refs[k] # bid[p]
        BY <1>a, <2>1, <2>4 DEF SoundOK, BuildOK
      <3>2. ConfigOf(refs[k]) \in Configs /\ refs[k] \in Blobs
        BY <2>4, FrameFacts, ConstantsAssumption
        DEF ConfigOf, BaseOf, Configs, Blobs, Images
      <3> QED BY <1>b, <2>2, <2>3, <3>1, <3>2 DEF RecordedOK
    <2>5. \A l \in LayerIds : dirs[layer_path(l)] \in {NoDir, Parts}
      BY <1>a, <1>b DEF SoundOK
    <2>6. \A c \in Configs : blobs'[c] # "torn"
      BY <1>a, <2>2, <2>3 DEF SoundOK
    <2>7. \A m \in Manifests : blobs'[m] # "torn"
      BY <1>a, <1>b, <2>2, <2>3 DEF SoundOK
    <2> QED
      BY <2>1, <2>4, <2>5, <2>6, <2>7
      DEF SoundOK, RecordedOK, ConfigOf, LayersOf, BaseOf
  <1>8. CASE build_fill(p)
    <2>1. /\ pc[p] = "build_fill" /\ UNCHANGED <<refs, dirs, built>>
          /\ blobs' = [blobs EXCEPT ![bid[p]] = IF blobs[bid[p]] # "none"
                                                THEN "ok" ELSE "none"]
      BY <1>8 DEF build_fill, write_blob_fill, has_blob
    <2>2. blobs[bid[p]] = "torn"
      BY <1>a, <2>1 DEF BuildOK
    <2>3. \A b \in Blobs : blobs'[b] \in {blobs[b], "ok"}
      BY <1>a, <2>1, <2>2 DEF TypeOK, StoreTypeOK
    <2> QED BY <1>a, <1>b, <2>1, <2>3, SoundAdds
  <1>9. CASE build_ref_open(p)
    BY <1>9, <1>a, <1>b, <1>d, SoundOpens DEF build_ref_open, record_ref_open
  <1>10. CASE build_ref_fill(p)
    <2>1. /\ pc[p] = "build_ref_fill" /\ UNCHANGED <<blobs, dirs, built>>
          /\ record_ref_fill(image_key(app[p]), bid[p])
      BY <1>10 DEF build_ref_fill
    <2>2. RecordedOK(p, bid[p])
      BY <1>a, <2>1, BuildComplete
    <2>3. bid[p] \in Images /\ built[bid[p]] \in Manifests
      BY <2>1, FrameFacts DEF BuildingPcs, Images
    <2> QED BY <1>a, <1>b, <1>d, <2>1, <2>2, <2>3, SoundFills
  <1> QED BY <1>1, <1>2, <1>4, <1>5, <1>6, <1>7, <1>8, <1>9, <1>10 DEF BuildNext

\* What a collection has listed, and what it deletes, no record leads to.
LEMMA SweepSpares ==
    ASSUME NEW p \in Procs, IInv, SweepOK(p), pc[p] \in Deleting,
           NEW k \in Keys, refs[k] \in Images
    PROVE  /\ <<"blob", refs[k]>> \notin victims[p]
           /\ <<"blob", ConfigOf(refs[k])>> \notin victims[p]
           /\ \A l \in LayersOf(refs[k]) :
                layer_path(l) \notin victims[p] \cup {doomed[p]}
  <1>1. k \in stable[p]
    BY NotNoRef DEF SweepOK, GcPcs, has_ref
  <1>2. GcSparesStable
    BY SparesStable
  <1> QED BY <1>1, <1>2 DEF GcSparesStable

\* A step that only takes away what no record leads to
LEMMA SoundShrinks ==
    ASSUME NEW p \in Procs, IInv, SoundOK(p), pc[p] # "manifest_fill",
           refs' = refs, built' = built,
           \A b \in Blobs : blobs'[b] \in {blobs[b], "none"},
           \A l \in LayerIds :
               \/ dirs'[layer_path(l)] \in {NoDir, Parts}
               \/ pc'[p] = "remove_tree" /\ doomed'[p] = layer_path(l),
           \A k \in Keys : refs[k] \in Images =>
               /\ blobs'[refs[k]] = blobs[refs[k]]
               /\ blobs'[ConfigOf(refs[k])] = blobs[ConfigOf(refs[k])]
               /\ \A l \in LayersOf(refs[k]) :
                    dirs'[layer_path(l)] = dirs[layer_path(l)]
    PROVE  SoundOK(p)'
  <1>1. \A c \in Configs : blobs'[c] # "torn"
    BY DEF SoundOK, Blobs
  <1>2. \A m \in Manifests : blobs'[m] # "torn"
    BY DEF SoundOK, Blobs
  <1>3. ASSUME NEW k \in Keys, refs[k] \in Images
        PROVE  /\ blobs'[refs[k]] = "ok" /\ blobs'[ConfigOf(refs[k])] = "ok"
               /\ \A l \in LayersOf(refs[k]) : dirs'[layer_path(l)] = Parts
    BY <1>3 DEF SoundOK, RecordedOK
  <1> QED
    BY <1>1, <1>2, <1>3 DEF SoundOK, RecordedOK, ConfigOf, LayersOf, BaseOf

\* clean.rs: a collection deletes nothing a record leads to, and a directory
\* it deletes in part it goes on deleting.
LEMMA SoundClean ==
    ASSUME NEW p \in Procs, IInv, ProcStoreOK(p), CleanNext(p)
    PROVE  SoundOK(p)'
  <1> USE DEF storeVars
  <1>a. TypeOK /\ SoundOK(p) /\ SweepOK(p)
    BY FrameFacts DEF ProcStoreOK
  <1>b. pc[p] # "manifest_fill"
    BY RestZone DEF WorkPcs, FetchPcs
  <1>c. ASSUME NEW k \in Keys, refs[k] \in Images
        PROVE  /\ refs[k] \in Blobs /\ ConfigOf(refs[k]) \in Blobs
               /\ LayersOf(refs[k]) \subseteq LayerIds
               /\ \A l \in LayersOf(refs[k]) : layer_path(l) \in Dirs
    <2>1. refs[k] \in BuildIds => built[refs[k]] \in Manifests
      BY FrameFacts
    <2> QED BY <1>c, <2>1, ImageTypes DEF Blobs, Images, layer_path, Dirs
  <1>d. ASSUME UNCHANGED <<refs, blobs, dirs, built>>, pc[p] # "remove_tree"
        PROVE  SoundOK(p)'
    BY <1>a, <1>b, <1>d, SoundSame
  <1>1. CASE \/ orphans(p) \/ gc_images(p) \/ live_ref(p) \/ live_manifest(p)
             \/ list_blobs(p) \/ list_layers(p) \/ list_temps(p) \/ gc_done(p)
             \/ gc_temp(p) \/ remove_tree(p)
    BY <1>1, <1>d
    DEF orphans, gc_images, live_ref, live_manifest, list_blobs, list_layers,
        list_temps, gc_done, gc_temp, remove_tree
  <1>2. CASE drop_refs(p)
    <2>1. CASE refs' = refs
      BY <1>2, <1>d, <2>1 DEF drop_refs
    <2>2. ASSUME NEW k \in gcKeys[p], refs' = [refs EXCEPT ![k] = NoRef]
          PROVE  SoundOK(p)'
      <3>1. k \in Keys /\ pc[p] = "drop_refs" /\ UNCHANGED <<blobs, dirs, built>>
        BY <1>2, <1>a, <2>2 DEF drop_refs, TypeOK, GcTypeOK
      <3> QED BY <1>a, <2>2, <3>1, SoundOpens
    <2> QED BY <1>2, <2>1, <2>2 DEF drop_refs
  <1>3. CASE gc_blob(p)
    <2>1. PICK b \in Blobs : <<"blob", b>> \in victims[p]
                             /\ blobs' = [blobs EXCEPT ![b] = "none"]
      BY <1>3 DEF gc_blob
    <2>2. pc[p] = "gc_blobs" /\ pc[p] \in Deleting /\ UNCHANGED <<refs, dirs, built>>
      BY <1>3 DEF gc_blob, Deleting
    <2>3. \A c \in Blobs : blobs'[c] = IF c = b THEN "none" ELSE blobs[c]
      BY <1>a, <2>1 DEF TypeOK, StoreTypeOK
    <2>4. ASSUME NEW k \in Keys, refs[k] \in Images
          PROVE  /\ blobs'[refs[k]] = blobs[refs[k]]
                 /\ blobs'[ConfigOf(refs[k])] = blobs[ConfigOf(refs[k])]
      <3>1. refs[k] # b /\ ConfigOf(refs[k]) # b
        BY <1>a, <2>1, <2>2, <2>4, SweepSpares
      <3> QED BY <1>c, <2>3, <2>4, <3>1
    <2>5. \A l \in LayerIds : dirs'[layer_path(l)] \in {NoDir, Parts}
      BY <1>a, <2>2 DEF SoundOK
    <2> QED BY <1>a, <1>b, <2>2, <2>3, <2>4, <2>5, SoundShrinks
  <1>e. ASSUME pc[p] = "remove_tree", UNCHANGED <<refs, blobs, built>>,
               NEW v, dirs' = [dirs EXCEPT ![doomed[p]] = v],
               v = NoDir \/ (pc'[p] = "remove_tree" /\ doomed' = doomed)
        PROVE  SoundOK(p)'
    <2>1. pc[p] \in Deleting /\ doomed[p] \in Dirs
      BY <1>e DEF Deleting, IInv, FrameOK, ProcOK
    <2>2. \A l \in LayerIds : layer_path(l) \in Dirs
      BY DEF layer_path, Dirs
    <2>3. \A e \in Dirs : dirs'[e] = IF e = doomed[p] THEN v ELSE dirs[e]
      BY <1>a, <1>e DEF TypeOK, StoreTypeOK
    <2>4. ASSUME NEW k \in Keys, refs[k] \in Images
          PROVE  \A l \in LayersOf(refs[k]) : dirs'[layer_path(l)] = dirs[layer_path(l)]
      <3>1. \A l \in LayersOf(refs[k]) : layer_path(l) # doomed[p]
        BY <1>a, <2>1, <2>4, SweepSpares
      <3> QED BY <1>c, <2>3, <2>4, <3>1
    <2>5. ASSUME NEW l \in LayerIds
          PROVE  \/ dirs'[layer_path(l)] \in {NoDir, Parts}
                 \/ pc'[p] = "remove_tree" /\ doomed'[p] = layer_path(l)
      <3>1. CASE layer_path(l) = doomed[p]
        BY <1>e, <2>2, <2>3, <3>1
      <3>2. CASE layer_path(l) # doomed[p]
        BY <1>a, <2>2, <2>3, <3>2 DEF SoundOK
      <3> QED BY <3>1, <3>2
    <2> QED BY <1>a, <1>b, <1>e, <2>4, <2>5, SoundShrinks
  <1>4. CASE remove_part(p)
    <2>1. PICK part \in left[p] :
            dirs' = [dirs EXCEPT ![doomed[p]] = IF dirs[doomed[p]] = NoDir THEN NoDir
                                                ELSE dirs[doomed[p]] \ {part}]
      BY <1>4 DEF remove_part
    <2> QED BY <1>4, <1>e, <2>1 DEF remove_part
  <1>5. CASE remove_dir(p)
    <2>1. pc[p] = "remove_tree" /\ UNCHANGED <<refs, blobs, built>>
      BY <1>5 DEF remove_dir
    <2>2. dirs[doomed[p]] = left[p] /\ left[p] \subseteq Parts
      BY <1>a, <2>1 DEF SweepOK, TypeOK, GcTypeOK
    <2>3. dirs[doomed[p]] # NoDir
      BY <2>2 DEF NoDir, Parts
    <2>4. dirs' = [dirs EXCEPT ![doomed[p]] = NoDir]
      BY <1>5, <2>2, <2>3 DEF remove_dir
    <2> QED BY <1>e, <2>1, <2>4
  <1> QED BY <1>1, <1>2, <1>3, <1>4, <1>5 DEF CleanNext

-----------------------------------------------------------------------------
(* What fetch_image() has stored at each point                             *)

\* Outside fetch_image() nothing is claimed of it.
LEMMA FetchOver ==
    ASSUME NEW p \in Procs, pc'[p] \notin FetchPcs
    PROVE  FetchOK(p)' /\ TasksOK(p)'
  BY StorePcs DEF FetchOK, TasksOK

\* The end of ensure() is outside it.
LEMMA ReturnsPc ==
    ASSUME NEW p \in Procs, TypeOK, NEW ok, EnsureReturns(p, ok)
    PROVE  /\ pc'[p] \in {"next_app", "gc_images", "resolve", "exit"}
           /\ pc'[p] \notin FetchPcs \cup BuildPcs
           /\ pc'[p] = "gc_images" => cmd[p] = "pull" /\ ok = TRUE
  <1>1. /\ pc'[p] \in {"next_app", "gc_images", "resolve", "exit"}
        /\ pc'[p] = "gc_images" => cmd[p] = "pull" /\ ok = TRUE
    BY DEF EnsureReturns, Goto, TypeOK, FrameTypeOK
  <1> QED BY <1>1 DEF FetchPcs, BuildPcs, BuildingPcs

\* So is a fetch that is over.
LEMMA FetchReturnsPc ==
    ASSUME NEW p \in Procs, TypeOK, FetchReturns(p)
    PROVE  pc'[p] \notin FetchPcs
  <1>1. CASE Goto(p, "build")
    <2>1. pc'[p] = "build"
      BY <1>1 DEF Goto, TypeOK, FrameTypeOK
    <2> QED BY <2>1, StorePcs
  <1>2. CASE EnsureReturns(p, TRUE)
    BY <1>2, ReturnsPc
  <1> QED BY <1>1, <1>2 DEF FetchReturns

\* A step of one layer's future: no other layer has its directories.
LEMMA TaskStep ==
    ASSUME NEW p \in Procs, IInv, LayersApart, TasksOK(p),
           pc[p] \in {"layers", "abort"}, UNCHANGED <<pc, img>>,
           NEW i \in Slots, task[p][i] # "none",
           NEW s \in TaskStates, task' = [task EXCEPT ![p][i] = s],
           \A e \in Dirs : \/ dirs'[e] = dirs[e]
                           \/ e = staging_path(layer_at(p, i))
                           \/ e = layer_path(layer_at(p, i)),
           LET staging == dirs'[staging_path(layer_at(p, i))]
               layer == dirs'[layer_path(layer_at(p, i))]
           IN  /\ s \in {"ok", "done"} => layer = Parts
               /\ s # "none"
               /\ s \in {"open", "unpack_1"} => staging = NoDir
               /\ s = "unpack_2" => staging = {1}
               /\ s = "rename" => staging = Parts
    PROVE  TasksOK(p)'
  <1> DEFINE m == img[p]
  <1>1. m \in Manifests /\ i \in DOMAIN Layers[m]
    <2>1. pc[p] \in BasePcs /\ i \in DOMAIN Layers[m]
      BY DEF BasePcs, FetchPcs, IInv, FrameOK, ProcOK
    <2> QED BY <2>1 DEF IInv, FrameOK, ProcOK
  <1>2. task'[p][i] = s /\ \A j \in Slots : j # i => task'[p][j] = task[p][j]
    BY DEF IInv, TypeOK, FrameTypeOK
  <1>3. ASSUME NEW j \in DOMAIN Layers[m], j # i
        PROVE  /\ j \in Slots
               /\ dirs'[staging_path(Layers[m][j])] = dirs[staging_path(Layers[m][j])]
               /\ dirs'[layer_path(Layers[m][j])] = dirs[layer_path(Layers[m][j])]
    <2>1. j \in Slots /\ Layers[m][j] # Layers[m][i] /\ Layers[m][j] \in LayerIds
      <3>1. Layers[m] \in Seq(RegistryLayers)
        BY <1>1, ConstantsAssumption
      <3> QED BY <1>1, <1>3, <3>1, ConstantsAssumption DEF LayersApart, LayerIds
    <2>2. /\ staging_path(Layers[m][j]) \in Dirs /\ layer_path(Layers[m][j]) \in Dirs
      BY <2>1 DEF staging_path, layer_path, Dirs
    <2> QED BY <2>1, <2>2, PathsApart DEF layer_at
  <1>4. ASSUME NEW j \in DOMAIN Layers[m]
        PROVE  LET staging == dirs'[staging_path(Layers[m][j])]
                   layer == dirs'[layer_path(Layers[m][j])]
               IN  /\ task'[p][j] \in {"ok", "done"} => layer = Parts
                   /\ task'[p][j] = "none" /\ pc[p] # "abort" => layer = Parts
                   /\ task'[p][j] \in {"open", "unpack_1"} => staging = NoDir
                   /\ task'[p][j] = "unpack_2" => staging = {1}
                   /\ task'[p][j] = "rename" => staging = Parts
    <2>1. CASE j = i
      BY <1>2, <2>1 DEF layer_at
    <2>2. CASE j # i
      BY <1>2, <1>3, <2>2 DEF TasksOK, TaskOK
    <2> QED BY <2>1, <2>2
  <1> QED BY <1>4 DEF TasksOK, TaskOK

\* The futures of the layers
LEMMA TasksPull ==
    ASSUME NEW p \in Procs, IInv, LayersApart, ProcStoreOK(p), PullNext(p)
    PROVE  TasksOK(p)'
  <1> USE DEF storeVars
  <1>a. TypeOK /\ SoundOK(p) /\ TasksOK(p)
    BY FrameFacts DEF ProcStoreOK
  <1>b. pc'[p] \notin FetchPcs => TasksOK(p)'
    BY FetchOver
  <1>c. ASSUME NEW l, Goto(p, l), l \notin {"layers", "abort", "ref_fill"}
        PROVE  TasksOK(p)'
    BY <1>a, <1>c DEF Goto, TypeOK, FrameTypeOK, TasksOK
  <1>d. ASSUME NEW ok, EnsureReturns(p, ok)
        PROVE  TasksOK(p)'
    BY <1>a, <1>b, <1>d, ReturnsPc
  <1>1. CASE \/ resolve_tag(p) \/ manifest_open(p) \/ manifest_fill(p)
             \/ config(p) \/ config_download(p) \/ config_commit(p) \/ abort(p)
    BY <1>1, <1>c, <1>d
    DEF resolve_tag, manifest_open, manifest_fill, config,
        config_download, config_commit, abort
  <1>2. CASE fetch(p) \/ ref_fill(p)
    BY <1>2, <1>a, <1>b, <1>c, FetchReturnsPc DEF fetch, ref_fill
  <1>3. CASE ensure(p) \/ next_app(p)
    <2>1. pc'[p] \notin FetchPcs
      <3>1. CASE next_app(p)
        <4>1. pc'[p] \in {"ensure", "next_app", "gc_images"}
          BY <1>a, <3>1 DEF next_app, Goto, TypeOK, FrameTypeOK
        <4> QED BY <4>1, StorePcs
      <3>2. CASE ensure(p)
        <4>1. CASE Goto(p, "fetch") \/ Goto(p, "build")
          <5>1. pc'[p] \in {"fetch", "build"}
            BY <1>a, <4>1 DEF Goto, TypeOK, FrameTypeOK
          <5> QED BY <5>1, StorePcs
        <4>2. CASE EnsureReturns(p, TRUE)
          BY <1>a, <4>2, ReturnsPc
        <4> QED BY <3>2, <4>1, <4>2 DEF ensure
      <3> QED BY <1>3, <3>1, <3>2
    <2> QED BY <1>b, <2>1
  <1>4. CASE pending(p)
    <2> DEFINE m == img[p]
    <2>1. /\ m \in Manifests /\ pc[p] = "pending"
          /\ Layers[m] \in Seq(RegistryLayers) /\ DOMAIN Layers[m] \subseteq Slots
      <3>1. pc[p] = "pending" /\ m \in Manifests
        BY <1>4, FrameFacts, StorePcs DEF pending
      <3> QED BY <3>1, ConstantsAssumption
    <2>2. /\ UNCHANGED <<dirs, img>> /\ pc'[p] = "layers"
          /\ \A j \in DOMAIN Layers[m] :
               task'[p][j] = IF ~has_layer(Layers[m][j]) THEN "queued" ELSE "none"
      BY <1>4, <1>a, <2>1 DEF pending, Goto, TypeOK, FrameTypeOK
    <2>3. ASSUME NEW j \in DOMAIN Layers[m]
          PROVE  has_layer(Layers[m][j]) => dirs[layer_path(Layers[m][j])] = Parts
      <3>1. Layers[m][j] \in LayerIds
        BY <2>1 DEF LayerIds
      <3> QED BY <1>a, <2>1, <3>1 DEF SoundOK, has_layer
    <2> QED BY <2>2, <2>3 DEF TasksOK, TaskOK
  <1>e. ASSUME NEW i \in Slots, pc[p] \in {"layers", "abort"}, task[p][i] # "none"
        PROVE  /\ i \in DOMAIN Layers[img[p]] /\ TaskOK(p, i)
               /\ staging_path(layer_at(p, i)) \in Dirs
               /\ layer_path(layer_at(p, i)) \in Dirs
               /\ staging_path(layer_at(p, i)) # layer_path(layer_at(p, i))
    <2>1. i \in DOMAIN Layers[img[p]] /\ img[p] \in Manifests
      BY <1>e, FrameFacts, StorePcs DEF IInv, FrameOK, ProcOK
    <2>2. layer_at(p, i) \in LayerIds
      <3>1. Layers[img[p]] \in Seq(RegistryLayers)
        BY <2>1, ConstantsAssumption
      <3> QED BY <2>1, <3>1 DEF layer_at, LayerIds
    <2>3. TaskOK(p, i)
      BY <1>a, <1>e, <2>1 DEF TasksOK
    <2> QED BY <2>1, <2>2, <2>3, PathsApart DEF staging_path, layer_path, Dirs
  <1>5. ASSUME NEW i \in Slots, layer_start(p, i) \/ layer_download(p, i)
        PROVE  TasksOK(p)'
    <2>1. /\ pc[p] = "layers" /\ UNCHANGED <<pc, img, dirs>> /\ task[p][i] # "none"
          /\ \E s \in {"download", "clear", "failed"} : task' = [task EXCEPT ![p][i] = s]
      BY <1>5 DEF layer_start, layer_download, Task
    <2> QED BY <1>a, <2>1, TaskStep DEF TaskStates, InFlight, Extracting
  <1>6. ASSUME NEW i \in Slots, clear_staging(p, i)
        PROVE  TasksOK(p)'
    <2>1. pc[p] \in {"layers", "abort"} /\ UNCHANGED <<pc, img>> /\ task[p][i] # "none"
      BY <1>6 DEF clear_staging, Unpacking
    <2>2. CASE /\ task' = [task EXCEPT ![p][i] = "open"]
               /\ dirs' = [dirs EXCEPT ![staging_path(layer_at(p, i))] = NoDir]
      <3>1. /\ \A e \in Dirs : e # staging_path(layer_at(p, i)) => dirs'[e] = dirs[e]
            /\ dirs'[staging_path(layer_at(p, i))] = NoDir
        BY <1>a, <1>e, <2>1, <2>2 DEF TypeOK, StoreTypeOK
      <3> QED BY <1>a, <2>1, <2>2, <3>1, TaskStep DEF TaskStates, InFlight, Extracting
    <2>3. CASE task' = [task EXCEPT ![p][i] = "failed"] /\ dirs' = dirs
      BY <1>a, <2>1, <2>3, TaskStep DEF TaskStates, InFlight, Extracting
    <2> QED BY <1>6, <2>2, <2>3 DEF clear_staging, Task
  <1>7. ASSUME NEW i \in Slots, open_temp(p, i)
        PROVE  TasksOK(p)'
    <2>1. /\ pc[p] \in {"layers", "abort"} /\ UNCHANGED <<pc, img, dirs>>
          /\ task[p][i] = "open"
          /\ \E s \in {"unpack_1", "failed"} : task' = [task EXCEPT ![p][i] = s]
      BY <1>7 DEF open_temp, Unpacking, Task
    <2>2. dirs[staging_path(layer_at(p, i))] = NoDir
      BY <1>e, <2>1 DEF TaskOK, layer_at
    <2> QED BY <1>a, <2>1, <2>2, TaskStep DEF TaskStates, InFlight, Extracting
  <1>8. ASSUME NEW i \in Slots, NEW part \in Parts, unpack(p, i, part)
        PROVE  TasksOK(p)'
    <2> DEFINE st == staging_path(layer_at(p, i))
    <2>1. /\ pc[p] \in {"layers", "abort"} /\ UNCHANGED <<pc, img>>
          /\ task[p][i] = IF part = 1 THEN "unpack_1" ELSE "unpack_2"
          /\ \/ /\ dirs' = [dirs EXCEPT ![st] =
                              (IF dirs[st] = NoDir THEN {} ELSE dirs[st]) \cup {part}]
                /\ task' = [task EXCEPT ![p][i] = IF part = 1 THEN "unpack_2" ELSE "rename"]
             \/ task' = [task EXCEPT ![p][i] = "failed"] /\ UNCHANGED dirs
      BY <1>8 DEF unpack, Unpacking, Task
    <2>2. task[p][i] # "none"
      BY <2>1
    <2>3. CASE task' = [task EXCEPT ![p][i] = "failed"] /\ UNCHANGED dirs
      BY <1>a, <2>1, <2>2, <2>3, TaskStep DEF TaskStates, InFlight, Extracting
    <2>4. CASE /\ dirs' = [dirs EXCEPT ![st] =
                             (IF dirs[st] = NoDir THEN {} ELSE dirs[st]) \cup {part}]
               /\ task' = [task EXCEPT ![p][i] = IF part = 1 THEN "unpack_2" ELSE "rename"]
      <3>1. /\ part = 1 => dirs[st] = NoDir
            /\ part # 1 => part = 2 /\ dirs[st] = {1}
        BY <1>e, <2>1, <2>2 DEF TaskOK, layer_at, Parts
      <3>2. \A e \in Dirs : e # st => dirs'[e] = dirs[e]
        BY <1>a, <2>4 DEF TypeOK, StoreTypeOK
      <3>3. /\ part = 1 => dirs'[st] = {1}
            /\ part # 1 => dirs'[st] = Parts
        <4>1. st \in Dirs
          BY <1>e, <2>1, <2>2
        <4>2. dirs'[st] = (IF dirs[st] = NoDir THEN {} ELSE dirs[st]) \cup {part}
          BY <1>a, <2>4, <4>1 DEF TypeOK, StoreTypeOK
        <4>3. {1} # NoDir /\ {1} \cup {2} = Parts
          <5>1. 1 \in {1} /\ 1 \notin {0}
            OBVIOUS
          <5>2. \A x : x \in {1} \cup {2} <=> x \in Parts
            BY DEF Parts
          <5> QED BY <5>1, <5>2 DEF NoDir
        <4> QED BY <3>1, <4>2, <4>3
      <3> HIDE DEF st
      <3>4. CASE part = 1
        BY <1>a, <2>1, <2>2, <2>4, <3>2, <3>3, <3>4, TaskStep
        DEF TaskStates, InFlight, Extracting, st
      <3>5. CASE part # 1
        BY <1>a, <2>1, <2>2, <2>4, <3>2, <3>3, <3>5, TaskStep
        DEF TaskStates, InFlight, Extracting, st
      <3> QED BY <3>4, <3>5
    <2> QED BY <2>1, <2>3, <2>4
  <1>9. ASSUME NEW i \in Slots, rename_layer(p, i)
        PROVE  TasksOK(p)'
    <2> DEFINE st == staging_path(layer_at(p, i))
               de == layer_path(layer_at(p, i))
    <2>1. /\ pc[p] \in {"layers", "abort"} /\ UNCHANGED <<pc, img>>
          /\ task[p][i] = "rename"
          /\ \/ /\ dirs' = [dirs EXCEPT ![de] = dirs[st], ![st] = NoDir]
                /\ task' = [task EXCEPT ![p][i] = "ok"]
             \/ task' = [task EXCEPT ![p][i] = "failed"] /\ UNCHANGED dirs
      BY <1>9 DEF rename_layer, Unpacking, Task
    <2>2. /\ dirs[st] = Parts /\ st \in Dirs /\ de \in Dirs /\ st # de
      BY <1>e, <2>1 DEF TaskOK, layer_at
    <2>3. CASE task' = [task EXCEPT ![p][i] = "failed"] /\ UNCHANGED dirs
      BY <1>a, <2>1, <2>3, TaskStep DEF TaskStates, InFlight, Extracting
    <2>4. CASE /\ dirs' = [dirs EXCEPT ![de] = dirs[st], ![st] = NoDir]
               /\ task' = [task EXCEPT ![p][i] = "ok"]
      <3>1. /\ dirs'[de] = Parts
            /\ \A e \in Dirs : e # st /\ e # de => dirs'[e] = dirs[e]
        <4> HIDE DEF st, de
        <4> QED BY <1>a, <2>2, <2>4 DEF TypeOK, StoreTypeOK
      <3> QED BY <1>a, <2>1, <2>4, <3>1, TaskStep DEF TaskStates, InFlight, Extracting
    <2> QED BY <2>1, <2>3, <2>4
  <1>10. ASSUME NEW i \in Slots, layer_result(p, i)
         PROVE  TasksOK(p)'
    <2>1. CASE task[p][i] = "ok" /\ Task(p, i, "done") /\ UNCHANGED pc
      <3>1. /\ pc[p] = "layers" /\ UNCHANGED <<pc, img, dirs>> /\ task[p][i] = "ok"
            /\ task' = [task EXCEPT ![p][i] = "done"]
        BY <1>10, <2>1 DEF layer_result, Task
      <3>2. dirs[layer_path(layer_at(p, i))] = Parts
        BY <1>e, <3>1 DEF TaskOK, layer_at
      <3> QED BY <1>a, <3>1, <3>2, TaskStep DEF TaskStates
    <2>2. CASE Goto(p, "abort")
      <3>1. /\ pc'[p] = "abort" /\ pc[p] = "layers" /\ UNCHANGED <<img, dirs>>
            /\ \/ task[p][i] = "ok"
               \/ task' = [task EXCEPT ![p] = [j \in Slots |->
                             IF task[p][j] \in Extracting THEN task[p][j] ELSE "none"]]
        BY <1>10, <1>a, <2>2 DEF layer_result, Goto, TypeOK, FrameTypeOK
      <3>2. CASE task[p][i] = "ok"
        <4>1. pc' = pc
          BY <1>10, <3>2 DEF layer_result
        <4> QED BY <3>1, <4>1
      <3>3. CASE task' = [task EXCEPT ![p] = [j \in Slots |->
                            IF task[p][j] \in Extracting THEN task[p][j] ELSE "none"]]
        <4>1. img[p] \in Manifests /\ DOMAIN Layers[img[p]] \subseteq Slots
          BY <3>1, FrameFacts, StorePcs, ConstantsAssumption
        <4>2. \A j \in DOMAIN Layers[img[p]] :
                task'[p][j] \in {task[p][j], "none"} /\ (task'[p][j] # "none" =>
                  task[p][j] \in Extracting)
          BY <1>a, <3>3, <4>1 DEF TypeOK, FrameTypeOK
        <4> QED BY <1>a, <3>1, <4>2 DEF TasksOK, TaskOK
      <3> QED BY <3>1, <3>2, <3>3
    <2> QED BY <1>10, <2>1, <2>2 DEF layer_result
  <1>11. CASE ref_open(p)
    <2>1. /\ pc[p] = "layers" /\ UNCHANGED <<img, dirs, task>> /\ pc'[p] = "ref_fill"
          /\ \A i \in Slots : task[p][i] \in {"none", "done"}
      BY <1>11, <1>a DEF ref_open, Goto, workVars, TypeOK, FrameTypeOK
    <2>2. img[p] \in Manifests /\ DOMAIN Layers[img[p]] \subseteq Slots
      BY <2>1, FrameFacts, StorePcs, ConstantsAssumption
    <2> QED BY <1>a, <2>1, <2>2 DEF TasksOK, TaskOK
  <1> QED BY <1>1, <1>2, <1>3, <1>4, <1>5, <1>6, <1>7, <1>8, <1>9, <1>10, <1>11
    DEF PullNext, extract_layer

\* Up to the layers, and the record that is about to be written
LEMMA FetchPull ==
    ASSUME NEW p \in Procs, IInv, ProcStoreOK(p), PullNext(p)
    PROVE  FetchOK(p)'
  <1> USE DEF storeVars
  <1>a. TypeOK /\ SoundOK(p) /\ FetchOK(p)
    BY FrameFacts DEF ProcStoreOK
  <1>b. pc'[p] \notin FetchPcs => FetchOK(p)'
    BY FetchOver
  <1>c. ASSUME NEW ok, EnsureReturns(p, ok)
        PROVE  FetchOK(p)'
    BY <1>a, <1>b, <1>c, ReturnsPc
  <1>d. pc[p] \in FetchPcs => img[p] \in Manifests /\ img[p] \in Blobs
                              /\ ConfigOf(img[p]) = Config[img[p]]
                              /\ Config[img[p]] \in Blobs /\ Config[img[p]] \in Configs
    BY FrameFacts, ManifestBase DEF Blobs
  <1>e. ASSUME NEW l \in FetchPcs, Goto(p, l)
        PROVE  pc'[p] = l
    BY <1>a, <1>e DEF Goto, TypeOK, FrameTypeOK
  <1>f. ASSUME ConfigOf(img[p]) = Config[img[p]], UNCHANGED <<img, built>>
        PROVE  ConfigOf(img[p])' = Config[img[p]]
    BY <1>f DEF ConfigOf, BaseOf
  <1>1. CASE ensure(p)
    <2>1. CASE Goto(p, "fetch") \/ Goto(p, "build")
      <3>1. pc'[p] \in {"fetch", "build"}
        BY <1>a, <2>1 DEF Goto, TypeOK, FrameTypeOK
      <3> QED BY <1>b, <3>1, StorePcs
    <2> QED BY <1>1, <1>c, <2>1 DEF ensure
  <1>2. CASE next_app(p)
    <2>1. pc'[p] \in {"ensure", "next_app", "gc_images"}
      BY <1>a, <1>2 DEF next_app, Goto, TypeOK, FrameTypeOK
    <2> QED BY <1>b, <2>1, StorePcs
  <1>3. CASE fetch(p) \/ ref_fill(p)
    <2>1. CASE FetchReturns(p)
      BY <1>a, <1>b, <2>1, FetchReturnsPc
    <2>2. CASE Goto(p, "resolve_tag")
      <3>1. pc'[p] = "resolve_tag"
        BY <1>a, <2>2 DEF Goto, TypeOK, FrameTypeOK
      <3> QED BY <1>b, <3>1, StorePcs
    <2> QED BY <1>3, <2>1, <2>2 DEF fetch, ref_fill
  <1>4. CASE resolve_tag(p)
    <2>1. CASE Goto(p, "manifest_open")
      <3>1. pc'[p] = "manifest_open"
        BY <1>e, <2>1, StorePcs
      <3> QED BY <3>1 DEF FetchOK
    <2> QED BY <1>4, <1>c, <2>1 DEF resolve_tag
  <1>5. CASE manifest_open(p)
    <2>1. /\ pc[p] \in FetchPcs /\ UNCHANGED <<img, built>> /\ pc'[p] = "manifest_fill"
          /\ blobs' = [blobs EXCEPT ![img[p]] = "torn"]
      BY <1>5, <1>e, StorePcs DEF manifest_open, write_blob_open, workVars
    <2>2. blobs'[img[p]] = "torn"
      BY <1>a, <1>d, <2>1 DEF TypeOK, StoreTypeOK
    <2> QED BY <2>1, <2>2 DEF FetchOK
  <1>6. CASE manifest_fill(p)
    <2>1. /\ pc[p] = "manifest_fill" /\ UNCHANGED <<img, built>> /\ pc'[p] = "config"
          /\ blobs' = [blobs EXCEPT ![img[p]] = IF blobs[img[p]] # "none"
                                                THEN "ok" ELSE "none"]
      BY <1>6, <1>a
      DEF manifest_fill, write_blob_fill, workVars, has_blob, Goto, TypeOK, FrameTypeOK
    <2>2. blobs'[img[p]] = "ok"
      BY <1>a, <1>d, <2>1, StorePcs DEF TypeOK, StoreTypeOK, FetchOK
    <2> QED BY <2>1, <2>2 DEF FetchOK
  <1>g. ASSUME UNCHANGED <<img, built, blobs>>,
               pc[p] \in FetchPcs \ {"manifest_open", "manifest_fill"},
               pc'[p] \in FetchPcs \ {"manifest_open", "manifest_fill", "ref_fill"},
               pc'[p] \in {"pending", "layers", "abort", "ref_fill"} =>
                   blobs[ConfigOf(img[p])] = "ok"
        PROVE  FetchOK(p)'
    <2>1. ConfigOf(img[p])' = ConfigOf(img[p])
      BY <1>g DEF ConfigOf, BaseOf
    <2> QED BY <1>a, <1>g, <2>1 DEF FetchOK
  <1>h. {"config", "config_download", "config_commit", "pending", "layers", "abort"}
           \subseteq FetchPcs \ {"manifest_open", "manifest_fill", "ref_fill"}
    BY DEF FetchPcs
  <1>7. CASE config(p)
    <2>1. /\ pc[p] = "config" /\ UNCHANGED <<img, built, blobs>>
          /\ \/ has_blob(ConfigOf(img[p])) /\ pc'[p] = "pending"
             \/ pc'[p] = "config_download"
      BY <1>7, <1>e, <1>h DEF config, workVars
    <2>2. has_blob(ConfigOf(img[p])) => blobs[ConfigOf(img[p])] = "ok"
      BY <1>a, <1>d, <1>h, <2>1 DEF SoundOK, has_blob, TypeOK, StoreTypeOK
    <2> QED BY <1>g, <1>h, <2>1, <2>2
  <1>8. CASE config_download(p)
    <2>1. CASE Goto(p, "config_commit") /\ UNCHANGED workVars
      <3>1. /\ pc[p] = "config_download" /\ UNCHANGED <<img, built, blobs>>
            /\ pc'[p] = "config_commit"
        BY <1>8, <1>e, <1>h, <2>1 DEF config_download, workVars
      <3> QED BY <1>g, <1>h, <3>1
    <2> QED BY <1>8, <1>c, <2>1 DEF config_download
  <1>9. CASE config_commit(p)
    <2>1. CASE /\ blobs' = [blobs EXCEPT ![ConfigOf(img[p])] = "ok"]
               /\ Goto(p, "pending") /\ UNCHANGED workVars
      <3>1. /\ pc[p] = "config_commit" /\ UNCHANGED <<img, built>>
            /\ pc'[p] = "pending"
        BY <1>9, <1>e, <1>h, <2>1 DEF config_commit, workVars
      <3>2. blobs'[img[p]] = "ok" /\ blobs'[Config[img[p]]] = "ok"
        BY <1>a, <1>d, <1>h, <2>1, <3>1 DEF TypeOK, StoreTypeOK, FetchOK
      <3>3. ConfigOf(img[p])' = Config[img[p]]
        BY <1>d, <1>f, <1>h, <3>1
      <3> QED BY <3>1, <3>2, <3>3 DEF FetchOK
    <2> QED BY <1>9, <1>c, <2>1 DEF config_commit
  <1>i. ASSUME pc[p] \in {"pending", "layers", "abort"}, UNCHANGED <<img, built, blobs>>,
               pc'[p] \in {"layers", "abort"}
        PROVE  FetchOK(p)'
    <2>1. blobs[ConfigOf(img[p])] = "ok"
      BY <1>a, <1>i DEF FetchOK
    <2> QED BY <1>g, <1>h, <1>i, <2>1
  <1>10. CASE pending(p)
    <2>1. /\ pc[p] = "pending" /\ UNCHANGED <<img, built, blobs>> /\ pc'[p] = "layers"
      BY <1>10, <1>e, <1>h DEF pending
    <2> QED BY <1>i, <2>1
  <1>11. ASSUME NEW i \in Slots, layer_start(p, i) \/ layer_download(p, i)
                                 \/ extract_layer(p, i)
         PROVE  FetchOK(p)'
    <2>1. pc[p] \in {"layers", "abort"} /\ UNCHANGED <<pc, img, built, blobs>>
      BY <1>11
      DEF layer_start, layer_download, extract_layer, clear_staging, open_temp,
          unpack, rename_layer, Unpacking
    <2> QED BY <1>i, <2>1
  <1>12. ASSUME NEW i \in Slots, layer_result(p, i)
         PROVE  FetchOK(p)'
    <2>1. /\ pc[p] = "layers" /\ UNCHANGED <<img, built, blobs>>
          /\ UNCHANGED pc \/ pc'[p] = "abort"
      BY <1>12, <1>e, <1>h DEF layer_result
    <2> QED BY <1>i, <2>1
  <1>13. CASE abort(p)
    BY <1>13, <1>c DEF abort
  <1>14. CASE ref_open(p)
    <2>1. /\ pc[p] = "layers" /\ UNCHANGED <<img, app, task, built, blobs>>
          /\ pc'[p] = "ref_fill"
          /\ \A i \in Slots : task[p][i] \in {"none", "done"}
          /\ refs' = [refs EXCEPT ![Reference[app[p]]] = Empty]
      BY <1>14, <1>e, StorePcs DEF ref_open, workVars, loopVars, record_ref_open
    <2>2. Reference[app[p]] \in Keys
      BY <2>1, FrameFacts, StorePcs, KeyTypes DEF Keys
    <2>3. refs'[Reference[app[p]]] = Empty
      BY <1>a, <2>1, <2>2 DEF TypeOK, StoreTypeOK
    <2>4. blobs[img[p]] = "ok" /\ blobs[ConfigOf(img[p])] = "ok"
      BY <1>a, <1>h, <2>1 DEF FetchOK
    <2>5. ConfigOf(img[p])' = ConfigOf(img[p])
      BY <2>1 DEF ConfigOf, BaseOf
    <2> QED BY <2>1, <2>3, <2>4, <2>5 DEF FetchOK
  <1> QED BY <1>1, <1>2, <1>3, <1>4, <1>5, <1>6, <1>7, <1>8, <1>9, <1>10,
    <1>11, <1>12, <1>13, <1>14 DEF PullNext
-----------------------------------------------------------------------------
(* What a build has stored at each point                                   *)

\* Outside the build nothing is claimed of it.
LEMMA BuildOver ==
    ASSUME NEW p \in Procs, pc'[p] \notin BuildPcs \ {"build"}
    PROVE  BuildOK(p)'
  <1>1. pc'[p] \notin BuildingPcs /\ "build" \notin BuildingPcs
    BY DEF BuildPcs, BuildingPcs
  <1> QED BY <1>1 DEF BuildOK, BuildPcs, BuildingPcs

\* build.rs
LEMMA BuildStep ==
    ASSUME NEW p \in Procs, IInv, ProcStoreOK(p), BuildNext(p)
    PROVE  BuildOK(p)'
  <1> USE DEF storeVars
  <1>a. TypeOK /\ SoundOK(p) /\ BuildOK(p)
    BY FrameFacts DEF ProcStoreOK
  <1>b. pc'[p] \notin BuildPcs \ {"build"} => BuildOK(p)'
    BY BuildOver
  <1>c. ASSUME NEW ok, EnsureReturns(p, ok)
        PROVE  BuildOK(p)'
    BY <1>a, <1>b, <1>c, ReturnsPc
  <1>d. pc[p] \in BuildPcs /\ app[p] \in InstallApps /\ Reference[app[p]] \in Keys
        /\ image_key(app[p]) = app[p] /\ app[p] \in Keys /\ app[p] # Reference[app[p]]
    <2>1. app[p] \in InstallApps /\ app[p] \in Apps /\ Reference[app[p]] \in References
      BY BuildZone, FrameFacts, StorePcs, ConstantsAssumption
    <2> QED BY <2>1, BuildZone, ConstantsAssumption DEF Keys, image_key
  <1>e. pc[p] \in BuildingPcs =>
          /\ bid[p] \in BuildIds /\ bid[p] \in Blobs /\ bid[p] \in LayerIds
          /\ staging_path(bid[p]) \in Dirs /\ layer_path(bid[p]) \in Dirs
          /\ staging_path(bid[p]) # layer_path(bid[p])
    <2>1. pc[p] \in BuildingPcs =>
            bid[p] \in BuildIds /\ bid[p] \in Blobs /\ bid[p] \in LayerIds
      BY FrameFacts DEF Blobs, LayerIds
    <2> QED BY <2>1, PathsApart DEF staging_path, layer_path, Dirs
  <1>f. /\ BuildingPcs \subseteq BuildPcs \ {"build"}
        /\ {"base_manifest", "build_dirs"} \cap BuildingPcs = {}
        /\ {"run_script", "script_1", "script_2", "build_rename", "build_open",
            "build_fill", "build_ref_open", "build_ref_fill"} \subseteq BuildingPcs
    BY DEF BuildPcs, BuildingPcs
  <1>g. ASSUME NEW l \in BuildPcs, Goto(p, l)
        PROVE  pc'[p] = l
    BY <1>a, <1>g DEF Goto, TypeOK, FrameTypeOK
  <1>1. CASE base_ref(p)
    <2>1. CASE BuildFails(p)
      BY <1>c, <2>1 DEF BuildFails
    <2>2. CASE /\ img' = [img EXCEPT ![p] = refs[Reference[app[p]]]]
               /\ Goto(p, "base_manifest") /\ UNCHANGED loopVars
      <3>1. /\ pc'[p] = "base_manifest" /\ refs' = refs /\ app' = app
            /\ img'[p] = refs[Reference[app[p]]]
        BY <1>1, <1>a, <1>g, <2>2 DEF base_ref, loopVars, BuildPcs, TypeOK, FrameTypeOK
      <3> QED BY <1>f, <3>1 DEF BuildOK
    <2> QED BY <1>1, <2>1, <2>2 DEF base_ref
  <1>2. CASE base_manifest(p)
    <2>1. CASE BuildFails(p)
      BY <1>c, <2>1 DEF BuildFails
    <2>2. CASE Goto(p, "build_dirs") /\ UNCHANGED <<loopVars, workVars>>
      <3>1. /\ pc'[p] = "build_dirs" /\ refs' = refs /\ app' = app /\ img' = img
            /\ pc[p] \in BuildPcs \ {"build"}
        BY <1>2, <1>g, <2>2 DEF base_manifest, loopVars, workVars, BuildPcs
      <3> QED BY <1>a, <1>f, <3>1 DEF BuildOK
    <2> QED BY <1>2, <2>1, <2>2 DEF base_manifest
  <1>3. CASE build_dirs(p)
    <2>1. CASE BuildFails(p)
      BY <1>c, <2>1 DEF BuildFails
    <2>2. ASSUME NEW b \in BuildIds, Fresh(b), bid' = [bid EXCEPT ![p] = b],
                 built' = [built EXCEPT ![b] = img[p]],
                 dirs' = [dirs EXCEPT ![staging_path(b)] = {}],
                 Goto(p, "run_script"), UNCHANGED <<loopVars, img, task>>
          PROVE  BuildOK(p)'
      <3>1. /\ pc'[p] = "run_script" /\ refs' = refs /\ app' = app /\ img' = img
            /\ pc[p] \in BuildPcs \ {"build"}
        BY <1>3, <1>f, <1>g, <2>2 DEF build_dirs, loopVars, BuildPcs
      <3>2. bid'[p] = b /\ built'[b] = img[p] /\ \A k \in Keys : refs[k] # b
        BY <1>a, <2>2 DEF Fresh, TypeOK, StoreTypeOK, FrameTypeOK
      <3>3. dirs'[staging_path(b)] = {}
        BY <1>a, <2>2 DEF staging_path, Dirs, LayerIds, TypeOK, StoreTypeOK
      <3> QED BY <1>a, <1>f, <3>1, <3>2, <3>3 DEF BuildOK
    <2> QED BY <1>3, <2>1, <2>2 DEF build_dirs
  <1>h. ASSUME pc[p] \in BuildingPcs, UNCHANGED <<refs, built, app, img, bid>>,
               pc'[p] \in BuildingPcs \ {"build_ref_fill"},
               pc'[p] \in {"run_script", "script_1"} => dirs'[staging_path(bid[p])] = {},
               pc'[p] = "script_2" => dirs'[staging_path(bid[p])] = {1},
               pc'[p] = "build_rename" => dirs'[staging_path(bid[p])] = Parts,
               pc'[p] \in {"build_open", "build_fill", "build_ref_open"} =>
                   dirs'[layer_path(bid[p])] = Parts,
               pc'[p] = "build_fill" => blobs'[bid[p]] = "torn",
               pc'[p] = "build_ref_open" => blobs'[bid[p]] = "ok"
        PROVE  BuildOK(p)'
    <2>1. pc[p] \in BuildPcs \ {"build"}
      BY <1>f, <1>h
    <2>2. refs[Reference[app[p]]] = img[p] /\ built[bid[p]] = img[p]
          /\ \A k \in Keys : refs[k] # bid[p]
      BY <1>a, <1>h, <2>1 DEF BuildOK
    <2> QED BY <1>h, <2>2 DEF BuildOK
  <1>4. CASE run_script(p)
    <2>1. CASE BuildFails(p)
      BY <1>c, <2>1 DEF BuildFails
    <2>2. CASE Goto(p, "script_1") /\ UNCHANGED <<loopVars, workVars, dirs>>
      <3>1. /\ pc[p] = "run_script" /\ pc'[p] = "script_1"
            /\ UNCHANGED <<refs, built, app, img, bid, dirs>>
        BY <1>4, <1>f, <1>g, <2>2 DEF run_script, loopVars, workVars
      <3> QED BY <1>a, <1>f, <1>h, <3>1 DEF BuildOK
    <2> QED BY <1>4, <2>1, <2>2 DEF run_script
  <1>5. ASSUME NEW part \in Parts, script_writes(p, part)
        PROVE  BuildOK(p)'
    <2> DEFINE st == staging_path(bid[p])
    <2>1. /\ pc[p] = (IF part = 1 THEN "script_1" ELSE "script_2")
          /\ pc'[p] = (IF part = 1 THEN "script_2" ELSE "build_rename")
          /\ UNCHANGED <<refs, built, app, img, bid>>
          /\ dirs' = [dirs EXCEPT ![st] = IF dirs[st] = NoDir THEN NoDir
                                          ELSE dirs[st] \cup {part}]
      BY <1>5, <1>f, <1>g DEF script_writes, loopVars, workVars
    <2>2. pc[p] \in BuildingPcs /\ pc'[p] \in BuildingPcs \ {"build_ref_fill"}
      BY <1>f, <2>1
    <2>3. dirs'[st] = IF dirs[st] = NoDir THEN NoDir ELSE dirs[st] \cup {part}
      BY <1>a, <1>e, <2>1, <2>2 DEF TypeOK, StoreTypeOK
    <2>4. /\ {} # NoDir /\ {1} # NoDir /\ {} \cup {1} = {1} /\ {1} \cup {2} = Parts
      <3>1. 1 \in {1} /\ 1 \notin {0} /\ 0 \in {0} /\ 0 \notin {}
        OBVIOUS
      <3>2. \A x : x \in {1} \cup {2} <=> x \in Parts
        BY DEF Parts
      <3> QED BY <3>1, <3>2 DEF NoDir
    <2>5. CASE part = 1
      <3>1. dirs[st] = {}
        BY <1>a, <2>1, <2>5 DEF BuildOK
      <3>2. dirs'[st] = {1}
        BY <2>3, <2>4, <2>5, <3>1
      <3> QED BY <1>h, <2>1, <2>2, <2>5, <3>2
    <2>6. CASE part # 1
      <3>1. dirs[st] = {1} /\ part = 2
        BY <1>a, <2>1, <2>6 DEF BuildOK, Parts
      <3>2. dirs'[st] = Parts
        BY <2>3, <2>4, <3>1
      <3> QED BY <1>h, <2>1, <2>2, <2>6, <3>2
    <2> QED BY <2>5, <2>6
  <1>6. CASE script_fails(p)
    BY <1>6, <1>c DEF script_fails, BuildFails
  <1>7. CASE build_rename(p)
    <2> DEFINE st == staging_path(bid[p])
               de == layer_path(bid[p])
    <2>1. CASE BuildFails(p)
      BY <1>c, <2>1 DEF BuildFails
    <2>2. CASE /\ dirs' = [dirs EXCEPT ![de] = dirs[st], ![st] = NoDir]
               /\ Goto(p, "build_open") /\ UNCHANGED <<loopVars, workVars>>
      <3>1. /\ pc[p] = "build_rename" /\ pc'[p] = "build_open"
            /\ UNCHANGED <<refs, built, app, img, bid>>
        BY <1>7, <1>f, <1>g, <2>2 DEF build_rename, loopVars, workVars
      <3>2. dirs[st] = Parts /\ st \in Dirs /\ de \in Dirs /\ st # de
        BY <1>a, <1>e, <1>f, <3>1 DEF BuildOK
      <3>3. dirs'[de] = Parts
        <4> HIDE DEF st, de
        <4> QED BY <1>a, <2>2, <3>2 DEF TypeOK, StoreTypeOK
      <3> QED BY <1>f, <1>h, <3>1, <3>3
    <2> QED BY <1>7, <2>1, <2>2 DEF build_rename
  <1>8. CASE build_open(p)
    <2>1. /\ pc[p] = "build_open" /\ pc'[p] = "build_fill"
          /\ UNCHANGED <<refs, built, app, img, bid, dirs>>
          /\ blobs' = [blobs EXCEPT ![bid[p]] = "torn"]
      BY <1>8, <1>f, <1>g DEF build_open, loopVars, workVars, write_blob_open
    <2>2. blobs'[bid[p]] = "torn" /\ dirs[layer_path(bid[p])] = Parts
      BY <1>a, <1>e, <1>f, <2>1 DEF BuildOK, TypeOK, StoreTypeOK
    <2> QED BY <1>f, <1>h, <2>1, <2>2
  <1>9. CASE build_fill(p)
    <2>1. /\ pc[p] = "build_fill" /\ pc'[p] = "build_ref_open"
          /\ UNCHANGED <<refs, built, app, img, bid, dirs>>
          /\ blobs' = [blobs EXCEPT ![bid[p]] = IF blobs[bid[p]] # "none"
                                                THEN "ok" ELSE "none"]
      BY <1>9, <1>f, <1>g DEF build_fill, loopVars, workVars, write_blob_fill, has_blob
    <2>2. blobs'[bid[p]] = "ok" /\ dirs[layer_path(bid[p])] = Parts
      BY <1>a, <1>e, <1>f, <2>1 DEF BuildOK, TypeOK, StoreTypeOK
    <2> QED BY <1>f, <1>h, <2>1, <2>2
  <1>10. CASE build_ref_open(p)
    <2>1. /\ pc[p] = "build_ref_open" /\ pc'[p] = "build_ref_fill"
          /\ UNCHANGED <<built, app, img, bid, dirs, blobs>>
          /\ refs' = [refs EXCEPT ![app[p]] = Empty]
      BY <1>10, <1>d, <1>f, <1>g DEF build_ref_open, loopVars, workVars, record_ref_open
    <2>2. pc[p] \in BuildingPcs /\ pc[p] \in BuildPcs \ {"build"}
      BY <1>f, <2>1
    <2>3. /\ refs[Reference[app[p]]] = img[p] /\ built[bid[p]] = img[p]
          /\ \A k \in Keys : refs[k] # bid[p]
          /\ dirs[layer_path(bid[p])] = Parts /\ blobs[bid[p]] = "ok"
      BY <1>a, <2>1, <2>2 DEF BuildOK
    <2>4. \A k \in Keys : refs'[k] = IF k = app[p] THEN Empty ELSE refs[k]
      BY <1>a, <1>d, <2>1 DEF TypeOK, StoreTypeOK
    <2>5. Empty # bid[p]
      BY <1>e, <2>2, ConstantsAssumption DEF Images
    <2> QED BY <1>d, <2>1, <2>3, <2>4, <2>5 DEF BuildOK
  <1>11. CASE build_ref_fill(p)
    BY <1>11, <1>c DEF build_ref_fill
  <1> QED BY <1>1, <1>2, <1>3, <1>4, <1>5, <1>6, <1>7, <1>8, <1>9, <1>10, <1>11
    DEF BuildNext

-----------------------------------------------------------------------------
(* What a collection has noted and listed                                  *)

\* Outside a collection it has noted nothing.
LEMMA SweepOver ==
    ASSUME NEW p \in Procs, SweepOK(p), pc[p] \notin GcPcs \cup {"exit"},
           pc'[p] \notin GcPcs, UNCHANGED <<liveBlobs, liveLayers>>
    PROVE  SweepOK(p)'
  BY DEF SweepOK, GcPcs, Deleting

\* An error ends it.
LEMMA SweepExits ==
    ASSUME NEW p \in Procs, TypeOK, Exit(p)
    PROVE  SweepOK(p)'
  <1>1. pc'[p] = "exit"
    BY DEF Exit, Goto, TypeOK, FrameTypeOK
  <1> QED BY <1>1 DEF SweepOK, GcPcs, Deleting

\* clean.rs live_set() and gc_images()
LEMMA SweepStep ==
    ASSUME NEW p \in Procs, IInv, ProcStoreOK(p), CleanNext(p)
    PROVE  SweepOK(p)'
  <1> USE DEF storeVars
  <1>a. TypeOK /\ SweepOK(p)
    BY FrameFacts DEF ProcStoreOK
  <1>b. /\ {"gc_blobs", "gc_layers", "remove_tree", "gc_temps"} = Deleting
        /\ GcPcs = {"live_ref", "live_manifest"} \cup Deleting
        /\ {"live_ref", "live_manifest"} \cap Deleting = {}
        /\ {"orphans", "drop_refs", "gc_images", "exit"} \cap GcPcs = {}
    BY DEF GcPcs, Deleting
  <1>c. ASSUME NEW l, Goto(p, l)
        PROVE  pc'[p] = l
    BY <1>a, <1>c DEF Goto, TypeOK, FrameTypeOK
  <1>1. CASE orphans(p)
    <2>1. /\ pc[p] = "orphans" /\ pc'[p] = "drop_refs"
          /\ UNCHANGED <<liveBlobs, liveLayers>>
      BY <1>1, <1>c DEF orphans
    <2> QED BY <1>a, <1>b, <2>1, SweepOver
  <1>2. CASE drop_refs(p)
    <2>1. CASE Exit(p)
      BY <1>a, <2>1, SweepExits
    <2>2. CASE UNCHANGED pc \/ Goto(p, "gc_images")
      <3>1. /\ pc[p] = "drop_refs" /\ pc'[p] \in {"drop_refs", "gc_images"}
            /\ UNCHANGED <<liveBlobs, liveLayers>>
        BY <1>2, <1>c, <2>2 DEF drop_refs
      <3> QED BY <1>a, <1>b, <3>1, SweepOver
    <2> QED BY <1>2, <2>1, <2>2 DEF drop_refs
  <1>3. CASE gc_images(p)
    <2>1. /\ pc[p] = "gc_images" /\ pc'[p] = "live_ref"
          /\ UNCHANGED <<refs, liveBlobs, liveLayers>>
          /\ stable'[p] = {k \in Keys : has_ref(k)}
      BY <1>3, <1>a, <1>c DEF gc_images, TypeOK, GcTypeOK
    <2>2. liveBlobs[p] = {} /\ liveLayers[p] = {}
      BY <1>a, <1>b, <2>1 DEF SweepOK
    <2> QED BY <1>b, <2>1, <2>2 DEF SweepOK, has_ref
  <1>d. ASSUME UNCHANGED <<refs, built, stable>>, pc[p] \in GcPcs, pc'[p] \in GcPcs,
               pc'[p] = "live_manifest" => img'[p] \in Recorded,
               \A b \in liveBlobs'[p] : b \in liveBlobs[p]
                   \/ \E d \in Recorded : b \in {d, ConfigOf(d)},
               \A l \in liveLayers'[p] : l \in liveLayers[p]
                   \/ \E d \in Recorded : l \in LayersOf(d),
               pc'[p] \in Deleting =>
                 \A b \in Blobs : blobs'[b] # "none" =>
                   b \in liveBlobs'[p] \/ (pc'[p] = "gc_blobs" /\ <<"blob", b>> \in victims'[p]),
               pc'[p] \in Deleting \ {"gc_blobs"} =>
                 \A e \in Dirs : dirs'[e] # NoDir =>
                   \/ \E l \in liveLayers'[p] : e = layer_path(l)
                   \/ pc'[p] # "gc_temps" /\ e \in victims'[p]
                   \/ e = doomed'[p],
               pc'[p] = "remove_tree" => dirs'[doomed'[p]] = left'[p],
               pc'[p] = "gc_temps" => \A t \in temps' : <<"temp", t>> \in victims'[p]
        PROVE  SweepOK(p)'
    <2>1. \A k \in Keys : refs[k] # NoRef => k \in stable[p]
      BY <1>a, <1>d DEF SweepOK, has_ref
    <2>2. /\ \A b \in liveBlobs'[p] : \E d \in Recorded : b \in {d, ConfigOf(d)}
          /\ \A l \in liveLayers'[p] : \E d \in Recorded : l \in LayersOf(d)
      BY <1>a, <1>d DEF SweepOK
    <2>3. Recorded' = Recorded
      BY <1>d DEF Recorded
    <2>4. ASSUME NEW d
          PROVE  ConfigOf(d)' = ConfigOf(d) /\ LayersOf(d)' = LayersOf(d)
      BY <1>d DEF ConfigOf, LayersOf, BaseOf
    <2>5. /\ \A b \in liveBlobs'[p] : \E d \in Recorded' : b \in {d, ConfigOf(d)'}
          /\ \A l \in liveLayers'[p] : \E d \in Recorded' : l \in LayersOf(d)'
      BY <2>2, <2>3, <2>4
    <2> QED
      BY <1>d, <2>1, <2>3, <2>5 DEF SweepOK, has_ref, has_blob
  <1>4. CASE live_ref(p)
    <2>1. CASE Exit(p)
      BY <1>a, <2>1, SweepExits
    <2>2. CASE UNCHANGED <<liveBlobs, img, pc>>
      <3>1. /\ pc[p] = "live_ref" /\ UNCHANGED <<refs, built, stable, liveLayers>>
        BY <1>4 DEF live_ref
      <3> QED BY <1>b, <1>d, <2>2, <3>1
    <2>3. ASSUME NEW k \in gcKeys[p], refs[k] \in Images,
                 liveBlobs' = [liveBlobs EXCEPT ![p] = liveBlobs[p] \cup {refs[k]}],
                 img' = [img EXCEPT ![p] = refs[k]], Goto(p, "live_manifest")
          PROVE  SweepOK(p)'
      <3>1. /\ pc[p] = "live_ref" /\ pc'[p] = "live_manifest"
            /\ UNCHANGED <<refs, built, stable, liveLayers>>
        BY <1>4, <1>c, <2>3 DEF live_ref
      <3>2. k \in Keys /\ img'[p] = refs[k] /\ liveBlobs'[p] = liveBlobs[p] \cup {refs[k]}
        BY <1>a, <2>3 DEF TypeOK, GcTypeOK, FrameTypeOK
      <3>3. refs[k] \in Recorded
        BY <2>3, <3>2 DEF Recorded
      <3> QED BY <1>b, <1>d, <3>1, <3>2, <3>3
    <2> QED BY <1>4, <2>1, <2>2, <2>3 DEF live_ref
  <1>5. CASE live_manifest(p)
    <2>1. CASE Exit(p)
      BY <1>a, <2>1, SweepExits
    <2>2. CASE /\ liveBlobs' = [liveBlobs EXCEPT ![p] = liveBlobs[p] \cup {ConfigOf(img[p])}]
               /\ liveLayers' = [liveLayers EXCEPT ![p] = liveLayers[p] \cup LayersOf(img[p])]
               /\ Goto(p, "live_ref")
      <3>1. /\ pc[p] = "live_manifest" /\ pc'[p] = "live_ref"
            /\ UNCHANGED <<refs, built, stable>>
        BY <1>5, <1>c, <2>2 DEF live_manifest
      <3>2. /\ liveBlobs'[p] = liveBlobs[p] \cup {ConfigOf(img[p])}
            /\ liveLayers'[p] = liveLayers[p] \cup LayersOf(img[p])
        BY <1>a, <2>2 DEF TypeOK, GcTypeOK
      <3>3. img[p] \in Recorded
        BY <1>a, <3>1 DEF SweepOK
      <3> QED BY <1>b, <1>d, <3>1, <3>2, <3>3
    <2> QED BY <1>5, <2>1, <2>2 DEF live_manifest
  <1>6. CASE list_blobs(p)
    <2>1. /\ pc[p] = "live_ref" /\ pc'[p] = "gc_blobs"
          /\ UNCHANGED <<refs, built, blobs, stable, liveBlobs, liveLayers>>
          /\ victims'[p] = {<<"blob", b>> : b \in {c \in Blobs \ liveBlobs[p] : has_blob(c)}}
      BY <1>6, <1>a, <1>c DEF list_blobs, List, TypeOK, GcTypeOK
    <2> QED BY <1>b, <1>d, <2>1 DEF has_blob
  <1>e. pc[p] \in Deleting =>
          \A b \in Blobs : has_blob(b) =>
            b \in liveBlobs[p] \/ (pc[p] = "gc_blobs" /\ <<"blob", b>> \in victims[p])
    BY <1>a DEF SweepOK
  <1>f. pc[p] \in Deleting \ {"gc_blobs"} =>
          \A e \in Dirs : dirs[e] # NoDir =>
            \/ \E l \in liveLayers[p] : e = layer_path(l)
            \/ pc[p] # "gc_temps" /\ e \in victims[p]
            \/ e = doomed[p]
    BY <1>a DEF SweepOK
  <1>g. pc[p] # "remove_tree" => doomed[p] \notin Dirs
    BY ConstantsAssumption DEF IInv, FrameOK, ProcOK
  <1>7. CASE gc_blob(p)
    <2>1. CASE Exit(p)
      BY <1>a, <2>1, SweepExits
    <2>2. ASSUME UNCHANGED pc, NEW b \in Blobs, blobs' = [blobs EXCEPT ![b] = "none"],
                 victims' = [victims EXCEPT ![p] = victims[p] \ {<<"blob", b>>}]
          PROVE  SweepOK(p)'
      <3>1. /\ pc[p] = "gc_blobs"
            /\ UNCHANGED <<refs, built, stable, liveBlobs, liveLayers>>
        BY <1>7 DEF gc_blob
      <3>2. \A c \in Blobs : blobs'[c] # "none" =>
              c \in liveBlobs[p] \/ <<"blob", c>> \in victims'[p]
        BY <1>a, <1>b, <1>e, <2>2, <3>1 DEF has_blob, TypeOK, StoreTypeOK, GcTypeOK
      <3> QED BY <1>b, <1>d, <2>2, <3>1, <3>2
    <2> QED BY <1>7, <2>1, <2>2 DEF gc_blob
  <1>8. CASE list_layers(p)
    <2>1. /\ pc[p] = "gc_blobs" /\ pc'[p] = "gc_layers" /\ victims[p] = {}
          /\ UNCHANGED <<refs, built, blobs, dirs, stable, liveBlobs, liveLayers>>
          /\ victims'[p] = {e \in Dirs : /\ dirs[e] # NoDir
                                         /\ e \notin {layer_path(l) : l \in liveLayers[p]}}
      BY <1>8, <1>a, <1>c DEF list_layers, List, TypeOK, GcTypeOK
    <2>2. \A b \in Blobs : blobs[b] # "none" => b \in liveBlobs[p]
      BY <1>b, <1>e, <2>1 DEF has_blob
    <2> QED BY <1>b, <1>d, <2>1, <2>2
  <1>9. CASE remove_tree(p)
    <2>1. PICK e \in victims[p] :
            /\ victims' = [victims EXCEPT ![p] = victims[p] \ {e}]
            /\ IF dirs[e] = NoDir
               THEN UNCHANGED <<pc, doomed, left>>
               ELSE /\ doomed' = [doomed EXCEPT ![p] = e]
                    /\ left' = [left EXCEPT ![p] = dirs[e]]
                    /\ Goto(p, "remove_tree")
      BY <1>9 DEF remove_tree
    <2>2. /\ pc[p] = "gc_layers" /\ victims'[p] = victims[p] \ {e}
          /\ UNCHANGED <<refs, built, blobs, dirs, stable, liveBlobs, liveLayers>>
      BY <1>9, <1>a, <2>1 DEF remove_tree, TypeOK, GcTypeOK
    <2>3. \A b \in Blobs : blobs[b] # "none" => b \in liveBlobs[p]
      BY <1>b, <1>e, <2>2 DEF has_blob
    <2>4. \A f \in Dirs : dirs[f] # NoDir =>
            \/ \E l \in liveLayers[p] : f = layer_path(l)
            \/ f \in victims[p]
      BY <1>b, <1>f, <1>g, <2>2
    <2>5. CASE dirs[e] = NoDir
      BY <1>b, <1>d, <2>1, <2>2, <2>3, <2>4, <2>5
    <2>6. CASE dirs[e] # NoDir
      <3>1. doomed'[p] = e /\ left'[p] = dirs[e] /\ pc'[p] = "remove_tree"
        BY <1>a, <1>c, <2>1, <2>6 DEF TypeOK, GcTypeOK
      <3> QED BY <1>b, <1>d, <2>2, <2>3, <2>4, <3>1
    <2> QED BY <2>5, <2>6
  <1>10. CASE remove_part(p)
    <2>1. PICK part \in left[p] :
            /\ left' = [left EXCEPT ![p] = left[p] \ {part}]
            /\ dirs' = [dirs EXCEPT ![doomed[p]] =
                          IF dirs[doomed[p]] = NoDir THEN NoDir
                          ELSE dirs[doomed[p]] \ {part}]
      BY <1>10 DEF remove_part
    <2>2. /\ pc[p] = "remove_tree" /\ pc' = pc
          /\ UNCHANGED <<refs, built, blobs, stable, liveBlobs, liveLayers, victims, doomed>>
      BY <1>10 DEF remove_part
    <2>3. \A b \in Blobs : blobs[b] # "none" => b \in liveBlobs[p]
      BY <1>b, <1>e, <2>2 DEF has_blob
    <2>4. doomed[p] \in Dirs
      BY <2>2 DEF IInv, FrameOK, ProcOK
    <2>5. \A f \in Dirs : f # doomed[p] => dirs'[f] = dirs[f]
      BY <1>a, <2>1 DEF TypeOK, StoreTypeOK
    <2>6. dirs[doomed[p]] = left[p] /\ part \in Parts /\ left[p] \subseteq Parts
      BY <1>a, <2>1, <2>2 DEF SweepOK, TypeOK, GcTypeOK
    <2>7. dirs[doomed[p]] # NoDir
      <3>1. 0 \in NoDir /\ 0 \notin Parts
        BY DEF NoDir, Parts
      <3> QED BY <2>6, <3>1
    <2>8. dirs'[doomed[p]] = left'[p]
      BY <1>a, <2>1, <2>4, <2>6, <2>7 DEF TypeOK, StoreTypeOK, GcTypeOK
    <2>9. \A f \in Dirs : dirs'[f] # NoDir =>
            \/ \E l \in liveLayers[p] : f = layer_path(l)
            \/ f \in victims[p]
            \/ f = doomed[p]
      BY <1>b, <1>f, <2>2, <2>5
    <2> QED BY <1>b, <1>d, <2>2, <2>3, <2>8, <2>9
  <1>11. CASE remove_dir(p)
    <2>1. CASE Exit(p)
      BY <1>a, <2>1, SweepExits
    <2>2. CASE dirs' = [dirs EXCEPT ![doomed[p]] = NoDir] /\ Goto(p, "gc_layers")
      <3>1. /\ pc[p] = "remove_tree" /\ pc'[p] = "gc_layers"
            /\ UNCHANGED <<refs, built, blobs, stable, liveBlobs, liveLayers, victims>>
        BY <1>11, <1>c, <2>2 DEF remove_dir
      <3>2. \A b \in Blobs : blobs[b] # "none" => b \in liveBlobs[p]
        BY <1>b, <1>e, <3>1 DEF has_blob
      <3>3. \A f \in Dirs : dirs'[f] = IF f = doomed[p] THEN NoDir ELSE dirs[f]
        BY <1>a, <2>2 DEF TypeOK, StoreTypeOK
      <3>4. \A f \in Dirs : dirs'[f] # NoDir =>
              \/ \E l \in liveLayers[p] : f = layer_path(l)
              \/ f \in victims[p]
        BY <1>b, <1>f, <3>1, <3>3
      <3> QED BY <1>b, <1>d, <3>1, <3>2, <3>4
    <2> QED BY <1>11, <2>1, <2>2 DEF remove_dir
  <1>12. CASE list_temps(p)
    <2>1. /\ pc[p] = "gc_layers" /\ pc'[p] = "gc_temps" /\ victims[p] = {}
          /\ UNCHANGED <<refs, built, blobs, dirs, temps, stable, liveBlobs, liveLayers>>
          /\ victims'[p] = {<<"temp", t>> : t \in temps}
      BY <1>12, <1>a, <1>c DEF list_temps, List, TypeOK, GcTypeOK
    <2>2. \A b \in Blobs : blobs[b] # "none" => b \in liveBlobs[p]
      BY <1>b, <1>e, <2>1 DEF has_blob
    <2>3. \A f \in Dirs : dirs[f] # NoDir => \E l \in liveLayers[p] : f = layer_path(l)
      BY <1>b, <1>f, <1>g, <2>1
    <2> QED BY <1>b, <1>d, <2>1, <2>2, <2>3
  <1>13. CASE gc_temp(p)
    <2>1. CASE Exit(p)
      BY <1>a, <2>1, SweepExits
    <2>2. ASSUME UNCHANGED pc, NEW t \in Temps, temps' = temps \ {t},
                 victims' = [victims EXCEPT ![p] = victims[p] \ {<<"temp", t>>}]
          PROVE  SweepOK(p)'
      <3>1. /\ pc[p] = "gc_temps"
            /\ UNCHANGED <<refs, built, blobs, dirs, stable, liveBlobs, liveLayers>>
        BY <1>13 DEF gc_temp
      <3>2. \A b \in Blobs : blobs[b] # "none" => b \in liveBlobs[p]
        BY <1>b, <1>e, <3>1 DEF has_blob
      <3>3. \A f \in Dirs : dirs[f] # NoDir => \E l \in liveLayers[p] : f = layer_path(l)
        BY <1>b, <1>f, <1>g, <3>1
      <3>4. victims'[p] = victims[p] \ {<<"temp", t>>}
        BY <1>a, <2>2 DEF TypeOK, GcTypeOK
      <3>5. \A u \in temps' : <<"temp", u>> \in victims'[p]
        BY <1>a, <2>2, <3>1, <3>4 DEF SweepOK
      <3> QED BY <1>b, <1>d, <2>2, <3>1, <3>2, <3>3, <3>5
    <2> QED BY <1>13, <2>1, <2>2 DEF gc_temp
  <1>14. CASE gc_done(p)
    BY <1>14, <1>a, SweepExits DEF gc_done
  <1> QED BY <1>1, <1>2, <1>3, <1>4, <1>5, <1>6, <1>7, <1>8, <1>9, <1>10, <1>11,
    <1>12, <1>13, <1>14 DEF CleanNext

-----------------------------------------------------------------------------
(* What `climate pull` of one app delivers                                 *)

\* Which steps come to the collection of a pull of one app: only the end of an
\* ensure() that succeeds.
LEMMA PullGoes ==
    ASSUME NEW p \in Procs, IInv, PullOK(p), cmd[p] = "pull",
           PullNext(p) \/ BuildNext(p) \/ CleanNext(p) \/ RunNext(p) \/ app_exits(p)
    PROVE  /\ pc'[p] \notin {"next_app", "orphans", "drop_refs"}
           /\ app' = app
           /\ pc'[p] \in AppPcs \cup {"gc_images"} => pc[p] \in AppPcs \cup {"gc_images"}
           /\ pc'[p] = "gc_images" => pc[p] = "gc_images" \/ EnsureReturns(p, TRUE)
  <1>a. TypeOK /\ ~Updating(p) /\ pc[p] \notin {"next_app", "orphans", "drop_refs"}
    BY FrameFacts DEF PullOK, Updating
  <1>1. Moves(p) \/ Asks(p) \/ Returns(p)
    BY <1>a, ControlPull, ControlBuild, ControlRest DEF next_app
  <1>2. CASE Moves(p)
    <2>1. PICK l \in PcLabels : Goto(p, l) /\ Carries(p, l) /\ LoopSame
      BY <1>2 DEF Moves
    <2>2. pc'[p] = l /\ app' = app
      BY <1>a, <2>1 DEF Goto, TypeOK, FrameTypeOK, LoopSame
    <2>3. l = pc[p] \/ l \in AppPcs \/ l \in Elsewhere
      BY <1>a, <2>1, StorePcs DEF Carries
    <2>4. l \notin Elsewhere => l = pc[p] \/ pc[p] \in AppPcs
      BY <1>a, <2>1, StorePcs DEF Carries
    <2>5. l \notin {"next_app", "orphans", "drop_refs"}
          /\ (l = "gc_images" => pc[p] = "gc_images")
      BY <1>a, <2>3, StorePcs DEF Elsewhere
    <2>6. l \in AppPcs => pc[p] \in AppPcs
      BY <2>4 DEF Elsewhere
    <2> QED BY <2>2, <2>5, <2>6
  <1>3. CASE Asks(p)
    <2>1. pc[p] \in AppPcs
      BY <1>3, StorePcs DEF Asks
    <2>2. CASE Goto(p, "manifest_open") /\ UNCHANGED loopVars
      <3>1. pc'[p] = "manifest_open" /\ app' = app
        BY <1>a, <2>2 DEF Goto, TypeOK, FrameTypeOK, loopVars
      <3> QED BY <2>1, <3>1
    <2>3. CASE EnsureReturns(p, FALSE)
      <3>1. pc'[p] = "exit" /\ app' = app
        BY <1>a, <2>3 DEF EnsureReturns, Goto, TypeOK, FrameTypeOK
      <3> QED BY <2>1, <3>1
    <2> QED BY <1>3, <2>2, <2>3 DEF Asks
  <1>4. CASE Returns(p)
    <2>1. PICK ok \in BOOLEAN : EnsureReturns(p, ok)
      BY <1>4 DEF Returns
    <2>2. pc[p] \in AppPcs
      BY <1>4 DEF Returns
    <2>3. pc'[p] \in {"gc_images", "exit"} /\ app' = app
      BY <1>a, <2>1 DEF EnsureReturns, Goto, TypeOK, FrameTypeOK, Updating
    <2>4. pc'[p] = "gc_images" => ok = TRUE
      BY <1>a, <2>1, ReturnsPc
    <2> QED BY <2>1, <2>2, <2>3, <2>4
  <1> QED BY <1>1, <1>2, <1>3, <1>4

\* What an ensure() that succeeds has recorded last
LEMMA Delivered ==
    ASSUME NEW p \in Procs, IInv, ProcStoreOK(p), cmd[p] = "pull",
           PullNext(p) \/ BuildNext(p), pc'[p] = "gc_images"
    PROVE  /\ refs'[image_key(app[p])] \in Images
           /\ BaseOf(refs'[image_key(app[p])]) = refs'[Reference[app[p]]]
           /\ built' = built
  <1>a. TypeOK /\ FetchOK(p) /\ BuildOK(p) /\ PullOK(p)
    BY FrameFacts DEF ProcStoreOK
  <1>b. pc[p] \in AppPcs /\ app[p] \in PullApps \cup InstallApps /\ app[p] \in Apps
    <2>1. pc[p] \in AppPcs
      BY <1>a, PullZone, BuildZone, StorePcs DEF PullOK
    <2> QED BY <1>a, <2>1, FrameFacts DEF PullOK
  <1>c. pc[p] # "gc_images"
    BY <1>b, StorePcs
  <1>d. /\ Reference[app[p]] \in Keys /\ Reference[app[p]] \in References
        /\ image_key(app[p]) \in Keys
        /\ image_key(app[p]) = IF app[p] \in InstallApps THEN app[p] ELSE Reference[app[p]]
        /\ app[p] \in InstallApps => app[p] # Reference[app[p]]
    BY <1>b, KeyTypes, ConstantsAssumption DEF Keys, image_key
  <1>e. ASSUME NEW l, Goto(p, l)
        PROVE  l = "gc_images"
    BY <1>a, <1>e DEF Goto, TypeOK, FrameTypeOK
  <1>f. ~EnsureReturns(p, FALSE)
    BY <1>a, ReturnsPc
  <1>g. UpdateArg(p) /\ RebuildArg(p)
    BY DEF UpdateArg, RebuildArg
  <1>1. ~(ensure(p) \/ fetch(p) \/ next_app(p))
    <2>1. ~ensure(p)
      BY <1>b, <1>e, <1>g DEF ensure
    <2>2. ~fetch(p)
      BY <1>e, <1>g DEF fetch
    <2>3. ~next_app(p)
      BY <1>a DEF next_app, PullOK
    <2> QED BY <2>1, <2>2, <2>3
  <1>2. ~(\/ resolve_tag(p) \/ manifest_open(p) \/ manifest_fill(p) \/ config(p)
          \/ config_download(p) \/ config_commit(p) \/ pending(p) \/ abort(p)
          \/ ref_open(p))
    BY <1>e, <1>f
    DEF resolve_tag, manifest_open, manifest_fill, config, config_download,
        config_commit, pending, abort, ref_open
  <1>3. ASSUME NEW i \in Slots, \/ layer_start(p, i) \/ layer_download(p, i)
                                \/ extract_layer(p, i) \/ layer_result(p, i)
        PROVE  FALSE
    BY <1>3, <1>c, <1>e
    DEF layer_start, layer_download, extract_layer, clear_staging, open_temp,
        unpack, rename_layer, layer_result
  <1>4. CASE ref_fill(p)
    <2>1. /\ pc[p] = "ref_fill" /\ built' = built
          /\ app[p] \notin InstallApps
          /\ refs' = [refs EXCEPT ![Reference[app[p]]] =
                        IF refs[Reference[app[p]]] # NoRef THEN img[p] ELSE NoRef]
      BY <1>4, <1>e DEF ref_fill, FetchReturns, record_ref_fill, has_ref
    <2>2. refs'[Reference[app[p]]] = img[p] /\ img[p] \in Manifests
      <3>1. refs[Reference[app[p]]] = Empty
        BY <1>a, <2>1 DEF FetchOK
      <3> QED BY <1>a, <1>d, <2>1, <3>1, FrameFacts, StorePcs, NotNoRef
          DEF TypeOK, StoreTypeOK
    <2> QED BY <1>d, <2>1, <2>2, ManifestBase DEF Images
  <1>5. ~(\/ base_ref(p) \/ base_manifest(p) \/ build_dirs(p) \/ run_script(p)
          \/ script_fails(p) \/ build_rename(p) \/ build_open(p) \/ build_fill(p)
          \/ build_ref_open(p) \/ \E part \in Parts : script_writes(p, part))
    BY <1>e, <1>f
    DEF base_ref, base_manifest, build_dirs, run_script, script_fails,
        build_rename, build_open, build_fill, build_ref_open, script_writes,
        BuildFails
  <1>6. CASE build_ref_fill(p)
    <2>1. /\ pc[p] = "build_ref_fill" /\ built' = built
          /\ pc[p] \in BuildingPcs /\ pc[p] \in BuildPcs \ {"build"}
          /\ refs' = [refs EXCEPT ![image_key(app[p])] =
                        IF refs[image_key(app[p])] # NoRef THEN bid[p] ELSE NoRef]
      BY <1>6
      DEF build_ref_fill, record_ref_fill, has_ref, BuildPcs, BuildingPcs
    <2>2. app[p] \in InstallApps /\ bid[p] \in BuildIds
      BY <2>1, FrameFacts
    <2>3. /\ refs[app[p]] = Empty /\ refs[Reference[app[p]]] = img[p]
          /\ built[bid[p]] = img[p]
      BY <1>a, <2>1 DEF BuildOK
    <2>4. refs'[app[p]] = bid[p] /\ refs'[Reference[app[p]]] = img[p]
      BY <1>a, <1>d, <2>1, <2>2, <2>3, NotNoRef DEF TypeOK, StoreTypeOK
    <2> QED BY <1>d, <2>1, <2>2, <2>3, <2>4 DEF BaseOf, Images
  <1> QED BY <1>1, <1>2, <1>3, <1>4, <1>5, <1>6 DEF PullNext, BuildNext

\* pull.rs pull() of one app
LEMMA PullStep ==
    ASSUME NEW p \in Procs, IInv, ProcStoreOK(p),
           PullNext(p) \/ BuildNext(p) \/ CleanNext(p) \/ RunNext(p) \/ app_exits(p)
    PROVE  PullOK(p)'
  <1>a. TypeOK /\ PullOK(p)
    BY FrameFacts DEF ProcStoreOK
  <1>b. cmd' = cmd
    BY PullZone, BuildZone, RestZone
  <1>1. pc'[p] \in {"orphans", "drop_refs"} => cmd[p] = "clean"
    <2>1. CASE PullNext(p) \/ BuildNext(p)
      BY <2>1, PullZone, BuildZone
    <2>2. CASE CleanNext(p) \/ RunNext(p) \/ app_exits(p)
      <3>1. PICK l \in PcLabels : Goto(p, l) /\ Carries(p, l)
        BY <2>2, ControlRest DEF Moves
      <3>2. pc'[p] = l
        BY <1>a, <3>1 DEF Goto, TypeOK, FrameTypeOK
      <3>3. l \in {"orphans", "drop_refs"} =>
              l \notin Elsewhere \cup FetchPcs \cup BuildPcs
        BY StorePcs DEF Elsewhere
      <3>4. l \in {"orphans", "drop_refs"} => pc[p] \in {"orphans", "drop_refs"}
        BY <3>1, <3>3 DEF Carries
      <3> QED BY <1>a, <3>2, <3>4 DEF PullOK
    <2> QED BY <2>1, <2>2
  <1>2. ASSUME cmd[p] = "pull", pc'[p] = "gc_images"
        PROVE  /\ refs'[image_key(app[p])] \in Images
               /\ BaseOf(refs'[image_key(app[p])]) = refs'[Reference[app[p]]]
               /\ built' = built
    <2>1. CASE PullNext(p) \/ BuildNext(p)
      BY <1>2, <2>1, Delivered
    <2>2. CASE CleanNext(p) \/ RunNext(p) \/ app_exits(p)
      <3>1. pc[p] = "gc_images" \/ EnsureReturns(p, TRUE)
        BY <1>a, <1>2, PullGoes
      <3>2. pc[p] # "gc_images"
        <4>1. pc[p] # "drop_refs"
          BY <1>a, <1>2 DEF PullOK
        <4>2. pc[p] = "gc_images" => pc'[p] = "live_ref"
          BY <1>a, <2>2
          DEF CleanNext, orphans, drop_refs, gc_images, live_ref, live_manifest,
              list_blobs, gc_blob, list_layers, remove_tree, remove_part,
              remove_dir, list_temps, gc_temp, gc_done, RunNext, resolve,
              read_manifest, image_config, mount, app_exits, Goto, TypeOK, FrameTypeOK
        <4> QED BY <1>2, <4>2
      <3>3. ~EnsureReturns(p, TRUE)
        <4>1. LoopSame /\ pc[p] # "drop_refs" /\ pc[p] \notin WorkPcs
          BY <1>a, <1>2, <2>2, ControlRest, RestZone DEF Moves, PullOK
        <4>2. PICK l \in PcLabels : Goto(p, l) /\ Carries(p, l)
          BY <2>2, ControlRest DEF Moves
        <4>3. l = "gc_images"
          BY <1>a, <1>2, <4>2 DEF Goto, TypeOK, FrameTypeOK
        <4>4. "gc_images" \notin Elsewhere \cup FetchPcs \cup BuildPcs
          BY StorePcs DEF Elsewhere
        <4> QED BY <3>2, <4>1, <4>2, <4>3, <4>4 DEF Carries
      <3> QED BY <3>1, <3>2, <3>3
    <2> QED BY <2>1, <2>2
  <1>3. ASSUME cmd[p] = "pull"
        PROVE  /\ pc'[p] # "next_app" /\ app' = app
               /\ pc'[p] \in AppPcs \cup {"gc_images"} =>
                    app[p] \in PullApps \cup InstallApps
    BY <1>a, <1>3, PullGoes DEF PullOK
  <1> QED BY <1>b, <1>1, <1>2, <1>3 DEF PullOK, image_key, BaseOf

-----------------------------------------------------------------------------
(* The invariant of the store                                              *)

\* A process's own step
LEMMA StoreOwn ==
    ASSUME NEW p \in Procs, LayersApart, IInv, ProcStoreOK(p), OwnNext(p)
    PROVE  ProcStoreOK(p)'
  <1>a. SweepOK(p) /\ SoundOK(p)
    BY DEF ProcStoreOK
  <1>1. PullOK(p)'
    BY PullStep DEF OwnNext
  <1>2. CASE PullNext(p)
    <2>1. SoundOK(p)' /\ FetchOK(p)' /\ TasksOK(p)'
      BY <1>2, SoundPull, FetchPull, TasksPull
    <2>2. BuildOK(p)'
      BY <1>2, PullZone, BuildOver
    <2>3. SweepOK(p)'
      <3>1. pc[p] \notin GcPcs \cup {"exit"}
        BY <1>2, PullZone, StorePcs
      <3> QED BY <1>2, <1>a, <3>1, PullZone, SweepOver
    <2> QED BY <1>1, <2>1, <2>2, <2>3 DEF ProcStoreOK
  <1>3. CASE BuildNext(p)
    <2>1. SoundOK(p)' /\ BuildOK(p)'
      BY <1>3, SoundBuild, BuildStep
    <2>2. FetchOK(p)' /\ TasksOK(p)'
      BY <1>3, BuildZone, FetchOver
    <2>3. SweepOK(p)'
      <3>1. pc[p] \notin GcPcs \cup {"exit"}
        BY <1>3, BuildZone, StorePcs
      <3> QED BY <1>3, <1>a, <3>1, BuildZone, SweepOver
    <2> QED BY <1>1, <2>1, <2>2, <2>3 DEF ProcStoreOK
  <1>b. CASE CleanNext(p) \/ RunNext(p) \/ app_exits(p)
    <2>1. pc'[p] \notin FetchPcs /\ pc'[p] \notin BuildPcs \ {"build"}
      BY <1>b, RestZone, StorePcs
    <2>2. FetchOK(p)' /\ TasksOK(p)' /\ BuildOK(p)'
      BY <2>1, FetchOver, BuildOver
    <2>3. CASE CleanNext(p)
      BY <1>1, <2>2, <2>3, SoundClean, SweepStep DEF ProcStoreOK
    <2>4. CASE RunNext(p) \/ app_exits(p)
      <3>1. /\ pc[p] \in {"resolve", "read_manifest", "image_config", "mount", "running"}
            /\ pc'[p] \in {"exit", "read_manifest", "image_config", "mount", "running"}
            /\ UNCHANGED <<refs, blobs, dirs, built, liveBlobs, liveLayers>>
        BY <2>4, FrameFacts
        DEF RunNext, resolve, read_manifest, image_config, mount, app_exits,
            storeVars, gcVars, Goto, TypeOK, FrameTypeOK
      <3>2. SoundOK(p)'
        BY <1>a, <3>1, SoundSame
      <3>3. pc[p] \notin GcPcs \cup {"exit"} /\ pc'[p] \notin GcPcs
        BY <3>1 DEF GcPcs, Deleting
      <3> QED BY <1>1, <1>a, <2>2, <3>1, <3>2, <3>3, SweepOver DEF ProcStoreOK
    <2> QED BY <1>b, <2>3, <2>4
  <1> QED BY <1>2, <1>3, <1>b DEF OwnNext

\* The end of a process, where it may be killed
LEMMA StoreEnds ==
    ASSUME NEW p \in Procs, NoTornKill, IInv, ProcStoreOK(p), exit(p) \/ kill(p)
    PROVE  ProcStoreOK(p)'
  <1>a. TypeOK /\ Terminate(p) /\ pc[p] \notin {"manifest_fill", "remove_tree"}
    BY FrameFacts DEF exit, kill, NoTornKill
  <1>1. /\ pc'[p] = "idle" /\ cmd'[p] = "none"
        /\ liveBlobs'[p] = {} /\ liveLayers'[p] = {}
        /\ UNCHANGED <<refs, blobs, dirs, built>>
    BY <1>a DEF Terminate, Goto, TypeOK, FrameTypeOK, GcTypeOK
  <1>2. SoundOK(p)'
    BY <1>a, <1>1, SoundSame DEF ProcStoreOK
  <1>3. FetchOK(p)' /\ TasksOK(p)' /\ BuildOK(p)'
    BY <1>1, StorePcs, FetchOver, BuildOver
  <1>4. SweepOK(p)'
    BY <1>1 DEF SweepOK, GcPcs, Deleting
  <1>5. PullOK(p)'
    BY <1>1 DEF PullOK
  <1> QED BY <1>2, <1>3, <1>4, <1>5 DEF ProcStoreOK

\* The start of a command
LEMMA StoreBegins ==
    ASSUME NEW p \in Procs, IInv, ProcStoreOK(p),
           \E c \in Commands : start(p, c) \/ \E a \in Apps : start_app(p, c, a)
    PROVE  ProcStoreOK(p)'
  <1>a. TypeOK /\ pc[p] = "idle" /\ SweepOK(p) /\ SoundOK(p)
    BY FrameFacts DEF start, start_app, ProcStoreOK
  <1>b. UNCHANGED <<refs, blobs, dirs, built, liveBlobs, liveLayers>>
    BY DEF start, start_app, storeVars, gcVars
  <1>1. ASSUME NEW c \in Commands, NEW a \in Apps, start_app(p, c, a)
        PROVE  /\ pc'[p] = "ensure"
               /\ cmd'[p] = "pull" => app'[p] \in PullApps \cup InstallApps
    BY <1>a, <1>1 DEF start_app, Goto, TypeOK, FrameTypeOK
  <1>2. ASSUME NEW c \in Commands, start(p, c)
        PROVE  /\ cmd'[p] # "pull"
               /\ \/ pc'[p] = "orphans" /\ cmd'[p] = "clean"
                  \/ pc'[p] = "next_app"
    BY <1>a, <1>2 DEF start, Goto, TypeOK, FrameTypeOK
  <1>3. pc'[p] \in {"ensure", "orphans", "next_app"}
    BY <1>1, <1>2
  <1>4. PullOK(p)'
    BY <1>1, <1>2, StorePcs DEF PullOK
  <1>5. pc'[p] \notin FetchPcs \cup (BuildPcs \ {"build"}) \cup GcPcs
    BY <1>3 DEF FetchPcs, BuildPcs, BuildingPcs, GcPcs, Deleting
  <1>6. FetchOK(p)' /\ TasksOK(p)' /\ BuildOK(p)'
    BY <1>5, FetchOver, BuildOver
  <1>7. SoundOK(p)'
    BY <1>a, <1>b, SoundSame
  <1>8. SweepOK(p)'
    BY <1>a, <1>b, <1>5, StorePcs, SweepOver
  <1> QED BY <1>4, <1>6, <1>7, <1>8 DEF ProcStoreOK

\* Each step of the system keeps the invariant of the store.
LEMMA StoreStep ==
    ASSUME OneProcess, LayersApart, NoTornKill, IInv, SInv, [Next]_vars
    PROVE  SInv'
  <1>a. ASSUME NEW p \in Procs, ProcStoreOK(p)'
        PROVE  SInv'
    BY <1>a DEF SInv, OneProcess
  <1>b. \A p \in Procs : ProcStoreOK(p)
    BY DEF SInv
  <1>1. ASSUME NEW p \in Procs, OwnNext(p)
        PROVE  SInv'
    BY <1>1, <1>a, <1>b, StoreOwn
  <1>2. ASSUME NEW p \in Procs, exit(p) \/ kill(p)
        PROVE  SInv'
    BY <1>2, <1>a, <1>b, StoreEnds
  <1>3. ASSUME NEW p \in Procs, NEW c \in Commands,
               start(p, c) \/ \E a \in Apps : start_app(p, c, a)
        PROVE  SInv'
    BY <1>3, <1>a, <1>b, StoreBegins
  <1>4. CASE \/ UNCHANGED vars \/ \E r \in References : publish(r)
             \/ \E a \in Apps : edit(a)
    <2>1. UNCHANGED <<storeVars, pc, loopVars, workVars, gcVars>>
      BY <1>4 DEF publish, edit, vars
    <2>2. /\ UNCHANGED <<refs, blobs, dirs, temps, built, pc, cmd, app, img, bid, task>>
          /\ UNCHANGED <<gcKeys, liveBlobs, liveLayers, victims, doomed, left, stable>>
      BY <2>1 DEF storeVars, loopVars, workVars, gcVars
    <2>3. ASSUME NEW p \in Procs
          PROVE  /\ SoundOK(p)' /\ FetchOK(p)' /\ TasksOK(p)' /\ BuildOK(p)'
                 /\ SweepOK(p)' /\ PullOK(p)'
      <3>1. /\ SoundOK(p) /\ FetchOK(p) /\ TasksOK(p) /\ BuildOK(p)
            /\ SweepOK(p) /\ PullOK(p)
        BY <1>b DEF ProcStoreOK
      <3>2. SoundOK(p)'
        BY <2>2, <3>1 DEF SoundOK, RecordedOK, ConfigOf, LayersOf, BaseOf
      <3>3. FetchOK(p)'
        BY <2>2, <3>1 DEF FetchOK, ConfigOf, BaseOf
      <3>4. TasksOK(p)'
        BY <2>2, <3>1 DEF TasksOK, TaskOK
      <3>5. BuildOK(p)'
        BY <2>2, <3>1 DEF BuildOK
      <3>6. SweepOK(p)'
        BY <2>2, <3>1
        DEF SweepOK, has_ref, has_blob, Recorded, ConfigOf, LayersOf, BaseOf
      <3>7. PullOK(p)'
        BY <2>2, <3>1 DEF PullOK, image_key, BaseOf
      <3> QED BY <3>2, <3>3, <3>4, <3>5, <3>6, <3>7
    <2> QED BY <2>3 DEF SInv, ProcStoreOK
  <1> QED BY <1>1, <1>2, <1>3, <1>4 DEF Next, Step, OwnNext

\* The images put in the store out of band are complete.
LEMMA StoreInit ==
    ASSUME Init
    PROVE  SInv
  <1>1. \A r \in Preinstalled : tag[r] \in Manifests
    BY ConstantsAssumption DEF Init
  <1> DEFINE present == {tag[r] : r \in Preinstalled}
             layers == UNION {{Layers[m][i] : i \in DOMAIN Layers[m]} : m \in present}
  <1>2. /\ blobs = [b \in Blobs |-> IF b \in present \cup {Config[m] : m \in present}
                                    THEN "ok" ELSE "none"]
        /\ dirs = [e \in Dirs |-> IF e \in {layer_path(l) : l \in layers}
                                  THEN Parts ELSE NoDir]
        /\ refs = [k \in Keys |-> IF k \in Preinstalled THEN tag[k] ELSE NoRef]
    BY DEF Init
  <1>3. ASSUME NEW k \in Keys, refs[k] \in Images
        PROVE  k \in Preinstalled /\ refs[k] \in present /\ refs[k] \in Manifests
    BY <1>1, <1>2, <1>3, NotNoRef
  <1>4. ASSUME NEW m \in Manifests, m \in present
        PROVE  /\ blobs[m] = "ok" /\ blobs[ConfigOf(m)] = "ok"
               /\ \A l \in LayersOf(m) : dirs[layer_path(l)] = Parts
    <2>1. m \in Blobs /\ ConfigOf(m) = Config[m] /\ Config[m] \in Blobs
      BY ManifestBase DEF Blobs
    <2>2. blobs[m] = "ok" /\ blobs[ConfigOf(m)] = "ok"
      BY <1>2, <1>4, <2>1
    <2>3. ASSUME NEW l \in LayersOf(m)
          PROVE  dirs[layer_path(l)] = Parts
      <3>1. l \in layers /\ layer_path(l) \in Dirs
        BY <1>4, ManifestBase DEF layer_path, Dirs
      <3> QED BY <1>2, <3>1
    <2> QED BY <2>2, <2>3
  <1>5. /\ \A b \in Blobs : blobs[b] # "torn"
        /\ \A l \in LayerIds : dirs[layer_path(l)] \in {NoDir, Parts}
    <2>1. \A l \in LayerIds : layer_path(l) \in Dirs
      BY DEF layer_path, Dirs
    <2> QED BY <1>2, <2>1
  <1> HIDE DEF present, layers
  <1>6. ASSUME NEW p \in Procs
        PROVE  /\ SoundOK(p) /\ FetchOK(p) /\ TasksOK(p) /\ BuildOK(p)
               /\ SweepOK(p) /\ PullOK(p)
    <2>1. pc[p] = "idle" /\ cmd[p] = "none" /\ liveBlobs[p] = {} /\ liveLayers[p] = {}
      BY DEF Init
    <2>2. SoundOK(p)
      BY <1>3, <1>4, <1>5 DEF SoundOK, RecordedOK, Blobs
    <2>3. FetchOK(p) /\ TasksOK(p) /\ BuildOK(p)
      BY <2>1 DEF FetchOK, TasksOK, BuildOK, FetchPcs, BuildPcs, BuildingPcs
    <2>4. SweepOK(p) /\ PullOK(p)
      BY <2>1 DEF SweepOK, PullOK, GcPcs, Deleting
    <2> QED BY <2>2, <2>3, <2>4
  <1> QED BY <1>6 DEF SInv, ProcStoreOK

\* The invariant is inductive.
THEOREM StoreInductive ==
    ASSUME OneProcess, LayersApart, NoTornKill
    PROVE  Spec => []SInv
  <1>1. Init => SInv
    BY StoreInit
  <1>2. IInv /\ SInv /\ [Next]_vars => SInv'
    BY StoreStep
  <1> QED BY <1>1, <1>2, Inductive, PTL DEF Spec

\* What is recorded is complete, but for a manifest that is being rewritten.
LEMMA RecordedComplete ==
    ASSUME NEW p \in Procs, SInv, pc[p] # "manifest_fill", NEW k \in Keys, refs[k] \in Images
    PROVE  Complete(refs[k])
  BY DEF SInv, ProcStoreOK, SoundOK, RecordedOK, Complete

\* store.rs:92-179 and the order of pull.rs fetch_image() and build.rs build():
\* whatever fails and wherever a process is killed but in the two places where
\* the file system is halfway, between two commands each image that refs/
\* records has its manifest, its config and all its layers.
THEOREM RecordedStaysIntact ==
    ASSUME OneProcess, LayersApart, NoTornKill
    PROVE  Spec => []RecordedIntact
  <1>1. SInv => RecordedIntact
    <2> SUFFICES ASSUME SInv, Quiet, NEW k \in Keys, refs[k] \in Images
                 PROVE  Complete(refs[k])
      BY DEF RecordedIntact
    <2>1. PICK p \in Procs : pc[p] = "idle"
      BY DEF OneProcess, Quiet
    <2> QED BY <2>1, RecordedComplete
  <1> QED BY <1>1, StoreInductive, PTL

\* pull.rs:190-203: a `climate pull` that comes to its collection has recorded
\* the app's image, complete and built on the base recorded now, whatever an
\* earlier command that failed or was killed left behind.
THEOREM PullDeliversImage ==
    ASSUME OneProcess, LayersApart, NoTornKill
    PROVE  Spec => []PullDelivers
  <1>1. IInv /\ SInv => PullDelivers
    <2> SUFFICES ASSUME IInv, SInv, NEW p \in Procs, pc[p] = "gc_images", cmd[p] = "pull"
                 PROVE  /\ refs[image_key(app[p])] \in Images
                        /\ Complete(refs[image_key(app[p])])
                        /\ BaseOf(refs[image_key(app[p])]) = refs[Reference[app[p]]]
      BY DEF PullDelivers
    <2>1. /\ refs[image_key(app[p])] \in Images
          /\ BaseOf(refs[image_key(app[p])]) = refs[Reference[app[p]]]
      BY DEF SInv, ProcStoreOK, PullOK
    <2>2. image_key(app[p]) \in Keys
      <3>1. app[p] \in Apps
        BY ConstantsAssumption DEF SInv, ProcStoreOK, PullOK
      <3> QED BY <3>1, KeyTypes
    <2> QED BY <2>1, <2>2, RecordedComplete
  <1> QED BY <1>1, StoreInductive, Inductive, PTL

\* clean.rs gc_images(): a collection that runs to its end leaves no blob, layer,
\* staging directory or temporary file that no record leads to.
THEOREM GcLeavesLive ==
    ASSUME OneProcess, LayersApart, NoTornKill
    PROVE  Spec => GcLeavesOnlyLive
  <1>1. IInv /\ SInv => EndsWithOnlyLive
    <2> SUFFICES ASSUME IInv, SInv, NEW p \in Procs, pc[p] = "gc_temps", victims[p] = {}
                 PROVE  /\ temps = {}
                        /\ \A b \in Blobs : has_blob(b) =>
                             \E d \in Recorded : b \in {d, ConfigOf(d)}
                        /\ \A e \in Dirs : dirs[e] # NoDir =>
                             \E d \in Recorded : \E l \in LayersOf(d) : e = layer_path(l)
      BY DEF EndsWithOnlyLive, Recorded
    <2>1. SweepOK(p) /\ pc[p] \in Deleting /\ pc[p] \in GcPcs
      BY DEF SInv, ProcStoreOK, Deleting, GcPcs
    <2>2. temps = {}
      BY <2>1 DEF SweepOK
    <2>3. \A b \in Blobs : has_blob(b) => \E d \in Recorded : b \in {d, ConfigOf(d)}
      BY <2>1 DEF SweepOK
    <2>4. doomed[p] \notin Dirs
      BY ConstantsAssumption DEF IInv, FrameOK, ProcOK
    <2>5. \A e \in Dirs : dirs[e] # NoDir =>
            \E d \in Recorded : \E l \in LayersOf(d) : e = layer_path(l)
      BY <2>1, <2>4 DEF SweepOK
    <2> QED BY <2>2, <2>3, <2>5
  <1> QED BY <1>1, StoreInductive, Inductive, PTL DEF GcLeavesOnlyLive

-----------------------------------------------------------------------------
(* The two records of an app with an install script                        *)

\* The hypothesis: a clean is not killed halfway through the records, and a
\* pull not while it rewrites one.
NoRecordKill == KillPoints \cap {"drop_refs", "ref_fill"} = {}

\* A build's record comes after that of its base and goes before it, or in the
\* same clean; the base's is empty only while it is rewritten.
BasesOK(p) ==
    /\ \A a \in InstallApps : has_ref(a) =>
         has_ref(Reference[a]) \/ (pc[p] = "drop_refs" /\ a \in gcKeys[p])
    /\ pc[p] = "drop_refs" =>
         /\ \A k \in gcKeys[p] : has_ref(k)
         /\ \A a \in InstallApps :
              has_ref(a) /\ a \notin gcKeys[p] => Reference[a] \notin gcKeys[p]
    /\ \A r \in References : refs[r] = Empty => pc[p] = "ref_fill" /\ r = Reference[app[p]]
KInv == \A p \in Procs : BasesOK(p)

\* An app with an install script, its reference and its two keys
LEMMA InstallKeys ==
    ASSUME NEW a \in InstallApps
    PROVE  /\ a \in Apps /\ a \in Keys /\ image_key(a) = a
           /\ Reference[a] \in References /\ Reference[a] \in Keys
           /\ a \notin References
  <1>1. a \in Apps /\ a \notin References
    BY ConstantsAssumption
  <1> QED BY <1>1, ConstantsAssumption DEF Keys, image_key

\* A step that leaves the records alone, outside the two places
LEMMA BasesSame ==
    ASSUME NEW p \in Procs, BasesOK(p), refs' = refs,
           pc[p] \notin {"drop_refs", "ref_fill"}, pc'[p] # "drop_refs"
    PROVE  BasesOK(p)'
  BY DEF BasesOK, has_ref

\* pull.rs
LEMMA BasesPull ==
    ASSUME NEW p \in Procs, IInv, ProcStoreOK(p), BasesOK(p), PullNext(p)
    PROVE  BasesOK(p)'
  <1>a. TypeOK /\ FetchOK(p)
    BY FrameFacts DEF ProcStoreOK
  <1>b. pc[p] # "drop_refs" /\ pc'[p] # "drop_refs" /\ RefsStep(p)
    BY PullZone, RefsStepPull, StorePcs
  <1>1. \A a \in InstallApps : refs'[a] # NoRef => refs'[Reference[a]] # NoRef
    <2> SUFFICES ASSUME NEW a \in InstallApps, refs'[a] # NoRef
                 PROVE  refs'[Reference[a]] # NoRef
      OBVIOUS
    <2>1. has_ref(a)
      <3>1. pc[p] = "layers" => Reference[app[p]] \in References
        BY FrameFacts, StorePcs, ConstantsAssumption
      <3> QED BY <1>b, <3>1, InstallKeys, PullZone, StorePcs DEF RefsStep, BuildPcs, BuildingPcs
    <2>2. has_ref(Reference[a])
      BY <1>b, <2>1 DEF BasesOK
    <2> QED BY <1>b, <2>2, InstallKeys DEF RefsStep
  <1>2. ASSUME NEW r \in References, refs'[r] = Empty
        PROVE  pc'[p] = "ref_fill" /\ r = Reference[app'[p]]
    <2>a. r \in Keys
      BY DEF Keys
    <2>1. CASE ref_open(p)
      <3>1. /\ pc[p] = "layers" /\ pc'[p] = "ref_fill" /\ app' = app
            /\ refs' = [refs EXCEPT ![Reference[app[p]]] = Empty]
        BY <1>a, <2>1
        DEF ref_open, record_ref_open, loopVars, Goto, TypeOK, FrameTypeOK
      <3>2. r # Reference[app[p]] => refs[r] = Empty
        BY <1>2, <1>a, <2>a, <3>1 DEF TypeOK, StoreTypeOK
      <3> QED BY <3>1, <3>2 DEF BasesOK
    <2>2. CASE ref_fill(p)
      <3>1. /\ pc[p] = "ref_fill" /\ img[p] \in Manifests
            /\ refs' = [refs EXCEPT ![Reference[app[p]]] =
                          IF refs[Reference[app[p]]] # NoRef THEN img[p] ELSE NoRef]
        BY <2>2, FrameFacts, StorePcs DEF ref_fill, record_ref_fill, has_ref
      <3>2. img[p] # Empty /\ refs[Reference[app[p]]] = Empty
        BY <1>a, <3>1, ConstantsAssumption DEF FetchOK, Images
      <3>3. r # Reference[app[p]] => refs[r] = Empty
        BY <1>2, <1>a, <2>a, <3>1 DEF TypeOK, StoreTypeOK
      <3>4. r = Reference[app[p]]
        BY <3>3 DEF BasesOK
      <3>5. refs'[r] = img[p]
        BY <1>a, <2>a, <3>1, <3>2, <3>4, NotNoRef DEF TypeOK, StoreTypeOK
      <3> QED BY <1>2, <3>2, <3>5
    <2>3. CASE refs' = refs /\ ~ref_fill(p)
      <3>1. pc[p] = "ref_fill" /\ r = Reference[app[p]]
        BY <1>2, <2>3 DEF BasesOK
      <3>2. ref_fill(p)
        BY <3>1
        DEF PullNext, ensure, fetch, resolve_tag, manifest_open, manifest_fill,
            config, config_download, config_commit, pending, layer_start,
            layer_download, extract_layer, clear_staging, open_temp, unpack,
            rename_layer, Unpacking, layer_result, abort, ref_open, next_app
      <3> QED BY <2>3, <3>2
    <2>4. ref_open(p) \/ ref_fill(p) \/ refs' = refs
      BY DEF PullNext, ensure, fetch, resolve_tag, manifest_open, manifest_fill,
             config, config_download, config_commit, pending, layer_start,
             layer_download, extract_layer, clear_staging, open_temp, unpack,
             rename_layer, layer_result, abort, next_app, storeVars
    <2> QED BY <2>1, <2>2, <2>3, <2>4
  <1> QED BY <1>b, <1>1, <1>2 DEF BasesOK, has_ref

\* build.rs: the record of a build is opened when that of its base is there.
LEMMA BasesBuild ==
    ASSUME NEW p \in Procs, IInv, ProcStoreOK(p), BasesOK(p), BuildNext(p)
    PROVE  BasesOK(p)'
  <1>a. TypeOK /\ BuildOK(p)
    BY FrameFacts DEF ProcStoreOK
  <1>b. /\ pc[p] \in BuildPcs /\ app[p] \in InstallApps
        /\ pc[p] \notin {"drop_refs", "ref_fill", "layers"} /\ pc'[p] # "drop_refs"
    BY BuildZone, FrameFacts, StorePcs DEF BuildPcs, BuildingPcs
  <1>c. RefsStep(p)
    BY RefsStepBuild
  <1>1. \A a \in InstallApps : refs'[a] # NoRef => refs'[Reference[a]] # NoRef
    <2> SUFFICES ASSUME NEW a \in InstallApps, refs'[a] # NoRef
                 PROVE  refs'[Reference[a]] # NoRef
      OBVIOUS
    <2>1. has_ref(Reference[a])
      <3>1. CASE has_ref(a)
        BY <1>b, <3>1 DEF BasesOK
      <3>2. CASE ~has_ref(a)
        <4>1. pc[p] = "build_ref_open" /\ a = app[p]
          BY <1>b, <1>c, <3>2, InstallKeys DEF RefsStep
        <4>2. pc[p] \in BuildPcs \ {"build"}
          BY <1>b, <4>1
        <4>3. refs[Reference[a]] = img[p] /\ img[p] \in Images
          BY <1>a, <4>1, <4>2, FrameFacts DEF BuildOK, Images
        <4> QED BY <4>3, NotNoRef DEF has_ref
      <3> QED BY <3>1, <3>2
    <2> QED BY <1>b, <1>c, <2>1, InstallKeys DEF RefsStep
  <1>2. ASSUME NEW r \in References
        PROVE  refs'[r] = refs[r]
    <2>1. r \in Keys /\ image_key(app[p]) \in Keys /\ r # image_key(app[p])
      BY <1>b, InstallKeys DEF Keys
    <2>2. CASE build_ref_open(p) \/ build_ref_fill(p)
      BY <1>a, <2>1, <2>2
      DEF build_ref_open, build_ref_fill, record_ref_open, record_ref_fill,
          TypeOK, StoreTypeOK
    <2>3. build_ref_open(p) \/ build_ref_fill(p) \/ refs' = refs
      BY DEF BuildNext, base_ref, base_manifest, build_dirs, run_script,
             script_fails, build_rename, script_writes, build_open, build_fill,
             storeVars
    <2> QED BY <2>2, <2>3
  <1>3. \A r \in References : refs'[r] # Empty
    BY <1>b, <1>2 DEF BasesOK
  <1> QED BY <1>b, <1>1, <1>3 DEF BasesOK, has_ref

\* clean.rs drop_orphan_refs(): the keys of an app are live together.
LEMMA BasesClean ==
    ASSUME NEW p \in Procs, IInv, BasesOK(p), CleanNext(p)
    PROVE  BasesOK(p)'
  <1>a. TypeOK
    BY FrameFacts
  <1>b. pc[p] # "ref_fill" /\ "ref_fill" # "drop_refs"
    BY RestZone DEF WorkPcs, FetchPcs
  <1>e. \A r \in References : refs[r] # Empty
    BY <1>b DEF BasesOK
  <1>1. CASE orphans(p)
    <2> DEFINE loaded == {a \in Apps : defs[a] = "ok"}
               live == {image_key(a) : a \in loaded} \cup {Reference[a] : a \in loaded}
    <2>1. /\ pc[p] = "orphans" /\ pc'[p] = "drop_refs" /\ refs' = refs
          /\ gcKeys'[p] = {k \in Keys : has_ref(k)} \ live
      BY <1>1, <1>a DEF orphans, storeVars, Goto, TypeOK, FrameTypeOK, GcTypeOK
    <2>2. ASSUME NEW a \in InstallApps, has_ref(a), a \notin gcKeys'[p]
          PROVE  Reference[a] \notin gcKeys'[p]
      <3>1. a \in Keys /\ a \in live
        BY <2>1, <2>2, InstallKeys
      <3>2. PICK b \in loaded : a = image_key(b) \/ a = Reference[b]
        BY <3>1
      <3>3. Reference[b] \in References
        BY <3>2, ConstantsAssumption
      <3>4. a = b
        BY <3>2, <3>3, InstallKeys DEF image_key
      <3>5. Reference[a] \in live
        BY <3>2, <3>4
      <3> QED BY <2>1, <3>5
    <2>3. \A a \in InstallApps : has_ref(a) => has_ref(Reference[a])
      BY <2>1 DEF BasesOK
    <2>4. \A k \in gcKeys'[p] : has_ref(k)
      BY <2>1
    <2> HIDE DEF live
    <2> QED BY <1>e, <2>1, <2>2, <2>3, <2>4 DEF BasesOK, has_ref
  <1>2. CASE drop_refs(p)
    <2>a. /\ pc[p] = "drop_refs" /\ \A k \in gcKeys[p] : has_ref(k) /\ k \in Keys
          /\ \A a \in InstallApps :
               has_ref(a) /\ a \notin gcKeys[p] => Reference[a] \notin gcKeys[p]
          /\ \A a \in InstallApps : has_ref(a) =>
               has_ref(Reference[a]) \/ a \in gcKeys[p]
      BY <1>2, <1>a DEF drop_refs, BasesOK, TypeOK, GcTypeOK
    <2>1. CASE gcKeys[p] = {} /\ Goto(p, "gc_images") /\ UNCHANGED <<refs, gcKeys>>
      <3>1. pc'[p] = "gc_images"
        BY <1>a, <2>1 DEF Goto, TypeOK, FrameTypeOK
      <3> QED BY <1>e, <2>a, <2>1, <3>1 DEF BasesOK, has_ref
    <2>2. ASSUME NEW k \in gcKeys[p],
                 gcKeys' = [gcKeys EXCEPT ![p] = gcKeys[p] \ {k}],
                 refs' = [refs EXCEPT ![k] = NoRef],
                 IF has_ref(k) THEN UNCHANGED pc ELSE Exit(p)
          PROVE  BasesOK(p)'
      <3>1. pc' = pc /\ pc[p] = "drop_refs"
        BY <2>a, <2>2
      <3>2. gcKeys'[p] = gcKeys[p] \ {k}
        BY <1>a, <2>2 DEF TypeOK, GcTypeOK
      <3>3. \A j \in Keys : refs'[j] = IF j = k THEN NoRef ELSE refs[j]
        BY <1>a, <2>2 DEF TypeOK, StoreTypeOK
      <3>4. ASSUME NEW a \in InstallApps, refs'[a] # NoRef
            PROVE  /\ refs'[Reference[a]] # NoRef \/ a \in gcKeys'[p]
                   /\ a \notin gcKeys'[p] => Reference[a] \notin gcKeys'[p]
        <4>1. a \in Keys /\ Reference[a] \in Keys
          BY InstallKeys
        <4>2. has_ref(a) /\ a # k
          BY <3>3, <3>4, <4>1 DEF has_ref
        <4> QED BY <2>a, <3>2, <3>3, <4>1, <4>2 DEF has_ref
      <3>5. \A j \in gcKeys'[p] : refs'[j] # NoRef
        BY <2>a, <3>2, <3>3 DEF has_ref
      <3>6. \A r \in References : refs'[r] # Empty
        BY <1>e, <3>3, NotNoRef DEF Keys
      <3> QED BY <3>1, <3>4, <3>5, <3>6 DEF BasesOK, has_ref
    <2> QED BY <1>2, <2>1, <2>2 DEF drop_refs
  <1>3. CASE ~orphans(p) /\ ~drop_refs(p)
    <2>1. pc[p] \notin {"orphans", "drop_refs"} /\ refs' = refs
      BY <1>3
      DEF CleanNext, gc_images, live_ref, live_manifest, list_blobs, gc_blob,
          list_layers, remove_tree, remove_part, remove_dir, list_temps, gc_temp,
          gc_done, storeVars
    <2>2. pc'[p] # "drop_refs"
      <3>1. PICK l \in PcLabels : Goto(p, l) /\ Carries(p, l)
        BY ControlRest DEF Moves
      <3>2. pc'[p] = l
        BY <1>a, <3>1 DEF Goto, TypeOK, FrameTypeOK
      <3>3. "drop_refs" \notin Elsewhere \cup FetchPcs \cup BuildPcs
        BY StorePcs DEF Elsewhere
      <3> QED BY <2>1, <3>1, <3>2, <3>3 DEF Carries
    <2> QED BY <1>b, <2>1, <2>2, BasesSame
  <1> QED BY <1>1, <1>2, <1>3

\* Each step of the system keeps the two records together.
LEMMA BasesStep ==
    ASSUME OneProcess, NoRecordKill, IInv, SInv, KInv, [Next]_vars
    PROVE  KInv'
  <1>a. ASSUME NEW p \in Procs, BasesOK(p)'
        PROVE  KInv'
    BY <1>a DEF KInv, OneProcess
  <1>b. \A p \in Procs : BasesOK(p) /\ ProcStoreOK(p)
    BY DEF KInv, SInv
  <1>c. TypeOK
    BY DEF IInv
  <1>1. ASSUME NEW p \in Procs, PullNext(p) \/ BuildNext(p) \/ CleanNext(p)
        PROVE  KInv'
    BY <1>1, <1>a, <1>b, BasesPull, BasesBuild, BasesClean
  <1>2. ASSUME NEW p \in Procs, RunNext(p) \/ app_exits(p) \/ exit(p) \/ kill(p)
        PROVE  KInv'
    <2>1. refs' = refs /\ pc[p] \notin {"drop_refs", "ref_fill"}
      BY <1>2
      DEF RunNext, resolve, read_manifest, image_config, mount, app_exits, exit,
          kill, Terminate, storeVars, NoRecordKill
    <2>2. pc'[p] # "drop_refs"
      BY <1>2, <1>c
      DEF RunNext, resolve, read_manifest, image_config, mount, app_exits, exit,
          kill, Terminate, Goto, TypeOK, FrameTypeOK
    <2> QED BY <1>a, <1>b, <2>1, <2>2, BasesSame
  <1>3. ASSUME NEW p \in Procs, NEW c \in Commands,
               start(p, c) \/ \E a \in Apps : start_app(p, c, a)
        PROVE  KInv'
    <2>1. /\ refs' = refs /\ pc[p] = "idle"
          /\ pc'[p] \in {"ensure", "orphans", "next_app"}
      BY <1>3, <1>c DEF start, start_app, storeVars, Goto, TypeOK, FrameTypeOK
    <2> QED BY <1>a, <1>b, <2>1, BasesSame
  <1>4. CASE \/ UNCHANGED vars \/ \E r \in References : publish(r)
             \/ \E a \in Apps : edit(a)
    <2>1. UNCHANGED <<refs, pc, app, gcKeys>>
      BY <1>4 DEF publish, edit, vars, storeVars, loopVars, gcVars
    <2> QED BY <2>1 DEF KInv, BasesOK, has_ref
  <1> QED BY <1>1, <1>2, <1>3, <1>4 DEF Next, Step

\* clean.rs:126-128, "An app with an install script keeps its base image too":
\* the record of a build and that of its base go or stay together, however
\* definitions come and go before and during a clean.
THEOREM BuildsKeepBase ==
    ASSUME OneProcess, LayersApart, NoTornKill, NoRecordKill
    PROVE  Spec => []BuildKeepsBase
  <1>1. Init => KInv
    <2> SUFFICES ASSUME Init, NEW p \in Procs
                 PROVE  BasesOK(p)
      BY DEF KInv
    <2>1. \A a \in InstallApps : refs[a] = NoRef
      <3>1. \A a \in InstallApps : a \notin Preinstalled /\ a \in Keys
        BY ConstantsAssumption DEF Keys
      <3> QED BY <3>1 DEF Init
    <2>2. \A r \in References : refs[r] # Empty
      <3>1. \A r \in References : r \in Keys /\ tag[r] \in Images
        BY DEF Init, Keys, Images
      <3> QED BY <3>1, NotNoRef, ConstantsAssumption DEF Init
    <2>3. pc[p] = "idle"
      BY DEF Init
    <2> QED BY <2>1, <2>2, <2>3 DEF BasesOK, has_ref
  <1>2. IInv /\ SInv /\ KInv /\ [Next]_vars => KInv'
    BY BasesStep
  <1>3. IInv /\ SInv /\ KInv => BuildKeepsBase
    <2> SUFFICES ASSUME IInv, SInv, KInv, Quiet, NEW a \in InstallApps,
                        has_ref(image_key(a))
                 PROVE  refs[Reference[a]] \in Images /\ Complete(refs[Reference[a]])
      BY DEF BuildKeepsBase
    <2>1. PICK p \in Procs : pc[p] = "idle"
      BY DEF OneProcess, Quiet
    <2>2. refs[Reference[a]] # NoRef /\ refs[Reference[a]] # Empty
      BY <2>1, InstallKeys DEF KInv, BasesOK, has_ref
    <2>3. refs[Reference[a]] \in Images
      BY <2>2, InstallKeys, FrameFacts, <2>1 DEF TypeOK, StoreTypeOK
    <2> QED BY <2>1, <2>3, InstallKeys, RecordedComplete
  <1> QED BY <1>1, <1>2, <1>3, StoreInductive, Inductive, PTL DEF Spec
=============================================================================
