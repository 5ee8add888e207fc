-------------------------------- MODULE Runs --------------------------------
(***************************************************************************)
(* prune_runtime() of src/src/clean.rs next to the runs of Runtime: the    *)
(* runtime directory that runs fill and empty, and that `climate clean`    *)
(* clears of what killed or failed runs left.                              *)
(***************************************************************************)
EXTENDS Runtime

CONSTANT None   \* no run

ASSUME RunsAssumption == None \notin RunIds

VARIABLES
    at,         \* where a cleaner is in prune_runtime()
    todo,       \* the directory entries it has listed and not visited
    entry,      \* the overlay it is visiting
    orphans,    \* history: the runs nobody was left to end when it began
    survivors   \* history: the runs whose container could not be stopped

histPrune == <<orphans, survivors>>
pruneVars == <<at, todo, entry, histPrune>>
vars == <<runVars, pruneVars>>

\* A pid is alive until its process is over; pids are not reused.
alive(i) == Live(i[1])

Visit(c, label, S) ==
    /\ at' = [at EXCEPT ![c] = label]
    /\ todo' = [todo EXCEPT ![c] = S]
Drop(c, i) == todo' = [todo EXCEPT ![c] = @ \ {i}]
Fail(c) == at' = [at EXCEPT ![c] = "failed"]

\* prune_runtime(): containers are listed first,
prune_runtime(c) ==
    /\ at[c] = "idle"
    /\ Visit(c, "containers", {i \in RunIds : state[i]})
    /\ orphans' = [orphans EXCEPT ![c] = {i \in RunIds : ~alive(i)}]
    /\ UNCHANGED <<runVars, entry, survivors>>

\* Mutant: a container is only deleted while its run is alive.
prune_container_inverted(c) ==
    /\ at[c] = "containers"
    /\ \E i \in todo[c] :
         /\ Drop(c, i)
         /\ IF alive(i) THEN DeleteContainer(i) ELSE UNCHANGED <<state, init, status>>
    /\ UNCHANGED <<overlay, fuse, bundle, fwdVars, mainVars, sigVars, histVars,
                   at, entry, histPrune>>

\* and those of dead processes deleted, so that nothing uses their mounts.  When
\* that fails the state directory goes and the container may run on.
prune_container(c) ==
    /\ at[c] = "containers"
    /\ \E i \in todo[c] :
         /\ Drop(c, i)
         /\ \/ alive(i) /\ UNCHANGED <<state, procVars, survivors>>
            \/ ~alive(i) /\ DeleteContainer(i) /\ UNCHANGED survivors
            \/ /\ ~alive(i)
               /\ state' = [state EXCEPT ![i] = FALSE]
               /\ survivors' = survivors \cup {i}
               /\ UNCHANGED procVars
    /\ UNCHANGED <<overlay, fuse, bundle, fwdVars, mainVars, sigVars, histVars,
                   at, entry, orphans>>

list_bundles(c) ==
    /\ at[c] = "containers" /\ todo[c] = {}
    /\ Visit(c, "bundles", {i \in RunIds : bundle[i]})
    /\ UNCHANGED <<runVars, entry, histPrune>>

\* Removing a bundle that vanished meanwhile is an error.
prune_bundle(c) ==
    /\ at[c] = "bundles"
    /\ \E i \in todo[c] :
         /\ Drop(c, i)
         /\ IF alive(i)
            THEN UNCHANGED <<at, bundle>>
            ELSE /\ bundle' = [bundle EXCEPT ![i] = FALSE]
                 /\ IF bundle[i] THEN UNCHANGED at ELSE Fail(c)
    /\ UNCHANGED <<overlay, fuse, state, procVars, fwdVars, mainVars, sigVars,
                   histVars, entry, histPrune>>

list_overlays(c) ==
    /\ at[c] = "bundles" /\ todo[c] = {}
    /\ Visit(c, "overlays", {i \in RunIds : overlay[i] # "none"})
    /\ UNCHANGED <<runVars, entry, histPrune>>

\* Mutant: an overlay that is not mounted is passed over.
prune_overlay_mounted(c) ==
    /\ at[c] = "overlays"
    /\ \E i \in todo[c] :
         /\ Drop(c, i)
         /\ IF alive(i) \/ overlay[i] # "mounted"
            THEN UNCHANGED <<at, entry>>
            ELSE /\ entry' = [entry EXCEPT ![c] = i]
                 /\ at' = [at EXCEPT ![c] = "unmount"]
    /\ UNCHANGED <<runVars, histPrune>>

\* is_mounted() decides whether an overlay is unmounted first.
prune_overlay(c) ==
    /\ at[c] = "overlays"
    /\ \E i \in todo[c] :
         /\ Drop(c, i)
         /\ IF alive(i)
            THEN UNCHANGED <<at, entry>>
            ELSE /\ entry' = [entry EXCEPT ![c] = i]
                 /\ at' = [at EXCEPT ![c] =
                             IF overlay[i] = "mounted" THEN "unmount" ELSE "remove"]
    /\ UNCHANGED <<runVars, histPrune>>

\* fusermount3 -u: an overlay that stays mounted is left where it is.  When the
\* program cannot be run, the clean ends.
prune_unmount(c) ==
    LET i == entry[c]
        stays == overlay[i] = "mounted" /\ Busy(i)
    IN  /\ at[c] = "unmount"
        /\ \/ /\ overlay' = [overlay EXCEPT ![i] =
                                IF @ = "mounted" /\ ~stays THEN "dir" ELSE @]
              /\ at' = [at EXCEPT ![c] = IF stays THEN "overlays" ELSE "remove"]
              /\ entry' = [entry EXCEPT ![c] = IF stays THEN None ELSE @]
           \/ /\ Fail(c)
              /\ entry' = [entry EXCEPT ![c] = None]
              /\ UNCHANGED overlay
        /\ UNCHANGED <<fuse, bundle, state, procVars, fwdVars, mainVars, sigVars,
                       histVars, todo, histPrune>>

\* An overlay that is mounted again, or gone, makes the removal fail.
prune_remove(c) ==
    LET i == entry[c]
    IN  /\ at[c] = "remove"
        /\ IF overlay[i] = "dir"
           THEN /\ overlay' = [overlay EXCEPT ![i] = "none"]
                /\ at' = [at EXCEPT ![c] = "overlays"]
           ELSE Fail(c) /\ UNCHANGED overlay
        /\ entry' = [entry EXCEPT ![c] = None]
        /\ UNCHANGED <<fuse, bundle, state, procVars, fwdVars, mainVars, sigVars,
                       histVars, todo, histPrune>>

prune_done(c) ==
    /\ at[c] = "overlays" /\ todo[c] = {}
    /\ Visit(c, "pruned", {})
    /\ UNCHANGED <<runVars, entry, histPrune>>

PruneNext(c) ==
    \/ prune_runtime(c) \/ prune_container(c) \/ list_bundles(c)
    \/ prune_bundle(c) \/ list_overlays(c) \/ prune_overlay(c)
    \/ prune_unmount(c) \/ prune_remove(c) \/ prune_done(c)

Init ==
    /\ RuntimeInit
    /\ at = [c \in Cleaners |-> "idle"]
    /\ todo = [c \in Cleaners |-> {}]
    /\ entry = [c \in Cleaners |-> None]
    /\ orphans = [c \in Cleaners |-> {}]
    /\ survivors = {}

Next == (RuntimeNext /\ UNCHANGED pruneVars) \/ \E c \in Cleaners : PruneNext(c)

Spec == Init /\ [][Next]_vars

\* The kernel schedules the threads of a process; fuse-overlayfs and a helper
\* that is not stuck get on.  Nothing makes an app end or a user act.
FairSpec ==
    /\ Spec
    /\ \A p \in Runners :
         /\ WF_vars(Main(p) /\ UNCHANGED pruneVars)
         /\ WF_vars(Handler(p) /\ UNCHANGED pruneVars)
         /\ WF_vars(forward_loop(p) /\ UNCHANGED pruneVars)
    /\ \A i \in RunIds :
         WF_vars((fuse_mounts(i) \/ helper_joins(i)) /\ UNCHANGED pruneVars)
-----------------------------------------------------------------------------
MainPcs ==
    {"idle", "mount_new", "mount_wait", "create_bundle", "install",
     "create_state", "create_init", "publish", "swap_pending",
     "swap_forwarded", "kill_pending", "bridge", "helper_wait", "start",
     "wait", "drop_kill", "drop_join", "unpublish", "delete",
     "remove_bundle", "unmount", "returned", "exited", "dead"}
PruneLabels ==
    {"idle", "containers", "bundles", "overlays", "unmount", "remove", "pruned", "failed"}
Frames ==
    [signal : Signals, at : {"load", "store", "swap", "kill", "pass"}, to : 0..MaxRuns]

TypeOK ==
    /\ overlay \in [RunIds -> {"none", "dir", "mounted"}]
    /\ fuse \in [RunIds -> {"none", "started", "ok", "failed"}]
    /\ bundle \in [RunIds -> BOOLEAN]
    /\ state \in [RunIds -> BOOLEAN]
    /\ init \in [RunIds -> {"none", "created", "running", "zombie", "reaped"}]
    /\ status \in [RunIds -> {"none", "zero", "nonzero"}]
    /\ helper \in [RunIds -> HelperAlive \cup {"none", "zombie", "reaped"}]
    /\ thread \in [RunIds -> {"none", "poll", "ask", "ended"}]
    /\ pc \in [Runners -> MainPcs]
    /\ run \in [Runners -> RunNo]
    /\ job \in [Runners -> Jobs \cup {NoJob}]
    /\ result \in [Runners -> {"none", "early", "err", "zero", "nonzero"}]
    /\ handlers \in [Runners -> BOOLEAN]
    /\ stack \in [Runners -> [Threads -> Seq(Frames)]]
    /\ CONTAINER_PID \in [Runners -> 0..MaxRuns]
    /\ PENDING_SIGNAL \in [Runners -> Signals \cup {NoSignal}]
    /\ FORWARDED \in [Runners -> BOOLEAN]
    /\ received \in [Runners -> 0..MaxSignals]
    /\ gentle \in [Runners -> Nat]
    /\ due \in [Runners -> BOOLEAN]
    /\ at \in [Cleaners -> PruneLabels]
    /\ todo \in [Cleaners -> SUBSET RunIds]
    /\ entry \in [Cleaners -> RunIds \cup {None}]
    /\ orphans \in [Cleaners -> SUBSET RunIds]
    /\ survivors \in SUBSET RunIds
-----------------------------------------------------------------------------
\* runtime.rs:195-197: a container gets one signal it may ignore, and SIGKILL
\* from then on, on whichever threads and however interleaved with the start of
\* the container the signals are handled.
GentleOnce == \A p \in Runners : gentle[p] <= 1

\* runtime.rs:183: "A signal that arrived before that process existed, delivered
\* once it does."  Once the run waits for the app and no handler is active, no
\* signal received before is still to be passed on.
Interrupted(p) == \E t \in Threads : stack[p][t] # <<>>
SignalsDelivered ==
    \A p \in Runners : pc[p] = "wait" /\ ~Interrupted(p) => ~due[p]

\* That much holds for the first container of a process, wherever the handler
\* interrupts the main thread around the publication of its pid.  (On the thread
\* of a discard pipe it may still store the signal after the main thread looked.)
FirstSignalsDelivered ==
    \A p \in Runners : pc[p] = "wait" /\ ~Interrupted(p) /\ run[p] = 1 => ~due[p]

\* runtime.rs:157-159: "a failed app can never look like it succeeded", whatever
\* other children end before or after it, and whatever kills it.
WaitTrue ==
    \A p \in Runners : result[p] = "zero" => status[r(p)] = "zero" /\ init[r(p)] = "reaped"

\* Whichever step fails and however a run ends, no helper and no app that was
\* started outlives it.  A run that got as far as publishing its container leaves
\* nothing at all.  One that returns by an earlier `?` leaves files to `climate
\* clean` but neither mount nor container, unless into_master() is what fails
\* (runtime.rs:411): the container build() made then waits on, in its mount.
Leaves(i) == bundle[i] \/ state[i] \/ overlay[i] # "none" \/ init[i] \in InitAlive
CleanedUp ==
    \A p \in Runners : pc[p] = "returned" =>
        /\ helper[r(p)] \notin HelperAlive
        /\ init[r(p)] # "running"
        /\ result[p] # "early" => ~Leaves(r(p))
        /\ overlay[r(p)] = "mounted" \/ init[r(p)] \in InitAlive =>
             result[p] = "early" /\ job[p].tty

\* A clean that succeeds has freed everything of the runs whose process was gone
\* when it began, at whichever point of a run that happened, unless its
\* container could not be stopped (clean.rs:187-190, 212-215).
PruneFrees ==
    \A c \in Cleaners : at[c] = "pruned" =>
        \A i \in orphans[c] : i \in survivors \/ ~Leaves(i)

\* "Runs still alive are in progress and left alone" (clean.rs:171): no clean
\* takes away what the main thread counts on.
MountedPcs ==
    {"create_bundle", "install", "create_state", "create_init", "publish", "swap_pending", "swap_forwarded", "kill_pending", "bridge",
     "helper_wait", "start", "wait", "drop_kill", "drop_join",
     "unpublish", "delete", "remove_bundle"}
ContainerPcs == MountedPcs \ {"create_bundle", "install", "create_state", "remove_bundle"}
RunUndisturbed ==
    \A p \in Runners :
        /\ pc[p] \in MountedPcs => overlay[r(p)] = "mounted"
        /\ pc[p] \in MountedPcs \ {"create_bundle"} => bundle[r(p)]
        /\ pc[p] \in ContainerPcs => state[r(p)]

\* Once the app has ended or the run has failed, the run returns, even if its
\* helper hangs in a connection to the container.
RunReturns ==
    \A p \in Runners : result[p] # "none" ~> pc[p] \in {"returned", "mount_new"} \cup Over
=============================================================================
