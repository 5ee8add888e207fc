------------------------------ MODULE Runtime ------------------------------
(***************************************************************************)
(* src/src/runtime.rs: the life of one container run.  Mount::new(), run() *)
(* and the drops that follow, on the main thread of a climate process; the *)
(* signal handler, which interrupts the main thread or runs on another one *)
(* at any point; and the processes around them: fuse-overlayfs, the        *)
(* container, and the Forwarder of forward.rs with its thread and helper.  *)
(*                                                                         *)
(* Runs composes this with prune_runtime() of clean.rs.                    *)
(***************************************************************************)
EXTENDS Integers, Sequences, FiniteSets

CONSTANTS
    Runners,        \* climate processes that run apps or install scripts
    Cleaners,       \* processes executing `climate clean`
    MaxRuns,        \* bound on the containers one process runs in turn
    MaxSignals,     \* bound on the signals one process receives
    Jobs,           \* what a process may run: an app or an install script
    Killable        \* whether SIGKILL may hit a runner

Signals == {"INT", "TERM"}
NoSignal == "none"
NoJob == [kind |-> "none", tty |-> FALSE, bridged |-> FALSE, discard |-> FALSE]
RunNo == 1..MaxRuns
RunIds == Runners \X RunNo

ASSUME RuntimeAssumption ==
    /\ Runners \cap Cleaners = {}
    /\ MaxRuns \in Nat \ {0}
    /\ MaxSignals \in Nat
    /\ Jobs \subseteq [kind : {"app", "build"}, tty : BOOLEAN, bridged : BOOLEAN,
                       discard : BOOLEAN]
    \* build.rs runs scripts without a terminal, on the host's network, and
    \* stdout is not /dev/null when it is a terminal.
    /\ \A j \in Jobs : j.kind = "build" => ~j.tty /\ ~j.bridged
    /\ \A j \in Jobs : j.tty => ~j.discard
    /\ Killable \in BOOLEAN

VARIABLES
    overlay,    \* overlays/<id>: "none", "dir", or "mounted" on
    fuse,       \* fuse-overlayfs: "none", "started", "ok" or "failed"
    bundle,     \* whether bundles/<id> exists
    state,      \* whether containers/<id> exists
    init,       \* the container's first process
    status,     \* its exit status: "none", "zero" or "nonzero"
    helper,     \* the Forwarder's helper process
    thread      \* forward_loop(): "none", "poll", "ask" or "ended"

VARIABLES
    pc,             \* where the main thread is
    run,            \* the number of its current run
    job,            \* what that runs
    result,         \* what run() returns: "early" for a `?` before the container
    handlers,       \* whether SIGINT and SIGTERM have their handler
    stack,          \* the handler invocations active on each thread
    CONTAINER_PID,  \* 0, or the run whose container's pid is published
    PENDING_SIGNAL,
    FORWARDED

VARIABLES
    received,   \* signals received so far
    gentle,     \* history: signals other than SIGKILL passed on
    due         \* history: a signal was received and none passed on since

diskVars == <<overlay, fuse, bundle, state>>
procVars == <<init, status>>
fwdVars == <<helper, thread>>
mainVars == <<pc, run, job, result, handlers>>
sigVars == <<stack, CONTAINER_PID, PENDING_SIGNAL, FORWARDED>>
histVars == <<received, gentle, due>>
runVars == <<diskVars, procVars, fwdVars, mainVars, sigVars, histVars>>

r(p) == <<p, run[p]>>
Over == {"exited", "dead"}
Live(p) == pc[p] \notin Over
InitAlive == {"created", "running"}
HelperAlive == {"starting", "ready", "stuck"}
Threads == {"main", "other"}
NoFrames == [t \in Threads |-> <<>>]

\* A thread other than the main one: the discard pipe's or forward_loop().
HasThread(p, t) ==
    \/ t = "main"
    \/ job[p].discard /\ pc[p] \notin
         {"idle", "mount_new", "mount_wait", "create_bundle",
          "install", "create_state"}
    \/ thread[r(p)] \in {"poll", "ask"}

\* The main thread at a label, not interrupted by a handler
At(p, label) == pc[p] = label /\ stack[p]["main"] = <<>>
Goto(p, label) == pc' = [pc EXCEPT ![p] = label]

GoOn(p, label) == Goto(p, label) /\ UNCHANGED result
Kept == <<run, job, handlers>>

\* run() returns early: the caller drops its Mount.
Early(p) ==
    /\ result' = [result EXCEPT ![p] = "early"]
    /\ Goto(p, "unmount")
-----------------------------------------------------------------------------
(* Mount::new *)

\* A run begins: a build is followed by the app it was for when it succeeded,
\* or by the next app's build under `pull -u -r`.
begin(p, j) ==
    /\ At(p, "idle") \/ At(p, "returned")
    /\ IF pc[p] = "idle"
       THEN UNCHANGED run
       ELSE /\ run[p] < MaxRuns /\ job[p].kind = "build"
            /\ j.kind = "app" => result[p] = "zero"
            /\ run' = [run EXCEPT ![p] = @ + 1]
    /\ job' = [job EXCEPT ![p] = j]
    /\ result' = [result EXCEPT ![p] = "none"]
    /\ Goto(p, "mount_new")
    /\ UNCHANGED <<diskVars, procVars, fwdVars, handlers, sigVars, histVars>>

NotMounted(p) ==
    /\ result' = [result EXCEPT ![p] = "early"]
    /\ Goto(p, "returned")

\* The overlay's directories are made, the layers are looked for and
\* fuse-overlayfs is started; a `?` or `bail!` leaves the directories behind.
mount_new(p) ==
    /\ At(p, "mount_new")
    /\ \/ NotMounted(p) /\ UNCHANGED <<overlay, fuse>>
       \/ /\ overlay' = [overlay EXCEPT ![r(p)] = "dir"]
          /\ \/ NotMounted(p) /\ UNCHANGED fuse
             \/ fuse' = [fuse EXCEPT ![r(p)] = "started"] /\ GoOn(p, "mount_wait")
    /\ UNCHANGED <<bundle, state, procVars, fwdVars, Kept, sigVars, histVars>>

\* It exits: on success the mount is in place.  The spec and the seccomp policy
\* are built next, and an error there drops the Mount.
mount_wait(p) ==
    /\ At(p, "mount_wait")
    /\ \/ /\ fuse[r(p)] = "ok"
          /\ Early(p) \/ GoOn(p, "create_bundle")
          /\ UNCHANGED overlay
       \/ /\ fuse[r(p)] = "failed"
          /\ overlay' = [overlay EXCEPT ![r(p)] = "none"]
          /\ NotMounted(p)
    /\ UNCHANGED <<fuse, bundle, state, procVars, fwdVars, Kept, sigVars, histVars>>

\* fuse-overlayfs itself, which may outlive the process that started it
fuse_mounts(i) ==
    /\ fuse[i] = "started"
    /\ \/ /\ overlay[i] = "dir"
          /\ overlay' = [overlay EXCEPT ![i] = "mounted"]
          /\ fuse' = [fuse EXCEPT ![i] = "ok"]
       \/ fuse' = [fuse EXCEPT ![i] = "failed"] /\ UNCHANGED overlay
    /\ UNCHANGED <<bundle, state, procVars, fwdVars, mainVars, sigVars, histVars>>
-----------------------------------------------------------------------------
(* run() up to the container *)

\* check_cgroup2(), the bundle directory, and then the state directory,
\* Bridge::bind, install_hook, spec.save and the subreaper
create_bundle(p) ==
    /\ At(p, "create_bundle")
    /\ \/ Early(p) /\ UNCHANGED bundle
       \/ /\ bundle' = [bundle EXCEPT ![r(p)] = TRUE]
          /\ Early(p) \/ GoOn(p, "install")
    /\ UNCHANGED <<overlay, fuse, state, procVars, fwdVars, Kept, sigVars, histVars>>

\* install_signal_forwarding()
install(p) ==
    /\ At(p, "install")
    /\ handlers' = [handlers EXCEPT ![p] = TRUE]
    /\ GoOn(p, "create_state")
    /\ UNCHANGED <<diskVars, procVars, fwdVars, run, job, sigVars, histVars>>

\* ConsoleSocket::bind, the builder and the discard pipes; then build(): youki
\* makes the state directory,
create_state(p) ==
    /\ At(p, "create_state")
    /\ \/ Early(p) /\ UNCHANGED state
       \/ state' = [state EXCEPT ![r(p)] = TRUE] /\ GoOn(p, "create_init")
    /\ UNCHANGED <<overlay, fuse, bundle, procVars, fwdVars, Kept, sigVars, histVars>>

\* and the first process, which waits to be started; after a failure it may leave
\* the directory.
create_init(p) ==
    /\ At(p, "create_init")
    /\ \/ /\ init' = [init EXCEPT ![r(p)] = "created"]
          /\ GoOn(p, "publish")
          /\ UNCHANGED state
       \/ /\ state' \in {state, [state EXCEPT ![r(p)] = FALSE]}
          /\ Early(p)
          /\ UNCHANGED init
    /\ UNCHANGED <<overlay, fuse, bundle, status, fwdVars, Kept, sigVars, histVars>>

-----------------------------------------------------------------------------
(* Signals *)

\* kill_process().  PID 1 of a container that has no handler for a signal does
\* not get it, and youki's, before the app is started, has none.  An app that
\* is sent one may end, which app_exits() covers.
Deliver(p, n, kill) ==
    LET i == <<p, n>>
        kills == kill /\ init[i] \in InitAlive
    IN  /\ init' = IF kills THEN [init EXCEPT ![i] = "zombie"] ELSE init
        /\ status' = IF kills THEN [status EXCEPT ![i] = "nonzero"] ELSE status
        /\ gentle' = [gentle EXCEPT ![p] = IF kill THEN @ ELSE @ + 1]
        /\ due' = [due EXCEPT ![p] = FALSE]
        /\ UNCHANGED received

\* into_master() takes the terminal the container sent, then CONTAINER_PID.store
publish(p) ==
    /\ At(p, "publish")
    /\ \/ job[p].tty /\ Early(p) /\ UNCHANGED CONTAINER_PID
       \/ /\ CONTAINER_PID' = [CONTAINER_PID EXCEPT ![p] = run[p]]
          /\ GoOn(p, "swap_pending")
    /\ UNCHANGED <<diskVars, procVars, fwdVars, Kept, stack, PENDING_SIGNAL,
                   FORWARDED, histVars>>

\* Mutant: the pending signal is cleared and not delivered.
swap_pending_clears(p) ==
    /\ At(p, "swap_pending")
    /\ PENDING_SIGNAL' = [PENDING_SIGNAL EXCEPT ![p] = NoSignal]
    /\ Goto(p, "bridge")
    /\ UNCHANGED <<diskVars, procVars, fwdVars, result, Kept, stack,
                   CONTAINER_PID, FORWARDED, histVars>>

\* The signal that arrived before the pid was published
swap_pending(p) ==
    /\ At(p, "swap_pending")
    /\ PENDING_SIGNAL' = [PENDING_SIGNAL EXCEPT ![p] = NoSignal]
    /\ Goto(p, IF PENDING_SIGNAL[p] = NoSignal THEN "bridge" ELSE "swap_forwarded")
    /\ UNCHANGED <<diskVars, procVars, fwdVars, result, Kept, stack,
                   CONTAINER_PID, FORWARDED, histVars>>

\* Mutant: whether a signal was passed on already is not looked at.
swap_forwarded_unread(p) ==
    /\ At(p, "swap_forwarded")
    /\ FORWARDED' = [FORWARDED EXCEPT ![p] = TRUE]
    /\ Goto(p, "kill_pending")
    /\ UNCHANGED <<diskVars, procVars, fwdVars, result, Kept, stack,
                   CONTAINER_PID, PENDING_SIGNAL, histVars>>

\* is passed on unless another one was,
swap_forwarded(p) ==
    /\ At(p, "swap_forwarded")
    /\ FORWARDED' = [FORWARDED EXCEPT ![p] = TRUE]
    /\ Goto(p, IF FORWARDED[p] THEN "bridge" ELSE "kill_pending")
    /\ UNCHANGED <<diskVars, procVars, fwdVars, result, Kept, stack,
                   CONTAINER_PID, PENDING_SIGNAL, histVars>>

\* with kill_process().
kill_pending(p) ==
    /\ At(p, "kill_pending")
    /\ Deliver(p, run[p], FALSE)
    /\ Goto(p, "bridge")
    /\ UNCHANGED <<diskVars, fwdVars, result, Kept, sigVars>>

\* A thread executes forward_signal(): the same signal is blocked meanwhile, the
\* other one may interrupt it.
Frame(signal, at, to) == [signal |-> signal, at |-> at, to |-> to]
Top(p, t) == Head(stack[p][t])
In(p, t, at) == stack[p][t] # <<>> /\ Top(p, t).at = at
Return(p, t) == stack' = [stack EXCEPT ![p][t] = Tail(@)]
Continue(p, t, frame) == stack' = [stack EXCEPT ![p][t] = <<frame>> \o Tail(@)]

receive(p, t, s) ==
    /\ Live(p)
    /\ received[p] < MaxSignals
    /\ handlers[p]
    /\ HasThread(p, t)
    /\ \A k \in DOMAIN stack[p][t] : stack[p][t][k].signal # s
    /\ stack' = [stack EXCEPT ![p][t] = <<Frame(s, "load", 0)>> \o @]
    /\ received' = [received EXCEPT ![p] = @ + 1]
    /\ due' = [due EXCEPT ![p] = TRUE]
    /\ UNCHANGED <<diskVars, procVars, fwdVars, mainVars, CONTAINER_PID,
                   PENDING_SIGNAL, FORWARDED, gentle>>

\* CONTAINER_PID.load
handler_load(p, t) ==
    /\ In(p, t, "load")
    /\ Continue(p, t, Frame(Top(p, t).signal,
                            IF CONTAINER_PID[p] = 0 THEN "store" ELSE "swap",
                            CONTAINER_PID[p]))
    /\ UNCHANGED <<diskVars, procVars, fwdVars, mainVars, CONTAINER_PID,
                   PENDING_SIGNAL, FORWARDED, histVars>>

\* PENDING_SIGNAL.store
handler_store(p, t) ==
    /\ In(p, t, "store")
    /\ PENDING_SIGNAL' = [PENDING_SIGNAL EXCEPT ![p] = Top(p, t).signal]
    /\ Return(p, t)
    /\ UNCHANGED <<diskVars, procVars, fwdVars, mainVars, CONTAINER_PID,
                   FORWARDED, histVars>>

\* FORWARDED.swap
handler_swap(p, t) ==
    /\ In(p, t, "swap")
    /\ FORWARDED' = [FORWARDED EXCEPT ![p] = TRUE]
    /\ Continue(p, t, [Top(p, t) EXCEPT !.at = IF FORWARDED[p] THEN "kill" ELSE "pass"])
    /\ UNCHANGED <<diskVars, procVars, fwdVars, mainVars, CONTAINER_PID,
                   PENDING_SIGNAL, histVars>>

\* kill_process
handler_kill(p, t) ==
    /\ In(p, t, "kill") \/ In(p, t, "pass")
    /\ Deliver(p, Top(p, t).to, In(p, t, "kill"))
    /\ Return(p, t)
    /\ UNCHANGED <<diskVars, fwdVars, mainVars, CONTAINER_PID, PENDING_SIGNAL, FORWARDED>>

forward_signal(p, t) ==
    \/ handler_load(p, t) \/ handler_store(p, t)
    \/ handler_swap(p, t) \/ handler_kill(p, t)
-----------------------------------------------------------------------------
(* The closure: forwarding starts, the app starts, ends, and is waited for *)

\* The closure returns: its locals are dropped, the Forwarder last.
Leave(p, value) ==
    /\ result' = [result EXCEPT ![p] = value]
    /\ Goto(p, IF helper[r(p)] = "none" THEN "unpublish" ELSE "drop_kill")
Fails(p) == Leave(p, "err")

\* Bridge::start up to the helper's spawn
bridge_start(p) ==
    /\ At(p, "bridge")
    /\ \/ ~job[p].bridged /\ Goto(p, "start") /\ UNCHANGED <<helper, result>>
       \/ job[p].bridged /\ Fails(p) /\ UNCHANGED helper
       \/ /\ job[p].bridged
          /\ helper' = [helper EXCEPT ![r(p)] = "starting"]
          /\ GoOn(p, "helper_wait")
    /\ UNCHANGED <<diskVars, procVars, thread, Kept, sigVars, histVars>>

\* Its first reply, and the thread; or the helper is gone, or a later step fails.
helper_wait(p) ==
    /\ At(p, "helper_wait")
    /\ helper[r(p)] # "starting"
    /\ \/ Fails(p) /\ UNCHANGED thread
       \/ /\ helper[r(p)] = "ready"
          /\ thread' = [thread EXCEPT ![r(p)] = "poll"]
          /\ GoOn(p, "start")
    /\ UNCHANGED <<diskVars, procVars, helper, Kept, sigVars, histVars>>

\* container.start(), then RawMode and ResizeForwarder of a run with a terminal
start(p) ==
    /\ At(p, "start")
    /\ \/ Fails(p) /\ UNCHANGED init
       \/ /\ init[r(p)] = "created"
          /\ init' = [init EXCEPT ![r(p)] = "running"]
          /\ GoOn(p, "wait") \/ (job[p].tty /\ Fails(p))
    /\ UNCHANGED <<diskVars, status, fwdVars, Kept, sigVars, histVars>>

\* Mutant: the first child that ends is taken for the container.
wait_any(p) ==
    /\ At(p, "wait")
    /\ \/ /\ init[r(p)] = "zombie"
          /\ init' = [init EXCEPT ![r(p)] = "reaped"]
          /\ Leave(p, status[r(p)])
          /\ UNCHANGED helper
       \/ /\ helper[r(p)] = "zombie"
          /\ helper' = [helper EXCEPT ![r(p)] = "reaped"]
          /\ Leave(p, "zero")
          /\ UNCHANGED init
    /\ UNCHANGED <<diskVars, status, thread, Kept, sigVars, histVars>>

\* wait(): any child is collected, the container's first process ends the loop.
wait(p) ==
    /\ At(p, "wait")
    /\ \/ /\ init[r(p)] = "zombie"
          /\ init' = [init EXCEPT ![r(p)] = "reaped"]
          /\ Leave(p, status[r(p)])
          /\ UNCHANGED helper
       \/ /\ helper[r(p)] = "zombie"
          /\ helper' = [helper EXCEPT ![r(p)] = "reaped"]
          /\ UNCHANGED <<init, result, pc>>
    /\ UNCHANGED <<diskVars, status, thread, Kept, sigVars, histVars>>

\* The container ends by itself, or on a signal.
app_exits(i) ==
    /\ init[i] = "running"
    /\ init' = [init EXCEPT ![i] = "zombie"]
    /\ status' \in {[status EXCEPT ![i] = s] : s \in {"zero", "nonzero"}}
    /\ UNCHANGED <<diskVars, fwdVars, mainVars, sigVars, histVars>>
-----------------------------------------------------------------------------
(* Forwarder: its helper, its thread, and what dropping it does *)

\* The helper joins the namespaces, or gives up; a connection to a container
\* port may keep it; it ends when the run is gone or Ctrl-C reaches it too.
helper_joins(i) ==
    /\ helper[i] = "starting"
    /\ helper' = [helper EXCEPT ![i] = "ready"]
    /\ UNCHANGED <<diskVars, procVars, thread, mainVars, sigVars, histVars>>

helper_stuck(i) ==
    /\ helper[i] = "ready" /\ thread[i] = "ask"
    /\ helper' = [helper EXCEPT ![i] = "stuck"]
    /\ UNCHANGED <<diskVars, procVars, thread, mainVars, sigVars, histVars>>

helper_ends(i) ==
    /\ helper[i] \in HelperAlive
    /\ helper' = [helper EXCEPT ![i] = IF Live(i[1]) THEN "zombie" ELSE "reaped"]
    /\ UNCHANGED <<diskVars, procVars, thread, mainVars, sigVars, histVars>>

\* forward_loop(): a request is answered or fails because the helper is gone;
\* the loop ends in poll(), once `quit` is closed.
forward_loop(p) ==
    LET i == r(p)
    IN  /\ Live(p) /\ stack[p]["other"] = <<>>
        /\ \/ /\ thread[i] = "poll"
              /\ thread' = [thread EXCEPT ![i] = IF pc[p] = "drop_join" THEN "ended" ELSE "ask"]
           \/ /\ thread[i] = "ask" /\ helper[i] # "stuck"
              /\ thread' = [thread EXCEPT ![i] = "poll"]
        /\ UNCHANGED <<diskVars, procVars, helper, mainVars, sigVars, histVars>>

\* Mutant: the helper is left to notice that its socket is closed.
drop_kill_not(p) ==
    /\ At(p, "drop_kill")
    /\ GoOn(p, "drop_join")
    /\ UNCHANGED <<diskVars, procVars, fwdVars, Kept, sigVars, histVars>>

\* Forwarder::drop: helper.kill(), which does not know of a helper that wait()
\* collected, and `quit` is closed.
drop_kill(p) ==
    LET i == r(p)
    IN  /\ At(p, "drop_kill")
        /\ helper' = [helper EXCEPT ![i] = IF @ \in HelperAlive THEN "zombie" ELSE @]
        /\ Goto(p, "drop_join")
        /\ UNCHANGED <<diskVars, procVars, thread, result, Kept, sigVars,
                       histVars>>

\* thread.join() and helper.wait()
drop_join(p) ==
    LET i == r(p)
    IN  /\ At(p, "drop_join")
        /\ thread[i] \in {"none", "ended"}
        /\ helper[i] \notin HelperAlive
        /\ helper' = [helper EXCEPT ![i] = "reaped"]
        /\ Goto(p, "unpublish")
        /\ UNCHANGED <<diskVars, procVars, thread, result, Kept, sigVars, histVars>>
-----------------------------------------------------------------------------
(* What run() deletes before it returns, and the drop of Mount *)

\* Mutant: -1 stands for no container, as for RESIZE_PIPE.
unpublish_minus_one(p) ==
    /\ At(p, "unpublish")
    /\ CONTAINER_PID' = [CONTAINER_PID EXCEPT ![p] = -1]
    /\ Goto(p, "delete")
    /\ UNCHANGED <<diskVars, procVars, fwdVars, result, Kept, stack,
                   PENDING_SIGNAL, FORWARDED, histVars>>

\* Signals are swallowed from here on.
unpublish(p) ==
    /\ At(p, "unpublish")
    /\ CONTAINER_PID' = [CONTAINER_PID EXCEPT ![p] = 0]
    /\ Goto(p, "delete")
    /\ UNCHANGED <<diskVars, procVars, fwdVars, result, Kept, stack,
                   PENDING_SIGNAL, FORWARDED, histVars>>

\* Container::delete(true): its processes are killed, its state is removed.
DeleteContainer(i) ==
    /\ state' = [state EXCEPT ![i] = FALSE]
    /\ init' = [init EXCEPT ![i] = IF @ \in InitAlive THEN "zombie" ELSE @]
    /\ status' = [status EXCEPT ![i] = IF init[i] \in InitAlive THEN "nonzero" ELSE @]

\* Mutant: only the state directory is removed.
delete_state(p) ==
    /\ At(p, "delete")
    /\ state' = [state EXCEPT ![r(p)] = FALSE]
    /\ Goto(p, "remove_bundle")
    /\ UNCHANGED <<overlay, fuse, bundle, procVars, fwdVars, result, Kept, sigVars, histVars>>

delete(p) ==
    /\ At(p, "delete")
    /\ DeleteContainer(r(p))
    /\ Goto(p, "remove_bundle")
    /\ UNCHANGED <<overlay, fuse, bundle, fwdVars, result, Kept, sigVars, histVars>>

remove_bundle(p) ==
    /\ At(p, "remove_bundle")
    /\ bundle' = [bundle EXCEPT ![r(p)] = FALSE]
    /\ Goto(p, "unmount")
    /\ UNCHANGED <<overlay, fuse, state, procVars, fwdVars, result, Kept, sigVars, histVars>>

\* fusermount3 -u fails while a process of the container uses the mount.
Busy(i) == init[i] \in InitAlive

\* Drop of Mount: the directory is removed when it is not mounted any more.
unmount(p) ==
    LET i == r(p)
    IN  /\ At(p, "unmount")
        /\ overlay' = [overlay EXCEPT ![i] = IF Busy(i) THEN @ ELSE "none"]
        /\ GoOn(p, "returned")
        /\ UNCHANGED <<fuse, bundle, state, procVars, fwdVars, Kept, sigVars, histVars>>
-----------------------------------------------------------------------------
\* The process is gone, and with it its threads; a helper that is not stuck
\* reads the end of its socket later.
Gone(p, label) ==
    /\ Goto(p, label)
    /\ stack' = [stack EXCEPT ![p] = NoFrames]
    /\ thread' = [i \in RunIds |-> IF i[1] = p THEN "none" ELSE thread[i]]
    /\ helper' = [i \in RunIds |->
                    IF i[1] = p /\ helper[i] = "zombie" THEN "reaped" ELSE helper[i]]
    /\ UNCHANGED <<diskVars, procVars, run, job, result, handlers,
                   CONTAINER_PID, PENDING_SIGNAL, FORWARDED, gentle, due>>

exit(p) == At(p, "returned") /\ Gone(p, "exited") /\ UNCHANGED received

\* A signal with no handler yet, or SIGKILL
die(p) ==
    /\ pc[p] \notin Over \cup {"idle"}
    /\ \/ /\ received[p] < MaxSignals
          /\ ~handlers[p]
          /\ received' = [received EXCEPT ![p] = @ + 1]
       \/ Killable /\ UNCHANGED received
    /\ Gone(p, "dead")

\* What the main thread does on its own
Main(p) ==
    \/ mount_new(p) \/ mount_wait(p)
    \/ create_bundle(p) \/ install(p) \/ create_state(p)
    \/ create_init(p)
    \/ publish(p) \/ swap_pending(p) \/ swap_forwarded(p) \/ kill_pending(p)
    \/ bridge_start(p) \/ helper_wait(p) \/ start(p) \/ wait(p)
    \/ drop_kill(p) \/ drop_join(p)
    \/ unpublish(p) \/ delete(p) \/ remove_bundle(p) \/ unmount(p)

Handler(p) == \E t \in Threads : forward_signal(p, t)

Around(i) == fuse_mounts(i) \/ app_exits(i) \/ helper_joins(i) \/ helper_stuck(i)
                \/ helper_ends(i)

RuntimeNext ==
    \/ \E p \in Runners :
         \/ \E j \in Jobs : begin(p, j)
         \/ Main(p) \/ Handler(p) \/ forward_loop(p) \/ exit(p) \/ die(p)
         \/ \E t \in Threads, s \in Signals : receive(p, t, s)
    \/ \E i \in RunIds : Around(i)

RuntimeInit ==
    /\ overlay = [i \in RunIds |-> "none"]
    /\ fuse = [i \in RunIds |-> "none"]
    /\ bundle = [i \in RunIds |-> FALSE]
    /\ state = [i \in RunIds |-> FALSE]
    /\ init = [i \in RunIds |-> "none"]
    /\ status = [i \in RunIds |-> "none"]
    /\ helper = [i \in RunIds |-> "none"]
    /\ thread = [i \in RunIds |-> "none"]
    /\ pc = [p \in Runners |-> "idle"]
    /\ run = [p \in Runners |-> 1]
    /\ job = [p \in Runners |-> NoJob]
    /\ result = [p \in Runners |-> "none"]
    /\ handlers = [p \in Runners |-> FALSE]
    /\ stack = [p \in Runners |-> NoFrames]
    /\ CONTAINER_PID = [p \in Runners |-> 0]
    /\ PENDING_SIGNAL = [p \in Runners |-> NoSignal]
    /\ FORWARDED = [p \in Runners |-> FALSE]
    /\ received = [p \in Runners |-> 0]
    /\ gentle = [p \in Runners |-> 0]
    /\ due = [p \in Runners |-> FALSE]
=============================================================================
