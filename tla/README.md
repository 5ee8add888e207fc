# CLImate in TLA+

CLImate runs command-line apps from container images as an ordinary user: it downloads images into
a store of its own, builds images from install scripts, runs containers through youki, bridges
their loopback ports to the host's, and cleans up. There is no daemon and no lock. Any number of
`climate` processes work on the same directories at the same time, started by users, by each other
and by a timer, and any of them can be killed. This directory models the parts where that matters,
checks them with TLC on small instances and proves the main safety properties with TLAPS.

Paths below are relative to the repository; `store.rs` stands for `src/store.rs` there.

## 1. Inventory

| Component | State | Operations | What is hard |
|---|---|---|---|
| image store, `store.rs` | `refs/`, `blobs/`, `layers/`, `.extract-*`, `.download-*` on disk | record, write and commit blobs, extract and delete layers, resolve an image | no lock; writes, unpacks and deletions are not atomic; names shared between processes |
| pull, `pull.rs` | call frame of a process, concurrent layer futures | `ensure`, `fetch_image`, the update loop | failure of one of several futures; kills; registries that change |
| build, `build.rs` | upper and work directory, new manifest and record | base lookup, script, rename, record | the base may vanish; a script fails or is killed |
| clean, `clean.rs` | none of its own | drop orphaned records, collect the store, prune the runtime directory | works on listings that are stale when used |
| runtime, `runtime.rs` | overlay, bundle and state directories; container; three atomics shared with a signal handler | `Mount::new`, `run`, `forward_signal`, `wait`, drops | signals at any instant; early returns; processes that outlive their parent |
| terminal, `runtime.rs` | the mode of the user's terminal, the size of the container's, a pipe shared with a signal handler, three threads | `RawMode`, `ResizeForwarder`, `pump` | resizes at any instant; the order of the drops; joins that must end |
| loopback bridge, `forward.rs` | mirrors (listening sockets), helper process, thread | `rescan`, `forward_loop`, start and drop | runs see each other's mirrors; services appear between a scan and a bind; a helper that hangs |
| definitions and sync, `config.rs` | checked-out git trees | load, list, fetch and check out | a kill between moving the branch and the checkout; a default branch that changes; two searches and an override that make one definition |
| runtime spec, `spec.rs` | paths on the host it shares and creates | limits, mount entries, mount points, command line | the host is looked at three times and changes in between; checks in several places; bounds and overflow of the limits |
| LAN relay, `localnet.rs` | TUN device, a task per flow | check a destination, relay | routes that overlap, and change between check, connect and packets; connections that must be answered |
| seccomp, `seccomp.rs` | none | merge rules | precedence of five lists |
| `main.rs`, `show.rs`, `xtask`, `systemd/` | none | dispatch, output, generation, a timer | - |

Interaction: `run` calls `store::resolve`, which calls `pull::ensure`, which may call `build::build`,
which itself calls `runtime::run`; `pull` ends in `clean::gc_images`; `clean` does both halves of
the cleaning. Separate processes meet only in the file system, in the kernel's process table and,
for the bridge, on the host's loopback ports.

What makes each part correct, in a sentence: an image that `refs/` records is complete; a pull
delivers and an update reaches every app; a collection takes nothing that is in use and leaves
nothing that is not; a run returns the container's exit code, passes on signals once, and leaves
nothing behind; a clean frees what a killed run left and touches no other; the bridge makes every
service reachable and closes no circle; a sync leaves the definitions it fetched; a launch mounts what the
definition shares onto what was made for it, and holds the app to the limits and system calls the definition
states; a flow stays on the host's own networks; the user gets the terminal back, with all the output on it.

`PROJECT.json` lists the hazards at their lines; the properties below are aimed at them.

## 2. Modules

| Module | Models | Built on |
|---|---|---|
| `Store` | the store's directories, `write_blob`, `record_ref`, a process's call frame | |
| `Pull` | `ensure`, `fetch`, `fetch_image`, `fetch_layer`, `extract_layer`, the update loop | `Store` |
| `Build` | `build`, `run_script` as the store sees it | `Store` |
| `Clean` | `drop_orphan_refs`, `live_set`, `gc_images`, `remove_tree` | `Store` |
| `Images` | the commands, registries, users and kills; the properties; the inductive invariant | `Pull`, `Build`, `Clean` |
| `ImagesProofs` | theorems about `Images` | `Images`, TLAPS |
| `Runtime` | one container run: mount, `run()`, signal handler, helper, clean-up | |
| `Runs` | `prune_runtime` next to the runs; the properties | `Runtime` |
| `RunsProofs` | theorems about `Runs` | `Runs`, TLAPS |
| `Forward` | `rescan` of several bridged runs, with services on both sides; the properties | |
| `ForwardProofs` | theorems about `Forward` | `Forward`, TLAPS |
| `Terminal` | an interactive run's terminals, resizes and output; the properties | |
| `TerminalProofs` | theorems about `Terminal` | `Terminal`, TLAPS |
| `Definitions` | abstract: a directory that shows one published commit and moves to another in one step | |
| `Sync` | `sync` and `fetch_and_checkout` with a repository that changes; the properties; the refinement mapping | instance of `Definitions` |
| `SyncProofs` | theorems about `Sync` | `Sync`, TLAPS |
| `Limits` | `resources` and the parsing of sizes, as operators | |
| `Seccomp` | `profile`, `partial_rules`, and the verdict on a call, as operators | |
| `Launch` | `load`, `check`, `extra_mounts`, `mountpoints`, `build` with a host that changes; the properties | `Limits`, `Seccomp` |
| `LaunchProofs` | theorems about `Launch`: what a definition promises | `Launch`, TLAPS |
| `MountProofs` | theorems about `Launch`: paths of the host | `LaunchProofs` |
| `Localnet` | `egress` and the flows of the relay, with routes that change; the properties | |
| `LocalnetProofs` | theorems about `Localnet` | `Localnet`, TLAPS |
| `MCImages`, `MCRuns`, `MCForward`, `MCSync`, `MCLaunch`, `MCLocalnet`, `MCTerminal` | values of the constants for TLC | |

`Launch` ends where `Images` and `Runtime` begin: it resolves the image in one step and starts the container in another.
`Terminal` and `Localnet` stand next to `Runtime`: the first is the part of `run()` that only an interactive run has, the
second the relay that `Forwarder::start` starts. They share no state with it but the order of the drops, which each states.

Operators whose comment begins with "Mutant" are not part of any specification. Each is a plausible
mistake in the definition that follows it; `PROJECT.json` names the property that notices it.

### Images

Each process has a program counter `pc` whose labels are points of the code, and one action per
file-system operation between two labels. A directory under `layers/` is the set of its two
`Parts`, or `NoDir`; that makes unpacking and deleting take several steps, as they do. A blob is
absent, torn or complete, a record absent, empty or a digest: `fs::write` truncates first.

- `task[p][i]` is the `fetch_layer` future of layer i: queued, downloading, extracting on a blocking
  thread, finished or failed. When one fails, `result?` drops the others, but threads run on
  and the async runtime waits for them (`abort`).
- `gc_images` lists `refs/` first and reads record by record (`live_ref`, `live_manifest`); then it
  lists and deletes blobs, layers and temporary files in that order. A listed entry that is gone is
  an error for files and ignored for directories, as in the code; a directory that loses entries to another process while
  it is being deleted is an error again (`remove_dir`).
- `kill` may end a process at any label of `KillPoints` and leaves the store as it is. `publish` moves a
  registry's tag, `edit` makes a definition load, not load or be gone.

Abstractions: content is identified with its digest (the client verifies it); a directory
is addressed by its path, also by a process that has it open; I/O errors of local writes other than
creating directories, downloading and unpacking are left out; the staging directory is cleared in
one step, which may fail while someone else works on the same directory (`Contested`), as `remove_tree` fails on what
vanishes under its walk (store.rs:154-174); the upper and the work directory of a build are one; the algorithm directories under `blobs/`
and `layers/` are listed at once; `app_names()` and loading a definition are one step; build ids
without a trace are used again (`Fresh`), temporary files whose owner is gone count as one
(`Leftover`). A run's life after the mount is `running`; `Runtime` takes over there.

### Runtime and Runs

`Runtime` follows the main thread through `Mount::new`, `run()`, and the drops, with the handler's
loads, stores and swaps as steps of their own. `receive` pushes an invocation of `forward_signal` onto a
thread's stack: on the main thread it interrupts whatever is there, also another signal's handler; on another
thread it runs beside it. `CONTAINER_PID` holds the number of the run whose container it names. `fuse-overlayfs`, the container's first
process and the bridge's helper are actors of their own and outlive a killed process. A process may run
several containers one after the other, as a build before its app or `pull -u -r` does. `Runs` adds
any number of cleaners in `prune_runtime()`, which ends early when fusermount3 cannot be run (clean.rs:218-222).

`CleanedUp` says what a run that returns has left. Of one whose container was published (a run with a `result` other than
`early`) that is nothing. Of one that failed earlier it is neither a running app, nor a helper, nor a container or a mount, but for one exception
that it names: an interactive run whose `into_master()` fails (runtime.rs:411), which comes after `build()`. It returns by `?` and leaves the
container as created, so its mount is busy and stays too. Files of a run that failed early may stay in any case; a clean frees them (`PruneFrees`).

Not in it: terminals (see `Terminal`), exit codes beyond zero and nonzero, and `wait`
running out of children. `Container::delete` always succeeds in `run()` and may fail in
`prune_runtime()`. Pids are not reused. A container killed half-way through its creation leaves at most its state directory.

### Forward

`listen[n][p][a]` says who listens in namespace n (the host's, or a run's container's) on port p and
address a. `rescan` is read as the code has it: scan the host, scan the container, retain, bind one port after
the other, requests to the helper first. Reading `tcp` and `tcp6` is one step, and so are the binds of one
port's two addresses. `Other` stands for loopback addresses that `is_loopback` counts and
`listen_on` does not try. `refused` is the set of binds that the kernel refuses whatever is free, as it does a port below
1024 without privileges (forward.rs:214, 238); it never changes, and `Reachable` promises nothing about these. The connections themselves are not modelled: `NoLoop` is about the paths.

### Sync

`git` says how far the target's `.git` has come, `heads` where its local branches are, `files` what is checked out:
a function from the paths the repository ever holds to contents. An action is a step of `sync()` that reads or writes one
of these; the checkout changes one path at a time. `stop` ends a sync at a label of `StopPoints`; it stands for a
kill and for an I/O error alike, as both leave the directory as it is. `push` and `rename_default` are the repository's
maintainers. grit-lib is external: a fetch reports every branch the remote has, and
`checkout_between_trees` changes the paths that differ between its two trees and no others, which is what config.rs:452
and 470 say of it. `HEAD` is written but never read, and is left out.

`Shown` is the refinement mapping to `Definitions`: while a checkout is under way the directory still counts as the
commit it comes from, and its last step is the abstract `Adopt`.

### Launch, Limits and Seccomp

A `host` holds at each path nothing, a directory, an empty file or a full one. A launch is `load`, `check_host_dir`, `resolve`,
a pass of `extra_mounts` and `mountpoints`, the mount, `build` with a second pass, and the start. Each look at a path is a step
(`look`, `create_source`), so two launches and `user_changes` come between any two. Names of paths are constants:
`Expand` gives the path a field of a mount entry stands for, which is all `expand_path` and the trailing '/' decide.
A definition is a record of its keys, one that does not parse is `Broken`; `load` picks the first search directory that has the
app, lays the override over it and fills in the defaults. `why` says whose fault a failed launch is: the definition's, the host's
or the image's.

`Limits` keeps integers and their width: `checked` is the checked arithmetic of i64, and the cpu limit is counted in
quarters of a microsecond per period, so that `round()` and the saturating cast do something. `Seccomp` keeps the sets of
names and the rules; `verdict` is what seacomb documents: a name without a condition is allowed, the rules of a partial one are
tried in turn, and the rest is refused. A call's arguments are the classes the partial rules tell apart.

Left out: the environment, the image's working directory, the warning in the home directory, destinations inside one
another, sockets and devices as shares, a build without the `systemd` feature (which ignores limits), and a working
directory that is renamed under its process.

### Localnet

An address is a number of `Width` bits, a route a prefix with an interface and maybe a gateway, and the host's table any set of at most
`MaxRoutes` of them. `egress` is the code's; `Ways` is the kernel's choice, written independently of it: the most specific
route among those of the interface a socket is bound to, by masking instead of shifting, and the interface's own link where none
covers the address. A flow is accepted, checked, connected and relayed in steps; `route_change` comes in between, and every packet
is routed anew. A refused connection is closed, a refused UDP flow forgotten. `took` records the ways packets have gone and whether the
routes had changed since the check.

Left out: ICMP, which the relay ignores; the contents of `resolv.conf`; the stack's own timeouts, which end a flow like
`finish`; a reading of `/proc` that mixes two tables; policy routing. By localnet.rs:206-208 the kernel may take a route
of a table the relay does not read, on the interface that was approved: `HeldToDevice` holds then too, `NothingPastGateway` is said of one table only.

### Terminal

The main thread's steps are those of `run()` from `ConsoleSocket::bind` to `RawMode::drop`, each with its failure. SIGWINCH is
pending once; `receive` has a thread take it, and the handler's load and write are steps. The
pipe holds `PipeSize` bytes and its thread reads up to `BufSize`, asks for the size and sets it, in three steps. `copy` shows the app's
output piece by piece until it is through or the user's terminal refuses it. Left out: the input thread, which nothing waits for.

## 3. Runs

| Run | Instance | Shows |
|---|---|---|
| `images` | one process; three apps (install script, shared base, out of band), five commands, kills, new versions; 2.2 M states | `RecordedIntact`, `PullDelivers`, `UpdateReachesAll`, `GcLeavesOnlyLive` |
| `images_live` | two processes, run and clean, one config; 141 k states | `GcSparesStable` under every interleaving of two commands, and `CommandEnds` |
| `images_defs` | one process, two apps on one base, definitions broken, deleted, restored; 20 k states | `BuildKeepsBase` |
| `images_twice` | one manifest with a repeated layer | violates `NoBrokenLayer` |
| `images_sweep` | a pull and a clean | violates `RecordedIntact` |
| `runs` | one process, two containers in turn, three kinds of job, two signals, SIGKILL at any point, one clean; 577 k states | `GentleOnce`, `FirstSignalsDelivered`, `WaitTrue`, `CleanedUp`, `PruneFrees`, `RunUndisturbed`, `RunReturns` |
| `runs_twice` | two containers in turn | violates `SignalsDelivered` |
| `forward` | two bridged runs, one port, three addresses, binds that are all possible or partly refused; 495 k states | `NoLoop`, `Reachable`, `MirrorsGo` |
| `sync` | one process at a time, one branch, three commits, stops but not after the branch has moved; 1268 states | `SyncDelivers`, `CountsTrue`, and `AdoptsPublished`: it implements `Definitions` |
| `launch` | two launches, some 37 definitions with and without an override (limits, seccomp filters, mounts, networks, a missing and a broken one), four mount entries, one change of the host by users; 1.47 M states | `PointsMatch`, `SharesKept`, `CheckPredicts`, `LimitsHold`, `OwnDecisions` |
| `localnet` | one flow at a time, every table of up to three of eleven routes, changed without bound; 298 k states | `HeldToDevice`, `NothingPastGateway`, `LanReached`, `TcpAnswered` |
| `terminal` | three window sizes, four resizes, a pipe of two bytes, two pieces of output; 304 k states | `NoStrayWrite`, `Restored`, `SizeFollows`, `RunEnds` |

Bounds. `MaxLayers` = 2 and two `Parts` are the least with which layers are shared, finish out of order and
are unpacked in part. Two processes are enough for each pair of operations to interleave; the collection's
safety, which is about all of them, is proved for any number (and for configs of any number, where `images_live` has one). `MaxDownloads` is 1 in `images`, which
makes a queue, and 3 elsewhere. `images` collects over several commands since nothing bounds their
number: the state space is finite without a counter. `MaxSignals` = 2 is what "a second signal" needs,
`MaxRuns` = 2 what "a later container" needs. Ports do not interact in `rescan`, so one is enough;
two runs are the least that see each other's mirrors. `Refusals` has two values: nothing is refused, or
the port is refused on the host and in one of the two containers, while the other's service and mirrors go on as before.
The three commits of `sync` change, add, delete and bring back a file, a definition or not, between any two of them.

`launch` scales the numbers: `I64Max` is 127 and `Kilo` 4, so that 't' times 1 already overflows and sizes on either side of every
limit exist; the proof is for any values. `MaxChanges` = 1 puts one change of a user at any point of two launches; what happened
before is another initial host. `localnet` has addresses of two bits in one family and three in the other, so a default route shifts
out the whole width of u128 in one and not in the other; one place for a flow is enough, as flows share nothing but the routes.
Three routes are the least with two equally specific ones under a third. `terminal` reads one byte of a pipe of two, so
that the pipe is full, holds more than is read, and empty; four resizes go beyond all three.

Kill points. `images` leaves out kills while a manifest that is already recorded is rewritten in place
(`manifest_fill`) and in the middle of deleting a directory (`remove_tree`). After these `RecordedIntact` does
not hold: the store has no way to tell a partly deleted layer from a finished one. Both are hazards
in `PROJECT.json`. The remaining excluded labels are left out because a kill there leaves what a kill a few
steps later leaves, or an emptier directory.

`images_defs` lets a clean meet a definition that does not load. clean.rs:133 skips it, so the app's image is
forgotten although clean.rs:125 speaks of apps that no longer exist; `BuildKeepsBase` holds nevertheless.

`sync` leaves out stops after the branch has moved (`diff_trees`, `checkout`) and a second branch. `SyncDelivers` does not
hold with either. In the first case the next sync takes the branch for what is checked out (config.rs:454); in the
second there is no local branch of the new name, so nothing is compared (config.rs:460) and deleted apps stay. A first
sync stopped before it has recorded the URL (config.rs:533-542) is in the instance: `SyncDelivers` holds, but since
the `.git` has no URL every later sync fails, until someone removes the directory.

Fairness. `Images!FairSpec`: each process is scheduled, downloads end one way or the other, and an install script ends;
nothing makes an app end, a user act or a registry answer well. `Runs!FairSpec`: the main thread, the handlers
and `forward_loop` are scheduled, `fuse-overlayfs` mounts or fails, and the helper gets past joining the namespaces. It is not
assumed that an app ends or that a helper which hangs ever returns: `RunReturns` holds
because `Forwarder::drop` kills the helper first. `Forward!FairSpec`: the thread of a run goes on scanning, by the clock.

`Localnet!LiveSpec`: the tasks of flows are scheduled and a connect ends, by the kernel's timeout at the latest; a relayed flow need
not end. `Terminal!FairSpec`: the threads are scheduled, the main one takes a pending SIGWINCH if no other does, and the user's terminal takes output
or fails; an app need not end, nor the user resize.

Deadlock checking is off in `runs`, `runs_twice`, `launch` and `terminal`: every process there ends and starts no other.

### Disagreements between the code and its comments

1. `images_twice`: two extractions of one layer share the staging directory (store.rs:185).
2. `images_sweep`: a collection takes what a pull in another process has not recorded yet (clean.rs:104).
3. `runs_twice`: `FORWARDED` survives its container, so a signal meant for the next one is dropped (runtime.rs:422).
4. runtime.rs:347-348 says of `run()`: "Everything the run created is deleted before returning." That is false of a run that fails before its
   container is published. It returns by `?`, and state, bundle or overlay may stay. The worst case is `into_master()` failing at runtime.rs:411, after
   `build()`: the container stays as created, its mount busy, with its bundle and state, until a `climate clean`. No run is
   spent on it: `CleanedUp` names the case, and without that exception TLC violates it in eleven steps (mounted, created, `into_master` fails,
   unmounting fails since the container holds the mount, returned).

Known limits of the code that no run is spent on have a note in `PROJECT.json`: the pid is collected well before forwarding to it
stops (runtime.rs:163 and 448); a mirror that got one of a port's two addresses hides a service of the host on the other
(forward.rs:344); `File::create` empties a shared file that a user wrote since `exists()` (spec.rs:298); a resize between the
first setting of the size and the handler's installation waits for the next one (runtime.rs:138-275); an error in a
relayed connection is not passed on to the container (localnet.rs:336).

## 4. Proofs

Every safety and action property that a passing run checks is also a theorem, for every value of the constants. Eight
modules hold them. `tlapm M.tla` checks one; `ImagesProofs` takes some minutes, the others less. Where a theorem needs a hypothesis
that the code does not guarantee, it is named, and listed here: without it a property that is proved under it is false, as
TLC shows on instances like those of section 3 (of `GcLeavesOnlyLive` no counterexample
without `LayersApart` is known; the one without `NetFilesApart` is an argument, given where it is defined).

| Hypothesis | Says | Why it is there |
|---|---|---|
| `OneProcess` | one process has the store to itself | two share names without a lock: `images_sweep` (clean.rs:104) |
| `NoEdits` | every definition loads, all along | a definition that is edited behind the loop is counted in the end |
| `LayersApart` | no manifest names a layer twice | two extractions of one layer share their directory: `images_twice` (store.rs:185) |
| `NoTornKill` | no kill while a manifest is rewritten in place or a directory's entries are being deleted | leaves a torn manifest or a partial layer that counts as whole (store.rs:107, 174) |
| `NoRecordKill` | no kill between a clean's removals of records, or in the middle of writing one | leaves a build without its base, or an empty record |
| `NoDiscard` | no job has a discard pipe | its thread's handler can store a signal after the main thread has looked (runtime.rs:210) |
| `NetFilesApart` | no definition has climate create `/etc/resolv.conf` or `/etc/hosts` | created between `mountpoints` and `build` they are mounted unlisted (spec.rs:29, 379); a user's climate cannot write there |
| `OneSync`, `OneBranch`, `NoLateStop` | see the kill points above | config.rs:454, 464, 473 |

### Images

`ImagesProofs` proves, for any number of processes, apps, references, manifests and builds that satisfy
`ConstantsAssumption`, with every kill point and every edit of a definition:

- `TypeCorrect`: `Spec => []TypeOK`;
- `GcSafe`: `Spec => []GcSparesStable`. A collection has no deletion pending against a part of an image whose record
  has not been written since the collection listed `refs/`.

Both follow from `Inductive`: `Spec => []IInv`, with `IInv == TypeOK /\ FrameOK /\ GcOK`. `TypeOK` is not inductive: that
`built[bid[p]]` is a manifest, that a running future has a layer and that `doomed` is a directory depend on the
program counter, which is what `FrameOK` says. `GcSparesStable` speaks of deletions and must be carried through
the scan before them: `CoverOK` says of each record that is still unwritten that it is still to be read, is
being read, or that its manifest, config and layers are in the live sets; `SpareOK` says that what is in the live sets is
not among the victims. A write to a record takes it out of `stable`; other processes' steps never touch one's live sets.

With `OneProcess`, for any apps, images, futures at once and command sequences:

- `UpdateReaches` (and `NoEdits`): `[]UpdateReachesAll`. The invariant `LInv` ties the loop's position to what is behind it: `ReachedOK`
  says that each app up to `nextApp` is dealt with or is the current one, `CurrentOK` that its image has not been asked for yet
  when `resolve_tag` comes, and `AskedOK` counts the queries for an image against the failures of its apps plus the one answered.
  `KeysOK` says that no record disappears while the loop goes on. A step is a move that leaves the loop alone, a query, a return of `ensure`
  or `next_app`; the proof is by these four, not by some fifty actions. It uses that `app_names()` repeats no name (config.rs:222).
- `RecordedStaysIntact`, `PullDeliversImage`, `GcLeavesLive` (and `LayersApart`, `NoTornKill`): `[]RecordedIntact`, `[]PullDelivers` and
  `GcLeavesOnlyLive`, with a kill at any other label, whatever the TLC run leaves out. They rest on `StoreInductive`. Its invariant `SInv` must say what
  is true between the points the properties look at: what `fetch_image` (`FetchOK`), its futures (`TaskOK`) and a build (`BuildOK`) have stored at
  each label, and that no blob or layer is there in part but the one being written or deleted (`SoundOK`). That a record is only written for a complete image
  follows from these. That a collection spares it follows from `GcSafe`'s argument, with every record stable as nobody else writes one; and that
  it leaves nothing else from `SweepOK`: what exists and is not live is on the list that is being worked off.
- `BuildsKeepBase` (and `NoRecordKill`): `[]BuildKeepsBase`, with definitions that break, go and come back at any time. `KInv` adds that a
  build's record implies its base's, or both are on a clean's list, the build's first or still to come.

TLC checked these invariants on the instances of the runs before they were proved: `SInv` and `LInv` on `images` (3.0 M states, with every kill
point `NoTornKill` allows), `SInv` and `KInv` on that of `images_defs` (345 k states, with every one `NoRecordKill` allows too).

### Runs

`RunsProofs` proves, for any number of processes, containers in turn, signals and collections, with SIGKILL at any point, all safety
properties of the run: `RunsTypeCorrect`, `RunsGentleOnce`, `RunsWaitTrue`, `RunsCleanedUp`, `RunsUndisturbed`, `RunsPruneFrees`, and under
`NoDiscard` also `RunsFirstSignals`. `IInv` has a part for each:

- `TokenOK`: passing on a gentle signal takes a right that the swap of `FORWARDED` gives once, to one frame of one handler on one thread or to the main
  thread. It speaks of each frame of each stack, as handlers interrupt one another;
- `AimOK`: whoever has passed the check of the pid aims at a container, not at pid 0;
- `RunOK`: what exists of the current run at each point, and that a later run has left no trace yet. `EndOK` is the order of the drops, and
  `EarlyOK` what a run that failed before it published its container can have left: an app that has not started, and its mount, and that only of an interactive run;
- `StopOK`, `EntryOK` and `OrphanOK`: a live container without a state directory is a `survivor`; a collection only visits runs that are dead; what was an
  orphan when it began is freed or in the part of the listing ahead. `Ahead` has a case for each of the three passes, since the bundle may go only
  after the state, and the overlay after both.

`FirstOK`, for `RunsFirstSignals`, follows a signal that is due: it is in a handler's frame, in `PENDING_SIGNAL` before the main thread's swap, or in the main
thread's hands. A handler that still holds a pid of 0 after the publication would break it, and is excluded on the main thread because it runs to its end
before the main thread goes on.

### Terminal

`TerminalProofs` proves `TerminalTypeCorrect`, `TerminalNoStrayWrite` and `TerminalRestored` for any pipe, reads, resizes and output. `NoStrayWrite` holds of
handlers that interrupt the main thread, and for a reason of order: `RESIZE_PIPE` is cleared before the pipe is closed, and a handler that
has loaded it is on top of the main thread's stack, so nothing is closed under it (`PipeOK`). `ModeOK` and `OutputOK` say that raw mode spans the output thread.

### Forward, Sync, Launch and Localnet

`ForwardProofs` proves, for any number of runs, ports and addresses that satisfy `ForwardAssumption`,
`TypeCorrect` (`Spec => []TypeOK`) and `NeverLoops` (`Spec => []NoLoop`). `NoLoop` alone is not inductive, as a bind
adds a mirror; `ScanOK` says that while a run binds, its mirrors and those it still wants are the ones its scan
called for, and `outbound` and `inbound` of a scan are disjoint. The three lemmas on steps that add no
mirror (`Fewer`) deal with every other action.

`SyncProofs` proves, for any files, commits and contents that satisfy `SyncAssumption`, `TypeCorrect` (`Spec => []TypeOK`)
for any number of syncs stopped anywhere, and `Delivers`: `Spec => []SyncDelivers` under `OneSync`, `OneBranch` and
`NoLateStop`. None can be spared (see the kill points above; two syncs at once may each check out a part of another commit). The invariant `IInv` adds that the files are
those of the commit the branch is at (`RestOK`) unless a sync has moved the branch and is still checking out; then
every path it has done is as in the new commit and the others need no change (`AheadOK`). `CountsWhatChanged` (`Spec => []CountsTrue`, under
the same three) adds that until the checkout the files are those the sync began with, and from then on the counts are those
between them and the new commit (`CountOK`).

`Refines` (`Spec => AdoptsPublished`, under the same three assumptions) shows that `Sync` implements `Definitions`: the
initial states map to initial states; `fetch` takes a commit the default branch is at, so `tip` is published from then on; the
first steps of a checkout leave `Shown` alone, its last is `Adopt`, and what `push` adds to `published` is `Publish`. It rests on the invariant of
`Delivers`: `Shown` stays put only because the files were those of `from` when the checkout began.

`LaunchProofs` proves, for any definitions, hosts, shares, limits and lists that satisfy the assumptions of `Limits`, `Seccomp` and `Launch`,
`HeldToLimits`, `OwnDecisionsPrevail` and `CheckTells`. Two lemmas are about pure operators: `AcceptedHold` (limits that `resources` accepts
satisfy `HoldsTo`, by arithmetic on sizes that have been parsed) and `OwnPolicy` (a profile gives the app's decisions). The
invariant `PInv` links them to the launch: a definition beyond `begin` is one `load` accepted; each entry a pass has gone through is
one `check` accepts; a launch that failed for its definition failed at an entry or at the limits; so at `start`
every entry has passed, and when `why` is "definition" one has not.

`MountProofs` adds, about the host: `LaunchTypeCorrect`, `LaunchKeepsShares` (`Spec => SharesKept`) and, under `NetFilesApart`, `MountsFindPoints`
(`Spec => []PointsMatch`). `HInv` says that the shares a pass has listed are its entries' (`SharesOK`), and that what was there when a launch began
is still there unless a user has touched it (`KeptOK`), so that a path about to be created was not. `MInv` adds what connects the two passes: whatever `mountpoints`
listed a point for is still of that kind when `build` looks again (`Pointed`), as other launches only create what is missing. It
excepts the paths users touch, as the property does. TLC checked `MInv` and `NetFilesApart` on the instance of `launch` (1.47 M states). `TypedAssumption` says of a definition
that loads that it has the keys of `Defaults` and no others, which `deny_unknown_fields` and the defaults see to (config.rs:28-90).

`LocalnetProofs` proves, for any widths, routes and addresses that satisfy `LocalnetAssumption`, `LocalnetTypeCorrect`, `KeepsToDevice`,
`StaysOnLink` and `OwnNetworksReached`. `KeepsToDevice`
needs only that a flow keeps its interface while it holds one. `StaysOnLink` needs that the two ways of comparing prefixes agree
(shifting and masking, by division with remainder), so that the routes `egress` judges are those the kernel picks from: if all the best are on
link, no way among them is `beyond`, and one interface's best routes are among them or less specific than them. `OwnNetworksReached` is the other direction: where every
route the kernel may pick is on link, `egress` approves (`[]LanReached`), so the check is neither too loose nor too strict.

Only model-checked is all liveness (`CommandEnds`, `RunReturns`, `Reachable`, `MirrorsGo`, `TcpAnswered`, `SizeFollows`, `RunEnds`): it needs fairness and `ENABLED`,
which are out of the prover's reach. What the three violated properties say is false of the code, and TLC shows it.

## 5. Not modelled, and the plan

`show.rs`, `xtask` and the byte formats are left out for good: they are output, generation and pure conversion. So are `climate link`
and `list`, and the connections through the bridge's mirrors, whose threads copy bytes and share no state.
In the order of the plan:

1. weaker hypotheses: `UpdateReaches` with definitions that are edited before the loop has begun;
2. `RunsFirstSignals` with a discard pipe whose thread takes no signal, and the lemmas on the frames of a stack it shares with `TokenOK`;
3. an abstract store (recorded images and nothing else) that `Images` restricted to one process refines, and an
   abstract run (mounted, running, freed) for `Runs`;
4. the excluded kill and stop points and the second branch, with what recovers from them, where they can share a run;
5. two syncs at once: what the last to end should leave;
6. the discard pipe's thread, where a handler can lose a signal (runtime.rs:210).
