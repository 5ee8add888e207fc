----------------------------- MODULE RunsProofs -----------------------------
(***************************************************************************)
(* What a run of a container promises, and what `climate clean` does, for  *)
(* any number of processes, of runs one after the other and of signals,    *)
(* with SIGKILL at any point.                                              *)
(***************************************************************************)
EXTENDS Runs, SequenceTheorems, TLAPS

-----------------------------------------------------------------------------
(* The inductive invariant *)

\* Where the helper, the container and the thread of a run cannot be yet, where
\* the thread may be, and where thread and helper are no more
EarlyPcs ==
    {"idle", "mount_new", "mount_wait", "create_bundle", "install", "create_state",
     "create_init", "publish", "swap_pending", "swap_forwarded", "kill_pending", "bridge"}
UnmadePcs == {"mount_wait", "create_bundle", "install", "create_state", "create_init"}
ThreadPcs == {"start", "wait", "drop_kill", "drop_join"}
LatePcs == {"unpublish", "delete", "remove_bundle", "unmount", "returned"}
AfterPcs == {"drop_kill", "drop_join", "exited", "dead"} \cup LatePcs

\* A run that has not begun has left no trace.
Fresh(i) ==
    /\ overlay[i] = "none" /\ fuse[i] = "none" /\ ~bundle[i] /\ ~state[i]
    /\ init[i] = "none" /\ status[i] = "none" /\ helper[i] = "none" /\ thread[i] = "none"
FreshOK(p) ==
    \A n \in RunNo : n > run[p] \/ (n = run[p] /\ pc[p] \in {"idle", "mount_new"})
                        => Fresh(<<p, n>>)

\* What belongs to the current run at each point of it
MountOK(p) ==
    /\ fuse[r(p)] = "started" => pc[p] \in {"mount_wait", "exited", "dead"}
    /\ pc[p] = "mount_wait" /\ fuse[r(p)] = "ok" => overlay[r(p)] = "mounted"
    /\ pc[p] \in MountedPcs => overlay[r(p)] = "mounted"
    /\ pc[p] \in MountedPcs \ {"create_bundle"} => bundle[r(p)]
    /\ pc[p] \in ContainerPcs => state[r(p)]
    /\ pc[p] \in UnmadePcs => init[r(p)] = "none"
ForwarderOK(p) ==
    /\ pc[p] \in EarlyPcs => helper[r(p)] = "none"
    /\ pc[p] \in LatePcs => helper[r(p)] \notin HelperAlive
    /\ thread[r(p)] # "none" => helper[r(p)] # "none"
    /\ thread[r(p)] \in {"poll", "ask"} => pc[p] \in ThreadPcs
ResultOK(p) ==
    /\ result[p] # "none" => pc[p] \in AfterPcs
    /\ result[p] = "early" => pc[p] \in {"unmount", "returned", "exited", "dead"}
    /\ result[p] = "zero" => status[r(p)] = "zero" /\ init[r(p)] = "reaped"
EndOK(p) ==
    /\ pc[p] = "remove_bundle" \/ (pc[p] = "unmount" /\ result[p] # "early") =>
         ~state[r(p)] /\ init[r(p)] \notin InitAlive
    /\ pc[p] = "unmount" /\ result[p] # "early" => ~bundle[r(p)]
    /\ pc[p] = "returned" /\ result[p] # "early" => ~Leaves(r(p))
\* Of the early returns, only that of publish() leaves a container and a mount.
EarlyOK(p) ==
    /\ pc[p] \in {"publish", "unmount", "returned"} => init[r(p)] # "running"
    /\ \/ pc[p] \in {"unmount", "returned"} /\ init[r(p)] \in InitAlive
       \/ pc[p] = "returned" /\ overlay[r(p)] = "mounted"
       => result[p] = "early" /\ job[p].tty
RunOK(p) ==
    FreshOK(p) /\ MountOK(p) /\ ForwarderOK(p) /\ ResultOK(p) /\ EndOK(p) /\ EarlyOK(p)

\* The right to pass on a signal that is not SIGKILL is given once, by the swap
\* of FORWARDED, to an invocation of the handler or to the main thread.
Passing(p, t, k) == k \in DOMAIN stack[p][t] /\ stack[p][t][k].at = "pass"
TokenOK(p) ==
    /\ gentle[p] <= 1
    /\ ~FORWARDED[p] => gentle[p] = 0
    /\ ~FORWARDED[p] \/ gentle[p] = 1 =>
         pc[p] # "kill_pending" /\ \A t \in Threads, k \in Nat : ~Passing(p, t, k)
    /\ pc[p] = "kill_pending" => \A t \in Threads, k \in Nat : ~Passing(p, t, k)
    /\ \A t, u \in Threads, k, m \in Nat :
         Passing(p, t, k) /\ Passing(p, u, m) => t = u /\ k = m

\* A handler sends signals to a container, never to pid 0.
Aimed == {f \in Frames : f.at \in {"swap", "kill", "pass"} => f.to \in RunNo}
AimOK(p) == \A t \in Threads : stack[p][t] \in Seq(Aimed)

\* The first container of a process: where its pid is not published yet, and is
UnpublishedPcs ==
    {"idle", "mount_new", "mount_wait", "create_bundle", "install", "create_state",
     "create_init", "publish"}
PublishedPcs ==
    {"swap_pending", "swap_forwarded", "kill_pending", "bridge", "helper_wait", "start", "wait"}
Waiting == {f \in Frames : f.at \in {"load", "store"}}
NotStoring == {f \in Frames : f.at # "store"}
OtherOK(p) == stack[p]["other"] # <<>> => thread[r(p)] \in {"poll", "ask"}
FirstFramesOK(p) ==
    run[p] = 1 =>
        /\ pc[p] \in UnpublishedPcs =>
             CONTAINER_PID[p] = 0 /\ ~FORWARDED[p] /\ stack[p]["main"] \in Seq(Waiting)
        /\ pc[p] \in PublishedPcs =>
             CONTAINER_PID[p] # 0 /\ \A t \in Threads : stack[p][t] \in Seq(NotStoring)
DueOK(p) ==
    run[p] = 1 /\ pc[p] \in UnpublishedPcs \cup PublishedPcs /\ due[p] =>
        \/ Interrupted(p)
        \/ /\ pc[p] \in UnpublishedPcs \cup {"swap_pending"}
           /\ PENDING_SIGNAL[p] # NoSignal /\ ~FORWARDED[p]
        \/ pc[p] = "swap_forwarded" /\ ~FORWARDED[p]
        \/ pc[p] = "kill_pending"
FirstOK(p) == OtherOK(p) /\ FirstFramesOK(p) /\ DueOK(p)

\* A collection visits what nobody uses, and everything that was an orphan when
\* it began is freed or still ahead of it.
StopOK == \A i \in RunIds : init[i] \in InitAlive => state[i] \/ i \in survivors
EntryOK(c) ==
    /\ at[c] \in {"unmount", "remove"} => entry[c] \in RunIds
    /\ entry[c] # None => ~alive(entry[c])
Ahead(c, i) ==
    /\ at[c] = "containers" /\ state[i] => i \in todo[c]
    /\ at[c] \in {"bundles", "overlays", "unmount", "remove", "pruned"} =>
         ~state[i] /\ init[i] \notin InitAlive
    /\ at[c] = "bundles" /\ bundle[i] => i \in todo[c]
    /\ at[c] \in {"overlays", "unmount", "remove", "pruned"} => ~bundle[i]
    /\ at[c] \in {"overlays", "unmount", "remove"} /\ overlay[i] # "none" =>
         i \in todo[c] \/ (i = entry[c] /\ at[c] # "overlays")
    /\ at[c] = "pruned" => overlay[i] = "none"
OrphanOK(c) == \A i \in orphans[c] : ~alive(i) /\ (i \in survivors \/ Ahead(c, i))
IInv ==
    /\ TypeOK
    /\ \A p \in Runners : RunOK(p) /\ TokenOK(p) /\ AimOK(p)
    /\ StopOK
    /\ \A c \in Cleaners : EntryOK(c) /\ OrphanOK(c)
-----------------------------------------------------------------------------
(* Types *)

\* The conjuncts of TypeOK, one for each group of variables
DiskType ==
    /\ overlay \in [RunIds -> {"none", "dir", "mounted"}]
    /\ fuse \in [RunIds -> {"none", "started", "ok", "failed"}]
    /\ bundle \in [RunIds -> BOOLEAN]
    /\ state \in [RunIds -> BOOLEAN]
ProcType ==
    /\ init \in [RunIds -> {"none", "created", "running", "zombie", "reaped"}]
    /\ status \in [RunIds -> {"none", "zero", "nonzero"}]
FwdType ==
    /\ helper \in [RunIds -> HelperAlive \cup {"none", "zombie", "reaped"}]
    /\ thread \in [RunIds -> {"none", "poll", "ask", "ended"}]
MainType ==
    /\ pc \in [Runners -> MainPcs]
    /\ run \in [Runners -> RunNo]
    /\ job \in [Runners -> Jobs \cup {NoJob}]
    /\ result \in [Runners -> {"none", "early", "err", "zero", "nonzero"}]
    /\ handlers \in [Runners -> BOOLEAN]
SigType ==
    /\ stack \in [Runners -> [Threads -> Seq(Frames)]]
    /\ CONTAINER_PID \in [Runners -> 0..MaxRuns]
    /\ PENDING_SIGNAL \in [Runners -> Signals \cup {NoSignal}]
    /\ FORWARDED \in [Runners -> BOOLEAN]
HistType ==
    /\ received \in [Runners -> 0..MaxSignals]
    /\ gentle \in [Runners -> Nat]
    /\ due \in [Runners -> BOOLEAN]
PruneType ==
    /\ at \in [Cleaners -> PruneLabels]
    /\ todo \in [Cleaners -> SUBSET RunIds]
    /\ entry \in [Cleaners -> RunIds \cup {None}]
    /\ orphans \in [Cleaners -> SUBSET RunIds]
    /\ survivors \in SUBSET RunIds

Types ==
    DiskType /\ ProcType /\ FwdType /\ MainType /\ SigType /\ HistType /\ PruneType

LEMMA TypeParts == (TypeOK <=> Types) /\ (TypeOK' <=> Types')
BY DEF TypeOK, Types, DiskType, ProcType, FwdType, MainType, SigType, HistType, PruneType

\* A step that leaves a group of variables alone keeps its type.
LEMMA Unchanged ==
    /\ DiskType /\ UNCHANGED diskVars => DiskType'
    /\ ProcType /\ UNCHANGED procVars => ProcType'
    /\ FwdType /\ UNCHANGED fwdVars => FwdType'
    /\ MainType /\ UNCHANGED mainVars => MainType'
    /\ SigType /\ UNCHANGED sigVars => SigType'
    /\ HistType /\ UNCHANGED histVars => HistType'
    /\ PruneType /\ UNCHANGED pruneVars => PruneType'
<1>1. DiskType /\ UNCHANGED diskVars => DiskType'
  BY DEF DiskType, diskVars
<1>2. ProcType /\ UNCHANGED procVars => ProcType'
  BY DEF ProcType, procVars
<1>3. FwdType /\ UNCHANGED fwdVars => FwdType'
  BY DEF FwdType, fwdVars
<1>4. MainType /\ UNCHANGED mainVars => MainType'
  BY DEF MainType, mainVars
<1>5. SigType /\ UNCHANGED sigVars => SigType'
  BY DEF SigType, sigVars
<1>6. HistType /\ UNCHANGED histVars => HistType'
  BY DEF HistType, histVars
<1>7. PruneType /\ UNCHANGED pruneVars => PruneType'
  BY DEF PruneType, pruneVars, histPrune
<1> QED BY <1>1, <1>2, <1>3, <1>4, <1>5, <1>6, <1>7

LEMMA RunIdTypes ==
    ASSUME MainType, NEW p \in Runners
    PROVE  r(p) \in RunIds
BY DEF MainType, r, RunIds

\* The handler's stack: what an invocation, its end and its progress leave
LEMMA StackTypes ==
    ASSUME NEW S, NEW s \in Seq(S), NEW f \in S
    PROVE  /\ <<f>> \o s \in Seq(S)
           /\ s # <<>> => /\ Head(s) \in S
                          /\ Tail(s) \in Seq(S)
                          /\ <<f>> \o Tail(s) \in Seq(S)
<1>1. <<f>> \in Seq(S)
  OBVIOUS
<1>2. s # <<>> => Head(s) \in S /\ Tail(s) \in Seq(S)
  BY HeadTailProperties
<1> QED BY <1>1, <1>2, ConcatProperties

\* The main thread
LEMMA MainTypes ==
    ASSUME TypeOK, NEW p \in Runners, Main(p), UNCHANGED pruneVars
    PROVE  TypeOK'
<1> USE DEF At, Goto, GoOn, Kept, Early, NotMounted, Fails, Leave
<1>1. /\ DiskType /\ ProcType /\ FwdType /\ MainType /\ SigType /\ HistType /\ PruneType
      /\ r(p) \in RunIds
  BY TypeParts, RunIdTypes DEF Types
<1>2. CASE mount_new(p)
  <2>1. DiskType'
    BY <1>2, <1>1 DEF mount_new, DiskType
  <2>2. MainType'
    BY <1>2, <1>1 DEF mount_new, MainType, MainPcs
  <2> QED
    BY <1>2, <1>1, <2>1, <2>2, Unchanged, TypeParts
    DEF Types, mount_new
<1>3. CASE mount_wait(p)
  <2>1. DiskType'
    BY <1>3, <1>1 DEF mount_wait, DiskType
  <2>2. MainType'
    BY <1>3, <1>1 DEF mount_wait, MainType, MainPcs
  <2> QED
    BY <1>3, <1>1, <2>1, <2>2, Unchanged, TypeParts
    DEF Types, mount_wait
<1>4. CASE create_bundle(p)
  <2>1. DiskType'
    BY <1>4, <1>1 DEF create_bundle, DiskType
  <2>2. MainType'
    BY <1>4, <1>1 DEF create_bundle, MainType, MainPcs
  <2> QED
    BY <1>4, <1>1, <2>1, <2>2, Unchanged, TypeParts
    DEF Types, create_bundle
<1>5. CASE install(p)
  <2>1. MainType'
    BY <1>5, <1>1 DEF install, MainType, MainPcs
  <2> QED
    BY <1>5, <1>1, <2>1, Unchanged, TypeParts
    DEF Types, install
<1>6. CASE create_state(p)
  <2>1. DiskType'
    BY <1>6, <1>1 DEF create_state, DiskType
  <2>2. MainType'
    BY <1>6, <1>1 DEF create_state, MainType, MainPcs
  <2> QED
    BY <1>6, <1>1, <2>1, <2>2, Unchanged, TypeParts
    DEF Types, create_state
<1>7. CASE create_init(p)
  <2>1. DiskType'
    BY <1>7, <1>1 DEF create_init, DiskType
  <2>2. ProcType'
    BY <1>7, <1>1 DEF create_init, ProcType
  <2>3. MainType'
    BY <1>7, <1>1 DEF create_init, MainType, MainPcs
  <2> QED
    BY <1>7, <1>1, <2>1, <2>2, <2>3, Unchanged, TypeParts
    DEF Types, create_init
<1>8. CASE publish(p)
  <2>1. MainType'
    BY <1>8, <1>1 DEF publish, MainType, MainPcs
  <2>2. SigType'
    BY <1>8, <1>1 DEF publish, SigType, RunNo, MainType
  <2> QED
    BY <1>8, <1>1, <2>1, <2>2, Unchanged, TypeParts
    DEF Types, publish
<1>9. CASE swap_pending(p)
  <2>1. MainType'
    BY <1>9, <1>1 DEF swap_pending, MainType, MainPcs
  <2>2. SigType'
    BY <1>9, <1>1 DEF swap_pending, SigType
  <2> QED
    BY <1>9, <1>1, <2>1, <2>2, Unchanged, TypeParts
    DEF Types, swap_pending
<1>10. CASE swap_forwarded(p)
  <2>1. MainType'
    BY <1>10, <1>1 DEF swap_forwarded, MainType, MainPcs
  <2>2. SigType'
    BY <1>10, <1>1 DEF swap_forwarded, SigType
  <2> QED
    BY <1>10, <1>1, <2>1, <2>2, Unchanged, TypeParts
    DEF Types, swap_forwarded
<1>11. CASE kill_pending(p)
  <2>1. ProcType'
    BY <1>11, <1>1 DEF kill_pending, ProcType, Deliver
  <2>2. MainType'
    BY <1>11, <1>1 DEF kill_pending, MainType, Deliver, MainPcs
  <2>3. HistType'
    BY <1>11, <1>1 DEF kill_pending, HistType, Deliver
  <2> QED
    BY <1>11, <1>1, <2>1, <2>2, <2>3, Unchanged, TypeParts
    DEF Types, kill_pending, Deliver
<1>12. CASE bridge_start(p)
  <2>1. FwdType'
    BY <1>12, <1>1 DEF bridge_start, FwdType, HelperAlive
  <2>2. MainType'
    BY <1>12, <1>1 DEF bridge_start, MainType, MainPcs
  <2> QED
    BY <1>12, <1>1, <2>1, <2>2, Unchanged, TypeParts
    DEF Types, bridge_start
<1>13. CASE helper_wait(p)
  <2>1. FwdType'
    BY <1>13, <1>1 DEF helper_wait, FwdType, HelperAlive
  <2>2. MainType'
    BY <1>13, <1>1 DEF helper_wait, MainType, MainPcs
  <2> QED
    BY <1>13, <1>1, <2>1, <2>2, Unchanged, TypeParts
    DEF Types, helper_wait
<1>14. CASE start(p)
  <2>1. ProcType'
    BY <1>14, <1>1 DEF start, ProcType
  <2>2. MainType'
    BY <1>14, <1>1 DEF start, MainType, MainPcs
  <2> QED
    BY <1>14, <1>1, <2>1, <2>2, Unchanged, TypeParts
    DEF Types, start
<1>15. CASE wait(p)
  <2>1. ProcType'
    BY <1>15, <1>1 DEF wait, ProcType
  <2>2. FwdType'
    BY <1>15, <1>1 DEF wait, FwdType, HelperAlive
  <2>3. MainType'
    BY <1>15, <1>1 DEF wait, MainType, MainPcs, ProcType
  <2> QED
    BY <1>15, <1>1, <2>1, <2>2, <2>3, Unchanged, TypeParts
    DEF Types, wait
<1>16. CASE drop_kill(p)
  <2>1. FwdType'
    BY <1>16, <1>1 DEF drop_kill, FwdType, HelperAlive
  <2>2. MainType'
    BY <1>16, <1>1 DEF drop_kill, MainType, MainPcs
  <2> QED
    BY <1>16, <1>1, <2>1, <2>2, Unchanged, TypeParts
    DEF Types, drop_kill
<1>17. CASE drop_join(p)
  <2>1. FwdType'
    BY <1>17, <1>1 DEF drop_join, FwdType, HelperAlive
  <2>2. MainType'
    BY <1>17, <1>1 DEF drop_join, MainType, MainPcs
  <2> QED
    BY <1>17, <1>1, <2>1, <2>2, Unchanged, TypeParts
    DEF Types, drop_join
<1>18. CASE unpublish(p)
  <2>1. MainType'
    BY <1>18, <1>1 DEF unpublish, MainType, MainPcs
  <2>2. SigType'
    BY <1>18, <1>1, RuntimeAssumption DEF unpublish, SigType
  <2> QED
    BY <1>18, <1>1, <2>1, <2>2, Unchanged, TypeParts
    DEF Types, unpublish
<1>19. CASE delete(p)
  <2>1. DiskType'
    BY <1>19, <1>1 DEF delete, DiskType, DeleteContainer
  <2>2. ProcType'
    BY <1>19, <1>1 DEF delete, ProcType, DeleteContainer
  <2>3. MainType'
    BY <1>19, <1>1 DEF delete, MainType, DeleteContainer, MainPcs
  <2> QED
    BY <1>19, <1>1, <2>1, <2>2, <2>3, Unchanged, TypeParts
    DEF Types, delete
<1>20. CASE remove_bundle(p)
  <2>1. DiskType'
    BY <1>20, <1>1 DEF remove_bundle, DiskType
  <2>2. MainType'
    BY <1>20, <1>1 DEF remove_bundle, MainType, MainPcs
  <2> QED
    BY <1>20, <1>1, <2>1, <2>2, Unchanged, TypeParts
    DEF Types, remove_bundle
<1>21. CASE unmount(p)
  <2>1. DiskType'
    BY <1>21, <1>1 DEF unmount, DiskType
  <2>2. MainType'
    BY <1>21, <1>1 DEF unmount, MainType, MainPcs
  <2> QED
    BY <1>21, <1>1, <2>1, <2>2, Unchanged, TypeParts
    DEF Types, unmount
<1> QED BY <1>2, <1>3, <1>4, <1>5, <1>6, <1>7, <1>8, <1>9, <1>10, <1>11, <1>12, <1>13,
       <1>14, <1>15, <1>16, <1>17, <1>18, <1>19, <1>20, <1>21 DEF Main

\* A signal arrives, and its handler goes on.
LEMMA HandlerTypes ==
    ASSUME TypeOK, NEW p \in Runners, NEW t \in Threads, UNCHANGED pruneVars,
           forward_signal(p, t) \/ \E s \in Signals : receive(p, t, s)
    PROVE  TypeOK'
<1>1. /\ DiskType /\ ProcType /\ FwdType /\ MainType /\ SigType /\ HistType /\ PruneType
      /\ stack[p][t] \in Seq(Frames)
  BY TypeParts DEF Types, SigType
<1>2. stack[p][t] # <<>> => Top(p, t) \in Frames /\ Tail(stack[p][t]) \in Seq(Frames)
  BY <1>1, HeadTailProperties DEF Top
<1>3. ASSUME NEW f \in Frames, Continue(p, t, f), stack[p][t] # <<>>
      PROVE  stack' \in [Runners -> [Threads -> Seq(Frames)]]
  BY <1>1, <1>3, StackTypes DEF Continue, SigType
<1>4. ASSUME Return(p, t), stack[p][t] # <<>>
      PROVE  stack' \in [Runners -> [Threads -> Seq(Frames)]]
  BY <1>1, <1>2, <1>4 DEF Return, SigType
<1>5. ASSUME NEW s \in Signals, receive(p, t, s) PROVE TypeOK'
  <2>1. Frame(s, "load", 0) \in Frames
    BY RuntimeAssumption DEF Frame, Frames
  <2>2. SigType'
    BY <1>1, <1>5, <2>1, StackTypes DEF receive, SigType
  <2>3. HistType'
    BY <1>1, <1>5, RuntimeAssumption DEF receive, HistType
  <2> QED BY <1>1, <1>5, <2>2, <2>3, Unchanged, TypeParts DEF Types, receive
<1>6. CASE handler_load(p, t)
  <2>1. ASSUME NEW label \in {"store", "swap"}
        PROVE  Frame(Top(p, t).signal, label, CONTAINER_PID[p]) \in Frames
    BY <1>1, <1>2, <1>6 DEF handler_load, In, Frame, Frames, SigType
  <2>2. SigType'
    BY <1>1, <1>3, <1>6, <2>1 DEF handler_load, In, SigType
  <2> QED BY <1>1, <1>6, <2>2, Unchanged, TypeParts DEF Types, handler_load
<1>7. CASE handler_store(p, t)
  <2>1. Top(p, t).signal \in Signals
    BY <1>2, <1>7 DEF handler_store, In, Frames
  <2>2. SigType'
    BY <1>1, <1>4, <1>7, <2>1 DEF handler_store, In, SigType
  <2> QED BY <1>1, <1>7, <2>2, Unchanged, TypeParts DEF Types, handler_store
<1>8. CASE handler_swap(p, t)
  <2>1. ASSUME NEW label \in {"kill", "pass"}
        PROVE  [Top(p, t) EXCEPT !.at = label] \in Frames
    BY <1>2, <1>8 DEF handler_swap, In, Frames
  <2>2. SigType'
    BY <1>1, <1>3, <1>8, <2>1 DEF handler_swap, In, SigType
  <2> QED BY <1>1, <1>8, <2>2, Unchanged, TypeParts DEF Types, handler_swap
<1>9. CASE handler_kill(p, t)
  <2>1. ProcType'
    BY <1>1, <1>9 DEF handler_kill, Deliver, ProcType
  <2>2. HistType'
    BY <1>1, <1>9 DEF handler_kill, Deliver, HistType
  <2>3. SigType'
    BY <1>1, <1>4, <1>9 DEF handler_kill, In, SigType
  <2> QED
    BY <1>1, <1>9, <2>1, <2>2, <2>3, Unchanged, TypeParts DEF Types, handler_kill
<1> QED BY <1>5, <1>6, <1>7, <1>8, <1>9 DEF forward_signal

\* What begins and ends a process or one of its runs, and what runs beside it
LEMMA OtherTypes ==
    ASSUME TypeOK, UNCHANGED pruneVars,
           \/ \E p \in Runners : \/ \E j \in Jobs : begin(p, j)
                                 \/ forward_loop(p) \/ exit(p) \/ die(p)
           \/ \E i \in RunIds : Around(i)
    PROVE  TypeOK'
<1>1. DiskType /\ ProcType /\ FwdType /\ MainType /\ SigType /\ HistType /\ PruneType
  BY TypeParts DEF Types
<1>2. ASSUME NEW p \in Runners, NEW j \in Jobs, begin(p, j) PROVE TypeOK'
  <2>1. MainType'
    BY <1>1, <1>2, RuntimeAssumption DEF begin, Goto, MainType, MainPcs, RunNo
  <2> QED BY <1>1, <1>2, <2>1, Unchanged, TypeParts DEF Types, begin
<1>3. ASSUME NEW p \in Runners, forward_loop(p) PROVE TypeOK'
  <2>1. r(p) \in RunIds
    BY <1>1, RunIdTypes
  <2>2. FwdType'
    BY <1>1, <1>3, <2>1 DEF forward_loop, FwdType
  <2> QED BY <1>1, <1>3, <2>2, Unchanged, TypeParts DEF Types, forward_loop
<1>4. ASSUME NEW p \in Runners, NEW label \in {"exited", "dead"}, Gone(p, label)
      PROVE  DiskType' /\ ProcType' /\ FwdType' /\ MainType' /\ SigType'
  <2>1. FwdType'
    BY <1>1, <1>4 DEF Gone, FwdType
  <2>2. MainType'
    BY <1>1, <1>4 DEF Gone, Goto, MainType, MainPcs
  <2>3. NoFrames \in [Threads -> Seq(Frames)]
    BY DEF NoFrames
  <2>4. SigType'
    BY <1>1, <1>4, <2>3 DEF Gone, SigType
  <2> QED BY <1>1, <1>4, <2>1, <2>2, <2>4, Unchanged DEF Gone
<1>5. ASSUME NEW p \in Runners, exit(p) PROVE TypeOK'
  <2>1. HistType'
    BY <1>1, <1>5 DEF exit, Gone, HistType
  <2> QED BY <1>1, <1>4, <1>5, <2>1, Unchanged, TypeParts DEF Types, exit
<1>6. ASSUME NEW p \in Runners, die(p) PROVE TypeOK'
  <2>1. HistType'
    BY <1>1, <1>6, RuntimeAssumption DEF die, Gone, HistType
  <2> QED BY <1>1, <1>4, <1>6, <2>1, Unchanged, TypeParts DEF Types, die
<1>7. ASSUME NEW i \in RunIds, Around(i) PROVE TypeOK'
  <2>1. CASE fuse_mounts(i)
    <3>1. DiskType'
      BY <1>1, <2>1 DEF fuse_mounts, DiskType
    <3> QED BY <1>1, <2>1, <3>1, Unchanged, TypeParts DEF Types, fuse_mounts
  <2>2. CASE app_exits(i)
    <3>1. ProcType'
      BY <1>1, <2>2 DEF app_exits, ProcType
    <3> QED BY <1>1, <2>2, <3>1, Unchanged, TypeParts DEF Types, app_exits
  <2>3. CASE helper_joins(i) \/ helper_stuck(i) \/ helper_ends(i)
    <3>1. FwdType'
      BY <1>1, <2>3 DEF helper_joins, helper_stuck, helper_ends, FwdType, HelperAlive
    <3> QED
      BY <1>1, <2>3, <3>1, Unchanged, TypeParts
      DEF Types, helper_joins, helper_stuck, helper_ends
  <2> QED BY <1>7, <2>1, <2>2, <2>3 DEF Around
<1> QED BY <1>2, <1>3, <1>5, <1>6, <1>7

\* `climate clean`
LEMMA PruneTypes ==
    ASSUME TypeOK, NEW c \in Cleaners, PruneNext(c), EntryOK(c)
    PROVE  TypeOK'
<1> USE DEF Visit, Drop, Fail
<1>1. DiskType /\ ProcType /\ FwdType /\ MainType /\ SigType /\ HistType /\ PruneType
  BY TypeParts DEF Types
<1>2. CASE prune_runtime(c) \/ list_bundles(c) \/ list_overlays(c) \/ prune_done(c)
  <2>1. PruneType'
    BY <1>1, <1>2
    DEF prune_runtime, list_bundles, list_overlays, prune_done, PruneType, PruneLabels, histPrune
  <2>2. UNCHANGED runVars
    BY <1>2 DEF prune_runtime, list_bundles, list_overlays, prune_done
  <2> QED BY <1>1, <2>1, <2>2, Unchanged, TypeParts DEF Types, runVars
<1>3. CASE prune_container(c)
  <2>1. PruneType'
    BY <1>1, <1>3 DEF prune_container, PruneType
  <2>2. DiskType'
    BY <1>1, <1>3 DEF prune_container, DeleteContainer, PruneType, DiskType
  <2>3. ProcType'
    BY <1>1, <1>3 DEF prune_container, DeleteContainer, PruneType, ProcType, procVars
  <2> QED
    BY <1>1, <1>3, <2>1, <2>2, <2>3, Unchanged, TypeParts DEF Types, prune_container
<1>4. CASE prune_bundle(c)
  <2>1. PruneType'
    BY <1>1, <1>4 DEF prune_bundle, PruneType, PruneLabels, histPrune
  <2>2. DiskType'
    BY <1>1, <1>4 DEF prune_bundle, PruneType, DiskType
  <2> QED BY <1>1, <1>4, <2>1, <2>2, Unchanged, TypeParts DEF Types, prune_bundle
<1>5. CASE prune_overlay(c)
  <2>1. PruneType'
    BY <1>1, <1>5 DEF prune_overlay, PruneType, PruneLabels, histPrune
  <2> QED BY <1>1, <1>5, <2>1, Unchanged, TypeParts DEF Types, prune_overlay, runVars
<1>6. CASE prune_unmount(c)
  <2>1. PruneType'
    BY <1>1, <1>6 DEF prune_unmount, PruneType, PruneLabels, histPrune
  <2>2. DiskType'
    BY <1>1, <1>6 DEF prune_unmount, DiskType, EntryOK
  <2> QED BY <1>1, <1>6, <2>1, <2>2, Unchanged, TypeParts DEF Types, prune_unmount
<1>7. CASE prune_remove(c)
  <2>1. PruneType'
    BY <1>1, <1>7 DEF prune_remove, PruneType, PruneLabels, histPrune
  <2>2. DiskType'
    BY <1>1, <1>7 DEF prune_remove, DiskType, EntryOK
  <2> QED BY <1>1, <1>7, <2>1, <2>2, Unchanged, TypeParts DEF Types, prune_remove
<1> QED BY <1>2, <1>3, <1>4, <1>5, <1>6, <1>7 DEF PruneNext

LEMMA NextTypes == TypeOK /\ (\A c \in Cleaners : EntryOK(c)) /\ [Next]_vars => TypeOK'
<1> SUFFICES ASSUME TypeOK, \A c \in Cleaners : EntryOK(c), [Next]_vars PROVE TypeOK'
  OBVIOUS
<1>1. CASE UNCHANGED vars
  BY <1>1, TypeParts, Unchanged DEF Types, vars, runVars
<1>2. CASE RuntimeNext /\ UNCHANGED pruneVars
  BY <1>2, MainTypes, HandlerTypes, OtherTypes DEF RuntimeNext, Handler
<1>3. ASSUME NEW c \in Cleaners, PruneNext(c) PROVE TypeOK'
  BY <1>3, PruneTypes
<1> QED BY <1>1, <1>2, <1>3 DEF Next
-----------------------------------------------------------------------------
(* Runs and processes that a step leaves alone *)

Same(i) ==
    /\ overlay'[i] = overlay[i] /\ fuse'[i] = fuse[i] /\ bundle'[i] = bundle[i]
    /\ state'[i] = state[i] /\ init'[i] = init[i] /\ status'[i] = status[i]
    /\ helper'[i] = helper[i] /\ thread'[i] = thread[i]
SameProcess(p) ==
    /\ pc'[p] = pc[p] /\ run'[p] = run[p] /\ job'[p] = job[p] /\ result'[p] = result[p]
    /\ stack'[p] = stack[p] /\ CONTAINER_PID'[p] = CONTAINER_PID[p]
    /\ PENDING_SIGNAL'[p] = PENDING_SIGNAL[p] /\ FORWARDED'[p] = FORWARDED[p]
    /\ gentle'[p] = gentle[p] /\ due'[p] = due[p]

\* A step of the main thread is about its current run, and begins none.
LEMMA MainElsewhere ==
    ASSUME TypeOK, NEW p \in Runners, Main(p)
    PROVE  /\ \A i \in RunIds \ {r(p)} : Same(i)
           /\ \A q \in Runners \ {p} : SameProcess(q)
           /\ run' = run /\ pc'[p] \notin {"idle", "mount_new"} /\ pc[p] \notin Over
<1> DEFINE Elsewhere ==
             /\ \A i \in RunIds \ {r(p)} : Same(i)
             /\ \A q \in Runners \ {p} : SameProcess(q)
             /\ run' = run /\ pc'[p] \notin {"idle", "mount_new"} /\ pc[p] \notin Over
<1> USE DEF At, Goto, GoOn, Kept, Early, NotMounted, Fails, Leave, Same, SameProcess, Over,
           diskVars, procVars, fwdVars, sigVars, histVars
<1>1. /\ DiskType /\ ProcType /\ FwdType /\ MainType /\ SigType /\ HistType
      /\ r(p) \in RunIds
  BY TypeParts, RunIdTypes DEF Types
<1>2. CASE mount_new(p)
  BY <1>1, <1>2 DEF mount_new, DiskType, ProcType, FwdType, MainType, SigType, HistType
<1>3. CASE mount_wait(p)
  BY <1>1, <1>3 DEF mount_wait, DiskType, ProcType, FwdType, MainType, SigType, HistType
<1>4. CASE create_bundle(p)
  BY <1>1, <1>4 DEF create_bundle, DiskType, ProcType, FwdType, MainType, SigType, HistType
<1>5. CASE install(p)
  BY <1>1, <1>5 DEF install, DiskType, ProcType, FwdType, MainType, SigType, HistType
<1>6. CASE create_state(p)
  BY <1>1, <1>6 DEF create_state, DiskType, ProcType, FwdType, MainType, SigType, HistType
<1>7. CASE create_init(p)
  BY <1>1, <1>7 DEF create_init, DiskType, ProcType, FwdType, MainType, SigType, HistType
<1>8. CASE publish(p)
  BY <1>1, <1>8 DEF publish, DiskType, ProcType, FwdType, MainType, SigType, HistType
<1>9. CASE swap_pending(p)
  BY <1>1, <1>9 DEF swap_pending, DiskType, ProcType, FwdType, MainType, SigType, HistType
<1>10. CASE swap_forwarded(p)
  BY <1>1, <1>10 DEF swap_forwarded, DiskType, ProcType, FwdType, MainType, SigType, HistType
<1>11. CASE kill_pending(p)
  BY <1>1, <1>11 DEF kill_pending, Deliver, DiskType, ProcType, FwdType, MainType, SigType, HistType
<1>12. CASE bridge_start(p)
  BY <1>1, <1>12 DEF bridge_start, DiskType, ProcType, FwdType, MainType, SigType, HistType
<1>13. CASE helper_wait(p)
  BY <1>1, <1>13 DEF helper_wait, DiskType, ProcType, FwdType, MainType, SigType, HistType
<1>14. CASE start(p)
  BY <1>1, <1>14 DEF start, DiskType, ProcType, FwdType, MainType, SigType, HistType
<1>15. CASE wait(p)
  BY <1>1, <1>15 DEF wait, DiskType, ProcType, FwdType, MainType, SigType, HistType
<1>16. CASE drop_kill(p)
  BY <1>1, <1>16 DEF drop_kill, DiskType, ProcType, FwdType, MainType, SigType, HistType
<1>17. CASE drop_join(p)
  BY <1>1, <1>17 DEF drop_join, DiskType, ProcType, FwdType, MainType, SigType, HistType
<1>18. CASE unpublish(p)
  BY <1>1, <1>18 DEF unpublish, DiskType, ProcType, FwdType, MainType, SigType, HistType
<1>19. CASE delete(p)
  BY <1>1, <1>19 DEF delete, DeleteContainer, DiskType, ProcType, FwdType, MainType, SigType, HistType
<1>20. CASE remove_bundle(p)
  BY <1>1, <1>20 DEF remove_bundle, DiskType, ProcType, FwdType, MainType, SigType, HistType
<1>21. CASE unmount(p)
  BY <1>1, <1>21 DEF unmount, DiskType, ProcType, FwdType, MainType, SigType, HistType
<1> QED BY <1>2, <1>3, <1>4, <1>5, <1>6, <1>7, <1>8, <1>9, <1>10, <1>11, <1>12, <1>13,
       <1>14, <1>15, <1>16, <1>17, <1>18, <1>19, <1>20, <1>21 DEF Main

\* The same of a signal and its handler, which may end a container
Shrinks(i) ==
    /\ overlay[i] = "none" => overlay'[i] = "none"
    /\ bundle'[i] => bundle[i]
    /\ state'[i] => state[i]
    /\ \/ init'[i] = init[i] /\ status'[i] = status[i]
       \/ init[i] \in InitAlive /\ init'[i] = "zombie"
    /\ fuse'[i] = fuse[i] /\ helper'[i] = helper[i] /\ thread'[i] = thread[i]
    /\ alive(i) => overlay'[i] = overlay[i] /\ bundle'[i] = bundle[i] /\ state'[i] = state[i]

LEMMA HandlerElsewhere ==
    ASSUME TypeOK, NEW p \in Runners, NEW t \in Threads,
           forward_signal(p, t) \/ \E s \in Signals : receive(p, t, s)
    PROVE  /\ \A i \in RunIds : Shrinks(i)
           /\ \A q \in Runners \ {p} : SameProcess(q)
           /\ UNCHANGED <<mainVars, thread>>
<1> USE DEF Shrinks, SameProcess, diskVars, procVars, fwdVars, mainVars, histVars, Return, Continue
<1>1. ProcType /\ MainType /\ SigType /\ HistType
  BY TypeParts DEF Types
<1>2. ASSUME NEW s \in Signals, receive(p, t, s)
      PROVE  /\ \A i \in RunIds : Shrinks(i)
             /\ \A q \in Runners \ {p} : SameProcess(q)
             /\ UNCHANGED <<mainVars, thread>>
  BY <1>1, <1>2 DEF receive, SigType, HistType
<1>3. CASE handler_load(p, t)
  BY <1>1, <1>3 DEF handler_load, SigType
<1>4. CASE handler_store(p, t)
  BY <1>1, <1>4 DEF handler_store, SigType
<1>5. CASE handler_swap(p, t)
  BY <1>1, <1>5 DEF handler_swap, SigType
<1>6. CASE handler_kill(p, t)
  BY <1>1, <1>6 DEF handler_kill, Deliver, ProcType, SigType, HistType
<1> QED BY <1>2, <1>3, <1>4, <1>5, <1>6 DEF forward_signal

\* A collection frees what dead processes left, and nothing else.
LEMMA PruneElsewhere ==
    ASSUME TypeOK, NEW c \in Cleaners, PruneNext(c), EntryOK(c)
    PROVE  (\A i \in RunIds : Shrinks(i)) /\ UNCHANGED <<mainVars, sigVars, histVars>>
<1> USE DEF Shrinks, diskVars, procVars, fwdVars, mainVars, sigVars, histVars, Drop, Fail, Visit
<1>1. DiskType /\ ProcType /\ PruneType
  BY TypeParts DEF Types
<1>2. CASE prune_runtime(c) \/ list_bundles(c) \/ list_overlays(c) \/ prune_overlay(c)
           \/ prune_done(c)
  BY <1>2 DEF prune_runtime, list_bundles, list_overlays, prune_overlay, prune_done, runVars
<1>3. CASE prune_container(c)
  BY <1>1, <1>3 DEF prune_container, DeleteContainer, DiskType, ProcType
<1>4. CASE prune_bundle(c)
  BY <1>1, <1>4 DEF prune_bundle, DiskType
<1>5. CASE prune_unmount(c)
  BY <1>1, <1>5, RunsAssumption DEF prune_unmount, DiskType, EntryOK
<1>6. CASE prune_remove(c)
  BY <1>1, <1>6, RunsAssumption DEF prune_remove, DiskType, EntryOK
<1> QED BY <1>2, <1>3, <1>4, <1>5, <1>6 DEF PruneNext

\* What begins, ends or threads a process is about its own runs.
LEMMA ProcessElsewhere ==
    ASSUME TypeOK, NEW p \in Runners,
           (\E j \in Jobs : begin(p, j)) \/ forward_loop(p) \/ exit(p) \/ die(p)
    PROVE  /\ \A q \in Runners \ {p}, n \in RunNo : Same(<<q, n>>)
           /\ \A q \in Runners \ {p} : SameProcess(q)
           /\ UNCHANGED <<diskVars, procVars>>
<1> DEFINE Elsewhere == /\ \A q \in Runners \ {p}, n \in RunNo : Same(<<q, n>>)
                        /\ \A q \in Runners \ {p} : SameProcess(q)
                        /\ UNCHANGED <<diskVars, procVars>>
<1> USE DEF Same, SameProcess, diskVars, procVars, fwdVars, mainVars, sigVars, histVars
<1>1. FwdType /\ MainType /\ SigType
  BY TypeParts DEF Types
<1>2. \A q \in Runners, n \in RunNo : <<q, n>> \in RunIds /\ <<q, n>>[1] = q
  BY DEF RunIds
<1>3. ASSUME NEW j \in Jobs, begin(p, j) PROVE Elsewhere
  BY <1>1, <1>3 DEF begin, Goto, MainType
<1>4. CASE forward_loop(p)
  <2>1. PICK v : thread' = [thread EXCEPT ![r(p)] = v]
    BY <1>4 DEF forward_loop
  <2>2. \A q \in Runners \ {p}, n \in RunNo : thread'[<<q, n>>] = thread[<<q, n>>]
    BY <1>1, <1>2, <2>1 DEF FwdType, r
  <2> QED BY <1>4, <2>2 DEF forward_loop
<1>5. CASE exit(p) \/ die(p)
  <2>1. Gone(p, "exited") \/ Gone(p, "dead")
    BY <1>5 DEF exit, die
  <2> QED BY <1>1, <1>2, <2>1 DEF Gone, Goto, FwdType, MainType, SigType
<1> QED BY <1>3, <1>4, <1>5

\* The processes around a run read no variable of its climate process but pc.
LEMMA AroundElsewhere ==
    ASSUME NEW i \in RunIds, Around(i)
    PROVE  UNCHANGED <<mainVars, sigVars, histVars>>
BY DEF Around, fuse_mounts, app_exits, helper_joins, helper_stuck, helper_ends

-----------------------------------------------------------------------------
(* The life of a run *)

\* Each step of the main thread finds its run as the steps before left it.
LEMMA MainRun ==
    ASSUME TypeOK, NEW p \in Runners, RunOK(p), Main(p)
    PROVE  RunOK(p)'
<1> USE DEF At, Goto, GoOn, Kept, Early, NotMounted, Fails, Leave, Leaves, r,
            DiskType, ProcType, FwdType, MainType, diskVars, procVars, fwdVars,
            MountedPcs, ContainerPcs, UnmadePcs, EarlyPcs, ThreadPcs, LatePcs, AfterPcs,
            HelperAlive, InitAlive
<1>1. /\ DiskType /\ ProcType /\ FwdType /\ MainType
      /\ r(p) \in RunIds
  BY TypeParts, RunIdTypes DEF Types
<1>2. FreshOK(p) /\ MountOK(p) /\ ForwarderOK(p) /\ ResultOK(p) /\ EndOK(p) /\ EarlyOK(p)
  BY DEF RunOK
<1>3. FreshOK(p)'
  <2> SUFFICES ASSUME NEW n \in RunNo, n > run[p] PROVE Fresh(<<p, n>>)'
    BY <1>1, MainElsewhere DEF FreshOK
  <2>1. Fresh(<<p, n>>)
    BY <1>2 DEF FreshOK
  <2>2. <<p, n>> \in RunIds \ {r(p)}
    BY <1>1 DEF RunIds, MainType, RunNo
  <2> QED BY <2>1, <2>2, MainElsewhere DEF Fresh, Same
<1>4. CASE mount_new(p)
  <2>1. MountOK(p)'
    BY <1>1, <1>2, <1>4 DEF mount_new, MountOK, FreshOK, Fresh
  <2>2. ForwarderOK(p)'
    BY <1>1, <1>2, <1>4 DEF mount_new, ForwarderOK
  <2>3. ResultOK(p)'
    BY <1>1, <1>2, <1>4 DEF mount_new, ResultOK
  <2>4. EndOK(p)'
    BY <1>1, <1>2, <1>4 DEF mount_new, EndOK
  <2>5. EarlyOK(p)'
    BY <1>1, <1>2, <1>4 DEF mount_new, MountOK, FreshOK, Fresh, EarlyOK
  <2> QED BY <1>3, <2>1, <2>2, <2>3, <2>4, <2>5 DEF RunOK
<1>5. CASE mount_wait(p)
  <2>1. MountOK(p)'
    BY <1>1, <1>2, <1>5 DEF mount_wait, MountOK
  <2>2. ForwarderOK(p)'
    BY <1>1, <1>2, <1>5 DEF mount_wait, ForwarderOK
  <2>3. ResultOK(p)'
    BY <1>1, <1>2, <1>5 DEF mount_wait, ResultOK
  <2>4. EndOK(p)'
    BY <1>1, <1>2, <1>5 DEF mount_wait, EndOK
  <2>5. EarlyOK(p)'
    BY <1>1, <1>2, <1>5 DEF mount_wait, MountOK, EarlyOK
  <2> QED BY <1>3, <2>1, <2>2, <2>3, <2>4, <2>5 DEF RunOK
<1>6. CASE create_bundle(p)
  <2>1. MountOK(p)'
    BY <1>1, <1>2, <1>6 DEF create_bundle, MountOK
  <2>2. ForwarderOK(p)'
    BY <1>1, <1>2, <1>6 DEF create_bundle, ForwarderOK
  <2>3. ResultOK(p)'
    BY <1>1, <1>2, <1>6 DEF create_bundle, ResultOK
  <2>4. EndOK(p)'
    BY <1>1, <1>2, <1>6 DEF create_bundle, EndOK
  <2>5. EarlyOK(p)'
    BY <1>1, <1>2, <1>6 DEF create_bundle, MountOK, EarlyOK
  <2> QED BY <1>3, <2>1, <2>2, <2>3, <2>4, <2>5 DEF RunOK
<1>7. CASE install(p)
  <2>1. MountOK(p)'
    BY <1>1, <1>2, <1>7 DEF install, MountOK
  <2>2. ForwarderOK(p)'
    BY <1>1, <1>2, <1>7 DEF install, ForwarderOK
  <2>3. ResultOK(p)'
    BY <1>1, <1>2, <1>7 DEF install, ResultOK
  <2>4. EndOK(p)'
    BY <1>1, <1>2, <1>7 DEF install, EndOK
  <2>5. EarlyOK(p)'
    BY <1>1, <1>2, <1>7 DEF install, EarlyOK
  <2> QED BY <1>3, <2>1, <2>2, <2>3, <2>4, <2>5 DEF RunOK
<1>8. CASE create_state(p)
  <2>1. MountOK(p)'
    BY <1>1, <1>2, <1>8 DEF create_state, MountOK
  <2>2. ForwarderOK(p)'
    BY <1>1, <1>2, <1>8 DEF create_state, ForwarderOK
  <2>3. ResultOK(p)'
    BY <1>1, <1>2, <1>8 DEF create_state, ResultOK
  <2>4. EndOK(p)'
    BY <1>1, <1>2, <1>8 DEF create_state, EndOK
  <2>5. EarlyOK(p)'
    BY <1>1, <1>2, <1>8 DEF create_state, MountOK, EarlyOK
  <2> QED BY <1>3, <2>1, <2>2, <2>3, <2>4, <2>5 DEF RunOK
<1>9. CASE create_init(p)
  <2>1. MountOK(p)'
    BY <1>1, <1>2, <1>9 DEF create_init, MountOK
  <2>2. ForwarderOK(p)'
    BY <1>1, <1>2, <1>9 DEF create_init, ForwarderOK
  <2>3. ResultOK(p)'
    BY <1>1, <1>2, <1>9 DEF create_init, ResultOK
  <2>4. EndOK(p)'
    BY <1>1, <1>2, <1>9 DEF create_init, EndOK
  <2>5. EarlyOK(p)'
    BY <1>1, <1>2, <1>9 DEF create_init, MountOK, EarlyOK
  <2> QED BY <1>3, <2>1, <2>2, <2>3, <2>4, <2>5 DEF RunOK
<1>10. CASE publish(p)
  <2>1. MountOK(p)'
    BY <1>1, <1>2, <1>10 DEF publish, MountOK
  <2>2. ForwarderOK(p)'
    BY <1>1, <1>2, <1>10 DEF publish, ForwarderOK
  <2>3. ResultOK(p)'
    BY <1>1, <1>2, <1>10 DEF publish, ResultOK
  <2>4. EndOK(p)'
    BY <1>1, <1>2, <1>10 DEF publish, EndOK
  <2>5. EarlyOK(p)'
    BY <1>1, <1>2, <1>10 DEF publish, EarlyOK
  <2> QED BY <1>3, <2>1, <2>2, <2>3, <2>4, <2>5 DEF RunOK
<1>11. CASE swap_pending(p)
  <2>1. MountOK(p)'
    BY <1>1, <1>2, <1>11 DEF swap_pending, MountOK
  <2>2. ForwarderOK(p)'
    BY <1>1, <1>2, <1>11 DEF swap_pending, ForwarderOK
  <2>3. ResultOK(p)'
    BY <1>1, <1>2, <1>11 DEF swap_pending, ResultOK
  <2>4. EndOK(p)'
    BY <1>1, <1>2, <1>11 DEF swap_pending, EndOK
  <2>5. EarlyOK(p)'
    BY <1>1, <1>2, <1>11 DEF swap_pending, EarlyOK
  <2> QED BY <1>3, <2>1, <2>2, <2>3, <2>4, <2>5 DEF RunOK
<1>12. CASE swap_forwarded(p)
  <2>1. MountOK(p)'
    BY <1>1, <1>2, <1>12 DEF swap_forwarded, MountOK
  <2>2. ForwarderOK(p)'
    BY <1>1, <1>2, <1>12 DEF swap_forwarded, ForwarderOK
  <2>3. ResultOK(p)'
    BY <1>1, <1>2, <1>12 DEF swap_forwarded, ResultOK
  <2>4. EndOK(p)'
    BY <1>1, <1>2, <1>12 DEF swap_forwarded, EndOK
  <2>5. EarlyOK(p)'
    BY <1>1, <1>2, <1>12 DEF swap_forwarded, EarlyOK
  <2> QED BY <1>3, <2>1, <2>2, <2>3, <2>4, <2>5 DEF RunOK
<1>13. CASE kill_pending(p)
  <2>1. MountOK(p)'
    BY <1>1, <1>2, <1>13 DEF kill_pending, MountOK
  <2>2. ForwarderOK(p)'
    BY <1>1, <1>2, <1>13 DEF kill_pending, ForwarderOK
  <2>3. ResultOK(p)'
    BY <1>1, <1>2, <1>13 DEF kill_pending, ResultOK
  <2>4. EndOK(p)'
    BY <1>1, <1>2, <1>13 DEF kill_pending, EndOK
  <2>5. EarlyOK(p)'
    BY <1>1, <1>2, <1>13 DEF kill_pending, EarlyOK
  <2> QED BY <1>3, <2>1, <2>2, <2>3, <2>4, <2>5 DEF RunOK
<1>14. CASE bridge_start(p)
  <2>1. MountOK(p)'
    BY <1>1, <1>2, <1>14 DEF bridge_start, MountOK
  <2>2. ForwarderOK(p)'
    BY <1>1, <1>2, <1>14 DEF bridge_start, ForwarderOK
  <2>3. ResultOK(p)'
    BY <1>1, <1>2, <1>14 DEF bridge_start, ResultOK
  <2>4. EndOK(p)'
    BY <1>1, <1>2, <1>14 DEF bridge_start, EndOK
  <2>5. EarlyOK(p)'
    BY <1>1, <1>2, <1>14 DEF bridge_start, EarlyOK
  <2> QED BY <1>3, <2>1, <2>2, <2>3, <2>4, <2>5 DEF RunOK
<1>15. CASE helper_wait(p)
  <2>1. MountOK(p)'
    BY <1>1, <1>2, <1>15 DEF helper_wait, MountOK
  <2>2. ForwarderOK(p)'
    BY <1>1, <1>2, <1>15 DEF helper_wait, ForwarderOK
  <2>3. ResultOK(p)'
    BY <1>1, <1>2, <1>15 DEF helper_wait, ResultOK
  <2>4. EndOK(p)'
    BY <1>1, <1>2, <1>15 DEF helper_wait, EndOK
  <2>5. EarlyOK(p)'
    BY <1>1, <1>2, <1>15 DEF helper_wait, EarlyOK
  <2> QED BY <1>3, <2>1, <2>2, <2>3, <2>4, <2>5 DEF RunOK
<1>16. CASE start(p)
  <2>1. MountOK(p)'
    BY <1>1, <1>2, <1>16 DEF start, MountOK
  <2>2. ForwarderOK(p)'
    BY <1>1, <1>2, <1>16 DEF start, ForwarderOK
  <2>3. ResultOK(p)'
    BY <1>1, <1>2, <1>16 DEF start, ResultOK
  <2>4. EndOK(p)'
    BY <1>1, <1>2, <1>16 DEF start, EndOK
  <2>5. EarlyOK(p)'
    BY <1>1, <1>2, <1>16 DEF start, EarlyOK
  <2> QED BY <1>3, <2>1, <2>2, <2>3, <2>4, <2>5 DEF RunOK
<1>17. CASE wait(p)
  <2>1. MountOK(p)'
    BY <1>1, <1>2, <1>17 DEF wait, MountOK
  <2>2. ForwarderOK(p)'
    BY <1>1, <1>2, <1>17 DEF wait, ForwarderOK
  <2>3. ResultOK(p)'
    BY <1>1, <1>2, <1>17 DEF wait, ResultOK
  <2>4. EndOK(p)'
    BY <1>1, <1>2, <1>17 DEF wait, EndOK
  <2>5. EarlyOK(p)'
    BY <1>1, <1>2, <1>17 DEF wait, EarlyOK
  <2> QED BY <1>3, <2>1, <2>2, <2>3, <2>4, <2>5 DEF RunOK
<1>18. CASE drop_kill(p)
  <2>1. MountOK(p)'
    BY <1>1, <1>2, <1>18 DEF drop_kill, MountOK
  <2>2. ForwarderOK(p)'
    BY <1>1, <1>2, <1>18 DEF drop_kill, ForwarderOK
  <2>3. ResultOK(p)'
    BY <1>1, <1>2, <1>18 DEF drop_kill, ResultOK
  <2>4. EndOK(p)'
    BY <1>1, <1>2, <1>18 DEF drop_kill, EndOK
  <2>5. EarlyOK(p)'
    BY <1>1, <1>2, <1>18 DEF drop_kill, EarlyOK
  <2> QED BY <1>3, <2>1, <2>2, <2>3, <2>4, <2>5 DEF RunOK
<1>19. CASE drop_join(p)
  <2>1. MountOK(p)'
    BY <1>1, <1>2, <1>19 DEF drop_join, MountOK
  <2>2. ForwarderOK(p)'
    BY <1>1, <1>2, <1>19 DEF drop_join, ForwarderOK
  <2>3. ResultOK(p)'
    BY <1>1, <1>2, <1>19 DEF drop_join, ResultOK
  <2>4. EndOK(p)'
    BY <1>1, <1>2, <1>19 DEF drop_join, EndOK
  <2>5. EarlyOK(p)'
    BY <1>1, <1>2, <1>19 DEF drop_join, EarlyOK
  <2> QED BY <1>3, <2>1, <2>2, <2>3, <2>4, <2>5 DEF RunOK
<1>20. CASE unpublish(p)
  <2>1. MountOK(p)'
    BY <1>1, <1>2, <1>20 DEF unpublish, MountOK
  <2>2. ForwarderOK(p)'
    BY <1>1, <1>2, <1>20 DEF unpublish, ForwarderOK
  <2>3. ResultOK(p)'
    BY <1>1, <1>2, <1>20 DEF unpublish, ResultOK
  <2>4. EndOK(p)'
    BY <1>1, <1>2, <1>20 DEF unpublish, EndOK
  <2>5. EarlyOK(p)'
    BY <1>1, <1>2, <1>20 DEF unpublish, EarlyOK
  <2> QED BY <1>3, <2>1, <2>2, <2>3, <2>4, <2>5 DEF RunOK
<1>21. CASE delete(p)
  <2>1. MountOK(p)'
    BY <1>1, <1>2, <1>21 DEF delete, DeleteContainer, MountOK
  <2>2. ForwarderOK(p)'
    BY <1>1, <1>2, <1>21 DEF delete, DeleteContainer, InitAlive, ForwarderOK
  <2>3. ResultOK(p)'
    BY <1>1, <1>2, <1>21 DEF delete, DeleteContainer, InitAlive, ResultOK
  <2>4. EndOK(p)'
    BY <1>1, <1>2, <1>21 DEF delete, DeleteContainer, EndOK
  <2>5. EarlyOK(p)'
    BY <1>1, <1>2, <1>21 DEF delete, DeleteContainer, EarlyOK
  <2> QED BY <1>3, <2>1, <2>2, <2>3, <2>4, <2>5 DEF RunOK
<1>22. CASE remove_bundle(p)
  <2>1. MountOK(p)'
    BY <1>1, <1>2, <1>22 DEF remove_bundle, MountOK
  <2>2. ForwarderOK(p)'
    BY <1>1, <1>2, <1>22 DEF remove_bundle, ForwarderOK
  <2>3. ResultOK(p)'
    BY <1>1, <1>2, <1>22 DEF remove_bundle, ResultOK
  <2>4. EndOK(p)'
    BY <1>1, <1>2, <1>22 DEF remove_bundle, EndOK
  <2>5. EarlyOK(p)'
    BY <1>1, <1>2, <1>22 DEF remove_bundle, EndOK, EarlyOK
  <2> QED BY <1>3, <2>1, <2>2, <2>3, <2>4, <2>5 DEF RunOK
<1>23. CASE unmount(p)
  <2>1. MountOK(p)'
    BY <1>1, <1>2, <1>23 DEF unmount, MountOK
  <2>2. ForwarderOK(p)'
    BY <1>1, <1>2, <1>23 DEF unmount, ForwarderOK
  <2>3. ResultOK(p)'
    BY <1>1, <1>2, <1>23 DEF unmount, ResultOK
  <2>4. EndOK(p)'
    BY <1>1, <1>2, <1>23 DEF unmount, Busy, EndOK
  <2>5. EarlyOK(p)'
    BY <1>1, <1>2, <1>23 DEF unmount, Busy, MountOK, EarlyOK
  <2> QED BY <1>3, <2>1, <2>2, <2>3, <2>4, <2>5 DEF RunOK
<1> QED BY <1>4, <1>5, <1>6, <1>7, <1>8, <1>9, <1>10, <1>11, <1>12, <1>13, <1>14, <1>15,
       <1>16, <1>17, <1>18, <1>19, <1>20, <1>21, <1>22, <1>23 DEF Main

\* Runs that end, or are freed, beside it do not disturb a run,
LEMMA ShrinkRun ==
    ASSUME TypeOK, NEW p \in Runners, RunOK(p), \A n \in RunNo : Shrinks(<<p, n>>),
           pc'[p] = pc[p], run'[p] = run[p], job'[p] = job[p], result'[p] = result[p]
    PROVE  RunOK(p)'
<1>1. /\ FreshOK(p) /\ MountOK(p) /\ ForwarderOK(p) /\ ResultOK(p) /\ EndOK(p) /\ EarlyOK(p)
      /\ ProcType /\ DiskType /\ run[p] \in RunNo
  BY TypeParts DEF RunOK, Types, MainType
<1>2. Shrinks(r(p)) /\ r(p)' = r(p)
  BY <1>1 DEF r
<1>3. FreshOK(p)'
  <2> SUFFICES ASSUME NEW n \in RunNo,
                      n > run[p] \/ (n = run[p] /\ pc[p] \in {"idle", "mount_new"})
               PROVE  Fresh(<<p, n>>)'
    BY DEF FreshOK
  <2>1. Fresh(<<p, n>>) /\ Shrinks(<<p, n>>)
    BY <1>1 DEF FreshOK
  <2> QED BY <1>1, <2>1 DEF Fresh, Shrinks, InitAlive, DiskType, RunIds
<1>4. pc[p] \notin Over => /\ overlay'[r(p)] = overlay[r(p)] /\ bundle'[r(p)] = bundle[r(p)]
                           /\ state'[r(p)] = state[r(p)]
  BY <1>2 DEF Shrinks, alive, Live, r
<1>5. MountOK(p)'
  BY <1>1, <1>2, <1>4 DEF MountOK, Shrinks, MountedPcs, ContainerPcs, UnmadePcs, InitAlive, Over
<1>6. ForwarderOK(p)'
  BY <1>1, <1>2 DEF ForwarderOK, Shrinks
<1>7. ResultOK(p)'
  BY <1>1, <1>2 DEF ResultOK, Shrinks, InitAlive
<1>8. EndOK(p)'
  BY <1>1, <1>2, <1>4 DEF EndOK, Shrinks, InitAlive, Over, Leaves
<1>9. EarlyOK(p)'
  BY <1>1, <1>2, <1>4 DEF EarlyOK, Shrinks, InitAlive, Over
<1> QED BY <1>3, <1>5, <1>6, <1>7, <1>8, <1>9 DEF RunOK

\* nor does another process.
LEMMA SameRun ==
    ASSUME TypeOK, NEW p \in Runners, RunOK(p), \A n \in RunNo : Same(<<p, n>>),
           SameProcess(p)
    PROVE  RunOK(p)'
<1>1. \A n \in RunNo : Shrinks(<<p, n>>)
  <2>1. \A n \in RunNo : <<p, n>> \in RunIds
    BY DEF RunIds
  <2> QED BY <2>1 DEF Shrinks, Same
<1> QED BY <1>1, ShrinkRun DEF SameProcess

\* The processes around a run
LEMMA AroundRun ==
    ASSUME TypeOK, NEW p \in Runners, RunOK(p), NEW i \in RunIds, Around(i)
    PROVE  RunOK(p)'
<1> USE DEF r, diskVars, procVars, mainVars
<1>1. /\ DiskType /\ ProcType /\ FwdType /\ MainType
      /\ r(p) \in RunIds /\ run[p] \in RunNo
  BY TypeParts, RunIdTypes DEF Types, MainType
<1>2. FreshOK(p) /\ MountOK(p) /\ ForwarderOK(p) /\ ResultOK(p) /\ EndOK(p) /\ EarlyOK(p)
  BY DEF RunOK
<1>3. CASE app_exits(i)
  <2>1. \A j \in RunIds : Shrinks(j)
    BY <1>1, <1>3 DEF app_exits, Shrinks, ProcType, fwdVars, InitAlive
  <2>2. \A n \in RunNo : Shrinks(<<p, n>>)
    BY <2>1 DEF RunIds
  <2>3. pc'[p] = pc[p] /\ run'[p] = run[p] /\ job'[p] = job[p] /\ result'[p] = result[p]
    BY <1>3 DEF app_exits
  <2> QED BY <2>2, <2>3, ShrinkRun
<1>4. CASE fuse_mounts(i)
  <2>1. FreshOK(p)'
    BY <1>1, <1>2, <1>4 DEF fuse_mounts, fwdVars, FreshOK, Fresh, DiskType, RunIds
  <2>2. MountOK(p)'
    BY <1>1, <1>2, <1>4 DEF fuse_mounts, MountOK, DiskType, MountedPcs, ContainerPcs, UnmadePcs
  <2>3. ForwarderOK(p)' /\ ResultOK(p)'
    BY <1>1, <1>2, <1>4 DEF fuse_mounts, fwdVars, ForwarderOK, ResultOK
  <2>4. EndOK(p)'
    BY <1>1, <1>2, <1>4 DEF fuse_mounts, EndOK, MountOK, Leaves, DiskType
  <2>5. EarlyOK(p)'
    BY <1>1, <1>2, <1>4 DEF fuse_mounts, EarlyOK, MountOK, DiskType
  <2> QED BY <2>1, <2>2, <2>3, <2>4, <2>5 DEF RunOK
<1>5. CASE helper_joins(i) \/ helper_stuck(i) \/ helper_ends(i)
  <2> USE DEF helper_joins, helper_stuck, helper_ends
  <2>1. FreshOK(p)'
    BY <1>1, <1>2, <1>5 DEF FreshOK, Fresh, FwdType, HelperAlive, RunIds
  <2>2. ForwarderOK(p)'
    BY <1>1, <1>2, <1>5 DEF ForwarderOK, FwdType, HelperAlive, EarlyPcs, LatePcs, ThreadPcs
  <2>3. MountOK(p)' /\ ResultOK(p)' /\ EndOK(p)' /\ EarlyOK(p)'
    BY <1>1, <1>2, <1>5 DEF MountOK, ResultOK, EndOK, EarlyOK, Leaves
  <2> QED BY <2>1, <2>2, <2>3 DEF RunOK
<1> QED BY <1>3, <1>4, <1>5 DEF Around

\* A process begins another run, or is over.
LEMMA ProcessRun ==
    ASSUME TypeOK, NEW p \in Runners, RunOK(p),
           \/ \E j \in Jobs : begin(p, j)
           \/ forward_loop(p) \/ exit(p) \/ die(p)
    PROVE  RunOK(p)'
<1> USE DEF At, Goto, r, diskVars, procVars, fwdVars, mainVars
<1>1. /\ DiskType /\ ProcType /\ FwdType /\ MainType
      /\ r(p) \in RunIds /\ run[p] \in RunNo /\ run[p] \in Nat
  BY TypeParts, RunIdTypes DEF Types, MainType, RunNo
<1>2. FreshOK(p) /\ MountOK(p) /\ ForwarderOK(p) /\ ResultOK(p) /\ EndOK(p) /\ EarlyOK(p)
  BY DEF RunOK
<1>3. ASSUME NEW j \in Jobs, begin(p, j) PROVE RunOK(p)'
  <2>1. run'[p] \in RunNo /\ run'[p] \in Nat
    BY <1>1, <1>3, RuntimeAssumption DEF begin, MainType, RunNo
  <2>2. run'[p] >= run[p] /\ (run'[p] = run[p] => pc[p] = "idle")
    BY <1>1, <1>3 DEF begin, MainType
  <2>3. \A n \in RunNo : n >= run'[p] => Fresh(<<p, n>>)
    BY <1>1, <1>2, <2>1, <2>2 DEF FreshOK, RunNo
  <2>4. \A n \in RunNo : Fresh(<<p, n>>) => Fresh(<<p, n>>)'
    BY <1>3 DEF begin, Fresh
  <2>5. FreshOK(p)'
    BY <2>1, <2>3, <2>4 DEF FreshOK, RunNo
  <2>6. Fresh(r(p)') /\ pc'[p] = "mount_new" /\ result'[p] = "none"
    BY <1>1, <1>3, <2>1, <2>3 DEF begin, MainType
  <2>7. MountOK(p)' /\ ForwarderOK(p)' /\ ResultOK(p)' /\ EndOK(p)' /\ EarlyOK(p)'
    BY <1>3, <2>6
    DEF begin, Fresh, MountOK, ForwarderOK, ResultOK, EndOK, EarlyOK, MountedPcs, ContainerPcs, UnmadePcs,
        HelperAlive, LatePcs
  <2> QED BY <2>5, <2>7 DEF RunOK
<1>4. CASE forward_loop(p)
  <2>1. pc[p] \in ThreadPcs
    BY <1>1, <1>2, <1>4 DEF forward_loop, ForwarderOK
  <2>2. FreshOK(p)'
    BY <1>1, <1>2, <1>4, <2>1 DEF forward_loop, FreshOK, Fresh, FwdType, RunIds
  <2>3. ForwarderOK(p)'
    BY <1>1, <1>2, <1>4, <2>1 DEF forward_loop, ForwarderOK, FwdType
  <2>4. MountOK(p)' /\ ResultOK(p)' /\ EndOK(p)' /\ EarlyOK(p)'
    BY <1>1, <1>2, <1>4 DEF forward_loop, MountOK, ResultOK, EndOK, EarlyOK, Leaves
  <2> QED BY <2>2, <2>3, <2>4 DEF RunOK
<1>5. ASSUME NEW label \in Over, pc[p] \notin Over, Gone(p, label), pc[p] # "idle"
      PROVE  RunOK(p)'
  <2>1. FreshOK(p)'
    BY <1>1, <1>2, <1>5 DEF Gone, FreshOK, Fresh, FwdType, MainType, Over, RunIds
  <2>2. pc'[p] = label /\ thread'[r(p)] = "none" /\ r(p)' = r(p)
    BY <1>1, <1>5 DEF Gone, MainType
  <2>3. MountOK(p)' /\ ForwarderOK(p)' /\ ResultOK(p)' /\ EndOK(p)' /\ EarlyOK(p)'
    BY <1>2, <1>5, <2>2
    DEF Gone, MountOK, ForwarderOK, ResultOK, EndOK, EarlyOK, Over, MountedPcs, ContainerPcs, UnmadePcs,
        EarlyPcs, LatePcs, AfterPcs
  <2> QED BY <2>1, <2>3 DEF RunOK
<1> QED BY <1>3, <1>4, <1>5 DEF exit, die, Over
-----------------------------------------------------------------------------
(* Signals *)

\* What is on the stack after an invocation, the end of one, and a step of one
LEMMA PushElements ==
    ASSUME NEW s \in Seq(Frames), NEW f \in Frames, NEW k \in DOMAIN (<<f>> \o s)
    PROVE  \/ k = 1 /\ (<<f>> \o s)[k] = f
           \/ k - 1 \in DOMAIN s /\ (<<f>> \o s)[k] = s[k - 1]
OBVIOUS

LEMMA PopElements ==
    ASSUME NEW s \in Seq(Frames), s # <<>>, NEW k \in DOMAIN Tail(s)
    PROVE  k + 1 \in DOMAIN s /\ k \in Nat \ {0} /\ Tail(s)[k] = s[k + 1]
OBVIOUS

LEMMA TopElements ==
    ASSUME NEW s \in Seq(Frames), s # <<>>, NEW f \in Frames, NEW k \in DOMAIN (<<f>> \o Tail(s))
    PROVE  /\ k \in DOMAIN s
           /\ (<<f>> \o Tail(s))[k] = IF k = 1 THEN f ELSE s[k]
<1>1. Tail(s) \in Seq(Frames) /\ Len(Tail(s)) = Len(s) - 1 /\ Len(s) \in Nat \ {0}
  BY HeadTailProperties
<1>2. \/ k = 1 /\ (<<f>> \o Tail(s))[k] = f
      \/ k - 1 \in DOMAIN Tail(s) /\ (<<f>> \o Tail(s))[k] = Tail(s)[k - 1]
  BY <1>1, PushElements
<1>3. k \in Int
  <2>1. <<f>> \o Tail(s) \in Seq(Frames)
    BY StackTypes
  <2> QED BY <2>1
<1>4. CASE k = 1
  BY <1>1, <1>2, <1>4
<1>5. CASE k - 1 \in DOMAIN Tail(s) /\ (<<f>> \o Tail(s))[k] = Tail(s)[k - 1]
  <2>1. (k - 1) + 1 \in DOMAIN s /\ k - 1 \in Nat \ {0} /\ Tail(s)[k - 1] = s[(k - 1) + 1]
    BY <1>5, PopElements
  <2> QED BY <1>3, <1>5, <2>1
<1> QED BY <1>2, <1>4, <1>5

\* Steps of the main thread that have nothing to do with passing on a signal
LEMMA MainQuiet ==
    ASSUME TypeOK, NEW p \in Runners, Main(p), ~swap_forwarded(p), ~kill_pending(p)
    PROVE  /\ UNCHANGED <<stack, FORWARDED, histVars>>
           /\ pc[p] # "kill_pending" /\ pc'[p] # "kill_pending"
<1> DEFINE Quiet == /\ UNCHANGED <<stack, FORWARDED, histVars>>
                    /\ pc[p] # "kill_pending" /\ pc'[p] # "kill_pending"
<1> USE DEF At, Goto, GoOn, Kept, Early, NotMounted, Fails, Leave, sigVars
<1>1. MainType
  BY TypeParts DEF Types
<1>2. CASE mount_new(p)
  BY <1>1, <1>2 DEF mount_new, MainType
<1>3. CASE mount_wait(p)
  BY <1>1, <1>3 DEF mount_wait, MainType
<1>4. CASE create_bundle(p)
  BY <1>1, <1>4 DEF create_bundle, MainType
<1>5. CASE install(p)
  BY <1>1, <1>5 DEF install, MainType
<1>6. CASE create_state(p)
  BY <1>1, <1>6 DEF create_state, MainType
<1>7. CASE create_init(p)
  BY <1>1, <1>7 DEF create_init, MainType
<1>8. CASE publish(p)
  BY <1>1, <1>8 DEF publish, MainType
<1>9. CASE swap_pending(p)
  BY <1>1, <1>9 DEF swap_pending, MainType
<1>10. CASE bridge_start(p)
  BY <1>1, <1>10 DEF bridge_start, MainType
<1>11. CASE helper_wait(p)
  BY <1>1, <1>11 DEF helper_wait, MainType
<1>12. CASE start(p)
  BY <1>1, <1>12 DEF start, MainType
<1>13. CASE wait(p)
  BY <1>1, <1>13 DEF wait, MainType
<1>14. CASE drop_kill(p)
  BY <1>1, <1>14 DEF drop_kill, MainType
<1>15. CASE drop_join(p)
  BY <1>1, <1>15 DEF drop_join, MainType
<1>16. CASE unpublish(p)
  BY <1>1, <1>16 DEF unpublish, MainType
<1>17. CASE delete(p)
  BY <1>1, <1>17 DEF delete, MainType
<1>18. CASE remove_bundle(p)
  BY <1>1, <1>18 DEF remove_bundle, MainType
<1>19. CASE unmount(p)
  BY <1>1, <1>19 DEF unmount, MainType
<1> QED BY <1>2, <1>3, <1>4, <1>5, <1>6, <1>7, <1>8, <1>9, <1>10, <1>11, <1>12, <1>13,
       <1>14, <1>15, <1>16, <1>17, <1>18, <1>19 DEF Main

\* A step after which nothing is there that was not there passes on no signal.
LEMMA FewerPassing ==
    ASSUME NEW p \in Runners, TokenOK(p), FORWARDED'[p] = FORWARDED[p], gentle'[p] = gentle[p],
           pc'[p] = "kill_pending" => pc[p] = "kill_pending",
           \A t \in Threads, k \in Nat : Passing(p, t, k)' => Passing(p, t, k)
    PROVE  TokenOK(p)'
BY DEF TokenOK

\* Whoever passes on a signal did FORWARDED's first swap, and does so once.
LEMMA MainToken ==
    ASSUME TypeOK, NEW p \in Runners, TokenOK(p), Main(p)
    PROVE  TokenOK(p)'
<1>1. MainType /\ SigType /\ HistType
  BY TypeParts DEF Types
<1>2. CASE swap_forwarded(p)
  <2>1. \A t \in Threads, k \in Nat : Passing(p, t, k)' <=> Passing(p, t, k)
    BY <1>2 DEF swap_forwarded, Passing
  <2>2. /\ FORWARDED'[p] = TRUE /\ gentle'[p] = gentle[p]
        /\ pc'[p] = IF FORWARDED[p] THEN "bridge" ELSE "kill_pending"
    BY <1>1, <1>2 DEF swap_forwarded, Goto, MainType, SigType, histVars
  <2> QED BY <1>1, <2>1, <2>2 DEF TokenOK, HistType
<1>3. CASE kill_pending(p)
  <2>1. \A t \in Threads, k \in Nat : Passing(p, t, k)' <=> Passing(p, t, k)
    BY <1>3 DEF kill_pending, sigVars, Passing
  <2>2. /\ FORWARDED'[p] = FORWARDED[p] /\ gentle'[p] = gentle[p] + 1
        /\ pc[p] = "kill_pending" /\ pc'[p] = "bridge" /\ gentle[p] \in Nat
    BY <1>1, <1>3 DEF kill_pending, Deliver, At, Goto, MainType, HistType, sigVars
  <2> QED BY <2>1, <2>2 DEF TokenOK
<1>4. CASE ~swap_forwarded(p) /\ ~kill_pending(p)
  <2>1. \A t \in Threads, k \in Nat : Passing(p, t, k)' <=> Passing(p, t, k)
    BY <1>4, MainQuiet DEF Passing
  <2> QED BY <1>4, <2>1, MainQuiet, FewerPassing DEF histVars
<1> QED BY <1>2, <1>3, <1>4

LEMMA HandlerToken ==
    ASSUME TypeOK, NEW p \in Runners, TokenOK(p), NEW t \in Threads,
           forward_signal(p, t) \/ \E s \in Signals : receive(p, t, s)
    PROVE  TokenOK(p)'
<1>1. /\ MainType /\ SigType /\ HistType
      /\ stack[p][t] \in Seq(Frames)
      /\ \A u \in Threads : DOMAIN stack[p][u] \subseteq Nat \ {0}
  BY TypeParts DEF Types, SigType
<1>2. pc'[p] = pc[p]
  BY HandlerElsewhere DEF mainVars
<1>3. stack[p][t] # <<>> => /\ Top(p, t) \in Frames /\ Tail(stack[p][t]) \in Seq(Frames)
                            /\ Top(p, t) = stack[p][t][1] /\ 1 \in DOMAIN stack[p][t]
  BY <1>1, HeadTailProperties DEF Top
<1>4. ASSUME NEW s \in Signals, receive(p, t, s) PROVE TokenOK(p)'
  <2>1. Frame(s, "load", 0) \in Frames /\ Frame(s, "load", 0).at = "load"
    BY RuntimeAssumption DEF Frame, Frames
  <2>2. stack'[p] = [stack[p] EXCEPT ![t] = <<Frame(s, "load", 0)>> \o stack[p][t]]
    BY <1>1, <1>4 DEF receive, SigType
  <2>3. ASSUME NEW u \in Threads, NEW k \in Nat, Passing(p, u, k)'
        PROVE  IF u = t THEN k - 1 \in Nat /\ Passing(p, t, k - 1) ELSE Passing(p, u, k)
    <3>1. CASE u = t
      <4>1. stack'[p][t] = <<Frame(s, "load", 0)>> \o stack[p][t]
        BY <1>1, <2>2 DEF SigType
      <4>2. /\ k \in DOMAIN (<<Frame(s, "load", 0)>> \o stack[p][t])
            /\ (<<Frame(s, "load", 0)>> \o stack[p][t])[k].at = "pass"
        BY <2>3, <3>1, <4>1 DEF Passing
      <4>3. k - 1 \in DOMAIN stack[p][t] /\ stack[p][t][k - 1].at = "pass"
        BY <1>1, <2>1, <4>2, PushElements
      <4> QED BY <1>1, <3>1, <4>3 DEF Passing
    <3>2. CASE u # t
      BY <1>1, <2>2, <2>3, <3>2 DEF Passing, SigType
    <3> QED BY <3>1, <3>2
  <2>4. FORWARDED'[p] = FORWARDED[p] /\ gentle'[p] = gentle[p]
    BY <1>4 DEF receive
  <2>5. \A u, v \in Threads, k, m \in Nat :
          Passing(p, u, k)' /\ Passing(p, v, m)' => u = v /\ k = m
    <3> SUFFICES ASSUME NEW u \in Threads, NEW v \in Threads, NEW k \in Nat, NEW m \in Nat,
                        Passing(p, u, k)', Passing(p, v, m)'
                 PROVE  u = v /\ k = m
      OBVIOUS
    <3>1. /\ IF u = t THEN k - 1 \in Nat /\ Passing(p, t, k - 1) ELSE Passing(p, u, k)
          /\ IF v = t THEN m - 1 \in Nat /\ Passing(p, t, m - 1) ELSE Passing(p, v, m)
      BY <2>3
    <3> QED BY <3>1 DEF TokenOK
  <2>6. (\E u \in Threads, k \in Nat : Passing(p, u, k)')
          => \E u \in Threads, k \in Nat : Passing(p, u, k)
    BY <2>3
  <2> QED BY <1>2, <2>4, <2>5, <2>6 DEF TokenOK
<1>5. ASSUME NEW f \in Frames, Continue(p, t, f), stack[p][t] # <<>>, NEW u \in Threads,
             NEW k \in Nat, Passing(p, u, k)'
      PROVE  Passing(p, u, k) \/ (u = t /\ k = 1 /\ f.at = "pass")
  <2>1. stack'[p] = [stack[p] EXCEPT ![t] = <<f>> \o Tail(stack[p][t])]
    BY <1>1, <1>5 DEF Continue, SigType
  <2>2. CASE u = t
    <3>1. k \in DOMAIN (<<f>> \o Tail(stack[p][t])) /\ (<<f>> \o Tail(stack[p][t]))[k].at = "pass"
      BY <1>1, <1>5, <2>1, <2>2 DEF Passing, SigType
    <3>2. /\ k \in DOMAIN stack[p][t]
          /\ (<<f>> \o Tail(stack[p][t]))[k] = IF k = 1 THEN f ELSE stack[p][t][k]
      BY <1>1, <1>5, <3>1, TopElements
    <3> QED BY <2>2, <3>1, <3>2 DEF Passing
  <2>3. CASE u # t
    BY <1>1, <1>5, <2>1, <2>3 DEF Passing, SigType
  <2> QED BY <2>2, <2>3
<1>6. ASSUME Return(p, t), stack[p][t] # <<>>, NEW u \in Threads, NEW k \in Nat,
             Passing(p, u, k)'
      PROVE  IF u = t THEN Passing(p, t, k + 1) ELSE Passing(p, u, k)
  <2>1. stack'[p] = [stack[p] EXCEPT ![t] = Tail(stack[p][t])]
    BY <1>1, <1>6 DEF Return, SigType
  <2>2. CASE u = t
    <3>1. k \in DOMAIN Tail(stack[p][t]) /\ Tail(stack[p][t])[k].at = "pass"
      BY <1>1, <1>6, <2>1, <2>2 DEF Passing, SigType
    <3> QED BY <1>1, <1>6, <2>2, <3>1, PopElements DEF Passing
  <2>3. CASE u # t
    BY <1>1, <1>6, <2>1, <2>3 DEF Passing, SigType
  <2> QED BY <2>2, <2>3
<1>7. CASE handler_load(p, t)
  <2>1. PICK f \in Frames : Continue(p, t, f) /\ f.at \in {"store", "swap"}
    BY <1>1, <1>3, <1>7 DEF handler_load, In, Frame, Frames, SigType
  <2>2. stack[p][t] # <<>> /\ FORWARDED'[p] = FORWARDED[p] /\ gentle'[p] = gentle[p]
    BY <1>7 DEF handler_load, In, histVars
  <2> QED BY <1>2, <1>5, <2>1, <2>2, FewerPassing
<1>8. CASE handler_store(p, t)
  <2>1. Return(p, t) /\ stack[p][t] # <<>> /\ FORWARDED'[p] = FORWARDED[p] /\ gentle'[p] = gentle[p]
    BY <1>8 DEF handler_store, In, histVars
  <2> QED BY <1>2, <1>6, <2>1 DEF TokenOK
<1>9. CASE handler_swap(p, t)
  <2>1. PICK f \in Frames : /\ Continue(p, t, f)
                            /\ f.at = IF FORWARDED[p] THEN "kill" ELSE "pass"
    BY <1>1, <1>3, <1>9 DEF handler_swap, In, Frames
  <2>2. stack[p][t] # <<>> /\ FORWARDED'[p] = TRUE /\ gentle'[p] = gentle[p]
    BY <1>1, <1>9 DEF handler_swap, In, histVars, SigType
  <2>3. \A u \in Threads, k \in Nat :
          Passing(p, u, k)' => Passing(p, u, k) \/ (u = t /\ k = 1 /\ ~FORWARDED[p])
    BY <1>5, <2>1, <2>2
  <2> QED BY <1>2, <2>2, <2>3 DEF TokenOK
<1>10. CASE handler_kill(p, t)
  <2>1. Return(p, t) /\ stack[p][t] # <<>> /\ FORWARDED'[p] = FORWARDED[p]
    BY <1>10 DEF handler_kill, In
  <2>2. CASE In(p, t, "kill")
    <3>1. gentle'[p] = gentle[p]
      BY <1>1, <1>10, <2>2 DEF handler_kill, Deliver, HistType
    <3> QED BY <1>2, <1>6, <2>1, <3>1 DEF TokenOK
  <2>3. CASE In(p, t, "pass") /\ ~In(p, t, "kill")
    <3>1. Passing(p, t, 1)
      BY <1>3, <2>3 DEF In, Passing
    <3>2. gentle'[p] = gentle[p] + 1 /\ gentle[p] \in Nat
      BY <1>1, <1>10, <2>3 DEF handler_kill, Deliver, HistType
    <3>3. FORWARDED[p] /\ gentle[p] = 0 /\ pc[p] # "kill_pending"
      <4>1. \E u \in Threads, k \in Nat : Passing(p, u, k)
        BY <3>1
      <4> QED BY <3>2, <4>1 DEF TokenOK
    <3>4. ASSUME NEW u \in Threads, NEW k \in Nat, Passing(p, u, k)' PROVE FALSE
      <4>1. IF u = t THEN Passing(p, t, k + 1) ELSE Passing(p, u, k)
        BY <1>6, <2>1, <3>4
      <4>2. IF u = t THEN k + 1 = 1 ELSE u = t
        BY <3>1, <4>1 DEF TokenOK
      <4>3. CASE u = t
        <5>1. k = 0
          BY <4>2, <4>3
        <5>2. k \in DOMAIN stack'[p][t]
          BY <3>4, <4>3 DEF Passing
        <5>3. stack'[p][t] = Tail(stack[p][t])
          BY <1>1, <2>1 DEF Return, SigType
        <5> QED BY <1>1, <2>1, <5>1, <5>2, <5>3, PopElements
      <4> QED BY <4>2, <4>3
    <3> QED BY <1>2, <2>1, <3>2, <3>3, <3>4 DEF TokenOK
  <2> QED BY <1>10, <2>2, <2>3 DEF handler_kill
<1> QED BY <1>4, <1>7, <1>8, <1>9, <1>10 DEF forward_signal

\* The frames of a thread stay in a set that holds those its handler makes.
LEMMA HandlerFrames ==
    ASSUME TypeOK, NEW p \in Runners, NEW t \in Threads, NEW u \in Threads,
           NEW S \in SUBSET Frames, stack[p][u] \in Seq(S),
           forward_signal(p, t) \/ \E s \in Signals : receive(p, t, s),
           u = t => \A s \in Signals : Frame(s, "load", 0) \in S,
           u = t /\ handler_load(p, t) =>
             Frame(Top(p, t).signal, IF CONTAINER_PID[p] = 0 THEN "store" ELSE "swap",
                   CONTAINER_PID[p]) \in S,
           u = t /\ handler_swap(p, t) =>
             [Top(p, t) EXCEPT !.at = IF FORWARDED[p] THEN "kill" ELSE "pass"] \in S
    PROVE  stack'[p][u] \in Seq(S)
<1>1. SigType
  BY TypeParts DEF Types
<1>2. CASE u # t
  <2>1. PICK v : stack' = [stack EXCEPT ![p][t] = v]
    BY DEF forward_signal, receive, handler_load, handler_store, handler_swap, handler_kill,
           Continue, Return
  <2> QED BY <1>1, <1>2, <2>1 DEF SigType
<1>3. CASE u = t
  <2>1. ASSUME NEW s \in Signals, receive(p, t, s) PROVE stack'[p][u] \in Seq(S)
    BY <1>1, <1>3, <2>1, StackTypes DEF receive, SigType
  <2>2. ASSUME NEW f \in S, Continue(p, t, f), stack[p][t] # <<>>
        PROVE  stack'[p][u] \in Seq(S)
    BY <1>1, <1>3, <2>2, StackTypes DEF Continue, SigType
  <2>3. ASSUME Return(p, t), stack[p][t] # <<>> PROVE stack'[p][u] \in Seq(S)
    <3>1. Tail(stack[p][t]) \in Seq(S)
      BY <1>3, <2>3, HeadTailProperties
    <3> QED BY <1>1, <1>3, <2>3, <3>1 DEF Return, SigType
  <2>4. CASE handler_load(p, t)
    BY <1>3, <2>2, <2>4 DEF handler_load, In
  <2>5. CASE handler_store(p, t)
    BY <2>3, <2>5 DEF handler_store, In
  <2>6. CASE handler_swap(p, t)
    BY <1>3, <2>2, <2>6 DEF handler_swap, In
  <2>7. CASE handler_kill(p, t)
    BY <2>3, <2>7 DEF handler_kill, In
  <2> QED BY <2>1, <2>4, <2>5, <2>6, <2>7 DEF forward_signal
<1> QED BY <1>2, <1>3

\* What a handler is at is the head of its thread's stack.
LEMMA TopIn ==
    ASSUME NEW p, NEW t, NEW S, stack[p][t] \in Seq(S), stack[p][t] # <<>>
    PROVE  Top(p, t) \in S
BY HeadTailProperties DEF Top

LEMMA HandlerAim ==
    ASSUME TypeOK, NEW p \in Runners, NEW t \in Threads, AimOK(p),
           forward_signal(p, t) \/ \E s \in Signals : receive(p, t, s)
    PROVE  AimOK(p)'
<1>1. SigType /\ Aimed \in SUBSET Frames
  BY TypeParts DEF Types, Aimed
<1>2. \A s \in Signals : Frame(s, "load", 0) \in Aimed
  BY RuntimeAssumption DEF Aimed, Frame, Frames
<1>3. ASSUME handler_load(p, t)
      PROVE  Frame(Top(p, t).signal, IF CONTAINER_PID[p] = 0 THEN "store" ELSE "swap",
                   CONTAINER_PID[p]) \in Aimed
  <2>1. Top(p, t).signal \in Signals
    BY <1>3, TopIn DEF AimOK, Aimed, Frames, handler_load, In
  <2>2. CONTAINER_PID[p] \in 0..MaxRuns
    BY <1>1 DEF SigType
  <2> QED BY <2>1, <2>2, RuntimeAssumption DEF Frame, Frames, Aimed, RunNo
<1>4. ASSUME handler_swap(p, t)
      PROVE  [Top(p, t) EXCEPT !.at = IF FORWARDED[p] THEN "kill" ELSE "pass"] \in Aimed
  <2>1. Top(p, t) \in Aimed /\ Top(p, t).at = "swap"
    BY <1>4, TopIn DEF AimOK, handler_swap, In
  <2> QED BY <2>1 DEF Aimed, Frames
<1> SUFFICES ASSUME NEW u \in Threads PROVE stack'[p][u] \in Seq(Aimed)
  BY DEF AimOK
<1>5. stack[p][u] \in Seq(Aimed)
  BY DEF AimOK
<1> QED BY <1>1, <1>2, <1>3, <1>4, <1>5, HandlerFrames

\* The signals of a process in the steps that send none
LEMMA SameSignals ==
    ASSUME NEW p \in Runners, TokenOK(p), AimOK(p), stack'[p] = stack[p],
           FORWARDED'[p] = FORWARDED[p], gentle'[p] = gentle[p],
           pc'[p] = "kill_pending" => pc[p] = "kill_pending"
    PROVE  TokenOK(p)' /\ AimOK(p)'
<1>1. \A t \in Threads, k \in Nat : Passing(p, t, k)' => Passing(p, t, k)
  BY DEF Passing
<1> QED BY <1>1, FewerPassing DEF AimOK

LEMMA MainSignals ==
    ASSUME TypeOK, NEW p \in Runners, TokenOK(p), AimOK(p), Main(p)
    PROVE  TokenOK(p)' /\ AimOK(p)'
<1>1. UNCHANGED stack
  BY MainQuiet DEF swap_forwarded, kill_pending, sigVars
<1> QED BY <1>1, MainToken DEF AimOK

LEMMA ProcessSignals ==
    ASSUME TypeOK, NEW p \in Runners, TokenOK(p), AimOK(p),
           (\E j \in Jobs : begin(p, j)) \/ forward_loop(p) \/ exit(p) \/ die(p)
    PROVE  TokenOK(p)' /\ AimOK(p)'
<1>1. MainType /\ SigType
  BY TypeParts DEF Types
<1>2. ASSUME NEW j \in Jobs, begin(p, j) PROVE TokenOK(p)' /\ AimOK(p)'
  BY <1>1, <1>2, SameSignals DEF begin, Goto, MainType, sigVars, histVars
<1>3. CASE forward_loop(p)
  BY <1>3, SameSignals DEF forward_loop, mainVars, sigVars, histVars
<1>4. CASE exit(p) \/ die(p)
  <2>1. PICK label \in Over : Gone(p, label)
    BY <1>4 DEF exit, die, Over
  <2>2. /\ FORWARDED'[p] = FORWARDED[p] /\ gentle'[p] = gentle[p]
        /\ pc'[p] # "kill_pending" /\ stack'[p] = NoFrames
    BY <1>1, <2>1 DEF Gone, Goto, Over, MainType, SigType
  <2>3. \A t \in Threads : stack'[p][t] = <<>>
    BY <2>2 DEF NoFrames
  <2>4. AimOK(p)'
    <3>1. <<>> \in Seq(Aimed)
      OBVIOUS
    <3> QED BY <2>3, <3>1 DEF AimOK
  <2>5. TokenOK(p)'
    BY <2>2, <2>3, FewerPassing DEF Passing
  <2> QED BY <2>4, <2>5
<1> QED BY <1>2, <1>3, <1>4
-----------------------------------------------------------------------------
(* What a collection relies on and promises *)

\* A dead process takes no step, and what it left only gets less.
Decays(i) ==
    /\ overlay[i] = "none" => overlay'[i] = "none"
    /\ bundle'[i] => bundle[i]
    /\ state'[i] => state[i]
    /\ init'[i] \in InitAlive => init[i] \in InitAlive

LEMMA DeadDecays ==
    ASSUME TypeOK, RuntimeNext, NEW i \in RunIds, ~alive(i)
    PROVE  Decays(i) /\ ~alive(i)'
<1>1. /\ DiskType /\ ProcType /\ MainType /\ i[1] \in Runners
      /\ \A p \in Runners : pc[p] \notin Over => i # r(p) /\ i[1] # p
  BY TypeParts DEF Types, RunIds, alive, Live, r
<1>2. ASSUME NEW p \in Runners, Main(p) PROVE Decays(i) /\ ~alive(i)'
  <2>1. pc[p] \notin Over
    BY <1>2, MainElsewhere
  <2>2. Same(i) /\ SameProcess(i[1])
    BY <1>1, <1>2, <2>1, MainElsewhere
  <2> QED BY <2>2 DEF Decays, Same, SameProcess, alive, Live
<1>3. ASSUME NEW p \in Runners, NEW t \in Threads,
             forward_signal(p, t) \/ \E s \in Signals : receive(p, t, s)
      PROVE  Decays(i) /\ ~alive(i)'
  <2>1. Shrinks(i) /\ UNCHANGED mainVars
    BY <1>3, HandlerElsewhere
  <2> QED BY <2>1 DEF Decays, Shrinks, InitAlive, alive, Live, mainVars
<1>4. ASSUME NEW p \in Runners,
             (\E j \in Jobs : begin(p, j)) \/ forward_loop(p) \/ exit(p) \/ die(p)
      PROVE  Decays(i) /\ ~alive(i)'
  <2>1. UNCHANGED <<diskVars, procVars>> /\ \A q \in Runners \ {p} : SameProcess(q)
    BY <1>4, ProcessElsewhere
  <2>2. CASE i[1] # p
    BY <1>1, <2>1, <2>2 DEF Decays, SameProcess, alive, Live, diskVars, procVars
  <2>3. CASE i[1] = p /\ ~forward_loop(p)
    BY <1>4, <2>3 DEF begin, exit, die, At, alive, Live, Over
  <2>4. CASE forward_loop(p)
    BY <2>1, <2>4 DEF forward_loop, mainVars, Decays, alive, Live, diskVars, procVars
  <2> QED BY <2>2, <2>3, <2>4
<1>5. ASSUME NEW j \in RunIds, Around(j) PROVE Decays(i) /\ ~alive(i)'
  <2>1. ~alive(i)'
    BY <1>5, AroundElsewhere DEF alive, Live, mainVars
  <2>2. Decays(i)
    BY <1>1, <1>5
    DEF Around, fuse_mounts, app_exits, helper_joins, helper_stuck, helper_ends, Decays,
        InitAlive, DiskType, ProcType, diskVars, procVars
  <2> QED BY <2>1, <2>2
<1> QED BY <1>2, <1>3, <1>4, <1>5 DEF RuntimeNext, Handler

\* What others do takes nothing a collection relies on.
LEMMA OtherOrphans ==
    ASSUME NEW c \in Cleaners, PruneType, EntryOK(c), OrphanOK(c),
           at'[c] = at[c], todo'[c] = todo[c], entry'[c] = entry[c], orphans'[c] = orphans[c],
           survivors \subseteq survivors',
           \A i \in RunIds : ~alive(i) => Decays(i) /\ ~alive(i)'
    PROVE  EntryOK(c)' /\ OrphanOK(c)'
<1>1. entry[c] \in RunIds \cup {None} /\ orphans[c] \subseteq RunIds
  BY DEF PruneType
<1>2. EntryOK(c)'
  BY <1>1, RunsAssumption DEF EntryOK
<1>3. OrphanOK(c)'
  <2> SUFFICES ASSUME NEW i \in orphans[c]
               PROVE  ~alive(i)' /\ (i \in survivors' \/ Ahead(c, i)')
    BY DEF OrphanOK
  <2>1. i \in RunIds /\ ~alive(i) /\ Decays(i) /\ ~alive(i)'
    BY <1>1 DEF OrphanOK
  <2> QED BY <2>1 DEF OrphanOK, Ahead, Decays
<1> QED BY <1>2, <1>3

\* A container that runs has its state directory, or was given up on.
LEMMA RuntimeStop ==
    ASSUME TypeOK, \A p \in Runners : RunOK(p), StopOK, RuntimeNext, UNCHANGED survivors
    PROVE  StopOK'
<1> SUFFICES ASSUME NEW i \in RunIds, init'[i] \in InitAlive PROVE state'[i] \/ i \in survivors
  BY DEF StopOK
<1>1. DiskType /\ ProcType /\ MainType
  BY TypeParts DEF Types
<1>2. init[i] \in InitAlive /\ (state[i] => state'[i]) => state'[i] \/ i \in survivors
  BY DEF StopOK
<1>3. ASSUME NEW p \in Runners, Main(p) PROVE state'[i] \/ i \in survivors
  <2>1. CASE i # r(p)
    BY <1>2, <1>3, <2>1, MainElsewhere DEF Same
  <2>2. CASE i = r(p) /\ create_state(p)
    BY <1>1, <1>2, <2>2 DEF create_state, GoOn, Goto, Early, procVars, DiskType
  <2>3. CASE i = r(p) /\ create_init(p)
    BY <1>1, <2>3
    DEF create_init, At, GoOn, Goto, Early, RunOK, MountOK, UnmadePcs, ContainerPcs, MountedPcs,
        InitAlive, DiskType, ProcType
  <2>4. CASE i = r(p) /\ delete(p)
    BY <1>1, <2>4 DEF delete, DeleteContainer, InitAlive, ProcType
  <2>5. CASE i = r(p) /\ ~create_state(p) /\ ~create_init(p) /\ ~delete(p)
    <3>1. UNCHANGED state
      BY <1>3, <2>5
      DEF Main, mount_new, mount_wait, create_bundle, install, publish, swap_pending,
          swap_forwarded, kill_pending, bridge_start, helper_wait, start, wait, drop_kill,
          drop_join, unpublish, remove_bundle, unmount, diskVars
    <3>2. init[i] \in InitAlive
      BY <1>1, <1>3, <2>5
      DEF Main, mount_new, mount_wait, create_bundle, install, publish, swap_pending,
          swap_forwarded, kill_pending, Deliver, bridge_start, helper_wait, start, wait,
          drop_kill, drop_join, unpublish, remove_bundle, unmount, procVars, InitAlive, ProcType
    <3> QED BY <1>2, <3>1, <3>2
  <2> QED BY <2>1, <2>2, <2>3, <2>4, <2>5
<1>4. ASSUME NEW p \in Runners, NEW t \in Threads,
             forward_signal(p, t) \/ \E s \in Signals : receive(p, t, s)
      PROVE  state'[i] \/ i \in survivors
  <2>1. UNCHANGED state
    BY <1>4
    DEF forward_signal, receive, handler_load, handler_store, handler_swap, handler_kill, diskVars
  <2>2. Shrinks(i)
    BY <1>4, HandlerElsewhere
  <2> QED BY <1>2, <2>1, <2>2 DEF Shrinks, InitAlive
<1>5. ASSUME NEW p \in Runners,
             (\E j \in Jobs : begin(p, j)) \/ forward_loop(p) \/ exit(p) \/ die(p)
      PROVE  state'[i] \/ i \in survivors
  BY <1>2, <1>5, ProcessElsewhere DEF diskVars, procVars
<1>6. ASSUME NEW j \in RunIds, Around(j) PROVE state'[i] \/ i \in survivors
  BY <1>1, <1>2, <1>6
  DEF Around, fuse_mounts, app_exits, helper_joins, helper_stuck, helper_ends, InitAlive,
      ProcType, diskVars, procVars
<1> QED BY <1>3, <1>4, <1>5, <1>6 DEF RuntimeNext, Handler

\* A step of a collection keeps what every collection relies on.
LEMMA PruneStop ==
    ASSUME TypeOK, NEW c \in Cleaners, StopOK, PruneNext(c)
    PROVE  StopOK' /\ survivors \subseteq survivors'
<1>1. DiskType /\ ProcType /\ PruneType
  BY TypeParts DEF Types
<1>2. CASE prune_container(c)
  BY <1>1, <1>2
  DEF prune_container, DeleteContainer, StopOK, InitAlive, procVars, DiskType, ProcType
<1>3. CASE ~prune_container(c)
  BY <1>3
  DEF PruneNext, prune_runtime, list_bundles, prune_bundle, list_overlays, prune_overlay,
      prune_unmount, prune_remove, prune_done, StopOK, runVars, diskVars, procVars, histPrune
<1> QED BY <1>2, <1>3

LEMMA PruneOrphans ==
    ASSUME TypeOK, NEW c \in Cleaners, EntryOK(c), OrphanOK(c), StopOK, PruneNext(c)
    PROVE  EntryOK(c)' /\ OrphanOK(c)'
<1> USE DEF Visit, Drop, Fail, alive, Live, runVars, histPrune, mainVars
<1>1. DiskType /\ ProcType /\ PruneType
  BY TypeParts DEF Types
<1>2. orphans[c] \subseteq RunIds
  BY <1>1 DEF PruneType
<1>3. \A i \in RunIds : alive(i)' <=> alive(i)
  BY PruneElsewhere
<1>4. \A i \in RunIds : Shrinks(i)
  BY PruneElsewhere
<1>5. CASE prune_runtime(c)
  BY <1>1, <1>5 DEF prune_runtime, EntryOK, OrphanOK, Ahead, diskVars, PruneType
<1>6. CASE prune_container(c)
  <2>1. PICK i \in todo[c] :
          /\ todo' = [todo EXCEPT ![c] = @ \ {i}]
          /\ ~alive(i) => ~state'[i]
    BY <1>1, <1>6 DEF prune_container, DeleteContainer, DiskType, PruneType
  <2>2. UNCHANGED <<at, entry, orphans, pc>> /\ survivors \subseteq survivors' /\ at[c] = "containers"
    BY <1>6 DEF prune_container
  <2>3. EntryOK(c)'
    BY <2>2 DEF EntryOK
  <2>4. OrphanOK(c)'
    BY <1>1, <1>2, <1>4, <2>1, <2>2 DEF OrphanOK, Ahead, Shrinks, PruneType
  <2> QED BY <2>3, <2>4
<1>7. CASE list_bundles(c)
  <2>1. /\ at[c] = "containers" /\ todo[c] = {} /\ at'[c] = "bundles"
        /\ todo'[c] = {i \in RunIds : bundle[i]}
        /\ UNCHANGED <<overlay, bundle, state, init, pc, entry, orphans, survivors>>
    BY <1>1, <1>7 DEF list_bundles, diskVars, procVars, PruneType
  <2>2. EntryOK(c)'
    BY <2>1 DEF EntryOK
  <2>3. OrphanOK(c)'
    BY <1>2, <2>1 DEF OrphanOK, Ahead, StopOK
  <2> QED BY <2>2, <2>3
<1>8. CASE prune_bundle(c)
  <2>1. PICK i \in todo[c] :
          /\ todo' = [todo EXCEPT ![c] = @ \ {i}]
          /\ ~alive(i) => ~bundle'[i]
    BY <1>1, <1>8 DEF prune_bundle, DiskType, PruneType
  <2>2. /\ UNCHANGED <<entry, orphans, survivors, pc>> /\ at[c] = "bundles"
        /\ at'[c] \in {"bundles", "failed"}
    BY <1>1, <1>8 DEF prune_bundle, PruneType
  <2>3. EntryOK(c)'
    BY <2>2 DEF EntryOK
  <2>4. UNCHANGED <<state, init>>
    BY <1>8 DEF prune_bundle, procVars
  <2>5. OrphanOK(c)'
    BY <1>1, <1>2, <1>4, <2>1, <2>2, <2>4 DEF OrphanOK, Ahead, Shrinks, PruneType
  <2> QED BY <2>3, <2>5
<1>9. CASE list_overlays(c)
  <2>1. /\ at[c] = "bundles" /\ todo[c] = {} /\ at'[c] = "overlays"
        /\ todo'[c] = {i \in RunIds : overlay[i] # "none"}
        /\ UNCHANGED <<overlay, bundle, state, init, pc, entry, orphans, survivors>>
    BY <1>1, <1>9 DEF list_overlays, diskVars, procVars, PruneType
  <2>2. EntryOK(c)'
    BY <2>1 DEF EntryOK
  <2>3. OrphanOK(c)'
    BY <1>2, <2>1 DEF OrphanOK, Ahead
  <2> QED BY <2>2, <2>3
<1>10. CASE prune_overlay(c)
  <2>1. PICK i \in todo[c] :
          /\ todo' = [todo EXCEPT ![c] = @ \ {i}]
          /\ alive(i) => at'[c] = "overlays" /\ entry' = entry
          /\ ~alive(i) => at'[c] \in {"unmount", "remove"} /\ entry'[c] = i
    BY <1>1, <1>10 DEF prune_overlay, PruneType
  <2>2. /\ UNCHANGED <<overlay, bundle, state, init, pc, orphans, survivors>>
        /\ at[c] = "overlays" /\ i \in RunIds
    BY <1>1, <1>10, <2>1 DEF prune_overlay, diskVars, procVars, PruneType
  <2>3. EntryOK(c)'
    BY <2>1, <2>2 DEF EntryOK
  <2>4. OrphanOK(c)'
    BY <1>1, <1>2, <2>1, <2>2 DEF OrphanOK, Ahead, PruneType
  <2> QED BY <2>3, <2>4
<1>11. CASE prune_unmount(c)
  <2>1. /\ at[c] = "unmount" /\ entry[c] \in RunIds
        /\ UNCHANGED <<bundle, state, init, pc, todo, orphans, survivors>>
        /\ \/ at'[c] = "remove" /\ entry' = entry
           \/ at'[c] = "overlays" /\ entry'[c] = None /\ init[entry[c]] \in InitAlive
           \/ at'[c] = "failed" /\ entry'[c] = None
    BY <1>1, <1>11 DEF prune_unmount, Busy, EntryOK, procVars, PruneType
  <2>2. EntryOK(c)'
    BY <2>1 DEF EntryOK
  <2>3. OrphanOK(c)'
    BY <1>2, <1>4, <2>1 DEF OrphanOK, Ahead, Shrinks
  <2> QED BY <2>2, <2>3
<1>12. CASE prune_remove(c)
  <2>1. /\ at[c] = "remove" /\ entry'[c] = None /\ entry[c] \in RunIds
        /\ UNCHANGED <<bundle, state, init, pc, todo, orphans, survivors>>
        /\ at'[c] \in {"overlays", "failed"}
        /\ at'[c] = "overlays" => overlay'[entry[c]] = "none"
    BY <1>1, <1>12 DEF prune_remove, EntryOK, DiskType, procVars, PruneType
  <2>2. EntryOK(c)'
    BY <2>1 DEF EntryOK
  <2>3. OrphanOK(c)'
    BY <1>2, <1>4, <2>1 DEF OrphanOK, Ahead, Shrinks
  <2> QED BY <2>2, <2>3
<1>13. CASE prune_done(c)
  <2>1. /\ at[c] = "overlays" /\ todo[c] = {} /\ at'[c] = "pruned"
        /\ UNCHANGED <<overlay, bundle, state, init, pc, entry, orphans, survivors>>
    BY <1>1, <1>13 DEF prune_done, diskVars, procVars, PruneType
  <2>2. EntryOK(c)'
    BY <2>1 DEF EntryOK
  <2>3. OrphanOK(c)'
    BY <1>2, <2>1 DEF OrphanOK, Ahead
  <2> QED BY <2>2, <2>3
<1> QED
  BY <1>5, <1>6, <1>7, <1>8, <1>9, <1>10, <1>11, <1>12, <1>13 DEF PruneNext
-----------------------------------------------------------------------------
(* The theorems *)

LEMMA InitIInv == Init => IInv
<1> SUFFICES ASSUME Init PROVE IInv
  OBVIOUS
<1> USE DEF Init, RuntimeInit
<1>1. TypeOK
  <2>1. DiskType /\ ProcType /\ FwdType
    BY DEF DiskType, ProcType, FwdType
  <2>2. MainType
    BY RuntimeAssumption DEF MainType, MainPcs, RunNo
  <2>3. NoFrames \in [Threads -> Seq(Frames)]
    <3>1. <<>> \in Seq(Frames)
      OBVIOUS
    <3> QED BY <3>1 DEF NoFrames
  <2>4. SigType
    BY <2>3, RuntimeAssumption DEF SigType
  <2>5. HistType
    BY RuntimeAssumption DEF HistType
  <2>6. PruneType
    BY DEF PruneType, PruneLabels
  <2> QED BY <2>1, <2>2, <2>4, <2>5, <2>6, TypeParts DEF Types
<1>2. ASSUME NEW p \in Runners PROVE RunOK(p) /\ TokenOK(p) /\ AimOK(p)
  <2>1. /\ pc[p] = "idle" /\ run[p] = 1 /\ result[p] = "none" /\ gentle[p] = 0 /\ ~FORWARDED[p]
        /\ \A t \in Threads : stack[p][t] = <<>>
    BY DEF NoFrames
  <2>2. \A n \in RunNo : Fresh(<<p, n>>)
    BY DEF Fresh, RunIds
  <2>3. r(p) \in RunIds
    BY <1>1, RunIdTypes, TypeParts DEF Types
  <2>4. RunOK(p)
    BY <2>1, <2>2, <2>3
    DEF RunOK, FreshOK, MountOK, ForwarderOK, ResultOK, EndOK, EarlyOK, MountedPcs, ContainerPcs,
        UnmadePcs, LatePcs
  <2>5. TokenOK(p)
    BY <2>1 DEF TokenOK, Passing
  <2>6. AimOK(p)
    <3>1. <<>> \in Seq(Aimed)
      OBVIOUS
    <3> QED BY <2>1, <3>1 DEF AimOK
  <2> QED BY <2>4, <2>5, <2>6
<1>3. StopOK
  BY DEF StopOK, InitAlive
<1>4. \A c \in Cleaners : EntryOK(c) /\ OrphanOK(c)
  BY DEF EntryOK, OrphanOK
<1> QED BY <1>1, <1>2, <1>3, <1>4 DEF IInv

LEMMA NextRuns ==
    ASSUME TypeOK, RuntimeNext, NEW p \in Runners, RunOK(p), TokenOK(p), AimOK(p)
    PROVE  RunOK(p)' /\ TokenOK(p)' /\ AimOK(p)'
<1>1. \A n \in RunNo : <<p, n>> \in RunIds
  BY DEF RunIds
<1>2. ASSUME NEW q \in Runners \ {p}, SameProcess(p), \A n \in RunNo : Same(<<p, n>>)
      PROVE  RunOK(p)' /\ TokenOK(p)' /\ AimOK(p)'
  BY <1>2, SameRun, SameSignals DEF SameProcess
<1>3. ASSUME NEW q \in Runners, Main(q) PROVE RunOK(p)' /\ TokenOK(p)' /\ AimOK(p)'
  <2>1. CASE q = p
    BY <1>3, <2>1, MainRun, MainSignals
  <2>2. CASE q # p
    <3>1. \A n \in RunNo : <<p, n>> # r(q)
      BY <2>2 DEF r
    <3> QED BY <1>1, <1>2, <1>3, <2>2, <3>1, MainElsewhere
  <2> QED BY <2>1, <2>2
<1>4. ASSUME NEW q \in Runners, NEW t \in Threads,
             forward_signal(q, t) \/ \E s \in Signals : receive(q, t, s)
      PROVE  RunOK(p)' /\ TokenOK(p)' /\ AimOK(p)'
  <2>1. RunOK(p)'
    BY <1>1, <1>4, HandlerElsewhere, ShrinkRun DEF mainVars
  <2>2. CASE q = p
    BY <1>4, <2>1, <2>2, HandlerToken, HandlerAim
  <2>3. CASE q # p
    BY <1>4, <2>1, <2>3, HandlerElsewhere, SameSignals DEF SameProcess
  <2> QED BY <2>2, <2>3
<1>5. ASSUME NEW q \in Runners,
             (\E j \in Jobs : begin(q, j)) \/ forward_loop(q) \/ exit(q) \/ die(q)
      PROVE  RunOK(p)' /\ TokenOK(p)' /\ AimOK(p)'
  <2>1. CASE q = p
    BY <1>5, <2>1, ProcessRun, ProcessSignals
  <2>2. CASE q # p
    BY <1>2, <1>5, <2>2, ProcessElsewhere
  <2> QED BY <2>1, <2>2
<1>6. ASSUME NEW i \in RunIds, Around(i) PROVE RunOK(p)' /\ TokenOK(p)' /\ AimOK(p)'
  BY <1>6, AroundRun, AroundElsewhere, SameSignals DEF mainVars, sigVars, histVars
<1> QED BY <1>3, <1>4, <1>5, <1>6 DEF RuntimeNext, Handler

LEMMA NextIInv == IInv /\ [Next]_vars => IInv'
<1> SUFFICES ASSUME IInv, [Next]_vars PROVE IInv'
  OBVIOUS
<1>1. /\ TypeOK /\ PruneType /\ StopOK
      /\ \A p \in Runners : RunOK(p) /\ TokenOK(p) /\ AimOK(p)
      /\ \A c \in Cleaners : EntryOK(c) /\ OrphanOK(c)
  BY TypeParts DEF IInv, Types
<1>2. TypeOK'
  BY <1>1, NextTypes
<1>3. CASE UNCHANGED vars
  <2>1. \A p \in Runners : RunOK(p)' /\ TokenOK(p)' /\ AimOK(p)'
    <3> SUFFICES ASSUME NEW p \in Runners PROVE RunOK(p)' /\ TokenOK(p)' /\ AimOK(p)'
      OBVIOUS
    <3>1. SameProcess(p) /\ \A n \in RunNo : Same(<<p, n>>)
      BY <1>3 DEF SameProcess, Same, vars, runVars, diskVars, procVars, fwdVars, mainVars,
                  sigVars, histVars
    <3> QED BY <1>1, <3>1, SameRun, SameSignals DEF SameProcess
  <2>2. StopOK'
    BY <1>1, <1>3 DEF StopOK, vars, runVars, diskVars, procVars, pruneVars, histPrune
  <2>3. \A c \in Cleaners : EntryOK(c)' /\ OrphanOK(c)'
    BY <1>1, <1>3
    DEF EntryOK, OrphanOK, Ahead, alive, Live, vars, runVars, diskVars, procVars, mainVars,
        pruneVars, histPrune
  <2> QED BY <1>2, <2>1, <2>2, <2>3 DEF IInv
<1>4. CASE RuntimeNext /\ UNCHANGED pruneVars
  <2>1. \A p \in Runners : RunOK(p)' /\ TokenOK(p)' /\ AimOK(p)'
    BY <1>1, <1>4, NextRuns
  <2>2. StopOK'
    BY <1>1, <1>4, RuntimeStop DEF pruneVars, histPrune
  <2>3. \A c \in Cleaners : EntryOK(c)' /\ OrphanOK(c)'
    BY <1>1, <1>4, DeadDecays, OtherOrphans DEF pruneVars, histPrune
  <2> QED BY <1>2, <2>1, <2>2, <2>3 DEF IInv
<1>5. ASSUME NEW c \in Cleaners, PruneNext(c) PROVE IInv'
  <2>1. (\A i \in RunIds : Shrinks(i)) /\ UNCHANGED <<mainVars, sigVars, histVars>>
    BY <1>1, <1>5, PruneElsewhere
  <2>2. \A p \in Runners : RunOK(p)' /\ TokenOK(p)' /\ AimOK(p)'
    <3> SUFFICES ASSUME NEW p \in Runners PROVE RunOK(p)' /\ TokenOK(p)' /\ AimOK(p)'
      OBVIOUS
    <3>1. \A n \in RunNo : Shrinks(<<p, n>>)
      BY <2>1 DEF RunIds
    <3> QED BY <1>1, <2>1, <3>1, ShrinkRun, SameSignals DEF mainVars, sigVars, histVars
  <2>3. StopOK' /\ survivors \subseteq survivors'
    BY <1>1, <1>5, PruneStop
  <2>4. ASSUME NEW d \in Cleaners PROVE EntryOK(d)' /\ OrphanOK(d)'
    <3>1. CASE d = c
      BY <1>1, <1>5, <3>1, PruneOrphans
    <3>2. CASE d # c
      <4>1. /\ at'[d] = at[d] /\ todo'[d] = todo[d] /\ entry'[d] = entry[d]
            /\ orphans'[d] = orphans[d]
        BY <1>1, <1>5, <3>2
        DEF PruneNext, prune_runtime, prune_container, list_bundles, prune_bundle, list_overlays,
            prune_overlay, prune_unmount, prune_remove, prune_done, Visit, Drop, Fail, histPrune,
            PruneType
      <4>2. \A i \in RunIds : ~alive(i) => Decays(i) /\ ~alive(i)'
        BY <2>1 DEF Decays, Shrinks, InitAlive, alive, Live, mainVars
      <4> QED BY <1>1, <2>3, <4>1, <4>2, OtherOrphans
    <3> QED BY <3>1, <3>2
  <2> QED BY <1>2, <2>2, <2>3, <2>4 DEF IInv
<1> QED BY <1>3, <1>4, <1>5 DEF Next

LEMMA Invariant == Spec => []IInv
BY InitIInv, NextIInv, PTL DEF Spec

\* Every variable has its type, in particular the addresses of signals and the
\* entry a collection visits.
THEOREM RunsTypeCorrect == Spec => []TypeOK
BY Invariant, PTL DEF IInv

\* runtime.rs:195-197: however the handler of any thread interleaves with the
\* main thread, one signal that the container may ignore is passed on.
THEOREM RunsGentleOnce == Spec => []GentleOnce
<1>1. IInv => GentleOnce
  BY DEF IInv, TokenOK, GentleOnce
<1> QED BY <1>1, Invariant, PTL

\* runtime.rs:157-159: run() returns success for a container that was collected
\* and exited with zero.
THEOREM RunsWaitTrue == Spec => []WaitTrue
<1>1. IInv => WaitTrue
  BY DEF IInv, RunOK, ResultOK, WaitTrue
<1> QED BY <1>1, Invariant, PTL

\* runtime.rs:347-348: whichever step of a run fails, no app it started, helper or
\* mount is left when it returns, and nothing at all once its container is
\* published.  The exception is an interactive run that does not get its terminal
\* (runtime.rs:411), which leaves the container as created, in its mount.
THEOREM RunsCleanedUp == Spec => []CleanedUp
<1>1. IInv => CleanedUp
  BY DEF IInv, RunOK, EndOK, EarlyOK, ForwarderOK, LatePcs, CleanedUp
<1> QED BY <1>1, Invariant, PTL

\* clean.rs:171: no collection takes what a live run counts on.
THEOREM RunsUndisturbed == Spec => []RunUndisturbed
<1>1. IInv => RunUndisturbed
  BY DEF IInv, RunOK, MountOK, RunUndisturbed
<1> QED BY <1>1, Invariant, PTL

\* A collection that succeeds has freed what dead runs left when it began,
\* wherever they died and whatever other collections did meanwhile.
THEOREM RunsPruneFrees == Spec => []PruneFrees
<1>1. IInv => PruneFrees
  BY DEF IInv, OrphanOK, Ahead, Leaves, PruneFrees
<1> QED BY <1>1, Invariant, PTL
-----------------------------------------------------------------------------
(* The signals of the first container, for jobs without a discard pipe *)

NoDiscard == \A j \in Jobs : ~j.discard

\* Until the Forwarder has a thread, only the main thread handles signals.
LEMMA MainAlone ==
    ASSUME TypeOK, NEW p \in Runners, RunOK(p), OtherOK(p), pc[p] \notin ThreadPcs
    PROVE  /\ stack[p]["other"] = <<>>
           /\ stack[p]["main"] = <<>> => ~Interrupted(p)
<1>1. thread[r(p)] \notin {"poll", "ask"}
  BY DEF RunOK, ForwarderOK
<1> QED BY <1>1 DEF OtherOK, Interrupted, Threads

LEMMA SameFirst ==
    ASSUME NEW p \in Runners, FirstOK(p), SameProcess(p), thread'[r(p)] = thread[r(p)]
    PROVE  FirstOK(p)'
<1>1. r(p)' = r(p) /\ Interrupted(p)' = Interrupted(p)
  BY DEF SameProcess, r, Interrupted
<1>2. OtherOK(p)'
  BY <1>1 DEF FirstOK, OtherOK, SameProcess
<1>3. FirstFramesOK(p)'
  BY DEF FirstOK, FirstFramesOK, SameProcess
<1>4. DueOK(p)'
  BY <1>1 DEF FirstOK, DueOK, SameProcess
<1> QED BY <1>2, <1>3, <1>4 DEF FirstOK

LEMMA ProcessFirst ==
    ASSUME TypeOK, NEW p \in Runners, RunOK(p), FirstOK(p),
           (\E j \in Jobs : begin(p, j)) \/ forward_loop(p) \/ exit(p) \/ die(p)
    PROVE  FirstOK(p)'
<1>1. MainType /\ SigType
  BY TypeParts DEF Types
<1>2. ASSUME NEW j \in Jobs, begin(p, j) PROVE FirstOK(p)'
  <2>1. /\ pc[p] \in {"idle", "returned"} /\ pc'[p] = "mount_new" /\ stack[p]["main"] = <<>>
        /\ UNCHANGED <<stack, CONTAINER_PID, PENDING_SIGNAL, FORWARDED, due>>
        /\ run'[p] = 1 => pc[p] = "idle" /\ run[p] = 1
    BY <1>1, <1>2, RuntimeAssumption DEF begin, At, Goto, MainType, sigVars, histVars, RunNo
  <2>2. stack[p]["other"] = <<>> /\ ~Interrupted(p)
    BY <2>1, MainAlone DEF FirstOK, ThreadPcs
  <2>3. OtherOK(p)'
    BY <2>1, <2>2 DEF OtherOK
  <2>4. FirstFramesOK(p)'
    BY <2>1 DEF FirstOK, FirstFramesOK, UnpublishedPcs, PublishedPcs
  <2>5. DueOK(p)'
    BY <2>1, <2>2 DEF FirstOK, DueOK, UnpublishedPcs
  <2> QED BY <2>3, <2>4, <2>5 DEF FirstOK
<1>3. CASE forward_loop(p)
  <2>1. SameProcess(p) /\ stack'[p]["other"] = <<>>
    BY <1>3 DEF forward_loop, SameProcess, mainVars, sigVars, histVars
  <2>2. Interrupted(p)' = Interrupted(p)
    BY <2>1 DEF SameProcess, Interrupted
  <2>3. OtherOK(p)'
    BY <2>1 DEF OtherOK
  <2>4. FirstFramesOK(p)'
    BY <2>1 DEF FirstOK, FirstFramesOK, SameProcess
  <2>5. DueOK(p)'
    BY <2>1, <2>2 DEF FirstOK, DueOK, SameProcess
  <2> QED BY <2>3, <2>4, <2>5 DEF FirstOK
<1>4. CASE exit(p) \/ die(p)
  <2>1. PICK label \in Over : Gone(p, label)
    BY <1>4 DEF exit, die, Over
  <2>2. pc'[p] \in Over /\ stack'[p]["other"] = <<>>
    BY <1>1, <2>1 DEF Gone, Goto, MainType, SigType, NoFrames, Threads
  <2> QED BY <2>2 DEF FirstOK, OtherOK, FirstFramesOK, DueOK, UnpublishedPcs, PublishedPcs,
         Over
<1> QED BY <1>2, <1>3, <1>4

LEMMA HandlerFirst ==
    ASSUME NoDiscard, TypeOK, NEW p \in Runners, NEW t \in Threads, RunOK(p), FirstOK(p),
           forward_signal(p, t) \/ \E s \in Signals : receive(p, t, s)
    PROVE  FirstOK(p)'
<1>1. /\ MainType /\ SigType /\ HistType
      /\ \A u \in Threads : stack[p][u] \in Seq(Frames)
  BY TypeParts DEF Types, SigType
<1>2. UNCHANGED <<mainVars, thread>> /\ r(p)' = r(p)
  BY HandlerElsewhere DEF mainVars, r
<1>3. UNCHANGED CONTAINER_PID
  BY DEF forward_signal, receive, handler_load, handler_store, handler_swap, handler_kill
<1>4. PICK v : stack' = [stack EXCEPT ![p][t] = v]
  BY DEF forward_signal, receive, handler_load, handler_store, handler_swap, handler_kill,
         Continue, Return
<1>5. \A s \in Signals : receive(p, t, s) => stack'[p][t] # <<>>
  BY <1>1 DEF receive, SigType
<1>6. handler_load(p, t) \/ handler_swap(p, t) => stack'[p][t] # <<>>
  BY <1>1 DEF handler_load, handler_swap, Continue, SigType
<1>7. forward_signal(p, t) => stack[p][t] # <<>>
  BY DEF forward_signal, handler_load, handler_store, handler_swap, handler_kill, In
<1>8. OtherOK(p)'
  <2>1. CASE t = "other"
    <3>1. thread[r(p)] \in {"poll", "ask"}
      <4>1. CASE forward_signal(p, t)
        BY <1>7, <2>1, <4>1 DEF FirstOK, OtherOK
      <4>2. ASSUME NEW s \in Signals, receive(p, t, s) PROVE thread[r(p)] \in {"poll", "ask"}
        BY <1>1, <2>1, <4>2 DEF receive, HasThread, NoDiscard, NoJob, MainType
      <4> QED BY <4>1, <4>2
    <3> QED BY <1>2, <3>1 DEF OtherOK
  <2>2. CASE t = "main"
    <3>1. stack'[p]["other"] = stack[p]["other"]
      BY <1>1, <1>4, <2>2 DEF SigType, Threads
    <3> QED BY <1>2, <3>1 DEF FirstOK, OtherOK
  <2> QED BY <2>1, <2>2 DEF Threads
<1>9. ASSUME run[p] = 1, pc[p] \in UnpublishedPcs
      PROVE  /\ t = "main" /\ ~In(p, t, "swap")
             /\ CONTAINER_PID[p] = 0 /\ ~FORWARDED[p] /\ stack[p]["main"] \in Seq(Waiting)
  <2>1. CONTAINER_PID[p] = 0 /\ ~FORWARDED[p] /\ stack[p]["main"] \in Seq(Waiting)
    BY <1>9 DEF FirstOK, FirstFramesOK
  <2>2. stack[p]["other"] = <<>> /\ thread[r(p)] \notin {"poll", "ask"}
    BY <1>9, MainAlone DEF FirstOK, UnpublishedPcs, ThreadPcs, RunOK, ForwarderOK
  <2>3. t = "main"
    <3>1. CASE forward_signal(p, t)
      BY <1>7, <2>2, <3>1 DEF Threads
    <3>2. ASSUME NEW s \in Signals, receive(p, t, s) PROVE t = "main"
      BY <1>1, <2>2, <3>2 DEF receive, HasThread, NoDiscard, NoJob, MainType
    <3> QED BY <3>1, <3>2
  <2>4. ~In(p, t, "swap")
    BY <2>1, <2>3, TopIn DEF In, Waiting
  <2> QED BY <2>1, <2>3, <2>4
<1>10. ASSUME run[p] = 1, pc[p] \in PublishedPcs
       PROVE  /\ CONTAINER_PID[p] # 0 /\ ~In(p, t, "store")
              /\ \A u \in Threads : stack[p][u] \in Seq(NotStoring)
  <2>1. CONTAINER_PID[p] # 0 /\ \A u \in Threads : stack[p][u] \in Seq(NotStoring)
    BY <1>10 DEF FirstOK, FirstFramesOK
  <2> QED BY <2>1, TopIn DEF In, NotStoring
<1>11. \A s \in Signals : Frame(s, "load", 0) \in Waiting \cap NotStoring
  BY RuntimeAssumption DEF Waiting, NotStoring, Frame, Frames
<1>12. ASSUME handler_load(p, t)
       PROVE  LET f == Frame(Top(p, t).signal,
                             IF CONTAINER_PID[p] = 0 THEN "store" ELSE "swap", CONTAINER_PID[p])
              IN  IF CONTAINER_PID[p] = 0 THEN f \in Waiting ELSE f \in NotStoring
  <2>1. Top(p, t).signal \in Signals
    BY <1>1, <1>12, TopIn DEF Frames, handler_load, In
  <2>2. CONTAINER_PID[p] \in 0..MaxRuns
    BY <1>1 DEF SigType
  <2> QED BY <2>1, <2>2 DEF Frame, Frames, Waiting, NotStoring
<1>13. ASSUME handler_swap(p, t)
       PROVE  [Top(p, t) EXCEPT !.at = IF FORWARDED[p] THEN "kill" ELSE "pass"] \in NotStoring
  <2>1. Top(p, t) \in Frames
    BY <1>1, <1>13, TopIn DEF handler_swap, In
  <2> QED BY <2>1 DEF Frames, NotStoring
<1>14. FirstFramesOK(p)'
  <2>1. Waiting \in SUBSET Frames /\ NotStoring \in SUBSET Frames
    BY DEF Waiting, NotStoring
  <2>2. ASSUME run[p] = 1, pc[p] \in UnpublishedPcs
        PROVE  ~FORWARDED'[p] /\ stack'[p]["main"] \in Seq(Waiting)
    <3>1. ~FORWARDED'[p]
      BY <1>9, <2>2
      DEF forward_signal, receive, handler_load, handler_store, handler_swap, handler_kill
    <3>2. ~handler_swap(p, t)
      BY <1>9, <2>2 DEF handler_swap
    <3>3. stack'[p][t] \in Seq(Waiting)
      BY <1>9, <1>11, <1>12, <2>1, <2>2, <3>2, HandlerFrames
    <3> QED BY <1>9, <2>2, <3>1, <3>3
  <2>3. ASSUME run[p] = 1, pc[p] \in PublishedPcs, NEW u \in Threads
        PROVE  stack'[p][u] \in Seq(NotStoring)
    BY <1>10, <1>11, <1>12, <1>13, <2>1, <2>3, HandlerFrames
  <2> QED BY <1>2, <1>3, <1>9, <1>10, <2>2, <2>3 DEF FirstFramesOK, mainVars
<1>15. DueOK(p)'
  <2>1. stack'[p][t] # <<>> => Interrupted(p)'
    BY DEF Interrupted
  <2>2. CASE handler_kill(p, t)
    <3>1. ~due'[p]
      BY <1>1, <2>2 DEF handler_kill, Deliver, HistType
    <3> QED BY <3>1 DEF DueOK
  <2>3. CASE handler_store(p, t)
    <3>1. In(p, t, "store") /\ PENDING_SIGNAL'[p] = Top(p, t).signal /\ FORWARDED' = FORWARDED
      BY <1>1, <2>3 DEF handler_store, SigType
    <3>2. Top(p, t).signal # NoSignal
      BY <1>1, <3>1, TopIn DEF Frames, Signals, NoSignal, In
    <3> QED BY <1>2, <1>9, <1>10, <3>1, <3>2 DEF DueOK, mainVars
  <2>4. CASE ~handler_kill(p, t) /\ ~handler_store(p, t)
    BY <1>5, <1>6, <2>1, <2>4 DEF DueOK, forward_signal
  <2> QED BY <2>2, <2>3, <2>4
<1> QED BY <1>8, <1>14, <1>15 DEF FirstOK

\* What the main thread does about signals, from its first step to wait():
\* Quiet are the steps that do nothing about them.
Begun == UnpublishedPcs \cup PublishedPcs
Quiet(p) ==
    pc'[p] \in Begun =>
         /\ UNCHANGED <<CONTAINER_PID, PENDING_SIGNAL, FORWARDED, due>>
         /\ pc[p] \in Begun \ {"publish", "swap_pending", "swap_forwarded", "kill_pending"}
         /\ pc'[p] \notin {"swap_pending", "swap_forwarded", "kill_pending"}
         /\ pc'[p] \in UnpublishedPcs <=> pc[p] \in UnpublishedPcs

LEMMA MainPending ==
    ASSUME TypeOK, NEW p \in Runners, Main(p)
    PROVE  /\ UNCHANGED <<stack, run>> /\ stack[p]["main"] = <<>>
           /\ thread'[r(p)] \in {thread[r(p)], "poll"}
           /\ Quiet(p) \/ publish(p) \/ swap_pending(p) \/ swap_forwarded(p) \/ kill_pending(p)
<1> DEFINE Pending ==
             /\ UNCHANGED <<stack, run>> /\ stack[p]["main"] = <<>>
             /\ thread'[r(p)] \in {thread[r(p)], "poll"}
             /\ Quiet(p) \/ publish(p) \/ swap_pending(p) \/ swap_forwarded(p) \/ kill_pending(p)
<1> USE DEF At, Goto, GoOn, Kept, Early, NotMounted, Fails, Leave, sigVars, histVars, fwdVars,
            Quiet, Begun, UnpublishedPcs, PublishedPcs
<1>1. MainType /\ FwdType /\ r(p) \in RunIds
  BY TypeParts, RunIdTypes DEF Types
<1>2. CASE mount_new(p)
  BY <1>1, <1>2 DEF mount_new, MainType, FwdType
<1>3. CASE mount_wait(p)
  BY <1>1, <1>3 DEF mount_wait, MainType, FwdType
<1>4. CASE create_bundle(p)
  BY <1>1, <1>4 DEF create_bundle, MainType, FwdType
<1>5. CASE install(p)
  BY <1>1, <1>5 DEF install, MainType, FwdType
<1>6. CASE create_state(p)
  BY <1>1, <1>6 DEF create_state, MainType, FwdType
<1>7. CASE create_init(p)
  BY <1>1, <1>7 DEF create_init, MainType, FwdType
<1>8. CASE publish(p)
  BY <1>1, <1>8 DEF publish, MainType, FwdType
<1>9. CASE swap_pending(p)
  BY <1>1, <1>9 DEF swap_pending, MainType, FwdType
<1>10. CASE swap_forwarded(p)
  BY <1>1, <1>10 DEF swap_forwarded, MainType, FwdType
<1>11. CASE kill_pending(p)
  BY <1>1, <1>11 DEF kill_pending, Deliver, MainType, FwdType
<1>12. CASE bridge_start(p)
  BY <1>1, <1>12 DEF bridge_start, MainType, FwdType
<1>13. CASE helper_wait(p)
  BY <1>1, <1>13 DEF helper_wait, MainType, FwdType
<1>14. CASE start(p)
  BY <1>1, <1>14 DEF start, MainType, FwdType
<1>15. CASE wait(p)
  BY <1>1, <1>15 DEF wait, MainType, FwdType
<1>16. CASE drop_kill(p)
  BY <1>1, <1>16 DEF drop_kill, MainType, FwdType
<1>17. CASE drop_join(p)
  BY <1>1, <1>17 DEF drop_join, MainType, FwdType
<1>18. CASE unpublish(p)
  BY <1>1, <1>18 DEF unpublish, MainType, FwdType
<1>19. CASE delete(p)
  BY <1>1, <1>19 DEF delete, MainType, FwdType
<1>20. CASE remove_bundle(p)
  BY <1>1, <1>20 DEF remove_bundle, MainType, FwdType
<1>21. CASE unmount(p)
  BY <1>1, <1>21 DEF unmount, MainType, FwdType
<1> QED BY <1>2, <1>3, <1>4, <1>5, <1>6, <1>7, <1>8, <1>9, <1>10, <1>11, <1>12, <1>13,
       <1>14, <1>15, <1>16, <1>17, <1>18, <1>19, <1>20, <1>21 DEF Main

LEMMA MainFirst ==
    ASSUME TypeOK, NEW p \in Runners, RunOK(p), FirstOK(p), Main(p)
    PROVE  FirstOK(p)'
<1>1. MainType /\ SigType /\ HistType
  BY TypeParts DEF Types
<1>2. /\ UNCHANGED <<stack, run>> /\ stack[p]["main"] = <<>>
      /\ r(p)' = r(p) /\ Interrupted(p)' = Interrupted(p)
      /\ thread'[r(p)] \in {thread[r(p)], "poll"}
  BY MainPending DEF r, Interrupted
<1>3. OtherOK(p) /\ FirstFramesOK(p) /\ DueOK(p)
  BY DEF FirstOK
<1>4. pc[p] \notin ThreadPcs => stack[p]["other"] = <<>> /\ ~Interrupted(p)
  BY <1>2, <1>3, MainAlone
<1>5. OtherOK(p)'
  BY <1>2, <1>3 DEF OtherOK
<1>6. CASE Quiet(p)
  <2>1. FirstFramesOK(p)'
    BY <1>2, <1>3, <1>6 DEF FirstFramesOK, Quiet, Begun, UnpublishedPcs, PublishedPcs
  <2>2. DueOK(p)'
    BY <1>2, <1>3, <1>4, <1>6 DEF DueOK, Quiet, Begun, UnpublishedPcs, PublishedPcs, ThreadPcs
  <2> QED BY <1>5, <2>1, <2>2 DEF FirstOK
<1>7. CASE publish(p)
  <2>1. /\ pc[p] = "publish" /\ UNCHANGED <<PENDING_SIGNAL, FORWARDED, due>>
        /\ \/ pc'[p] = "unmount"
           \/ pc'[p] = "swap_pending" /\ CONTAINER_PID'[p] = run[p]
    BY <1>1, <1>7 DEF publish, At, GoOn, Goto, Early, histVars, MainType, SigType
  <2>2. \A t \in Threads : stack'[p][t] \in Seq(NotStoring)
    <3>1. \A t \in Threads : stack'[p][t] = <<>>
      BY <1>2, <1>4, <2>1 DEF Threads, ThreadPcs
    <3>2. <<>> \in Seq(NotStoring)
      OBVIOUS
    <3> QED BY <3>1, <3>2
  <2>3. FirstFramesOK(p)'
    BY <1>2, <2>1, <2>2 DEF FirstFramesOK, UnpublishedPcs, PublishedPcs
  <2>4. DueOK(p)'
    BY <1>2, <1>3, <1>4, <2>1 DEF DueOK, UnpublishedPcs, PublishedPcs, ThreadPcs
  <2> QED BY <1>5, <2>3, <2>4 DEF FirstOK
<1>8. CASE swap_pending(p)
  <2>1. /\ pc[p] = "swap_pending" /\ UNCHANGED <<CONTAINER_PID, FORWARDED, due>>
        /\ pc'[p] = IF PENDING_SIGNAL[p] = NoSignal THEN "bridge" ELSE "swap_forwarded"
    BY <1>1, <1>8 DEF swap_pending, At, Goto, histVars, MainType
  <2>2. FirstFramesOK(p)'
    BY <1>2, <1>3, <2>1 DEF FirstFramesOK, UnpublishedPcs, PublishedPcs
  <2>3. DueOK(p)'
    BY <1>2, <1>3, <1>4, <2>1 DEF DueOK, UnpublishedPcs, PublishedPcs, ThreadPcs
  <2> QED BY <1>5, <2>2, <2>3 DEF FirstOK
<1>9. CASE swap_forwarded(p)
  <2>1. /\ pc[p] = "swap_forwarded" /\ UNCHANGED <<CONTAINER_PID, due>>
        /\ pc'[p] = IF FORWARDED[p] THEN "bridge" ELSE "kill_pending"
    BY <1>1, <1>9 DEF swap_forwarded, At, Goto, histVars, MainType
  <2>2. FirstFramesOK(p)'
    BY <1>2, <1>3, <2>1 DEF FirstFramesOK, UnpublishedPcs, PublishedPcs
  <2>3. DueOK(p)'
    BY <1>2, <1>3, <1>4, <2>1 DEF DueOK, UnpublishedPcs, PublishedPcs, ThreadPcs
  <2> QED BY <1>5, <2>2, <2>3 DEF FirstOK
<1>10. CASE kill_pending(p)
  <2>1. /\ pc[p] = "kill_pending" /\ UNCHANGED CONTAINER_PID /\ ~due'[p] /\ pc'[p] = "bridge"
    BY <1>1, <1>10 DEF kill_pending, Deliver, At, Goto, sigVars, MainType, HistType
  <2>2. FirstFramesOK(p)'
    BY <1>2, <1>3, <2>1 DEF FirstFramesOK, UnpublishedPcs, PublishedPcs
  <2>3. DueOK(p)'
    BY <2>1 DEF DueOK
  <2> QED BY <1>5, <2>2, <2>3 DEF FirstOK
<1> QED BY <1>6, <1>7, <1>8, <1>9, <1>10, MainPending

LEMMA NextFirst ==
    ASSUME NoDiscard, TypeOK, \A c \in Cleaners : EntryOK(c), [Next]_vars, NEW p \in Runners,
           RunOK(p), FirstOK(p)
    PROVE  FirstOK(p)'
<1>1. r(p) \in RunIds
  BY TypeParts, RunIdTypes DEF Types
<1>2. CASE UNCHANGED vars
  BY <1>2, SameFirst
  DEF SameProcess, vars, runVars, fwdVars, mainVars, sigVars, histVars
<1>3. ASSUME NEW c \in Cleaners, PruneNext(c) PROVE FirstOK(p)'
  <2>1. UNCHANGED <<mainVars, sigVars, histVars>> /\ thread'[r(p)] = thread[r(p)]
    BY <1>1, <1>3, PruneElsewhere DEF Shrinks
  <2> QED BY <2>1, SameFirst DEF SameProcess, mainVars, sigVars, histVars
<1>4. ASSUME NEW q \in Runners, Main(q) PROVE FirstOK(p)'
  <2>1. CASE q = p
    BY <1>4, <2>1, MainFirst
  <2>2. CASE q # p
    <3>1. r(p) # r(q)
      BY <2>2 DEF r
    <3>2. SameProcess(p) /\ Same(r(p))
      BY <1>1, <1>4, <2>2, <3>1, MainElsewhere
    <3> QED BY <3>2, SameFirst DEF Same
  <2> QED BY <2>1, <2>2
<1>5. ASSUME NEW q \in Runners, NEW t \in Threads,
             forward_signal(q, t) \/ \E s \in Signals : receive(q, t, s)
      PROVE  FirstOK(p)'
  <2>1. CASE q = p
    BY <1>5, <2>1, HandlerFirst
  <2>2. CASE q # p
    <3>1. SameProcess(p) /\ UNCHANGED thread
      BY <1>5, <2>2, HandlerElsewhere
    <3> QED BY <3>1, SameFirst
  <2> QED BY <2>1, <2>2
<1>6. ASSUME NEW q \in Runners,
             (\E j \in Jobs : begin(q, j)) \/ forward_loop(q) \/ exit(q) \/ die(q)
      PROVE  FirstOK(p)'
  <2>1. CASE q = p
    BY <1>6, <2>1, ProcessFirst
  <2>2. CASE q # p
    <3>1. run[p] \in RunNo
      BY TypeParts DEF Types, MainType
    <3>2. SameProcess(p) /\ Same(r(p))
      BY <1>6, <2>2, <3>1, ProcessElsewhere DEF r
    <3> QED BY <3>2, SameFirst DEF Same
  <2> QED BY <2>1, <2>2
<1>7. ASSUME NEW i \in RunIds, Around(i) PROVE FirstOK(p)'
  <2>1. UNCHANGED <<mainVars, sigVars, histVars>>
    BY <1>7, AroundElsewhere
  <2>2. UNCHANGED thread
    BY <1>7
    DEF Around, fuse_mounts, app_exits, helper_joins, helper_stuck, helper_ends, fwdVars
  <2> QED BY <2>1, <2>2, SameFirst DEF SameProcess, mainVars, sigVars, histVars
<1> QED BY <1>2, <1>3, <1>4, <1>5, <1>6, <1>7 DEF Next, RuntimeNext, Handler

LEMMA InitFirst == Init => \A p \in Runners : FirstOK(p)
<1> SUFFICES ASSUME Init, NEW p \in Runners PROVE FirstOK(p)
  OBVIOUS
<1>1. /\ pc[p] = "idle" /\ ~due[p] /\ CONTAINER_PID[p] = 0 /\ ~FORWARDED[p]
      /\ \A t \in Threads : stack[p][t] = <<>>
  BY DEF Init, RuntimeInit, NoFrames
<1>2. <<>> \in Seq(Waiting)
  OBVIOUS
<1> QED
  BY <1>1, <1>2
  DEF FirstOK, OtherOK, FirstFramesOK, DueOK, UnpublishedPcs, PublishedPcs, Threads

\* runtime.rs:183: a signal that arrived before the container's process existed
\* is delivered once it does, to the first container of a process whose stdout
\* needs no discard pipe (its thread is the only one that can still store a
\* pending signal once the main thread has looked for it).
THEOREM RunsFirstSignals ==
    ASSUME NoDiscard
    PROVE  Spec => []FirstSignalsDelivered
<1> DEFINE First == \A p \in Runners : FirstOK(p)
<1>1. Init => First
  BY InitFirst
<1>2. IInv /\ First /\ [Next]_vars => First'
  BY NextFirst DEF IInv
<1>3. First => FirstSignalsDelivered
  BY DEF FirstOK, DueOK, FirstSignalsDelivered, UnpublishedPcs, PublishedPcs
<1> QED BY <1>1, <1>2, <1>3, Invariant, PTL DEF Spec
====
