----------------------------- MODULE SyncProofs -----------------------------
(***************************************************************************)
(* Theorems about Sync.                                                    *)
(***************************************************************************)
EXTENDS Sync, FiniteSetTheorems, TLAPS

\* One sync at a time, a repository with one branch, and no kill or error
\* between moving the branch and the end of the checkout
OneSync == \A p, q \in Procs : p = q
OneBranch == \A b, c \in Branches : b = c
NoLateStop == StopPoints \cap {"diff_trees", "checkout"} = {}

\* The loop over diff_trees() counts each kind of change from 0 up.
LEMMA CountType ==
    ASSUME NEW old \in Files, NEW new \in Files, NEW some
    PROVE  Count(old, new, some) \in [added : Nat, changed : Nat, removed : Nat]
<1> DEFINE changes == Changed(old, new) \cap some
<1>1. ASSUME NEW S, S \subseteq changes PROVE Cardinality(S) \in Nat
  <2>1. S \subseteq Paths
    BY <1>1 DEF Changed
  <2>2. IsFiniteSet(S)
    BY <2>1, FS_Subset, SyncAssumption
  <2> QED BY <2>2, FS_CardinalityType
<1> QED BY <1>1 DEF Count

LEMMA NoFilesType == NoFiles \in Files
BY DEF NoFiles, Files

LEMMA TreeType == ASSUME NEW c \in Commits \cup {None} PROVE TreeOf(c) \in Files
BY NoFilesType, SyncAssumption DEF TreeOf

\* A process that ends holds nothing, whatever stopped it.
LEMMA EndsType ==
    ASSUME TypeOK, NEW p \in Procs, Ends(p), UNCHANGED <<remoteVars, dirVars>>
    PROVE  TypeOK'
<1>1. NoCounts \in [added : Nat, changed : Nat, removed : Nat]
  BY CountType, NoFilesType DEF NoCounts
<1>2. /\ remote' \in [Branches -> Commits \cup {None}]
      /\ default' \in Branches
      /\ published' \subseteq Commits
      /\ git' \in {"none", "bare", "ready"}
      /\ heads' \in [Branches -> Commits \cup {None}]
      /\ files' \in Files
  BY DEF TypeOK, remoteVars, dirVars
<1>3. pc' \in [Procs -> PcLabels]
  BY DEF Ends, Goto, TypeOK, PcLabels
<1>4. /\ branch' \in [Procs -> Branches \cup {None}]
      /\ tip' \in [Procs -> Commits \cup {None}]
      /\ from' \in [Procs -> Commits \cup {None}]
      /\ todo' \in [Procs -> SUBSET Paths]
  BY DEF Ends, TypeOK
<1>5. /\ counts' \in [Procs -> [added : Nat, changed : Nat, removed : Nat]]
      /\ before' \in [Procs -> Files]
  BY <1>1, NoFilesType DEF Ends, TypeOK
<1>6. \A q \in Procs : pc'[q] \in FetchedPcs =>
        branch'[q] \in Branches /\ tip'[q] \in Commits
  BY DEF Ends, Goto, TypeOK, FetchedPcs
<1> QED BY <1>2, <1>3, <1>4, <1>5, <1>6 DEF TypeOK
-----------------------------------------------------------------------------
LEMMA InitType == Init => TypeOK
<1> SUFFICES ASSUME Init PROVE TypeOK
  OBVIOUS
<1>1. NoCounts \in [added : Nat, changed : Nat, removed : Nat]
  BY CountType, NoFilesType DEF NoCounts
<1>2. files \in Files
  BY NoFilesType, SyncAssumption DEF Init
<1>3. before \in [Procs -> Files]
  BY NoFilesType DEF Init
<1> QED BY <1>1, <1>2, <1>3 DEF Init, TypeOK, PcLabels, FetchedPcs

\* Every step of any number of syncs keeps the types, wherever one is stopped.
LEMMA NextType == TypeOK /\ [Next]_vars => TypeOK'
<1> SUFFICES ASSUME TypeOK, [Next]_vars PROVE TypeOK'
  OBVIOUS
<1>1. ASSUME NEW p \in Procs, start(p) PROVE TypeOK'
  BY <1>1 DEF start, Goto, TypeOK, PcLabels, FetchedPcs, remoteVars, dirVars
<1>2. ASSUME NEW p \in Procs, sync(p) PROVE TypeOK'
  <2>1. CASE Ends(p)
    BY <1>2, <2>1, EndsType DEF sync
  <2>2. CASE Goto(p, "fetch") /\ UNCHANGED workVars
    BY <1>2, <2>2
    DEF sync, Goto, TypeOK, PcLabels, FetchedPcs, remoteVars, dirVars, workVars
  <2>3. CASE Goto(p, "init") /\ UNCHANGED workVars
    BY <1>2, <2>3
    DEF sync, Goto, TypeOK, PcLabels, FetchedPcs, remoteVars, dirVars, workVars
  <2> QED BY <1>2, <2>1, <2>2, <2>3 DEF sync
<1>3. ASSUME NEW p \in Procs, init_repository(p) PROVE TypeOK'
  BY <1>3
  DEF init_repository, Goto, TypeOK, PcLabels, FetchedPcs, remoteVars, workVars
<1>4. ASSUME NEW p \in Procs, record_url(p) PROVE TypeOK'
  BY <1>4
  DEF record_url, Goto, TypeOK, PcLabels, FetchedPcs, remoteVars, workVars
<1>5. ASSUME NEW p \in Procs, fetch(p) PROVE TypeOK'
  <2>1. CASE Ends(p)
    BY <1>5, <2>1, EndsType DEF fetch
  <2>2. CASE ~Ends(p)
    <3>1. /\ remote[default] \in Commits
          /\ branch' = [branch EXCEPT ![p] = default]
          /\ tip' = [tip EXCEPT ![p] = remote[default]]
          /\ Goto(p, "resolve_ref")
          /\ UNCHANGED <<remoteVars, dirVars, from, todo, counts, before>>
      BY <1>5, <2>2 DEF fetch, TypeOK
    <3>2. pc' \in [Procs -> PcLabels]
      BY <3>1 DEF Goto, TypeOK, PcLabels
    <3>3. /\ default \in Branches
          /\ branch' \in [Procs -> Branches \cup {None}]
          /\ tip' \in [Procs -> Commits \cup {None}]
      BY <3>1 DEF TypeOK
    <3>4. ASSUME NEW q \in Procs, pc'[q] \in FetchedPcs
          PROVE  branch'[q] \in Branches /\ tip'[q] \in Commits
      <4>1. CASE q = p
        BY <3>1, <3>3, <4>1 DEF TypeOK
      <4>2. CASE q # p
        BY <3>1, <3>4, <4>2 DEF Goto, TypeOK
      <4> QED BY <4>1, <4>2
    <3> QED BY <3>1, <3>2, <3>3, <3>4 DEF TypeOK, remoteVars, dirVars
  <2> QED BY <2>1, <2>2
<1>6. ASSUME NEW p \in Procs, resolve_ref(p) PROVE TypeOK'
  BY <1>6
  DEF resolve_ref, Goto, TypeOK, PcLabels, FetchedPcs, remoteVars, dirVars
<1>7. ASSUME NEW p \in Procs, write_ref(p) PROVE TypeOK'
  BY <1>7
  DEF write_ref, Goto, TypeOK, PcLabels, FetchedPcs, remoteVars, workVars
<1>8. ASSUME NEW p \in Procs, diff_trees(p) PROVE TypeOK'
  <2>1. Count(TreeOf(from[p]), TreeOf(tip[p]), Apps)
          \in [added : Nat, changed : Nat, removed : Nat]
    BY TreeType, CountType DEF TypeOK
  <2>2. Changed(TreeOf(from[p]), TreeOf(tip[p])) \subseteq Paths
    BY DEF Changed
  <2> QED
    BY <1>8, <2>1, <2>2
    DEF diff_trees, Goto, TypeOK, PcLabels, FetchedPcs, remoteVars, dirVars
<1>9. ASSUME NEW p \in Procs, checkout(p) PROVE TypeOK'
  <2>1. tip[p] \in Commits
    BY <1>9 DEF checkout, TypeOK, FetchedPcs
  <2>2. files' \in Files
    <3>1. ASSUME NEW f \in Paths, files' = [files EXCEPT ![f] = Tree[tip[p]][f]]
          PROVE  files' \in Files
      BY <2>1, <3>1, SyncAssumption DEF Files, TypeOK
    <3> QED BY <1>9, <3>1 DEF checkout, TypeOK
  <2>3. todo' \in [Procs -> SUBSET Paths]
    BY <1>9 DEF checkout, TypeOK
  <2> QED
    BY <1>9, <2>2, <2>3
    DEF checkout, Goto, TypeOK, PcLabels, FetchedPcs, remoteVars
<1>10. ASSUME NEW p \in Procs, done(p) PROVE TypeOK'
  BY <1>10, EndsType DEF done
<1>11. ASSUME NEW p \in Procs, stop(p) PROVE TypeOK'
  BY <1>11, EndsType DEF stop
<1>12. CASE push
  BY <1>12 DEF push, Publish, TypeOK, dirVars, workVars
<1>13. CASE rename_default
  BY <1>13 DEF rename_default, Publish, TypeOK, dirVars, workVars
<1>14. CASE UNCHANGED vars
  BY <1>14 DEF vars, remoteVars, dirVars, workVars, TypeOK
<1> QED
  BY <1>1, <1>2, <1>3, <1>4, <1>5, <1>6, <1>7, <1>8, <1>9, <1>10, <1>11,
     <1>12, <1>13, <1>14
  DEF Next, Step

\* config.rs sync(): any number of syncs, stopped anywhere, with a repository of
\* any shape, keep the directory and what they hold well typed.
THEOREM TypeCorrect == Spec => []TypeOK
<1>1. Init => TypeOK
  BY InitType
<1>2. TypeOK /\ [Next]_vars => TypeOK'
  BY NextType
<1> QED BY <1>1, <1>2, PTL DEF Spec
-----------------------------------------------------------------------------
LEMMA InitAhead == Init => RestOK /\ \A p \in Procs : AheadOK(p)
BY DEF Init, RestOK, AheadOK, FetchedPcs

\* A process that ends, but not between moving the branch and the end of the
\* checkout, leaves the files and the branch in step.
LEMMA EndsAhead ==
    ASSUME OneSync, TypeOK, RestOK, NEW p \in Procs, Ends(p),
           UNCHANGED dirVars, pc[p] \notin {"diff_trees", "checkout"}
    PROVE  RestOK' /\ \A q \in Procs : AheadOK(q)'
<1>1. \A q \in Procs : q = p
  BY DEF OneSync
<1>2. pc'[p] = "idle"
  BY DEF Ends, Goto, TypeOK
<1>3. RestOK'
  BY <1>1 DEF RestOK, dirVars, TreeOf
<1>4. AheadOK(p)'
  BY <1>2 DEF AheadOK, FetchedPcs
<1> QED BY <1>1, <1>3, <1>4

\* One sync at a time: what its steps do to the files and the branch.
LEMMA StepAhead ==
    ASSUME OneSync, OneBranch, TypeOK, RestOK, NEW p \in Procs, AheadOK(p),
           start(p) \/ Step(p)
    PROVE  RestOK' /\ \A q \in Procs : AheadOK(q)'
<1>1. \A q \in Procs : q = p
  BY DEF OneSync
<1> SUFFICES RestOK' /\ AheadOK(p)'
  BY <1>1
<1>2. CASE start(p)
  BY <1>1, <1>2
  DEF start, Goto, TypeOK, RestOK, AheadOK, FetchedPcs, remoteVars, dirVars, TreeOf
<1>3. CASE sync(p)
  <2>1. CASE Ends(p)
    BY <1>3, <2>1, EndsAhead DEF sync
  <2>2. CASE git = "ready" /\ Goto(p, "fetch") /\ UNCHANGED workVars
    BY <1>1, <1>3, <2>2
    DEF sync, Goto, TypeOK, RestOK, AheadOK, FetchedPcs, dirVars, workVars, TreeOf
  <2>3. CASE git = "none" /\ files = NoFiles /\ Goto(p, "init") /\ UNCHANGED workVars
    BY <1>1, <1>3, <2>3
    DEF sync, Goto, TypeOK, RestOK, AheadOK, FetchedPcs, dirVars, workVars, TreeOf
  <2> QED BY <1>3, <2>1, <2>2, <2>3 DEF sync
<1>4. CASE init_repository(p)
  BY <1>1, <1>4
  DEF init_repository, Goto, TypeOK, RestOK, AheadOK, FetchedPcs, workVars, TreeOf
<1>5. CASE record_url(p)
  BY <1>1, <1>5
  DEF record_url, Goto, TypeOK, RestOK, AheadOK, FetchedPcs, workVars, TreeOf
<1>6. CASE fetch(p)
  <2>1. CASE Ends(p)
    BY <1>6, <2>1, EndsAhead DEF fetch
  <2>2. CASE ~Ends(p)
    BY <1>1, <1>6, <2>2
    DEF fetch, Goto, TypeOK, RestOK, AheadOK, FetchedPcs, dirVars, TreeOf
  <2> QED BY <2>1, <2>2
<1>7. CASE resolve_ref(p)
  BY <1>1, <1>7
  DEF resolve_ref, Goto, TypeOK, RestOK, AheadOK, FetchedPcs, dirVars, TreeOf
<1>8. CASE write_ref(p)
  <2>1. pc'[p] = "diff_trees" /\ from'[p] = from[p] /\ tip'[p] = tip[p]
    BY <1>8 DEF write_ref, Goto, TypeOK, workVars
  <2>2. branch[p] \in Branches /\ branch'[p] = branch[p]
    BY <1>8 DEF write_ref, workVars, TypeOK, FetchedPcs
  <2>3. heads'[branch'[p]] = tip'[p]
    BY <1>8, <2>1, <2>2 DEF write_ref, TypeOK
  <2>4. git' = "ready" /\ files' = files
    BY <1>8 DEF write_ref, AheadOK, FetchedPcs
  <2>5. files = TreeOf(from[p])
    BY <1>1, <1>8, <2>2 DEF write_ref, RestOK, AheadOK, FetchedPcs
  <2>6. RestOK'
    BY <2>1 DEF RestOK
  <2>7. AheadOK(p)'
    BY <2>1, <2>3, <2>4, <2>5 DEF AheadOK, TreeOf
  <2> QED BY <2>6, <2>7
<1>9. CASE diff_trees(p)
  <2>1. pc'[p] = "checkout" /\ todo'[p] = Changed(TreeOf(from[p]), TreeOf(tip[p]))
    BY <1>9 DEF diff_trees, Goto, TypeOK
  <2>2. /\ git' = "ready"
        /\ heads'[branch'[p]] = tip'[p]
        /\ files' = TreeOf(from[p])
        /\ tip'[p] = tip[p] /\ tip[p] \in Commits
    BY <1>9 DEF diff_trees, AheadOK, FetchedPcs, dirVars, TypeOK
  <2>3. \A f \in Paths \ todo'[p] : files'[f] = Tree[tip'[p]][f]
    BY <2>1, <2>2, SyncAssumption DEF Changed, TreeOf
  <2>4. RestOK'
    BY <2>1 DEF RestOK
  <2>5. AheadOK(p)'
    BY <2>1, <2>2, <2>3 DEF AheadOK
  <2> QED BY <2>4, <2>5
<1>10. CASE checkout(p)
  <2>1. /\ git' = "ready" /\ heads' = heads
        /\ branch' = branch /\ tip' = tip
        /\ heads[branch[p]] = tip[p]
        /\ branch[p] \in Branches /\ tip[p] \in Commits
        /\ \A f \in Paths \ todo[p] : files[f] = Tree[tip[p]][f]
    BY <1>10 DEF checkout, AheadOK, FetchedPcs, TypeOK
  <2>2. CASE todo[p] = {} /\ Goto(p, "done") /\ UNCHANGED <<files, todo>>
    <3>1. files = Tree[tip[p]]
      BY <2>1, <2>2, SyncAssumption DEF TypeOK, Files
    <3>2. \A b \in Branches : b = branch[p]
      BY <2>1 DEF OneBranch
    <3>3. TreeOf(tip[p]) = Tree[tip[p]]
      BY <2>1, SyncAssumption DEF TreeOf
    <3>4. pc'[p] = "done"
      BY <2>2 DEF Goto, TypeOK
    <3>5. RestOK'
      BY <2>1, <2>2, <3>1, <3>2, <3>3 DEF RestOK, TreeOf
    <3>6. AheadOK(p)'
      BY <2>1, <3>4 DEF AheadOK
    <3> QED BY <3>5, <3>6
  <2>3. ASSUME NEW f \in todo[p], UNCHANGED pc,
               files' = [files EXCEPT ![f] = Tree[tip[p]][f]],
               todo' = [todo EXCEPT ![p] = @ \ {f}]
        PROVE  RestOK' /\ AheadOK(p)'
    <3>1. pc'[p] = "checkout"
      BY <1>10, <2>3 DEF checkout
    <3>2. \A g \in Paths \ todo'[p] : files'[g] = Tree[tip'[p]][g]
      BY <2>1, <2>3 DEF TypeOK, Files
    <3>3. RestOK'
      BY <3>1 DEF RestOK
    <3>4. AheadOK(p)'
      BY <2>1, <3>1, <3>2 DEF AheadOK
    <3> QED BY <3>3, <3>4
  <2> QED BY <1>10, <2>2, <2>3 DEF checkout
<1>11. CASE done(p)
  BY <1>11, EndsAhead DEF done
<1> QED
  BY <1>2, <1>3, <1>4, <1>5, <1>6, <1>7, <1>8, <1>9, <1>10, <1>11 DEF Step

LEMMA NextAhead ==
    ASSUME OneSync, OneBranch, NoLateStop, IInv, [Next]_vars
    PROVE  RestOK' /\ \A p \in Procs : AheadOK(p)'
<1>1. ASSUME NEW p \in Procs, start(p) \/ Step(p)
      PROVE  RestOK' /\ \A q \in Procs : AheadOK(q)'
  BY <1>1, StepAhead DEF IInv
<1>2. ASSUME NEW p \in Procs, stop(p)
      PROVE  RestOK' /\ \A q \in Procs : AheadOK(q)'
  BY <1>2, EndsAhead DEF IInv, stop, NoLateStop
<1>3. ASSUME UNCHANGED <<dirVars, pc, workVars>>
      PROVE  RestOK' /\ \A q \in Procs : AheadOK(q)'
  BY <1>3 DEF IInv, RestOK, AheadOK, FetchedPcs, dirVars, workVars, TreeOf
<1>4. CASE push \/ rename_default
  BY <1>3, <1>4 DEF push, rename_default
<1>5. CASE UNCHANGED vars
  BY <1>3, <1>5 DEF vars
<1> QED BY <1>1, <1>2, <1>4, <1>5 DEF Next

\* A sync that is through has left the files of its commit.
LEMMA DeliveredFiles ==
    ASSUME OneSync, IInv, NEW p \in Procs, pc[p] = "done"
    PROVE  files = Tree[tip[p]]
<1>1. branch[p] \in Branches /\ tip[p] \in Commits
  BY DEF IInv, TypeOK, FetchedPcs
<1>2. git = "ready" /\ heads[branch[p]] = tip[p]
  BY DEF IInv, AheadOK, FetchedPcs
<1>3. \A q \in Procs : pc[q] \notin {"diff_trees", "checkout"}
  BY DEF OneSync
<1>4. files = TreeOf(tip[p])
  BY <1>1, <1>2, <1>3 DEF IInv, RestOK
<1> QED BY <1>1, <1>4, SyncAssumption DEF TreeOf

\* config.rs:463-474: with one sync at a time, one branch, and no kill or error
\* after the branch has moved, a sync that succeeds leaves the files of the
\* commit it fetched, for any trees and however the branch moves.
THEOREM Delivers ==
    ASSUME OneSync, OneBranch, NoLateStop
    PROVE  Spec => []SyncDelivers
<1>1. Init => IInv
  BY InitType, InitAhead DEF IInv
<1>2. IInv /\ [Next]_vars => IInv'
  <2> SUFFICES ASSUME IInv, [Next]_vars PROVE IInv'
    OBVIOUS
  <2>1. TypeOK'
    BY NextType DEF IInv
  <2>2. RestOK' /\ \A p \in Procs : AheadOK(p)'
    BY NextAhead
  <2> QED BY <2>1, <2>2 DEF IInv
<1>3. IInv => SyncDelivers
  BY DeliveredFiles DEF SyncDelivers
<1> QED BY <1>1, <1>2, <1>3, PTL DEF Spec
-----------------------------------------------------------------------------
\* The files stay what they were when the sync began until it checks out, which is when
\* the counts are drawn from the commit they are of and the one it goes to.
CountOK(p) ==
    /\ pc[p] \notin {"idle", "checkout", "done"} => before[p] = files
    /\ pc[p] \in {"checkout", "done"} => counts[p] = Count(before[p], Tree[tip[p]], Apps)
AllCounted == \A p \in Procs : CountOK(p)

LEMMA StepCount ==
    ASSUME OneSync, IInv, NEW p \in Procs, CountOK(p), start(p) \/ Step(p) \/ stop(p)
    PROVE  CountOK(p)'
<1>1. TypeOK /\ CountOK(p)
  BY DEF IInv
<1>2. CASE start(p)
  BY <1>1, <1>2 DEF start, Goto, TypeOK, CountOK, dirVars
<1>3. CASE Ends(p)
  BY <1>1, <1>3 DEF Ends, Goto, TypeOK, CountOK
<1>4. CASE sync(p)
  <2>1. CASE UNCHANGED workVars
    BY <1>1, <1>4, <2>1 DEF sync, Ends, Goto, TypeOK, CountOK, dirVars, workVars
  <2> QED BY <1>3, <1>4, <2>1 DEF sync
<1>5. CASE init_repository(p) \/ record_url(p) \/ write_ref(p)
  BY <1>1, <1>5
  DEF init_repository, record_url, write_ref, Goto, TypeOK, CountOK, workVars
<1>6. CASE fetch(p) /\ ~Ends(p)
  BY <1>1, <1>6 DEF fetch, Goto, TypeOK, CountOK, dirVars
<1>7. CASE resolve_ref(p)
  BY <1>1, <1>7 DEF resolve_ref, Goto, TypeOK, CountOK, dirVars
<1>8. CASE diff_trees(p)
  <2>1. /\ pc'[p] = "checkout" /\ before' = before /\ tip' = tip
        /\ before[p] = files /\ files = TreeOf(from[p])
        /\ counts'[p] = Count(TreeOf(from[p]), TreeOf(tip[p]), Apps)
    BY <1>1, <1>8 DEF diff_trees, Goto, TypeOK, CountOK, IInv, AheadOK
  <2>2. TreeOf(tip[p]) = Tree[tip[p]]
    BY <1>1, <1>8, SyncAssumption DEF diff_trees, TypeOK, FetchedPcs, TreeOf
  <2> QED BY <2>1, <2>2 DEF CountOK
<1>9. CASE checkout(p)
  BY <1>1, <1>9 DEF checkout, Goto, TypeOK, CountOK
<1> QED
  BY <1>2, <1>3, <1>4, <1>5, <1>6, <1>7, <1>8, <1>9 DEF Step, stop, done

LEMMA NextCount ==
    ASSUME OneSync, IInv, AllCounted, [Next]_vars
    PROVE  AllCounted'
<1>1. ASSUME NEW p \in Procs, start(p) \/ Step(p) \/ stop(p)
      PROVE  AllCounted'
  <2>1. \A q \in Procs : q = p
    BY DEF OneSync
  <2>2. CountOK(p)'
    BY <1>1, StepCount DEF AllCounted
  <2>3. ASSUME NEW q \in Procs PROVE CountOK(q)'
    BY <2>1, <2>2 DEF CountOK
  <2> QED BY <2>3 DEF AllCounted
<1>2. CASE push \/ rename_default \/ UNCHANGED vars
  BY <1>2 DEF push, rename_default, vars, AllCounted, CountOK, dirVars, workVars
<1> QED BY <1>1, <1>2 DEF Next

\* "synced apps: {} added, {} changed, {} removed": with one sync at a time, one branch, and
\* no kill or error after the branch has moved, the counts printed are what has become of
\* the definitions since the sync began, for any trees and however the branch moves.
THEOREM CountsWhatChanged ==
    ASSUME OneSync, OneBranch, NoLateStop
    PROVE  Spec => []CountsTrue
<1>1. Init => IInv /\ AllCounted
  BY InitType, InitAhead DEF IInv, Init, AllCounted, CountOK
<1>2. IInv /\ AllCounted /\ [Next]_vars => IInv' /\ AllCounted'
  BY NextType, NextAhead, NextCount DEF IInv
<1>3. IInv /\ AllCounted => CountsTrue
  <2> SUFFICES ASSUME IInv, NEW p \in Procs, CountOK(p), pc[p] = "done"
               PROVE  counts[p] = Count(before[p], files, Apps)
    BY DEF CountsTrue, AllCounted
  <2>1. files = Tree[tip[p]]
    BY DeliveredFiles
  <2> QED BY <2>1 DEF CountOK
<1> QED BY <1>1, <1>2, <1>3, PTL DEF Spec
-----------------------------------------------------------------------------
\* What a sync has fetched has been published, however the branch moves meanwhile.
FetchedPublished ==
    /\ remote[default] # None => remote[default] \in published
    /\ \A p \in Procs : pc[p] \in FetchedPcs => tip[p] \in published

LEMMA NextPublished ==
    ASSUME TypeOK, FetchedPublished, [Next]_vars
    PROVE  FetchedPublished'
<1>1. ASSUME NEW p \in Procs, start(p) \/ stop(p) \/ done(p) \/ sync(p)
      PROVE  FetchedPublished'
  BY <1>1
  DEF start, stop, done, sync, Ends, Goto, TypeOK, FetchedPublished, FetchedPcs,
      remoteVars, dirVars, workVars
<1>2. ASSUME NEW p \in Procs,
             \/ init_repository(p) \/ record_url(p) \/ resolve_ref(p)
             \/ write_ref(p) \/ diff_trees(p) \/ checkout(p)
      PROVE  FetchedPublished'
  BY <1>2
  DEF init_repository, record_url, resolve_ref, write_ref, diff_trees, checkout, Goto,
      TypeOK, FetchedPublished, FetchedPcs, remoteVars, dirVars, workVars
<1>3. ASSUME NEW p \in Procs, fetch(p) PROVE FetchedPublished'
  BY <1>3
  DEF fetch, Ends, Goto, TypeOK, FetchedPublished, FetchedPcs, remoteVars, dirVars
<1>4. CASE push \/ rename_default
  BY <1>4
  DEF push, rename_default, Publish, TypeOK, FetchedPublished, FetchedPcs, dirVars,
      workVars
<1>5. CASE UNCHANGED vars
  BY <1>5 DEF vars, FetchedPublished, remoteVars, workVars
<1> QED BY <1>1, <1>2, <1>3, <1>4, <1>5 DEF Next, Step

\* With one sync at a time, the only one that can be checking files out is it.
LEMMA OnlyWriter ==
    ASSUME OneSync, NEW p \in Procs, NEW S, S \subseteq Procs
    PROVE  IF p \in S THEN S # {} /\ (CHOOSE q \in S : TRUE) = p ELSE S = {}
<1>1. \A q \in Procs : q = p
  BY DEF OneSync
<1>2. CASE p \in S
  <2>1. (CHOOSE q \in S : TRUE) \in S
    BY <1>2
  <2> QED BY <1>1, <1>2, <2>1
<1> QED BY <1>1, <1>2

\* A step of a sync shows what was there, or what it has fetched.
LEMMA StepAdopts ==
    ASSUME OneSync, NoLateStop, IInv, IInv', FetchedPublished, NEW p \in Procs,
           start(p) \/ Step(p) \/ stop(p)
    PROVE  [Dir!Next]_Dir!vars
<1>1. published' = published
  BY DEF start, Step, stop, sync, init_repository, record_url, fetch, resolve_ref,
         write_ref, diff_trees, checkout, done, remoteVars
<1>2. /\ Shown = IF pc[p] = "checkout" THEN TreeOf(from[p]) ELSE files
      /\ Shown' = IF pc'[p] = "checkout" THEN TreeOf(from'[p]) ELSE files'
  <2> DEFINE S == {q \in Procs : pc[q] = "checkout"}
             T == {q \in Procs : pc'[q] = "checkout"}
  <2>1. Shown = IF S = {} THEN files ELSE TreeOf(from[CHOOSE q \in S : TRUE])
    BY DEF Shown
  <2>2. Shown' = IF T = {} THEN files' ELSE TreeOf(from'[CHOOSE q \in T : TRUE])
    BY DEF Shown, TreeOf
  <2>3. S \subseteq Procs /\ T \subseteq Procs
    OBVIOUS
  <2>4. /\ (p \in S) = (pc[p] = "checkout")
        /\ (p \in T) = (pc'[p] = "checkout")
    OBVIOUS
  <2> HIDE DEF S, T
  <2>5. /\ IF p \in S THEN S # {} /\ (CHOOSE q \in S : TRUE) = p ELSE S = {}
        /\ IF p \in T THEN T # {} /\ (CHOOSE q \in T : TRUE) = p ELSE T = {}
    BY <2>3, OnlyWriter
  <2>6. Shown = IF pc[p] = "checkout" THEN TreeOf(from[p]) ELSE files
    <3>1. CASE p \in S
      <4>1. S # {} /\ (CHOOSE q \in S : TRUE) = p
        BY <2>5, <3>1
      <4>2. Shown = TreeOf(from[p])
        BY <2>1, <4>1
      <4> QED BY <2>4, <3>1, <4>2
    <3>2. CASE p \notin S
      BY <2>1, <2>4, <2>5, <3>2
    <3> QED BY <3>1, <3>2
  <2>7. Shown' = IF pc'[p] = "checkout" THEN TreeOf(from'[p]) ELSE files'
    <3>1. CASE p \in T
      <4>1. T # {} /\ (CHOOSE q \in T : TRUE) = p
        BY <2>5, <3>1
      <4>2. Shown' = TreeOf(from'[p])
        BY <2>2, <4>1
      <4> QED BY <2>4, <3>1, <4>2
    <3>2. CASE p \notin T
      BY <2>2, <2>4, <2>5, <3>2
    <3> QED BY <3>1, <3>2
  <2> QED BY <2>6, <2>7
<1>3. CASE diff_trees(p)
  <2>1. pc'[p] = "checkout" /\ from' = from /\ files = TreeOf(from[p])
    BY <1>3 DEF diff_trees, Goto, IInv, TypeOK, AheadOK
  <2>2. TreeOf(from'[p]) = TreeOf(from[p])
    BY <2>1
  <2>3. Shown' = Shown
    BY <1>2, <1>3, <2>1, <2>2 DEF diff_trees
  <2> QED BY <1>1, <2>3 DEF Dir!vars
<1>4. CASE checkout(p)
  <2>1. pc[p] = "checkout" /\ from' = from /\ tip' = tip
    BY <1>4 DEF checkout
  <2>2. CASE pc'[p] = "checkout"
    BY <1>1, <1>2, <2>1, <2>2 DEF Dir!vars, TreeOf
  <2>3. CASE pc'[p] = "done"
    <3>1. tip[p] \in Commits /\ tip[p] \in published
      BY <2>1 DEF IInv, TypeOK, FetchedPcs, FetchedPublished
    <3>2. files' = Tree[tip[p]]
      <4>1. todo[p] = {} /\ files' = files
        BY <1>4, <2>1, <2>3 DEF checkout
      <4>2. \A f \in Paths : files[f] = Tree[tip[p]][f]
        BY <2>1, <4>1 DEF IInv, AheadOK
      <4> QED BY <3>1, <4>1, <4>2, SyncAssumption DEF IInv, TypeOK, Files
    <3>3. Shown' = Tree[tip[p]]
      BY <1>2, <2>3, <3>2
    <3>4. Dir!Adopt(tip[p])
      BY <1>1, <3>1, <3>3 DEF Dir!Adopt
    <3> QED BY <3>1, <3>4 DEF Dir!Next
  <2> QED BY <1>4, <2>2, <2>3 DEF checkout, Goto, IInv, TypeOK
<1>5. CASE \/ start(p) \/ sync(p) \/ init_repository(p) \/ record_url(p) \/ fetch(p)
           \/ resolve_ref(p) \/ write_ref(p) \/ done(p)
  <2>1. pc[p] # "checkout" /\ pc'[p] # "checkout" /\ files' = files
    BY <1>5
    DEF start, sync, init_repository, record_url, fetch, resolve_ref, write_ref, done,
        Ends, Goto, IInv, TypeOK, dirVars
  <2> QED BY <1>1, <1>2, <2>1 DEF Dir!vars
<1>6. CASE stop(p)
  <2>1. pc[p] # "checkout" /\ pc'[p] # "checkout" /\ files' = files
    BY <1>6 DEF stop, Ends, Goto, NoLateStop, IInv, TypeOK, dirVars
  <2> QED BY <1>1, <1>2, <2>1 DEF Dir!vars
<1> QED BY <1>3, <1>4, <1>5, <1>6 DEF Step

\* A step of the repository's publishes a commit, or shows no one.
LEMMA PushPublishes ==
    ASSUME IInv, IInv', push \/ rename_default
    PROVE  [Dir!Next]_Dir!vars
<1>1. Shown' = Shown
  <2>1. pc' = pc /\ from' = from /\ files' = files
    BY DEF push, rename_default, dirVars, workVars
  <2> QED BY <2>1 DEF Shown, TreeOf
<1>2. published' = published \cup ({remote'[default']} \ {None})
  BY DEF push, rename_default, Publish
<1>3. CASE remote'[default'] = None
  BY <1>1, <1>2, <1>3 DEF Dir!vars
<1>4. CASE remote'[default'] # None
  <2>1. remote'[default'] \in Commits
    BY <1>4 DEF IInv, TypeOK
  <2>2. Dir!Publish(remote'[default'])
    BY <1>1, <1>2, <1>4 DEF Dir!Publish
  <2> QED BY <2>1, <2>2 DEF Dir!Next
<1> QED BY <1>3, <1>4

\* config.rs:463-474 implements Definitions: with one sync at a time, one branch, and
\* no kill or error after the branch has moved, the directory goes from one published
\* commit to another, for any trees and however the repository moves.
THEOREM Refines ==
    ASSUME OneSync, OneBranch, NoLateStop
    PROVE  Spec => AdoptsPublished
<1>1. Init => IInv /\ FetchedPublished
  BY InitType, InitAhead DEF IInv, FetchedPublished, FetchedPcs, Init
<1>2. IInv /\ FetchedPublished /\ [Next]_vars => IInv' /\ FetchedPublished'
  BY NextType, NextAhead, NextPublished DEF IInv
<1>3. Init => Dir!Init
  <2> SUFFICES ASSUME Init PROVE Dir!Init
    OBVIOUS
  <2>1. Shown = files
    BY DEF Init, Shown
  <2>2. published \subseteq Commits
    BY InitType DEF TypeOK
  <2> QED BY <2>1, <2>2 DEF Init, Dir!Init
<1>4. IInv /\ FetchedPublished /\ IInv' /\ [Next]_vars => [Dir!Next]_Dir!vars
  <2> SUFFICES ASSUME IInv, FetchedPublished, IInv', [Next]_vars
               PROVE  [Dir!Next]_Dir!vars
    OBVIOUS
  <2>1. ASSUME NEW p \in Procs, start(p) \/ Step(p) \/ stop(p)
        PROVE  [Dir!Next]_Dir!vars
    BY <2>1, StepAdopts
  <2>2. CASE push \/ rename_default
    BY <2>2, PushPublishes
  <2>3. CASE UNCHANGED vars
    BY <2>3 DEF vars, remoteVars, dirVars, workVars, Shown, TreeOf, Dir!vars
  <2> QED BY <2>1, <2>2, <2>3 DEF Next
<1> QED BY <1>1, <1>2, <1>3, <1>4, PTL DEF Spec, AdoptsPublished, Dir!Spec
=============================================================================
