-------------------------------- MODULE Sync --------------------------------
(***************************************************************************)
(* src/src/config.rs: sync() and fetch_and_checkout().  `climate sync`,    *)
(* started by users and by a daily timer, keeps one directory of app       *)
(* definitions in step with a git repository.  git itself, grit-lib, is    *)
(* external: it is modelled from how sync() uses it.                       *)
(***************************************************************************)
EXTENDS Naturals, FiniteSets

CONSTANTS
    Procs,      \* `climate sync` processes that may run at the same time
    Paths,      \* files the repository ever holds
    Apps,       \* those that end in .toml
    Contents,   \* what a file may hold
    Commits,    \* commits of the repository
    Tree,       \* Tree[c][f]: what commit c holds at f, or Absent
    Branches,   \* branches of the repository
    StopPoints, \* values of pc at which a kill or an error may end a sync
    Absent,     \* no such file
    None        \* no commit, no branch

Files == [Paths -> Contents \cup {Absent}]
NoFiles == [f \in Paths |-> Absent]

ASSUME SyncAssumption ==
    /\ IsFiniteSet(Paths)
    /\ Apps \subseteq Paths
    /\ Tree \in [Commits -> Files]
    /\ Absent \notin Contents
    /\ None \notin Commits \cup Branches
-----------------------------------------------------------------------------
VARIABLES
    remote,     \* remote[b]: the commit branch b of the repository is at, or None
    default,    \* its default branch
    published,  \* history: the commits the default branch has been at
    git,        \* the target's .git: "none", "bare" (without a URL) or "ready"
    heads,      \* heads[b]: refs/heads/b in there, or None
    files       \* the other files of the target directory

VARIABLES
    pc,         \* where the process is
    branch,     \* the remote's default branch, as fetched
    tip,        \* the commit it is at, as fetched
    from,       \* the commit refs/heads/<branch> was at, or None
    todo,       \* paths checkout_between_trees() has yet to change
    counts,     \* the SyncCounts
    before      \* history: the files when the sync began

remoteVars == <<remote, default, published>>
dirVars == <<git, heads, files>>
workVars == <<branch, tip, from, todo, counts, before>>
vars == <<remoteVars, dirVars, pc, workVars>>

TreeOf(c) == IF c = None THEN NoFiles ELSE Tree[c]
Changed(old, new) == {f \in Paths : old[f] # new[f]}

\* The changes among `some` by kind, as the loop over diff_trees() counts them
Count(old, new, some) ==
    LET changes == Changed(old, new) \cap some
    IN  [added |-> Cardinality({f \in changes : old[f] = Absent}),
         removed |-> Cardinality({f \in changes : new[f] = Absent}),
         changed |-> Cardinality({f \in changes : Absent \notin {old[f], new[f]}})]
NoCounts == Count(NoFiles, NoFiles, {})

\* A target directory that does not exist yet, or with a file of the user's
Init ==
    /\ remote \in [Branches -> Commits \cup {None}]
    /\ default \in Branches
    /\ published = {remote[default]} \ {None}
    /\ git = "none"
    /\ heads = [b \in Branches |-> None]
    /\ files \in {NoFiles} \cup {Tree[c] : c \in Commits}
    /\ pc = [p \in Procs |-> "idle"]
    /\ branch = [p \in Procs |-> None]
    /\ tip = [p \in Procs |-> None]
    /\ from = [p \in Procs |-> None]
    /\ todo = [p \in Procs |-> {}]
    /\ counts = [p \in Procs |-> NoCounts]
    /\ before = [p \in Procs |-> NoFiles]
-----------------------------------------------------------------------------
Goto(p, label) == pc' = [pc EXCEPT ![p] = label]

\* The process ends, with or without an error.
Ends(p) ==
    /\ Goto(p, "idle")
    /\ branch' = [branch EXCEPT ![p] = None]
    /\ tip' = [tip EXCEPT ![p] = None]
    /\ from' = [from EXCEPT ![p] = None]
    /\ todo' = [todo EXCEPT ![p] = {}]
    /\ counts' = [counts EXCEPT ![p] = NoCounts]
    /\ before' = [before EXCEPT ![p] = NoFiles]

start(p) ==
    /\ pc[p] = "idle"
    /\ before' = [before EXCEPT ![p] = files]
    /\ Goto(p, "sync")
    /\ UNCHANGED <<remoteVars, dirVars, branch, tip, from, todo, counts>>

\* sync(): with a .git it must have a URL, without one the target must be empty.
sync(p) ==
    /\ pc[p] = "sync"
    /\ \/ git = "ready" /\ Goto(p, "fetch") /\ UNCHANGED workVars
       \/ git = "none" /\ files = NoFiles /\ Goto(p, "init") /\ UNCHANGED workVars
       \/ git = "bare" /\ Ends(p)
       \/ git = "none" /\ files # NoFiles /\ Ends(p)
    /\ UNCHANGED <<remoteVars, dirVars>>

\* The first sync: init_repository(), then the URL
init_repository(p) ==
    /\ pc[p] = "init"
    /\ git' = IF git = "none" THEN "bare" ELSE git
    /\ Goto(p, "record_url")
    /\ UNCHANGED <<remoteVars, heads, files, workVars>>

record_url(p) ==
    /\ pc[p] = "record_url"
    /\ git' = "ready"
    /\ Goto(p, "fetch")
    /\ UNCHANGED <<remoteVars, heads, files, workVars>>

\* Mutant: a fetch that brings no commit of the default branch succeeds.
fetch_unchecked(p) ==
    /\ pc[p] = "fetch"
    /\ \/ /\ branch' = [branch EXCEPT ![p] = default]
          /\ tip' = [tip EXCEPT ![p] = remote[default]]
          /\ Goto(p, "resolve_ref")
          /\ UNCHANGED <<from, todo, counts, before>>
       \/ Ends(p)
    /\ UNCHANGED <<remoteVars, dirVars>>

\* fetch(): the remote advertises its default branch and where that is now.  It
\* may not be reached, or have no branch of the name it advertises.
fetch(p) ==
    /\ pc[p] = "fetch"
    /\ \/ /\ remote[default] # None
          /\ branch' = [branch EXCEPT ![p] = default]
          /\ tip' = [tip EXCEPT ![p] = remote[default]]
          /\ Goto(p, "resolve_ref")
          /\ UNCHANGED <<from, todo, counts, before>>
       \/ Ends(p)
    /\ UNCHANGED <<remoteVars, dirVars>>

\* Mutant: the branch moves before from_tree is read.
resolve_ref_late(p) ==
    /\ pc[p] = "resolve_ref"
    /\ from' = [from EXCEPT ![p] = tip[p]]
    /\ Goto(p, "write_ref")
    /\ UNCHANGED <<remoteVars, dirVars, branch, tip, todo, counts, before>>

\* from_tree: what the local branch was at, if there is one
resolve_ref(p) ==
    /\ pc[p] = "resolve_ref"
    /\ from' = [from EXCEPT ![p] = heads[branch[p]]]
    /\ Goto(p, "write_ref")
    /\ UNCHANGED <<remoteVars, dirVars, branch, tip, todo, counts, before>>

write_ref(p) ==
    /\ pc[p] = "write_ref"
    /\ heads' = [heads EXCEPT ![branch[p]] = tip[p]]
    /\ Goto(p, "diff_trees")
    /\ UNCHANGED <<remoteVars, git, files, workVars>>

\* Mutant: every file is counted as a definition.
diff_trees_all(p) ==
    LET old == TreeOf(from[p])
        new == TreeOf(tip[p])
    IN  /\ pc[p] = "diff_trees"
        /\ counts' = [counts EXCEPT ![p] = Count(old, new, Paths)]
        /\ todo' = [todo EXCEPT ![p] = Changed(old, new)]
        /\ Goto(p, "checkout")
        /\ UNCHANGED <<remoteVars, dirVars, branch, tip, from, before>>

\* Mutant: the new files are unpacked over the old ones.
diff_trees_unpack(p) ==
    LET old == TreeOf(from[p])
        new == TreeOf(tip[p])
    IN  /\ pc[p] = "diff_trees"
        /\ counts' = [counts EXCEPT ![p] = Count(old, new, Apps)]
        /\ todo' = [todo EXCEPT ![p] = {f \in Changed(old, new) : new[f] # Absent}]
        /\ Goto(p, "checkout")
        /\ UNCHANGED <<remoteVars, dirVars, branch, tip, from, before>>

\* The comparison, and the counts drawn from it
diff_trees(p) ==
    LET old == TreeOf(from[p])
        new == TreeOf(tip[p])
    IN  /\ pc[p] = "diff_trees"
        /\ counts' = [counts EXCEPT ![p] = Count(old, new, Apps)]
        /\ todo' = [todo EXCEPT ![p] = Changed(old, new)]
        /\ Goto(p, "checkout")
        /\ UNCHANGED <<remoteVars, dirVars, branch, tip, from, before>>

\* checkout_between_trees(): the paths that differ, one after the other
checkout(p) ==
    /\ pc[p] = "checkout"
    /\ \/ /\ todo[p] = {}
          /\ Goto(p, "done")
          /\ UNCHANGED <<files, todo>>
       \/ \E f \in todo[p] :
            /\ files' = [files EXCEPT ![f] = Tree[tip[p]][f]]
            /\ todo' = [todo EXCEPT ![p] = @ \ {f}]
            /\ UNCHANGED pc
    /\ UNCHANGED <<remoteVars, git, heads, branch, tip, from, counts, before>>

\* "synced apps", and the end
done(p) == pc[p] = "done" /\ Ends(p) /\ UNCHANGED <<remoteVars, dirVars>>

\* A kill, a power cut, or an error such as a full disk
stop(p) == pc[p] \in StopPoints /\ Ends(p) /\ UNCHANGED <<remoteVars, dirVars>>
-----------------------------------------------------------------------------
\* The definitions' maintainers: a branch moves, appears or goes, or another one
\* becomes the default.
Publish == published' = published \cup ({remote'[default']} \ {None})

push ==
    /\ \E b \in Branches, c \in Commits \cup {None} :
         remote' = [remote EXCEPT ![b] = c]
    /\ UNCHANGED <<default, dirVars, pc, workVars>>
    /\ Publish

rename_default ==
    /\ default' \in Branches
    /\ UNCHANGED <<remote, dirVars, pc, workVars>>
    /\ Publish

Step(p) ==
    \/ sync(p) \/ init_repository(p) \/ record_url(p) \/ fetch(p)
    \/ resolve_ref(p) \/ write_ref(p) \/ diff_trees(p) \/ checkout(p)
    \/ done(p)

Next ==
    \/ \E p \in Procs : start(p) \/ Step(p) \/ stop(p)
    \/ push
    \/ rename_default

Spec == Init /\ [][Next]_vars
-----------------------------------------------------------------------------
PcLabels ==
    {"idle", "sync", "init", "record_url", "fetch", "resolve_ref", "write_ref",
     "diff_trees", "checkout", "done"}
FetchedPcs == {"resolve_ref", "write_ref", "diff_trees", "checkout", "done"}

TypeOK ==
    /\ remote \in [Branches -> Commits \cup {None}]
    /\ default \in Branches
    /\ published \subseteq Commits
    /\ git \in {"none", "bare", "ready"}
    /\ heads \in [Branches -> Commits \cup {None}]
    /\ files \in Files
    /\ pc \in [Procs -> PcLabels]
    /\ branch \in [Procs -> Branches \cup {None}]
    /\ tip \in [Procs -> Commits \cup {None}]
    /\ from \in [Procs -> Commits \cup {None}]
    /\ todo \in [Procs -> SUBSET Paths]
    /\ counts \in [Procs -> [added : Nat, changed : Nat, removed : Nat]]
    /\ before \in [Procs -> Files]
    /\ \A p \in Procs : pc[p] \in FetchedPcs =>
         branch[p] \in Branches /\ tip[p] \in Commits

\* A sync that succeeds leaves the files of the commit it fetched, also after an
\* earlier one that failed or was stopped at a label of StopPoints.  It does not
\* once one was stopped between moving the branch and the end of its checkout
\* (config.rs:464-473): the next takes the branch for what is checked out.
SyncDelivers == \A p \in Procs : pc[p] = "done" => files = Tree[tip[p]]

\* "synced apps: {} added, {} changed, {} removed" tells what has become of the
\* definitions in the directory since the sync began.
CountsTrue ==
    \A p \in Procs : pc[p] = "done" => counts[p] = Count(before[p], files, Apps)
-----------------------------------------------------------------------------
(* What a sync amounts to, see Definitions *)

\* The definitions as they were until a checkout is through
Shown ==
    LET writing == {p \in Procs : pc[p] = "checkout"}
    IN  IF writing = {} THEN files ELSE TreeOf(from[CHOOSE p \in writing : TRUE])

Dir == INSTANCE Definitions WITH shown <- Shown, empty <- NoFiles

\* config.rs:467, "Comparing the two file listings, rather than just unpacking the
\* new one": the definitions go from one published commit to another, with nothing
\* left of the one before, however the repository moves while they are fetched.
AdoptsPublished == Dir!Spec
-----------------------------------------------------------------------------
(* The inductive invariant behind SyncDelivers *)

\* With one sync at a time, one branch, and no stop once the branch has moved:
\* the files are those of the commit the branch is at,
RestOK ==
    (\A p \in Procs : pc[p] \notin {"diff_trees", "checkout"}) =>
        \A b \in Branches : IF git = "none" THEN heads[b] = None
                                             ELSE files = TreeOf(heads[b])

\* and while it is ahead of them, a file is as it was or as the new commit has it.
AheadOK(p) ==
    /\ pc[p] = "init" => git = "none" /\ files = NoFiles
    /\ pc[p] = "record_url" => git # "none"
    /\ pc[p] \in {"fetch"} \cup FetchedPcs => git = "ready"
    /\ pc[p] = "write_ref" => from[p] = heads[branch[p]]
    /\ pc[p] \in {"diff_trees", "checkout", "done"} => heads[branch[p]] = tip[p]
    /\ pc[p] = "diff_trees" => files = TreeOf(from[p])
    /\ pc[p] = "checkout" =>
         \A f \in Paths \ todo[p] : files[f] = Tree[tip[p]][f]

IInv == TypeOK /\ RestOK /\ \A p \in Procs : AheadOK(p)
=============================================================================
