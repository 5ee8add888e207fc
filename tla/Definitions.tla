---------------------------- MODULE Definitions ----------------------------
(***************************************************************************)
(* What `climate sync` promises of the directory of app definitions: it    *)
(* shows the tree of one commit that the repository has published as its   *)
(* default branch, and moves to another in one step.                       *)
(***************************************************************************)
CONSTANTS
    Commits,
    Tree,       \* Tree[c]: the definitions commit c holds
    empty       \* those of an empty directory

VARIABLES
    shown,      \* the definitions in the directory
    published   \* the commits the default branch has been at

vars == <<shown, published>>

\* A directory of the user's own may hold anything: it is never touched.
Init ==
    /\ shown \in {empty} \cup {Tree[c] : c \in Commits}
    /\ published \subseteq Commits

Publish(c) ==
    /\ published' = published \cup {c}
    /\ UNCHANGED shown

Adopt(c) ==
    /\ c \in published
    /\ shown' = Tree[c]
    /\ UNCHANGED published

Next == \E c \in Commits : Publish(c) \/ Adopt(c)

Spec == Init /\ [][Next]_vars
=============================================================================
