------------------------------- MODULE MCSync -------------------------------
(***************************************************************************)
(* Instances of Sync for TLC.                                              *)
(***************************************************************************)
EXTENDS Sync, TLC

CONSTANTS app1, app2, readme, c1, c2, c3, x, y

\* c2 changes app1, adds app2 and drops the README; c3 has it back without app1.
MCTree ==
    c1 :> (app1 :> x @@ app2 :> Absent @@ readme :> x) @@
    c2 :> (app1 :> y @@ app2 :> x @@ readme :> Absent) @@
    c3 :> (app1 :> Absent @@ app2 :> x @@ readme :> x)

\* Anywhere but between moving the branch and the end of the checkout, which no
\* later sync makes up for
SafeStops == PcLabels \ {"idle", "diff_trees", "checkout"}
=============================================================================
