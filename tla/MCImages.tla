------------------------------ MODULE MCImages ------------------------------
(***************************************************************************)
(* Instances of Images for TLC.                                            *)
(***************************************************************************)
EXTENDS Images, TLC

CONSTANTS cc, edit_, local, r1, r2, m1, m2, m3, c1, c2, l1, l2

\* One process.  `cc` has an install script on r1, `edit` pulls r1, `local`
\* uses r2, which was put in the store by hand.  The two versions of r1 share
\* the config c1 and the layer l1, and r2 shares l2 with the older one.
SeqAppNames == <<cc, edit_, local>>
SeqReference == edit_ :> r1 @@ cc :> r1 @@ local :> r2
SeqConfig == m1 :> c1 @@ m2 :> c1 @@ m3 :> c2
SeqLayers == m1 :> <<l1, l2>> @@ m2 :> <<l1>> @@ m3 :> <<l2>>
SeqVersions == r1 :> {m1, m2} @@ r2 :> {m3}

\* A kill anywhere but in the middle of rewriting a manifest in place or of
\* deleting a layer, which the store does not recover from by itself, and where
\* it leaves what one a few steps later leaves too, or an emptier directory.
SafeKillPoints ==
    PcLabels \ {"idle", "manifest_fill", "remove_tree",
                "config_download", "abort", "run_script", "script_1"}

SeqSymmetry == Permutations(BuildIds)
-----------------------------------------------------------------------------
\* One process and two apps that share r1; `cc` has an install script.
DefsAppNames == <<cc, edit_>>
DefsReference == edit_ :> r1 @@ cc :> r1
-----------------------------------------------------------------------------
\* Two processes and one app, which pulls r1.
OneAppName == <<edit_>>
OneReference == edit_ :> r1
OneConfig == m1 :> c1
OneLayers == m1 :> <<l1>>
OneVersions == r1 :> {m1}

\* The same with a manifest that names its layer twice, as images with several
\* empty layers do.
TwiceLayers == m1 :> <<l1, l1>>
=============================================================================
