---------------------------- MODULE MCBuildView -----------------------------
(* One browser, two builds that are dry runs, and a queue of one event,    *)
(* which overflows.                                                        *)
EXTENDS BuildView

CONSTANTS s1

(* A dry run has two stages less, and ends well or badly like another. *)
DryRuns == \A t \in Builds : task'[t] # NoBuild => task'[t].dry

DryViewSpec == ViewInit /\ [][ViewNext /\ DryRuns]_viewVars /\ ViewFairness
=============================================================================
