-------------------------- MODULE MCFleetJobLease --------------------------
(***************************************************************************)
(* One job passed between two runners that reboot, fall silent, repeat and *)
(* delay everything they say: leases, fencing and commands.                *)
(***************************************************************************)
EXTENDS FleetJob, TLC

CONSTANTS j1, r1, r2, b1, b2, repo1, project1

MCRepoOf    == [j \in {j1} |-> repo1]
MCFeatureOf == [j \in {j1} |-> "feature"]
MCProjectOf == [j \in {j1} |-> project1]
MCPinOf     == [j \in {j1} |-> NoRunner]
MCCapableOf == [j \in {j1} |-> Runners]
MCCapacity  == [r \in Runners |-> 1]
MCThreadCapacity == [r \in Runners |-> 0]

\* Only the runners that never fall silent are interchangeable.
MCSymmetry == Permutations(Runners \ Fallible) \cup Permutations(Boots)
============================================================================
