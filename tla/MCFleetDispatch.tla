-------------------------- MODULE MCFleetDispatch --------------------------
(***************************************************************************)
(* One job and one machine: the whole path from dispatch to the last       *)
(* event, with daemons that are killed and messages that are lost.         *)
(***************************************************************************)
EXTENDS FleetDispatch

CONSTANTS j1, r1, repo1, project1

MCBoots     == 1..MaxBoot
MCRepoOf    == [j \in {j1} |-> repo1]
MCFeatureOf == [j \in {j1} |-> "feature"]
MCProjectOf == [j \in {j1} |-> project1]
MCPinOf     == [j \in {j1} |-> NoRunner]
MCCapableOf == [j \in {j1} |-> Runners]
MCCapacity  == [r \in Runners |-> 1]
MCThreadCapacity == [r \in Runners |-> 0]
============================================================================
