------------------------ MODULE MCFleetJobPlacement ------------------------
(***************************************************************************)
(* Jobs of two projects compete for two runners: capacity, checkouts,      *)
(* trust domains, thread slots, a budget pause and an operator's switch.   *)
(***************************************************************************)
EXTENDS FleetJob, TLC

CONSTANTS raw1, run1, run2, r1, r2, repo1, repo2, project1, project2

\* raw1 and run1 share a repository; run2, a thread turn in some runs, belongs
\* to another project.
MCRepoOf    == (raw1 :> repo1) @@ (run1 :> repo1) @@ (run2 :> repo2)
MCFeatureOf == (raw1 :> "a") @@ (run1 :> "b") @@ (run2 :> "c")
MCProjectOf == (raw1 :> project1) @@ (run1 :> project1) @@ (run2 :> project2)
MCPinOf     == (raw1 :> NoRunner) @@ (run1 :> NoRunner) @@ (run2 :> r1)
MCCapableOf == (raw1 :> {r1}) @@ (run1 :> {r1, r2}) @@ (run2 :> {r1, r2})
MCCapacity  == (r1 :> 2) @@ (r2 :> 1)
MCThreadCapacity == (r1 :> 1) @@ (r2 :> 0)
============================================================================
