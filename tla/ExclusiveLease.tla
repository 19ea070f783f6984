---------------------------- MODULE ExclusiveLease ----------------------------
(***************************************************************************)
(* What the fleet server promises about who works on a job: a lease is     *)
(* granted with a number that no lease of the job had before, and only     *)
(* while no other lease of the job is in force; it is in force until it    *)
(* ends, and never again.  The fence that runners are checked against is   *)
(* membership in inForce.                                                  *)
(***************************************************************************)
EXTENDS Integers

CONSTANTS Jobs, Runners, Epochs  \* Epochs: a set of natural numbers

VARIABLES
  granted,  \* every lease there ever was
  inForce   \* the leases whose holder may act

leaseVars == <<granted, inForce>>

Lease == [job: Jobs, runner: Runners, epoch: Epochs]

LeaseTypeOK == granted \subseteq Lease /\ inForce \subseteq granted

Grant(l) ==
  /\ \A g \in granted : g.job = l.job => g.epoch < l.epoch
  /\ \A g \in inForce : g.job # l.job
  /\ granted' = granted \cup {l}
  /\ inForce' = inForce \cup {l}

End(l) ==
  /\ inForce' = inForce \ {l}
  /\ UNCHANGED granted

LeaseInit == granted = {} /\ inForce = {}
LeaseNext == (\E l \in Lease : Grant(l)) \/ (\E l \in inForce : End(l))
LeaseSpec == LeaseInit /\ [][LeaseNext]_leaseVars

-----------------------------------------------------------------------------
\* A job has one holder at a time, and it is the youngest lease of the job: any
\* older one is fenced.
YoungestHolds ==
  \A l \in inForce : \A g \in granted : g.job = l.job => g = l \/ g.epoch < l.epoch

\* A lease that ended is never in force again.
EndedForEver ==
  [][\A l \in granted \ inForce : l \notin inForce']_leaseVars
=============================================================================
