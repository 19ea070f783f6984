---------------------------- MODULE PromiseProofs ----------------------------
(***************************************************************************)
(* What follows from the two promises, whoever keeps them: the holder of a *)
(* job has its youngest lease, and a lease that ended stays ended; an      *)
(* approved command takes effect once at most, and what was settled is     *)
(* settled for ever.                                                       *)
(***************************************************************************)
EXTENDS ExclusiveLease, ApprovalLifecycle, TLAPS

-----------------------------------------------------------------------------
(* ExclusiveLease *)

Promise == LeaseTypeOK /\ YoungestHolds

\* The holder of a job has its youngest lease: a step grants a younger one or
\* ends one.
LEMMA PromiseStep ==
  ASSUME Epochs \subseteq Nat, Promise, [LeaseNext]_leaseVars
  PROVE  Promise' /\ \A l \in granted \ inForce : l \notin inForce'
<1>1. ASSUME NEW l \in Lease, Grant(l)
      PROVE  Promise' /\ \A k \in granted \ inForce : k \notin inForce'
  <2>1. l.epoch \in Nat /\ \A g \in granted : g.epoch \in Nat
    BY DEF Lease, Promise, LeaseTypeOK
  <2>2. l \notin granted
    BY <1>1, <2>1 DEF Grant
  <2>3. LeaseTypeOK'
    BY <1>1 DEF Grant, Promise, LeaseTypeOK
  <2>4. ASSUME NEW k \in inForce', NEW g \in granted', g.job = k.job
        PROVE  g = k \/ g.epoch < k.epoch
    <3>1. CASE k = l
      BY <1>1, <2>4, <3>1 DEF Grant
    <3>2. CASE k \in inForce
      BY <1>1, <2>4, <3>2 DEF Grant, Promise, YoungestHolds
    <3> QED BY <1>1, <2>4, <3>1, <3>2 DEF Grant
  <2>5. YoungestHolds'
    BY <2>4 DEF YoungestHolds
  <2> QED BY <1>1, <2>2, <2>3, <2>5 DEF Grant, Promise
<1>2. ASSUME NEW l \in inForce, End(l)
      PROVE  Promise' /\ \A k \in granted \ inForce : k \notin inForce'
  BY <1>2 DEF End, Promise, LeaseTypeOK, YoungestHolds
<1>3. CASE UNCHANGED leaseVars
  BY <1>3 DEF leaseVars, Promise, LeaseTypeOK, YoungestHolds
<1> QED BY <1>1, <1>2, <1>3 DEF LeaseNext

\* One holder at a time, and any older lease of the job is fenced.
THEOREM HolderIsYoungest ==
  ASSUME Epochs \subseteq Nat
  PROVE  LeaseSpec => []YoungestHolds
<1>1. LeaseInit => Promise
  BY DEF LeaseInit, Promise, LeaseTypeOK, YoungestHolds
<1>2. Promise /\ [LeaseNext]_leaseVars => Promise'
  BY PromiseStep
<1>3. Promise => YoungestHolds
  BY DEF Promise
<1> QED BY <1>1, <1>2, <1>3, PTL DEF LeaseSpec

\* A lease that ended stays fenced.
THEOREM EndedLeasesStayEnded ==
  ASSUME Epochs \subseteq Nat
  PROVE  LeaseSpec => EndedForEver
<1>1. LeaseInit => Promise
  BY DEF LeaseInit, Promise, LeaseTypeOK, YoungestHolds
<1>2. Promise /\ [LeaseNext]_leaseVars => Promise'
  BY PromiseStep
<1>3. Promise /\ [LeaseNext]_leaseVars => [\A l \in granted \ inForce : l \notin inForce']_leaseVars
  BY PromiseStep
<1> QED BY <1>1, <1>2, <1>3, PTL DEF LeaseSpec, EndedForEver

-----------------------------------------------------------------------------
(* ApprovalLifecycle *)

LifecycleInv == LifecycleTypeOK /\ EffectOnce

\* Nothing follows a request that is over.
LEMMA TerminalIsLast == \A s \in Terminal : After(s) = {}
  BY DEF Terminal, After

\* A step keeps effects and statuses together, and leaves what is settled.
LEMMA LifecycleStep ==
  ASSUME LifecycleInv, [LifecycleNext]_lifecycleVars
  PROVE  /\ LifecycleInv'
         /\ \A r \in Requests : status[r] \in Terminal =>
              status'[r] = status[r] /\ effects'[r] = effects[r]
<1>1. /\ status \in [Requests -> Statuses] /\ effects \in [Requests -> Nat]
      /\ \A r \in Requests : effects[r] = IF status[r] = "executed" THEN 1 ELSE 0
  BY DEF LifecycleInv, LifecycleTypeOK, EffectOnce
<1>2. CASE Move
  <2>1. \A s \in Statuses : "executed" \notin After(s)
    BY DEF Statuses, Terminal, After
  <2>2. \A r \in Requests : status[r] \in Terminal => status'[r] = status[r]
    BY <1>2, TerminalIsLast DEF Move
  <2>3. \A r \in Requests : status'[r] = "executed" <=> status[r] = "executed"
    BY <1>1, <1>2, <2>1, <2>2 DEF Move, Terminal
  <2> QED BY <1>1, <1>2, <2>2, <2>3 DEF Move, LifecycleInv, LifecycleTypeOK, EffectOnce
<1>3. ASSUME NEW r \in Requests, Execute(r)
      PROVE  /\ LifecycleInv'
             /\ \A k \in Requests : status[k] \in Terminal =>
                  status'[k] = status[k] /\ effects'[k] = effects[k]
  <2>1. status[r] = "approved" /\ effects[r] = 0
    BY <1>1, <1>3 DEF Execute
  <2>2. /\ status'[r] = "executed" /\ effects'[r] = 1
        /\ \A k \in Requests \ {r} : status'[k] = status[k] /\ effects'[k] = effects[k]
    BY <1>1, <1>3, <2>1 DEF Execute
  <2>3. status' \in [Requests -> Statuses] /\ effects' \in [Requests -> Nat]
    BY <1>1, <1>3, <2>1, <2>2 DEF Execute, Statuses, Terminal
  <2> QED BY <1>1, <2>1, <2>2, <2>3 DEF LifecycleInv, LifecycleTypeOK, EffectOnce, Terminal
<1>4. CASE UNCHANGED lifecycleVars
  BY <1>1, <1>4 DEF lifecycleVars, LifecycleInv, LifecycleTypeOK, EffectOnce
<1> QED BY <1>2, <1>3, <1>4 DEF LifecycleNext

\* No request is open at the start.
LEMMA LifecycleStart == LifecycleInit => LifecycleInv
  BY DEF LifecycleInit, LifecycleInv, LifecycleTypeOK, EffectOnce, Statuses

\* A command's writes are committed once, and exactly for the requests marked
\* executed (executeOnce).
THEOREM EffectsHappenOnce == LifecycleSpec => []EffectOnce
<1>1. LifecycleInv /\ [LifecycleNext]_lifecycleVars => LifecycleInv'
  BY LifecycleStep
<1>2. LifecycleInv => EffectOnce
  BY DEF LifecycleInv
<1> QED BY <1>1, <1>2, LifecycleStart, PTL DEF LifecycleSpec

\* No sweep, decision, redemption or late run touches a settled request
\* (transition's WHERE status).
THEOREM SettledIsForEver == LifecycleSpec => SettledForEver
<1>1. LifecycleInv /\ [LifecycleNext]_lifecycleVars => LifecycleInv'
  BY LifecycleStep
<1>2. LifecycleInv /\ [LifecycleNext]_lifecycleVars =>
        [\A r \in Requests : status[r] \in Terminal =>
           status'[r] = status[r] /\ effects'[r] = effects[r]]_lifecycleVars
  BY LifecycleStep
<1> QED BY <1>1, <1>2, LifecycleStart, PTL DEF LifecycleSpec, SettledForEver
==============================================================================
