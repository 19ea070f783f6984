--------------------------- MODULE ApprovalLifecycle ---------------------------
(***************************************************************************)
(* What the approval engine promises about a request: it waits for one     *)
(* decision, an approval is carried out in the very step that marks it     *)
(* executed, and what is settled stays as it is.                           *)
(***************************************************************************)
EXTENDS Naturals

CONSTANT Requests

VARIABLES
  status,   \* [Requests -> the status of the request, "none" before it is opened]
  effects   \* [Requests -> how often its command's writes were committed]

lifecycleVars == <<status, effects>>

Terminal == {"rejected", "cancelled", "expired", "executed", "failed"}
Statuses == {"none", "pending", "approved"} \cup Terminal

\* Where a request may go; "executed" is reached by Execute only.
After(s) ==
  CASE s = "none"     -> {"pending"}
    [] s = "pending"  -> {"approved", "rejected", "cancelled", "expired"}
    [] s = "approved" -> {"failed", "expired"}
    [] OTHER          -> {}

\* Several requests may move together: the weaker duplicate is cancelled as its
\* replacement is opened.
Move ==
  /\ status' \in [Requests -> Statuses]
  /\ \A r \in Requests : status'[r] = status[r] \/ status'[r] \in After(status[r])
  /\ UNCHANGED effects

Execute(r) ==
  /\ status[r] = "approved"
  /\ status' = [status EXCEPT ![r] = "executed"]
  /\ effects' = [effects EXCEPT ![r] = @ + 1]

LifecycleInit ==
  /\ status = [r \in Requests |-> "none"]
  /\ effects = [r \in Requests |-> 0]
LifecycleNext == Move \/ \E r \in Requests : Execute(r)
LifecycleSpec == LifecycleInit /\ [][LifecycleNext]_lifecycleVars

-----------------------------------------------------------------------------
LifecycleTypeOK ==
  /\ status \in [Requests -> Statuses]
  /\ effects \in [Requests -> Nat]

\* A command takes effect once at most, and exactly when its request says so.
EffectOnce ==
  \A r \in Requests : effects[r] = IF status[r] = "executed" THEN 1 ELSE 0

\* What is settled is never decided, run or settled again.
SettledForEver ==
  [][\A r \in Requests : status[r] \in Terminal =>
       status'[r] = status[r] /\ effects'[r] = effects[r]]_lifecycleVars
=============================================================================
