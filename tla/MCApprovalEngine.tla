-------------------------- MODULE MCApprovalEngine --------------------------
(***************************************************************************)
(* An agent and its reviewer; a command that is prepared, and one that is  *)
(* redeemed.                                                               *)
(***************************************************************************)
EXTENDS ApprovalEngine

CONSTANTS agent, reviewer, store1, secret, c1, sweep

\* A policy that wants another's approval and releases on timeout, and the
\* default of a key without a policy, which the requester satisfies alone: neither
\* request stands for a call that wants the other.
Policy  == [mode |-> "agent", policy |-> TRUE, onTimeout |-> "approve",
            distinct |-> FALSE, mustHold |-> TRUE]
Default == [mode |-> "self", policy |-> FALSE, onTimeout |-> "reject",
            distinct |-> FALSE, mustHold |-> TRUE]

MCResolutionsOf == [ask \in Asks |-> IF ask = store1 THEN {Policy, Default} ELSE {Policy}]
=============================================================================
