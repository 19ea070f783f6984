---------------------------- MODULE ApprovalEngine ----------------------------
(***************************************************************************)
(* The approval engine: an agent's gated call opens a request or is        *)
(* answered with one that waits already; somebody eligible, or the clock,  *)
(* decides it; an approved command is then run in transactions of its own, *)
(* by whoever decided, by the expiry sweeper, or by the agent redeeming it. *)
(*                                                                         *)
(* A transaction that locks the request's row is one step.  What happens   *)
(* between transactions is interleaved: reads, the re-check of the         *)
(* requester's key, a command's prepare, and the in-memory line that calls *)
(* for one request wait in.  The API process may die between any two steps *)
(* and a transaction may fail.  The clock is one fact about a request:     *)
(* its deadline has passed.                                                *)
(*                                                                         *)
(* The requester is one agent; asks of fleet components, which the fleet   *)
(* opens and closes itself, are left out.                                  *)
(***************************************************************************)
EXTENDS Integers, Sequences, FiniteSets, Functions

CONSTANTS
  MaxRequests,             \* rows the model may open
  Asks,                    \* (key, variant, input) triples: what makes two calls the same
  Prepares, Redeems,       \* the asks whose command has a prepare step, or is redeemed
  Principals, Requester,   \* the requester is an agent
  Users,                   \* the principals that are human
  Deciders,                \* the principals that hold approval.decide
  ResolutionsOf,           \* what policies may want of a call: [Asks -> SUBSET Resolution]
  Calls, Sweeps,           \* what may serve users, and the sweeper
  MaxFaults                \* failed transactions and crashes, a bound of the model

ASSUME PrincipalAssumption ==
  Users \subseteq Principals /\ Requester \in Principals \ Users
ASSUME CallAssumption == 0 \notin Calls \cup Sweeps
ASSUME BoundAssumption == MaxRequests \in Nat /\ MaxFaults \in Nat

Modes == {"self", "agent", "human"}
Rank == [m \in Modes \cup {"none"} |->
           CASE m = "none" -> 0 [] m = "self" -> 1 [] m = "agent" -> 2 [] m = "human" -> 3]

\* A resolution without a policy is the default of the key, or a contextual
\* minimum: it never releases on timeout.
Resolution == [mode: Modes, policy: BOOLEAN, onTimeout: {"approve", "reject"},
               distinct: BOOLEAN, mustHold: BOOLEAN]
Resolutions == UNION {ResolutionsOf[ask] : ask \in Asks}

ASSUME ResolutionAssumption ==
  /\ ResolutionsOf \in [Asks -> SUBSET Resolution] /\ Resolutions # {}
  /\ \A res \in Resolutions : ~res.policy => res.onTimeout = "reject"

Requests == 1..MaxRequests   \* in order of creation
NoRequest == 0
Workers  == Calls \cup Sweeps

VARIABLES
  row,       \* ApprovalRequest rows
  due,       \* requests past their expiresAt
  keys,      \* the principals that hold the action's key
  call,      \* what each call in flight is doing
  line,      \* running: the calls that wait for a request's slot, in order
  crashes,
  effects,   \* history: committed runs of a request's command
  begun,     \* history: runs of a request's command begun, prepare included
  faults,    \* history: transactions of a request's run that failed for reasons of their own
  answered   \* history: the resolutions of the gated calls answered with a request

store == <<row, due>>
memory == <<call, line>>
history == <<effects, begun, faults, answered>>
approvalVars == <<store, keys, memory, crashes, history>>

-----------------------------------------------------------------------------
Terminal == {"rejected", "cancelled", "expired", "executed", "failed"}
Statuses == {"none", "pending", "approved"} \cup Terminal

\* by: the tier of whoever released the request; "none" for the timeout.
Row == [status: Statuses, ask: Asks, res: Resolutions, by: Modes \cup {"none"}]

Steps == {"idle", "opening", "checking", "refused", "queued", "prepared", "failing"}
Call == [at: Steps, req: Requests \cup {NoRequest}, ask: Asks, res: Resolutions]

Failures == FoldFunction(+, crashes, faults)

Nowhere == [at |-> "idle", req |-> NoRequest, ask |-> CHOOSE a \in Asks : TRUE,
            res |-> CHOOSE res \in Resolutions : TRUE]

IsRedeem(r)  == row[r].ask \in Redeems
IsPending(r) == row[r].status = "pending"
IsApproved(r) == row[r].status = "approved"
Holds(p)     == p \in keys
Idle(c)      == call[c].at = "idle"
Head1(r)     == IF line[r] = <<>> THEN NoRequest ELSE Head(line[r])

Moves(c, step) == call' = [call EXCEPT ![c].at = step]
Drops(c)       == call' = [call EXCEPT ![c] = Nowhere]
Starts(c, r, step) == call' = [call EXCEPT ![c].at = step, ![c].req = r]
Leaves(c)      == line' = [line EXCEPT ![call[c].req] = Tail(@)]

Transition(r, status) == row' = [row EXCEPT ![r].status = status]

\* Only an open request is ever due.
Closed(r) == due' = due \ {r}

-----------------------------------------------------------------------------
\* mutant: the mode alone decides.
SatisfiesByMode(r, res) == Rank[row[r].res.mode] >= Rank[res.mode]

\* The gate.  A waiting request stands for the call only while it is as strict
\* as what the call resolved to.
Satisfies(r, res) ==
  /\ Rank[row[r].res.mode] >= Rank[res.mode]
  /\ res.policy \/ ~row[r].res.policy

Duplicates(ask) == {r \in Requests : IsPending(r) /\ row[r].ask = ask /\ r \notin due}

NextRequest == Cardinality({r \in Requests : row[r].status # "none"}) + 1

Oldest(ask) == {r \in Duplicates(ask) : \A s \in Duplicates(ask) : r <= s}

Opening(c, weaker, ask, res) ==
  /\ NextRequest \in Requests
  /\ call' = [call EXCEPT ![c] = [at |-> "opening", req |-> weaker, ask |-> ask, res |-> res]]
  /\ UNCHANGED answered

\* The duplicate is read outside any transaction.
Gate(c, ask, res) ==
  /\ Idle(c) /\ Holds(Requester)
  /\ \/ \E found \in Oldest(ask) :
          IF Satisfies(found, res)
          THEN answered' = [answered EXCEPT ![found] = @ \cup {res}] /\ UNCHANGED call
          ELSE Opening(c, found, ask, res)
     \/ Oldest(ask) = {} /\ Opening(c, NoRequest, ask, res)
  /\ UNCHANGED <<store, keys, line, crashes, effects, begun, faults>>

\* A weaker duplicate, if it still waits, is cancelled with the opening of its
\* replacement.
Superseded(c) == {r \in Requests : r = call[c].req /\ IsPending(r)}

Open(c) ==
  /\ call[c].at = "opening" /\ NextRequest \in Requests
  /\ row' = [r \in Requests |->
       IF r = NextRequest
       THEN [status |-> "pending", ask |-> call[c].ask, res |-> call[c].res, by |-> "none"]
       ELSE IF r \in Superseded(c) THEN [row[r] EXCEPT !.status = "cancelled"] ELSE row[r]]
  /\ due' = due \ Superseded(c)
  /\ answered' = [answered EXCEPT ![NextRequest] = {call[c].res}]
  /\ Drops(c)
  /\ UNCHANGED <<keys, line, crashes, effects, begun, faults>>

\* The model has no row left.
OpenFails(c) ==
  /\ call[c].at = "opening" /\ NextRequest \notin Requests
  /\ Drops(c)
  /\ UNCHANGED <<store, keys, line, crashes, history>>

-----------------------------------------------------------------------------
\* Who may decide, and the tier they contribute.
Contributes(p) ==
  IF p = Requester THEN "self" ELSE IF p \in Users THEN "human" ELSE "agent"

Eligible(p, r) ==
  LET res == row[r].res  own == p = Requester IN
  /\ ~(res.distinct /\ own)
  /\ own \/ res.mustHold => Holds(p)
  /\ own \/ p \in Deciders
  /\ Rank[Contributes(p)] >= Rank[res.mode]

\* A redeem request gets a new window when it is approved, and waits for its
\* requester; any other is run by whoever approved it.
Approves(c, r, by) ==
  /\ row' = [row EXCEPT ![r].status = "approved", ![r].by = by]
  /\ due' = due \ {r}
  /\ IF IsRedeem(r) THEN UNCHANGED call ELSE Starts(c, r, "checking")

Approve(c, p, r) ==
  /\ Idle(c) /\ IsPending(r) /\ r \notin due /\ Eligible(p, r)
  /\ Approves(c, r, Contributes(p))
  /\ UNCHANGED <<keys, line, crashes, history>>

Reject(c, p, r) ==
  /\ Idle(c) /\ IsPending(r) /\ r \notin due /\ Eligible(p, r)
  /\ Transition(r, "rejected") /\ Closed(r)
  /\ UNCHANGED <<keys, memory, crashes, history>>

\* By the requester, past the deadline too.
Cancel(c, r) ==
  /\ Idle(c) /\ IsPending(r)
  /\ Transition(r, "cancelled") /\ Closed(r)
  /\ UNCHANGED <<keys, memory, crashes, history>>

-----------------------------------------------------------------------------
\* mutant: only requests that wait are swept.
ExpirePendingOnly(c, r) ==
  /\ Idle(c) /\ r \in due
  /\ IsPending(r) /\ row[r].res.onTimeout = "reject"
  /\ Transition(r, "expired") /\ Closed(r)
  /\ UNCHANGED <<keys, memory, crashes, history>>

\* The sweeper, on what it finds under the row's lock.
Expire(c, r) ==
  /\ Idle(c) /\ r \in due
  /\ \/ IsPending(r) /\ row[r].res.onTimeout = "reject"
     \/ IsApproved(r) /\ IsRedeem(r)
  /\ Transition(r, "expired") /\ Closed(r)
  /\ UNCHANGED <<keys, memory, crashes, history>>

Release(c, r) ==
  /\ Idle(c) /\ r \in due /\ IsPending(r) /\ row[r].res.onTimeout = "approve"
  /\ Approves(c, r, "none")
  /\ UNCHANGED <<keys, line, crashes, history>>

\* An approval whose run never finished is run again, STALE_APPROVED_AFTER_MS
\* after it was given: any number of steps may be that long.
RetryStale(c, r) ==
  /\ Idle(c) /\ IsApproved(r) /\ ~IsRedeem(r)
  /\ Starts(c, r, "checking")
  /\ UNCHANGED <<store, keys, line, crashes, history>>

-----------------------------------------------------------------------------
\* mutant: the request is put in the line, not the call.
EnqueuesRequest(c, r) ==
  /\ Starts(c, r, "queued")
  /\ line' = [line EXCEPT ![r] = Append(@, r)]

\* execute: the status was read without a lock; the requester's key is checked.
Enqueues(c, r) ==
  /\ Starts(c, r, "queued")
  /\ line' = [line EXCEPT ![r] = Append(@, c)]

Check(c) ==
  /\ call[c].at = "checking"
  /\ \/ ~IsApproved(call[c].req) /\ Drops(c) /\ UNCHANGED line
     \/ IsApproved(call[c].req) /\ Holds(Requester) /\ Enqueues(c, call[c].req)
     \/ IsApproved(call[c].req) /\ ~Holds(Requester) /\ Moves(c, "refused") /\ UNCHANGED line
  /\ UNCHANGED <<store, keys, crashes, history>>

\* redeem: every check is made on one read, before the line.
Redeem(c, r) ==
  /\ Idle(c) /\ Holds(Requester)
  /\ IsRedeem(r) /\ IsApproved(r) /\ r \notin due
  /\ Enqueues(c, r)
  /\ UNCHANGED <<store, keys, crashes, history>>

\* settle: a transaction of its own, which changes an approved request only.
SettlesFailed(r) ==
  IF IsApproved(r) THEN Transition(r, "failed") /\ Closed(r) ELSE UNCHANGED store

SettleRefused(c) ==
  /\ call[c].at = "refused"
  /\ SettlesFailed(call[c].req) /\ Drops(c)
  /\ UNCHANGED <<keys, line, crashes, history>>

\* mutant: the status read before the line is trusted.
CurrentByRead(r) == TRUE

\* run: first in line, the status is read again before anything is prepared.
Current(r) == IsApproved(r)

Enter(c) ==
  LET r == call[c].req IN
  /\ call[c].at = "queued" /\ Head1(r) = c
  /\ IF Current(r)
     THEN /\ begun' = [begun EXCEPT ![r] = @ + 1]
          /\ \/ Moves(c, "prepared")
             \/ row[r].ask \in Prepares /\ Moves(c, "failing")
          /\ UNCHANGED line
     ELSE Drops(c) /\ Leaves(c) /\ UNCHANGED begun
  /\ UNCHANGED <<store, keys, crashes, effects, faults, answered>>

\* mutant: and so before the lock.
UnchangedByRead(r) == TRUE

\* executeOnce: under the lock, the status once more, and for a prepared command
\* the key; the command's writes commit with the status.
Unchanged(r) == IsApproved(r)

Commit(c) ==
  LET r == call[c].req IN
  /\ call[c].at = "prepared" /\ Unchanged(r)
  /\ row[r].ask \in Prepares => Holds(Requester)
  /\ Transition(r, "executed") /\ Closed(r)
  /\ effects' = [effects EXCEPT ![r] = @ + 1]
  /\ Drops(c) /\ Leaves(c)
  /\ UNCHANGED <<keys, crashes, begun, faults, answered>>

Revoked(c) ==
  LET r == call[c].req IN
  /\ call[c].at = "prepared" /\ Unchanged(r)
  /\ row[r].ask \in Prepares /\ ~Holds(Requester)
  /\ Transition(r, "failed") /\ Closed(r)
  /\ Drops(c) /\ Leaves(c)
  /\ UNCHANGED <<keys, crashes, history>>

\* Settled from under the call.
Overtaken(c) ==
  /\ call[c].at = "prepared" /\ ~Unchanged(call[c].req)
  /\ Drops(c) /\ Leaves(c)
  /\ UNCHANGED <<store, keys, crashes, history>>

\* The command threw: the transaction is rolled back, the place in line kept.
Throws(c) ==
  /\ call[c].at = "prepared" /\ Unchanged(call[c].req)
  /\ row[call[c].req].ask \in Prepares => Holds(Requester)
  /\ Moves(c, "failing")
  /\ UNCHANGED <<store, keys, line, crashes, history>>

SettleFailed(c) ==
  /\ call[c].at = "failing"
  /\ SettlesFailed(call[c].req)
  /\ Drops(c) /\ Leaves(c)
  /\ UNCHANGED <<keys, crashes, history>>

\* A transaction that does not open or commit settles nothing.
Fault(c) ==
  LET r == call[c].req IN
  /\ call[c].at \in {"refused", "prepared", "failing"}
  /\ Failures < MaxFaults
  /\ faults' = [faults EXCEPT ![r] = @ + 1]
  /\ Drops(c) /\ IF call[c].at = "refused" THEN UNCHANGED line ELSE Leaves(c)
  /\ UNCHANGED <<store, keys, crashes, effects, begun, answered>>

-----------------------------------------------------------------------------
\* The deadline passes.
Lapse(r) ==
  /\ r \notin due
  /\ IsPending(r) \/ (IsApproved(r) /\ IsRedeem(r))
  /\ due' = due \cup {r}
  /\ UNCHANGED <<row, keys, memory, crashes, history>>

\* The requester loses the key, for good.
Revoke ==
  /\ Holds(Requester)
  /\ keys' = keys \ {Requester}
  /\ UNCHANGED <<store, memory, crashes, history>>

\* The process dies: every call and every line is gone.
Crash ==
  /\ Failures < MaxFaults
  /\ crashes' = crashes + 1
  /\ call' = [c \in Workers |-> Nowhere]
  /\ line' = [r \in Requests |-> <<>>]
  /\ UNCHANGED <<store, keys, history>>

ApprovalInit ==
  /\ row = [r \in Requests |-> [status |-> "none", ask |-> Nowhere.ask,
                                res |-> Nowhere.res, by |-> "none"]]
  /\ due = {}
  /\ keys = Principals
  /\ call = [c \in Workers |-> Nowhere]
  /\ line = [r \in Requests |-> <<>>]
  /\ crashes = 0
  /\ effects = [r \in Requests |-> 0]
  /\ begun = [r \in Requests |-> 0]
  /\ faults = [r \in Requests |-> 0]
  /\ answered = [r \in Requests |-> {}]

Runs(c) == Check(c) \/ SettleRefused(c) \/ Enter(c) \/ Commit(c) \/ Revoked(c)
           \/ Overtaken(c) \/ Throws(c) \/ SettleFailed(c) \/ Fault(c)
Opens(c) == Open(c) \/ OpenFails(c)
Asked(c) ==
  \/ \E ask \in Asks : \E res \in ResolutionsOf[ask] : Gate(c, ask, res)
  \/ \E r \in Requests : Redeem(c, r) \/ Cancel(c, r)
  \/ \E p \in Principals, r \in Requests : Approve(c, p, r) \/ Reject(c, p, r)
Swept(c, r) == Expire(c, r) \/ Release(c, r) \/ RetryStale(c, r)

ApprovalNext ==
  \/ \E c \in Workers : Runs(c) \/ Opens(c)
  \/ \E c \in Calls : Asked(c)
  \/ \E c \in Sweeps, r \in Requests : Swept(c, r)
  \/ \E r \in Requests : Lapse(r)
  \/ Revoke \/ Crash

ApprovalSpec == ApprovalInit /\ [][ApprovalNext]_approvalVars

\* Calls in flight get on, time passes, and the sweeper's timer comes back to
\* every request.  Nobody has to decide anything.
FairApprovalSpec ==
  /\ ApprovalSpec
  /\ \A c \in Workers : WF_approvalVars(Runs(c) \/ Opens(c))
  /\ \A r \in Requests :
       /\ WF_approvalVars(Lapse(r))
       /\ SF_approvalVars(\E c \in Sweeps : Swept(c, r))

-----------------------------------------------------------------------------
ApprovalTypeOK ==
  /\ row \in [Requests -> Row]
  /\ due \subseteq Requests
  /\ keys \subseteq Principals
  /\ call \in [Workers -> Call]
  /\ line \in [Requests -> Seq(Workers)]
  /\ effects \in [Requests -> Nat] /\ begun \in [Requests -> Nat]
  /\ faults \in [Requests -> Nat] /\ crashes \in Nat
  /\ answered \in [Requests -> SUBSET Resolutions]

\* Whoever was answered with a request gets what they asked for: it is released
\* by a tier as high as their own resolution wanted, or by a timeout that every
\* one of them had a policy for; and never by the requester alone where more is
\* wanted (approval-gate.service.ts, satisfiesResolution).
ReleasedAsAsked ==
  \A r \in Requests : row[r].status \in {"approved", "executed"} =>
    \A res \in answered[r] :
      IF row[r].by = "none" THEN res.policy ELSE Rank[row[r].by] >= Rank[res.mode]

\* A command is begun again only for a reason: a transaction of its run failed, or
\* the process died.  What prepare stored outside the transaction is not doubled
\* by callers that queued behind one another (approval-execution.service.ts, run).
BegunOnce ==
  \A r \in Requests : begun[r] <= 1 + faults[r] + crashes

\* Execution is once, in the step that marks it, and what is settled stays so.
Lifecycle == INSTANCE ApprovalLifecycle
  WITH status <- [r \in Requests |-> row[r].status], effects <- effects
ImplementsLifecycle == Lifecycle!LifecycleSpec

\* Nothing waits for ever: a request nobody decides runs out, and an approved one
\* is carried out or settled though the process died between the decision and the
\* run.  The rows are finitely many, so it is enough that a time comes when none
\* is open.
EverySettles ==
  LET open == \E r \in Requests : row[r].status \in {"pending", "approved"} IN open ~> ~open

=============================================================================
