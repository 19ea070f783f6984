--------------------------- MODULE ApprovalProofs ---------------------------
(***************************************************************************)
(* Theorems about the approval engine, for any asks, principals, policies  *)
(* and bounds.  The argument has two layers.  What one request may live    *)
(* through in a step is RequestStep, and all that callers were answered    *)
(* follows from it.  What calls do to each other follows from the line:    *)
(* the call that prepares or runs a request is at the head of its line, so *)
(* there is one of them, and the status it read cannot have been begun     *)
(* upon by another.                                                        *)
(***************************************************************************)
EXTENDS ApprovalEngine, FiniteSetTheorems, TLAPS

Running == {"prepared", "failing"}
Decided == {"checking", "refused", "queued"} \cup Running
Unsettled == {"none", "pending", "approved"}

\* A call that carries a request out, carries one out that was decided.
CallsAreDecided ==
  \A c \in Workers : call[c].at \in Decided =>
    call[c].req \in Requests /\ row[call[c].req].status \notin {"none", "pending"}

\* The call that prepares or runs a request is first in its line.
HeadRuns ==
  \A c \in Workers : call[c].at \in Running =>
    line[call[c].req] # << >> /\ Head(line[call[c].req]) = c

\* Requests are opened in their order.
OpenedInOrder ==
  \A r, s \in Requests : s < r /\ row[r].status # "none" => row[s].status # "none"

\* A run is begun for a request that is not settled, and only when there was a
\* reason since the last.
Reasons(r) == faults[r] + crashes
InHand(r)  == \E c \in Workers : call[c].at \in Running /\ call[c].req = r
Counted(r) ==
  /\ begun[r] <= 1 + Reasons(r)
  /\ row[r].status \in Unsettled /\ ~InHand(r) => begun[r] <= Reasons(r)

\* A request is as strict as what was answered with it, and released as it asks.
Strict(r) ==
  /\ row[r].status = "none" => answered[r] = {}
  /\ \A res \in answered[r] : Satisfies(r, res)
  /\ row[r].status \in {"approved", "executed"} =>
       IF row[r].by = "none" THEN row[r].res.onTimeout = "approve"
                             ELSE Rank[row[r].by] >= Rank[row[r].res.mode]

Control == ApprovalTypeOK /\ CallsAreDecided /\ HeadRuns /\ OpenedInOrder
ApprovalInv == Control /\ (\A r \in Requests : Counted(r)) /\ (\A r \in Requests : Strict(r))

-----------------------------------------------------------------------------
(* What the definitions say *)

\* There are asks and resolutions to rest on.
LEMMA NowhereIsACall == Nowhere \in Call /\ Nowhere.at = "idle" /\ Nowhere.req = NoRequest
<1>1. \E res \in Resolutions : TRUE
  BY ResolutionAssumption
<1>2. \E a \in Asks : TRUE
  BY <1>1 DEF Resolutions
<1> QED BY <1>1, <1>2 DEF Nowhere, Call, Steps

\* Resolutions are resolutions.
LEMMA ResolutionTypes == Resolutions \subseteq Resolution
  BY ResolutionAssumption DEF Resolutions

\* Tiers have ranks.
LEMMA Ranks == \A m \in Modes \cup {"none"} : Rank[m] \in 0..3
  BY DEF Rank, Modes

\* The next request is none that was opened, and every one before it was.
LEMMA NextIsNew ==
  ASSUME OpenedInOrder, NextRequest \in Requests
  PROVE  row[NextRequest].status = "none" /\ \A s \in Requests : s < NextRequest => row[s].status # "none"
<1> DEFINE O == {r \in Requests : row[r].status # "none"}
<1>1. /\ IsFiniteSet(Requests) /\ IsFiniteSet(O) /\ O \subseteq Requests
      /\ \A n \in Nat : IsFiniteSet(1..n) /\ Cardinality(1..n) = n
  <2>1. \A n \in Nat : IsFiniteSet(1..n) /\ Cardinality(1..n) = n
    <3> TAKE n \in Nat
    <3>1. IsFiniteSet(1..n) /\ Cardinality(1..n) = IF 1 > n THEN 0 ELSE n - 1 + 1
      BY FS_Interval
    <3> QED BY <3>1
  <2>2. IsFiniteSet(Requests)
    BY <2>1, BoundAssumption DEF Requests
  <2> QED BY <2>1, <2>2, FS_Subset
<1>2. Cardinality(O) \in Nat /\ NextRequest = Cardinality(O) + 1
  BY <1>1, FS_CardinalityType DEF NextRequest
<1> DEFINE n == Cardinality(O)
<1>3. ASSUME row[NextRequest].status # "none" PROVE FALSE
  <2>1. 1..(n + 1) \subseteq O
    <3> SUFFICES ASSUME NEW s \in 1..(n + 1) PROVE s \in O
      OBVIOUS
    <3>1. s \in Requests /\ (s < NextRequest \/ s = NextRequest)
      BY <1>2, BoundAssumption DEF Requests
    <3> QED BY <1>3, <3>1 DEF OpenedInOrder
  <2>2. Cardinality(1..(n + 1)) <= n /\ Cardinality(1..(n + 1)) = n + 1
    BY <1>1, <1>2, <2>1, FS_Subset
  <2> QED BY <1>2, <2>2
<1>4. ASSUME NEW s \in Requests, s < NextRequest, row[s].status = "none" PROVE FALSE
  <2>1. s \in Nat /\ s >= 1 /\ s - 1 \in Nat
    BY BoundAssumption DEF Requests
  <2>2. O \subseteq 1..(s - 1)
    <3> SUFFICES ASSUME NEW r \in O PROVE r \in 1..(s - 1)
      OBVIOUS
    <3>1. r \in Requests /\ ~(s < r) /\ r # s
      BY <1>4 DEF OpenedInOrder
    <3> QED BY <2>1, <3>1, BoundAssumption DEF Requests
  <2>3. n <= Cardinality(1..(s - 1)) /\ Cardinality(1..(s - 1)) = s - 1
    BY <1>1, <2>1, <2>2, FS_Subset
  <2> QED BY <1>2, <1>4, <2>1, <2>3
<1> QED BY <1>3, <1>4

-----------------------------------------------------------------------------
(* What one request lives through in a step *)

SameAsk(r) == row'[r].ask = row[r].ask /\ row'[r].res = row[r].res
Kept(r)    == row'[r] = row[r] /\ answered'[r] = answered[r]
Shared(r)  ==
  /\ row'[r] = row[r] /\ IsPending(r)
  /\ \E res \in Resolutions : Satisfies(r, res) /\ answered'[r] = answered[r] \cup {res}
Opened(r)  ==
  /\ row[r].status = "none" /\ row'[r].status = "pending"
  /\ answered'[r] = {row'[r].res}
  /\ \A s \in Requests : s < r => row[s].status # "none"
Given(r)   ==
  /\ row[r].status = "pending" /\ row'[r].status = "approved"
  /\ IF row'[r].by = "none" THEN row[r].res.onTimeout = "approve"
                            ELSE Rank[row'[r].by] >= Rank[row[r].res.mode]
  /\ SameAsk(r) /\ answered'[r] = answered[r]
Settled(r) ==
  /\ \/ row[r].status = "pending" /\ row'[r].status \in {"rejected", "cancelled", "expired"}
     \/ row[r].status = "approved" /\ row'[r].status \in {"failed", "expired"}
  /\ SameAsk(r) /\ answered'[r] = answered[r]
RequestStep(r) == Kept(r) \/ Shared(r) \/ Opened(r) \/ Given(r) \/ Settled(r)

\* All that a step other than a commit does to the requests.
RequestSteps ==
  /\ row' \in [Requests -> Row]
  /\ answered' \in [Requests -> SUBSET Resolutions]
  /\ effects' = effects
  /\ \A r \in Requests : RequestStep(r)

\* Nothing done to the requests.
LEMMA RowsKept ==
  ASSUME Control, UNCHANGED <<row, answered, effects>>
  PROVE  RequestSteps
  BY DEF Control, ApprovalTypeOK, RequestSteps, RequestStep, Kept

\* A request that waited, or an approved one, settled.
LEMMA RowSettled ==
  ASSUME Control, NEW r \in Requests, NEW status \in Terminal, Transition(r, status),
         UNCHANGED <<answered, effects>>,
         \/ IsPending(r) /\ status \in {"rejected", "cancelled", "expired"}
         \/ IsApproved(r) /\ status \in {"failed", "expired"}
  PROVE  RequestSteps
<1>1. row \in [Requests -> Row] /\ answered \in [Requests -> SUBSET Resolutions]
  BY DEF Control, ApprovalTypeOK
<1>2. row' \in [Requests -> Row]
  BY <1>1 DEF Transition, Row, Statuses
<1>3. Settled(r)
  BY <1>1 DEF Settled, SameAsk, Transition, IsPending, IsApproved, Row
<1>4. \A k \in Requests \ {r} : Kept(k)
  BY <1>1 DEF Kept, Transition
<1> QED BY <1>1, <1>2, <1>3, <1>4 DEF RequestSteps, RequestStep

\* The steps that answer, open and decide requests.
LEMMA AskedSteps ==
  ASSUME Control, NEW c \in Calls, Asked(c)
  PROVE  RequestSteps
<1>1. row \in [Requests -> Row] /\ answered \in [Requests -> SUBSET Resolutions]
  BY DEF Control, ApprovalTypeOK
<1>2. ASSUME NEW ask \in Asks, NEW res \in ResolutionsOf[ask], Gate(c, ask, res)
      PROVE  RequestSteps
  <2>1. CASE UNCHANGED answered
    BY <1>2, <2>1, RowsKept DEF Gate, store
  <2>2. ASSUME NEW found \in Oldest(ask), Satisfies(found, res),
               answered' = [answered EXCEPT ![found] = @ \cup {res}]
        PROVE  RequestSteps
    <3>1. res \in Resolutions
      BY DEF Resolutions
    <3>2. found \in Requests /\ IsPending(found)
      BY DEF Oldest, Duplicates
    <3>3. row' = row /\ effects' = effects
      BY <1>2 DEF Gate, store
    <3>4. answered' \in [Requests -> SUBSET Resolutions] /\ Shared(found)
      BY <1>1, <2>2, <3>1, <3>2, <3>3 DEF Shared
    <3>5. \A k \in Requests \ {found} : Kept(k)
      BY <1>1, <2>2, <3>3 DEF Kept
    <3> QED BY <1>1, <3>3, <3>4, <3>5 DEF RequestSteps, RequestStep
  <2> QED BY <1>2, <2>1, <2>2 DEF Gate, Opening
<1>3. ASSUME NEW r \in Requests, Redeem(c, r)
      PROVE  RequestSteps
  BY <1>3, RowsKept DEF Redeem, store, history
<1>4. ASSUME NEW r \in Requests, Cancel(c, r)
      PROVE  RequestSteps
  BY <1>4, RowSettled DEF Cancel, history, Terminal
<1>5. ASSUME NEW p \in Principals, NEW r \in Requests, Reject(c, p, r)
      PROVE  RequestSteps
  BY <1>5, RowSettled DEF Reject, history, Terminal
<1>6. ASSUME NEW p \in Principals, NEW r \in Requests, Approve(c, p, r)
      PROVE  RequestSteps
  <2>1. Contributes(p) \in Modes /\ IsPending(r) /\ Rank[Contributes(p)] >= Rank[row[r].res.mode]
    BY <1>6 DEF Approve, Eligible, Contributes, Modes
  <2>2. row' = [row EXCEPT ![r].status = "approved", ![r].by = Contributes(p)]
        /\ UNCHANGED <<answered, effects>>
    BY <1>6 DEF Approve, Approves, history
  <2>3. row' \in [Requests -> Row]
    BY <1>1, <2>1, <2>2 DEF Row, Statuses
  <2>4. Given(r)
    BY <1>1, <2>1, <2>2 DEF Given, SameAsk, IsPending, Modes, Row
  <2>5. \A k \in Requests \ {r} : Kept(k)
    BY <1>1, <2>2 DEF Kept
  <2> QED BY <1>1, <2>2, <2>3, <2>4, <2>5 DEF RequestSteps, RequestStep
<1> QED BY <1>2, <1>3, <1>4, <1>5, <1>6 DEF Asked

\* The steps of the sweeper.
LEMMA SweptSteps ==
  ASSUME Control, NEW c \in Sweeps, NEW r \in Requests, Swept(c, r)
  PROVE  RequestSteps
<1>1. row \in [Requests -> Row] /\ answered \in [Requests -> SUBSET Resolutions]
  BY DEF Control, ApprovalTypeOK
<1>2. CASE Expire(c, r)
  BY <1>2, RowSettled DEF Expire, history, Terminal
<1>3. CASE RetryStale(c, r)
  BY <1>3, RowsKept DEF RetryStale, store, history
<1>4. CASE Release(c, r)
  <2>1. IsPending(r) /\ row[r].res.onTimeout = "approve" /\ UNCHANGED <<answered, effects>>
        /\ row' = [row EXCEPT ![r].status = "approved", ![r].by = "none"]
    BY <1>4 DEF Release, Approves, history
  <2>2. row' \in [Requests -> Row]
    BY <1>1, <2>1 DEF Row, Statuses
  <2>3. Given(r)
    BY <1>1, <2>1 DEF Given, SameAsk, IsPending, Row
  <2>4. \A k \in Requests \ {r} : Kept(k)
    BY <1>1, <2>1 DEF Kept
  <2> QED BY <1>1, <2>1, <2>2, <2>3, <2>4 DEF RequestSteps, RequestStep
<1> QED BY <1>2, <1>3, <1>4 DEF Swept

\* Opening, with the weaker duplicate cancelled.
LEMMA OpenSteps ==
  ASSUME Control, NEW c \in Workers, Open(c)
  PROVE  RequestSteps
<1> DEFINE n == NextRequest
<1>1. /\ row \in [Requests -> Row] /\ answered \in [Requests -> SUBSET Resolutions]
      /\ call[c] \in Call /\ n \in Requests /\ effects' = effects
      /\ call[c].ask \in Asks /\ call[c].res \in Resolutions
  BY DEF Control, ApprovalTypeOK, Open, Call
<1>2. row[n].status = "none" /\ \A s \in Requests : s < n => row[s].status # "none"
  BY <1>1, NextIsNew DEF Control
<1>3. /\ row'[n] = [status |-> "pending", ask |-> call[c].ask, res |-> call[c].res, by |-> "none"]
      /\ \A r \in Requests \ {n} :
           row'[r] = IF r \in Superseded(c) THEN [row[r] EXCEPT !.status = "cancelled"] ELSE row[r]
      /\ answered' = [answered EXCEPT ![n] = {call[c].res}]
      /\ DOMAIN row' = Requests
  BY <1>1 DEF Open
<1>4. \A r \in Superseded(c) : r \in Requests /\ IsPending(r)
  BY DEF Superseded
<1>5. row' \in [Requests -> Row]
  <2>1. row' = [r \in Requests |-> row'[r]]
    BY DEF Open
  <2>2. row'[n] \in Row
    BY <1>1, <1>3 DEF Row, Statuses
  <2>3. ASSUME NEW r \in Requests \ {n} PROVE row'[r] \in Row
    <3>1. row[r] \in Row /\ (row'[r] = row[r] \/ row'[r] = [row[r] EXCEPT !.status = "cancelled"])
      BY <1>1, <1>3
    <3> QED BY <3>1 DEF Row, Statuses, Terminal
  <2> QED BY <2>1, <2>2, <2>3
<1>6. Opened(n) /\ answered' \in [Requests -> SUBSET Resolutions]
  BY <1>1, <1>2, <1>3 DEF Opened
<1>7. ASSUME NEW r \in Requests \ {n}
      PROVE  Kept(r) \/ Settled(r)
  BY <1>1, <1>3, <1>4 DEF Kept, Settled, SameAsk, IsPending, Row
<1> QED BY <1>1, <1>5, <1>6, <1>7 DEF RequestSteps, RequestStep

\* What running does to the requests, but for the commit.
LEMMA RunSteps ==
  ASSUME Control, NEW c \in Workers, Runs(c), ~Commit(c)
  PROVE  RequestSteps
<1>1. call[c] \in Call
  BY DEF Control, ApprovalTypeOK
<1>2. ASSUME call[c].at \in Decided, SettlesFailed(call[c].req), UNCHANGED history
      PROVE  RequestSteps
  <2>1. call[c].req \in Requests
    BY <1>2 DEF Control, CallsAreDecided
  <2>2. CASE IsApproved(call[c].req)
    BY <1>2, <2>1, <2>2, RowSettled DEF SettlesFailed, history, Terminal
  <2>3. CASE ~IsApproved(call[c].req)
    BY <1>2, <2>3, RowsKept DEF SettlesFailed, store, history
  <2> QED BY <2>2, <2>3
<1>3. CASE Check(c) \/ Enter(c) \/ Overtaken(c) \/ Throws(c) \/ Fault(c)
  BY <1>3, RowsKept DEF Check, Enter, Overtaken, Throws, Fault, store, history
<1>4. CASE SettleRefused(c) \/ SettleFailed(c)
  BY <1>2, <1>4 DEF SettleRefused, SettleFailed, Decided, Running
<1>5. CASE Revoked(c)
  <2>1. call[c].req \in Requests
    BY <1>5 DEF Revoked, Control, CallsAreDecided, Decided, Running
  <2>2. IsApproved(call[c].req) /\ Transition(call[c].req, "failed") /\ UNCHANGED history
    BY <1>5 DEF Revoked, Unchanged
  <2> QED BY <2>1, <2>2, RowSettled DEF history, Terminal
<1> QED BY <1>3, <1>4, <1>5 DEF Runs

\* A step is a commit, or a step of every request.
LEMMA AnyStep ==
  ASSUME Control, [ApprovalNext]_approvalVars
  PROVE  RequestSteps \/ \E c \in Workers : Commit(c)
<1>1. CASE UNCHANGED approvalVars
  BY <1>1, RowsKept DEF approvalVars, store, history
<1>2. ASSUME NEW c \in Workers, OpenFails(c)
      PROVE  RequestSteps
  BY <1>2, RowsKept DEF OpenFails, store, history
<1>3. ASSUME NEW r \in Requests, Lapse(r)
      PROVE  RequestSteps
  BY <1>3, RowsKept DEF Lapse, history
<1>4. CASE Revoke \/ Crash
  BY <1>4, RowsKept DEF Revoke, Crash, store, history
<1> QED BY <1>1, <1>2, <1>3, <1>4, AskedSteps, SweptSteps, OpenSteps, RunSteps
        DEF ApprovalNext, Opens

-----------------------------------------------------------------------------
(* Calls and lines *)

\* What is decided stays decided, and what was opened stays opened.
RowsStay ==
  /\ row' \in [Requests -> Row]
  /\ \A r \in Requests :
       /\ row[r].status \notin {"none", "pending"} => row'[r].status \notin {"none", "pending"}
       /\ row[r].status # "none" => row'[r].status # "none"
  /\ OpenedInOrder'

CallsStep ==
  /\ call' \in [Workers -> Call] /\ line' \in [Requests -> Seq(Workers)]
  /\ CallsAreDecided' /\ HeadRuns'

\* No step opens a request out of order, or forgets that one was decided.
LEMMA RowsDoStay ==
  ASSUME Control, [ApprovalNext]_approvalVars
  PROVE  RowsStay
<1>1. row \in [Requests -> Row] /\ OpenedInOrder
  BY DEF Control, ApprovalTypeOK
<1>2. CASE RequestSteps
  <2>1. \A r \in Requests :
          \/ row[r].status = row'[r].status
          \/ row[r].status \notin {"none"} /\ row'[r].status \notin {"none", "pending"}
          \/ Opened(r)
    BY <1>2 DEF RequestSteps, RequestStep, Kept, Shared, Given, Settled
  <2>2. OpenedInOrder'
    BY <1>1, <2>1 DEF OpenedInOrder, Opened
  <2> QED BY <1>2, <2>1, <2>2 DEF RowsStay, RequestSteps, Opened
<1>3. ASSUME NEW c \in Workers, Commit(c)
      PROVE  RowsStay
  <2> DEFINE r == call[c].req
  <2>1. r \in Requests
    BY <1>3 DEF Commit, Control, CallsAreDecided, Decided, Running
  <2>2. row' = [row EXCEPT ![r].status = "executed"] /\ row[r].status = "approved"
    BY <1>3 DEF Commit, Transition, Unchanged, IsApproved
  <2>3. row' \in [Requests -> Row]
    BY <1>1, <2>1, <2>2 DEF Row, Statuses, Terminal
  <2>4. \A s \in Requests : row'[s].status = IF s = r THEN "executed" ELSE row[s].status
    BY <1>1, <2>1, <2>2 DEF Row
  <2> QED BY <1>1, <2>1, <2>2, <2>3, <2>4 DEF RowsStay, OpenedInOrder
<1> QED BY <1>2, <1>3, AnyStep

\* A call that begins, ends or stays outside the runs, the lines left alone.
LEMMA CallMoves ==
  ASSUME Control, RowsStay, NEW c \in Workers, NEW x \in Call,
         call' = [call EXCEPT ![c] = x], line' = line, x.at \notin Running,
         x.at \in Decided => x.req \in Requests /\ row'[x.req].status \notin {"none", "pending"}
  PROVE  CallsStep
<1>1. call \in [Workers -> Call] /\ line \in [Requests -> Seq(Workers)]
  BY DEF Control, ApprovalTypeOK
<1>2. call'[c] = x /\ \A d \in Workers \ {c} : call'[d] = call[d]
  BY <1>1
<1>3. HeadRuns'
  BY <1>2 DEF Control, HeadRuns
<1>4. CallsAreDecided'
  BY <1>2 DEF Control, CallsAreDecided, RowsStay
<1> QED BY <1>1, <1>3, <1>4 DEF CallsStep

\* A call that queues comes last.
LEMMA CallQueues ==
  ASSUME Control, RowsStay, NEW c \in Workers, NEW r \in Requests, Enqueues(c, r),
         row[r].status \notin {"none", "pending"}
  PROVE  CallsStep
<1>1. call \in [Workers -> Call] /\ line \in [Requests -> Seq(Workers)] /\ call[c] \in Call
  BY DEF Control, ApprovalTypeOK
<1>2. /\ call' = [call EXCEPT ![c].at = "queued", ![c].req = r]
      /\ line' = [line EXCEPT ![r] = Append(@, c)]
  BY DEF Enqueues, Starts
<1>3. /\ call'[c].at = "queued" /\ call'[c].req = r
      /\ \A d \in Workers \ {c} : call'[d] = call[d]
      /\ call' \in [Workers -> Call]
  BY <1>1, <1>2 DEF Call, Steps
<1>4. ASSUME NEW k \in Requests, line[k] # << >>
      PROVE  line'[k] # << >> /\ Head(line'[k]) = Head(line[k])
  <2>1. line[k] \in Seq(Workers)
    BY <1>1
  <2>2. Append(line[k], c) # << >> /\ Head(Append(line[k], c)) = Head(line[k])
    BY <1>4, <2>1
  <2>3. line'[k] = IF k = r THEN Append(line[k], c) ELSE line[k]
    BY <1>1, <1>2
  <2>4. CASE k = r
    BY <2>2, <2>3, <2>4
  <2>5. CASE k # r
    BY <1>4, <2>3, <2>5
  <2> QED BY <2>4, <2>5
<1>5. ASSUME NEW d \in Workers, call'[d].at \in Running
      PROVE  line'[call'[d].req] # << >> /\ Head(line'[call'[d].req]) = d
  <2>1. call[d].at \in Running /\ call'[d] = call[d]
    BY <1>3, <1>5 DEF Running
  <2>2. call[d].req \in Requests /\ line[call[d].req] # << >> /\ Head(line[call[d].req]) = d
    BY <2>1 DEF Control, HeadRuns, CallsAreDecided, Decided
  <2> QED BY <1>4, <2>1, <2>2
<1>6. CallsAreDecided'
  BY <1>3 DEF Control, CallsAreDecided, RowsStay
<1>7. line' \in [Requests -> Seq(Workers)]
  BY <1>1, <1>2
<1> QED BY <1>3, <1>5, <1>6, <1>7 DEF CallsStep, HeadRuns

\* The first in line leaves it: nobody else was running.
LEMMA CallLeaves ==
  ASSUME Control, RowsStay, NEW c \in Workers, Drops(c), Leaves(c), call[c].req \in Requests,
         line[call[c].req] # << >>, Head(line[call[c].req]) = c
  PROVE  CallsStep
<1> DEFINE r == call[c].req
<1>1. call \in [Workers -> Call] /\ line \in [Requests -> Seq(Workers)] /\ line[r] \in Seq(Workers)
  BY DEF Control, ApprovalTypeOK
<1>2. call'[c] = Nowhere /\ \A d \in Workers \ {c} : call'[d] = call[d]
  BY <1>1 DEF Drops
<1>3. /\ call' \in [Workers -> Call] /\ line' \in [Requests -> Seq(Workers)]
      /\ \A k \in Requests \ {r} : line'[k] = line[k]
  BY <1>1, NowhereIsACall DEF Drops, Leaves
<1>4. \A d \in Workers \ {c} : call[d].at \in Running => call[d].req \in Requests \ {r}
  BY DEF Control, HeadRuns, CallsAreDecided, Decided
<1>5. HeadRuns'
  BY <1>2, <1>3, <1>4, NowhereIsACall DEF Control, HeadRuns, Running
<1>6. CallsAreDecided'
  BY <1>2, NowhereIsACall DEF Control, CallsAreDecided, RowsStay, Decided, Running
<1> QED BY <1>3, <1>5, <1>6 DEF CallsStep

\* The first in line begins a run, or goes on with it.
LEMMA CallRuns ==
  ASSUME Control, RowsStay, NEW c \in Workers, NEW step \in Running, Moves(c, step), line' = line,
         call[c].at \in Decided, line[call[c].req] # << >>, Head(line[call[c].req]) = c
  PROVE  CallsStep
<1>1. call \in [Workers -> Call] /\ line \in [Requests -> Seq(Workers)] /\ call[c] \in Call
  BY DEF Control, ApprovalTypeOK
<1>2. /\ call'[c].req = call[c].req
      /\ \A d \in Workers \ {c} : call'[d] = call[d]
      /\ call' \in [Workers -> Call]
  BY <1>1 DEF Moves, Call, Steps, Running
<1>3. HeadRuns'
  BY <1>2 DEF Control, HeadRuns
<1>4. CallsAreDecided'
  BY <1>2 DEF Control, CallsAreDecided, RowsStay
<1> QED BY <1>1, <1>2, <1>3, <1>4 DEF CallsStep

\* Nothing done to calls and lines.
LEMMA CallsKept ==
  ASSUME Control, RowsStay, UNCHANGED memory
  PROVE  CallsStep
  BY DEF Control, ApprovalTypeOK, CallsStep, RowsStay, CallsAreDecided, HeadRuns, memory

\* What the steps of a run do to calls and lines.
LEMMA RunCalls ==
  ASSUME Control, RowsStay, NEW c \in Workers, Runs(c)
  PROVE  CallsStep
<1> DEFINE r == call[c].req
<1>1. /\ call \in [Workers -> Call] /\ call[c] \in Call
      /\ call[c].at \in Decided => r \in Requests /\ row[r].status \notin {"none", "pending"}
      /\ call[c].at \in Running => line[r] # << >> /\ Head(line[r]) = c
  BY DEF Control, ApprovalTypeOK, CallsAreDecided, HeadRuns
<1>2. ASSUME Drops(c), line' = line PROVE CallsStep
  BY <1>2, CallMoves, NowhereIsACall DEF Drops, Decided, Running
<1>3. ASSUME call[c].at \in Running, Drops(c), Leaves(c) PROVE CallsStep
  BY <1>1, <1>3, CallLeaves DEF Decided
<1>4. CASE Check(c)
  <2>1. CASE Enqueues(c, r)
    BY <1>1, <1>4, <2>1, CallQueues DEF Check, Decided
  <2>2. CASE Moves(c, "refused") /\ UNCHANGED line
    <3> DEFINE x == [call[c] EXCEPT !.at = "refused"]
    <3>1. x \in Call /\ x.at = "refused" /\ x.req = r /\ call' = [call EXCEPT ![c] = x]
      BY <1>1, <2>2 DEF Moves, Call, Steps
    <3>2. r \in Requests /\ row'[r].status \notin {"none", "pending"}
      BY <1>1, <1>4 DEF Check, Decided, RowsStay
    <3> HIDE DEF x
    <3> QED BY <2>2, <3>1, <3>2, CallMoves DEF Running
  <2> QED BY <1>2, <1>4, <2>1, <2>2 DEF Check
<1>5. CASE SettleRefused(c)
  BY <1>2, <1>5 DEF SettleRefused
<1>6. CASE Enter(c)
  <2>1. r \in Requests /\ line[r] # << >> /\ Head(line[r]) = c /\ call[c].at \in Decided
    BY <1>1, <1>6, CallAssumption DEF Enter, Head1, NoRequest, Decided, Workers
  <2>2. CASE Current(r)
    BY <1>6, <2>1, <2>2, CallRuns DEF Enter, Running
  <2>3. CASE ~Current(r)
    BY <1>6, <2>1, <2>3, CallLeaves DEF Enter
  <2> QED BY <2>2, <2>3
<1>7. CASE Throws(c)
  BY <1>1, <1>7, CallRuns DEF Throws, Running, Decided
<1>8. CASE Fault(c)
  BY <1>2, <1>3, <1>8 DEF Fault, Running
<1>9. CASE Commit(c) \/ Revoked(c) \/ Overtaken(c) \/ SettleFailed(c)
  BY <1>3, <1>9 DEF Commit, Revoked, Overtaken, SettleFailed, Running
<1> QED BY <1>4, <1>5, <1>6, <1>7, <1>8, <1>9 DEF Runs

\* What users and the sweeper do to them.
LEMMA AskedCalls ==
  ASSUME Control, RowsStay, NEW c \in Workers, Asked(c) \/ \E r \in Requests : Swept(c, r)
  PROVE  CallsStep
<1>1. call \in [Workers -> Call] /\ row \in [Requests -> Row] /\ call[c] \in Call
  BY DEF Control, ApprovalTypeOK
<1>2. ASSUME NEW r \in Requests, Starts(c, r, "checking"), line' = line,
             row'[r].status \notin {"none", "pending"}
      PROVE  CallsStep
  <2> DEFINE x == [call[c] EXCEPT !.at = "checking", !.req = r]
  <2>1. x \in Call /\ x.at = "checking" /\ x.req = r /\ call' = [call EXCEPT ![c] = x]
    BY <1>1, <1>2 DEF Starts, Call, Steps
  <2> HIDE DEF x
  <2> QED BY <1>2, <2>1, CallMoves DEF Running
<1>3. ASSUME NEW r \in Requests, NEW by, Approves(c, r, by), line' = line
      PROVE  CallsStep
  <2>1. row'[r].status = "approved"
    BY <1>1, <1>3 DEF Approves, Row
  <2> QED BY <1>2, <1>3, <2>1, CallsKept DEF Approves, memory
<1>4. ASSUME NEW ask \in Asks, NEW res \in ResolutionsOf[ask], Gate(c, ask, res)
      PROVE  CallsStep
  <2>1. ASSUME NEW weaker \in Requests \cup {NoRequest}, Opening(c, weaker, ask, res)
        PROVE  CallsStep
    <3> DEFINE x == [at |-> "opening", req |-> weaker, ask |-> ask, res |-> res]
    <3>1. x \in Call /\ x.at = "opening" /\ call' = [call EXCEPT ![c] = x]
      BY <2>1 DEF Opening, Call, Steps, Resolutions
    <3>2. line' = line
      BY <1>4 DEF Gate
    <3> HIDE DEF x
    <3> QED BY <3>1, <3>2, CallMoves DEF Running, Decided
  <2>2. \A found \in Oldest(ask) : found \in Requests
    BY DEF Oldest, Duplicates
  <2>3. line' = line
    BY <1>4 DEF Gate
  <2> QED BY <1>4, <2>1, <2>2, <2>3, CallsKept DEF Gate, memory
<1>5. ASSUME NEW r \in Requests, Redeem(c, r) \/ Cancel(c, r)
      PROVE  CallsStep
  <2>1. CASE Redeem(c, r)
    BY <2>1, CallQueues DEF Redeem, IsApproved
  <2>2. CASE Cancel(c, r)
    BY <2>2, CallsKept DEF Cancel
  <2> QED BY <1>5, <2>1, <2>2
<1>6. ASSUME NEW p \in Principals, NEW r \in Requests, Approve(c, p, r) \/ Reject(c, p, r)
      PROVE  CallsStep
  BY <1>3, <1>6, CallsKept DEF Approve, Reject
<1>7. ASSUME NEW r \in Requests, Swept(c, r)
      PROVE  CallsStep
  <2>1. CASE Expire(c, r)
    BY <2>1, CallsKept DEF Expire
  <2>2. CASE Release(c, r)
    BY <1>3, <2>2 DEF Release
  <2>3. CASE RetryStale(c, r)
    BY <1>2, <2>3 DEF RetryStale, store, IsApproved
  <2> QED BY <1>7, <2>1, <2>2, <2>3 DEF Swept
<1> QED BY <1>4, <1>5, <1>6, <1>7 DEF Asked

\* The calls of every step.
LEMMA CallsDoStep ==
  ASSUME Control, [ApprovalNext]_approvalVars
  PROVE  CallsStep
<1>1. RowsStay
  BY RowsDoStay
<1>2. CASE UNCHANGED approvalVars
  BY <1>1, <1>2, CallsKept DEF approvalVars
<1>3. ASSUME NEW c \in Workers, Opens(c)
      PROVE  CallsStep
  BY <1>1, <1>3, CallMoves, NowhereIsACall DEF Opens, Open, OpenFails, Drops, Decided, Running
<1>4. ASSUME NEW r \in Requests, Lapse(r)
      PROVE  CallsStep
  BY <1>1, <1>4, CallsKept DEF Lapse
<1>5. CASE Revoke
  BY <1>1, <1>5, CallsKept DEF Revoke
<1>6. CASE Crash
  BY <1>6, NowhereIsACall DEF Crash, CallsStep, CallsAreDecided, HeadRuns, Decided, Running
<1> QED BY <1>1, <1>2, <1>3, <1>4, <1>5, <1>6, RunCalls, AskedCalls DEF ApprovalNext, Workers

\* The requests that are due, the keys and the counters keep their types.
LEMMA OtherTypes ==
  ASSUME Control, [ApprovalNext]_approvalVars
  PROVE  /\ due' \subseteq Requests /\ keys' \subseteq Principals
         /\ effects' \in [Requests -> Nat] /\ begun' \in [Requests -> Nat]
         /\ faults' \in [Requests -> Nat] /\ crashes' \in Nat
         /\ answered' \in [Requests -> SUBSET Resolutions]
<1> DEFINE Counters == /\ effects' \in [Requests -> Nat] /\ begun' \in [Requests -> Nat]
                       /\ faults' \in [Requests -> Nat] /\ crashes' \in Nat
           Others == due' \subseteq Requests /\ keys' \subseteq Principals
<1>1. /\ due \subseteq Requests /\ keys \subseteq Principals
      /\ effects \in [Requests -> Nat] /\ begun \in [Requests -> Nat]
      /\ faults \in [Requests -> Nat] /\ crashes \in Nat
      /\ answered \in [Requests -> SUBSET Resolutions]
  BY DEF Control, ApprovalTypeOK
<1>2. answered' \in [Requests -> SUBSET Resolutions]
  <2>1. ASSUME NEW c \in Workers, Commit(c) PROVE answered' = answered
    BY <2>1 DEF Commit
  <2> QED BY <1>1, <2>1, AnyStep DEF RequestSteps
<1>3. CASE UNCHANGED approvalVars
  BY <1>1, <1>2, <1>3 DEF approvalVars, store, history
<1>4. ASSUME NEW c \in Workers, Runs(c) PROVE Counters /\ Others
  <2>1. CASE Check(c) \/ SettleRefused(c) \/ Revoked(c) \/ Overtaken(c) \/ Throws(c) \/ SettleFailed(c)
    BY <1>1, <2>1 DEF Check, SettleRefused, Revoked, Overtaken, Throws, SettleFailed, SettlesFailed,
                      Closed, store, history
  <2>2. ASSUME NEW f \in [Requests -> Nat], NEW k PROVE [f EXCEPT ![k] = @ + 1] \in [Requests -> Nat]
    <3>1. \A x \in Requests : f[x] \in Nat /\ f[x] + 1 \in Nat
      OBVIOUS
    <3>2. \A x \in Requests : [f EXCEPT ![k] = @ + 1][x] = IF x = k THEN f[x] + 1 ELSE f[x]
      OBVIOUS
    <3>3. [f EXCEPT ![k] = @ + 1] = [x \in Requests |-> [f EXCEPT ![k] = @ + 1][x]]
      OBVIOUS
    <3> QED BY <3>1, <3>2, <3>3
  <2>3. CASE Enter(c) \/ Commit(c) \/ Fault(c)
    BY <1>1, <2>2, <2>3 DEF Enter, Commit, Fault, Closed, store
  <2> QED BY <1>4, <2>1, <2>3 DEF Runs
<1>5. ASSUME NEW c \in Workers, Opens(c) PROVE Counters /\ Others
  BY <1>1, <1>5 DEF Opens, Open, OpenFails, store, history
<1>6. ASSUME NEW c \in Calls, Asked(c) PROVE Counters /\ Others
  <2>1. ASSUME NEW ask \in Asks, NEW res \in ResolutionsOf[ask], Gate(c, ask, res)
        PROVE  Counters /\ Others
    BY <1>1, <2>1 DEF Gate, store
  <2>2. ASSUME NEW r \in Requests, Redeem(c, r) \/ Cancel(c, r)
        PROVE  Counters /\ Others
    BY <1>1, <2>2 DEF Redeem, Cancel, Closed, store, history
  <2>3. ASSUME NEW p \in Principals, NEW r \in Requests, Approve(c, p, r) \/ Reject(c, p, r)
        PROVE  Counters /\ Others
    BY <1>1, <2>3 DEF Approve, Approves, Reject, Closed, history
  <2> QED BY <1>6, <2>1, <2>2, <2>3 DEF Asked
<1>7. ASSUME NEW c \in Sweeps, NEW r \in Requests, Swept(c, r) PROVE Counters /\ Others
  BY <1>1, <1>7 DEF Swept, Expire, Release, RetryStale, Approves, Closed, store, history
<1>8. ASSUME NEW r \in Requests, Lapse(r) PROVE Counters /\ Others
  BY <1>1, <1>8 DEF Lapse, history
<1>9. CASE Revoke \/ Crash
  BY <1>1, <1>2, <1>9 DEF Revoke, Crash, store, history
<1> QED BY <1>2, <1>3, <1>4, <1>5, <1>6, <1>7, <1>8, <1>9 DEF ApprovalNext

\* Every step keeps the requests, the calls and the lines in order.
LEMMA ControlStep ==
  ASSUME Control, [ApprovalNext]_approvalVars
  PROVE  Control'
  BY RowsDoStay, CallsDoStep, OtherTypes DEF Control, ApprovalTypeOK, RowsStay, CallsStep

-----------------------------------------------------------------------------
(* Runs are counted *)

\* Nothing begun, no reason taken back, and no run given up.
Quiet(r) ==
  /\ begun'[r] = begun[r] /\ Reasons(r)' = Reasons(r)
  /\ \/ \A d \in Workers : call[d].at \in Running /\ call[d].req = r =>
          call'[d].at \in Running /\ call'[d].req = r
     \/ row'[r].status \notin Unsettled

\* A settled request stays so.
LEMMA SettledStay ==
  ASSUME Control, [ApprovalNext]_approvalVars, NEW r \in Requests, row'[r].status \in Unsettled
  PROVE  row[r].status \in Unsettled
<1>1. CASE RequestSteps
  BY <1>1 DEF RequestSteps, RequestStep, Kept, Shared, Opened, Given, Settled, Unsettled
<1>2. ASSUME NEW c \in Workers, Commit(c)
      PROVE  row[r].status \in Unsettled
  BY <1>2 DEF Commit, Transition, Unchanged, IsApproved, Unsettled, Control, ApprovalTypeOK
<1> QED BY <1>1, <1>2, AnyStep

\* A step in which nothing runs or ends leaves the counts as they are.
LEMMA QuietCounts ==
  ASSUME Control, [ApprovalNext]_approvalVars, NEW r \in Requests, Counted(r), Quiet(r)
  PROVE  Counted(r)'
<1>1. row'[r].status \in Unsettled => row[r].status \in Unsettled
  BY SettledStay
<1>2. row'[r].status \in Unsettled /\ InHand(r) => InHand(r)'
  BY DEF InHand, Quiet
<1> QED BY <1>1, <1>2 DEF Counted, Quiet

\* One call moved, and it was not running, runs on, or has settled its request.
LEMMA OneCallQuiet ==
  ASSUME Control, UNCHANGED <<begun, faults, crashes>>, NEW c \in Workers,
         \A d \in Workers \ {c} : call'[d] = call[d],
         \/ call[c].at \notin Running
         \/ call'[c].at \in Running /\ call'[c].req = call[c].req
         \/ row'[call[c].req].status \notin Unsettled
  PROVE  \A r \in Requests : Quiet(r)
  BY DEF Quiet, Reasons

\* What a run does to the counts.
LEMMA RunsCount ==
  ASSUME Control, [ApprovalNext]_approvalVars, \A r \in Requests : Counted(r),
         NEW c \in Workers, Runs(c)
  PROVE  \A r \in Requests : Counted(r)'
<1>0. PICK k : k = call[c].req
  OBVIOUS
<1>1. /\ k = call[c].req /\ call \in [Workers -> Call] /\ row \in [Requests -> Row]
      /\ begun \in [Requests -> Nat] /\ faults \in [Requests -> Nat] /\ crashes \in Nat
      /\ call[c].at \in Decided => k \in Requests /\ row[k].status \notin {"none", "pending"}
  BY <1>0 DEF Control, ApprovalTypeOK, CallsAreDecided
<1>2. ASSUME \A r \in Requests : Quiet(r)
      PROVE  \A r \in Requests : Counted(r)'
  BY <1>2, QuietCounts
<1>3. CASE Check(c) \/ SettleRefused(c)
  <2>1. call[c].at \notin Running /\ UNCHANGED <<begun, faults, crashes>>
    BY <1>3 DEF Check, SettleRefused, Running, history
  <2>2. \A d \in Workers \ {c} : call'[d] = call[d]
    BY <1>1, <1>3 DEF Check, SettleRefused, Enqueues, Starts, Moves, Drops
  <2> QED BY <1>1, <1>2, <2>1, <2>2, OneCallQuiet
<1>4. CASE Throws(c)
  <2>1. call[c].at \in Running /\ UNCHANGED <<begun, faults, crashes>>
    BY <1>4 DEF Throws, Running, history
  <2>2. /\ \A d \in Workers \ {c} : call'[d] = call[d]
        /\ call'[c].at \in Running /\ call'[c].req = k
    BY <1>1, <1>4 DEF Throws, Moves, Running, Call
  <2> QED BY <1>1, <1>2, <2>1, <2>2, OneCallQuiet
<1>5. CASE Commit(c) \/ Revoked(c) \/ Overtaken(c) \/ SettleFailed(c)
  <2>1. /\ call[c].at \in Decided /\ UNCHANGED <<begun, faults, crashes>>
        /\ \A d \in Workers \ {c} : call'[d] = call[d]
    BY <1>1, <1>5 DEF Commit, Revoked, Overtaken, SettleFailed, Drops, Decided, Running, history
  <2>2. row'[k].status \notin Unsettled
    <3>1. CASE Commit(c) \/ Revoked(c)
      BY <1>1, <2>1, <3>1 DEF Commit, Revoked, Transition, Unsettled, Row
    <3>2. CASE Overtaken(c)
      BY <1>1, <2>1, <3>2 DEF Overtaken, Unchanged, IsApproved, Unsettled, store
    <3>3. CASE SettleFailed(c)
      BY <1>1, <2>1, <3>3 DEF SettleFailed, SettlesFailed, Transition, IsApproved, Unsettled, Row, store
    <3> QED BY <1>5, <3>1, <3>2, <3>3
  <2> QED BY <1>1, <1>2, <2>1, <2>2, OneCallQuiet
<1>6. CASE Fault(c)
  <2>1. /\ k \in Requests /\ UNCHANGED <<begun, crashes, row>>
        /\ faults' = [faults EXCEPT ![k] = @ + 1]
        /\ \A d \in Workers \ {c} : call'[d] = call[d]
    BY <1>1, <1>6 DEF Fault, Drops, Decided, Running, store
  <2>2. \A r \in Requests \ {k} : Quiet(r)
    BY <1>1, <2>1 DEF Quiet, Reasons
  <2>3. Reasons(k)' = Reasons(k) + 1 /\ Reasons(k) \in Nat /\ begun[k] \in Nat
    BY <1>1, <2>1 DEF Reasons
  <2>4. Counted(k)'
    BY <2>1, <2>3 DEF Counted
  <2> QED BY <2>2, <2>4, QuietCounts
<1>7. CASE Enter(c) /\ Current(k)
  <2>1. /\ call[c].at = "queued" /\ k \in Requests /\ IsApproved(k)
        /\ UNCHANGED <<row, faults, crashes>>
        /\ begun' = [begun EXCEPT ![k] = @ + 1]
        /\ \E step \in Running : Moves(c, step)
    BY <1>1, <1>7 DEF Enter, Current, Decided, Running, store
  <2>2. /\ \A d \in Workers \ {c} : call'[d] = call[d]
        /\ call'[c].at \in Running /\ call'[c].req = k
    BY <1>1, <2>1 DEF Moves, Call
  <2>3. \A r \in Requests \ {k} : Quiet(r)
    BY <1>1, <2>1, <2>2 DEF Quiet, Reasons, Running
  <2>4. ~InHand(k)
    <3> SUFFICES ASSUME NEW d \in Workers, call[d].at \in Running, call[d].req = k PROVE FALSE
      BY DEF InHand
    <3>1. line[k] # << >> /\ Head(line[k]) = d
      BY DEF Control, HeadRuns
    <3>2. Head(line[k]) = c
      BY <1>1, <1>7, <3>1 DEF Enter, Head1
    <3> QED BY <2>1, <3>1, <3>2 DEF Running
  <2>5. begun[k] <= Reasons(k) /\ Reasons(k)' = Reasons(k) /\ begun[k] \in Nat /\ Reasons(k) \in Nat
    BY <1>1, <2>1, <2>4 DEF Counted, IsApproved, Unsettled, Reasons
  <2>6. InHand(k)'
    BY <2>2 DEF InHand
  <2>7. Counted(k)'
    BY <1>1, <2>1, <2>5, <2>6 DEF Counted
  <2> QED BY <2>3, <2>7, QuietCounts
<1>8. CASE Enter(c) /\ ~Current(k)
  <2>1. call[c].at \notin Running /\ UNCHANGED <<begun, faults, crashes>>
    BY <1>1, <1>8 DEF Enter, Running
  <2>2. \A d \in Workers \ {c} : call'[d] = call[d]
    BY <1>1, <1>8 DEF Enter, Drops
  <2> QED BY <1>1, <1>2, <2>1, <2>2, OneCallQuiet
<1> QED BY <1>3, <1>4, <1>5, <1>6, <1>7, <1>8 DEF Runs

\* What the other steps do.
LEMMA CountStep ==
  ASSUME Control, [ApprovalNext]_approvalVars, \A r \in Requests : Counted(r)
  PROVE  \A r \in Requests : Counted(r)'
<1>1. /\ call \in [Workers -> Call]
      /\ begun \in [Requests -> Nat] /\ faults \in [Requests -> Nat] /\ crashes \in Nat
  BY DEF Control, ApprovalTypeOK
<1>2. ASSUME UNCHANGED <<begun, faults, crashes>>, NEW c \in Workers, call[c].at \notin Running,
             \A d \in Workers \ {c} : call'[d] = call[d]
      PROVE  \A r \in Requests : Counted(r)'
  BY <1>2, OneCallQuiet, QuietCounts
<1>3. ASSUME UNCHANGED <<begun, faults, crashes, call>>
      PROVE  \A r \in Requests : Counted(r)'
  BY <1>3, QuietCounts DEF Quiet, Reasons
<1>4. ASSUME NEW c \in Workers, Opens(c)
      PROVE  \A r \in Requests : Counted(r)'
  BY <1>1, <1>2, <1>4 DEF Opens, Open, OpenFails, Drops, Running, history
<1>5. ASSUME NEW c \in Calls, Asked(c)
      PROVE  \A r \in Requests : Counted(r)'
  <2>1. c \in Workers
    BY DEF Workers
  <2>2. ASSUME NEW ask \in Asks, NEW res \in ResolutionsOf[ask], Gate(c, ask, res)
        PROVE  \A r \in Requests : Counted(r)'
    BY <1>1, <1>2, <1>3, <2>1, <2>2 DEF Gate, Opening, Idle, Running
  <2>3. ASSUME NEW r \in Requests, Redeem(c, r) \/ Cancel(c, r)
        PROVE  \A s \in Requests : Counted(s)'
    BY <1>1, <1>2, <1>3, <2>1, <2>3
       DEF Redeem, Cancel, Enqueues, Starts, Idle, Running, memory, history
  <2>4. ASSUME NEW p \in Principals, NEW r \in Requests, Approve(c, p, r) \/ Reject(c, p, r)
        PROVE  \A s \in Requests : Counted(s)'
    BY <1>1, <1>2, <1>3, <2>1, <2>4
       DEF Approve, Approves, Reject, Starts, Idle, Running, memory, history
  <2> QED BY <1>5, <2>2, <2>3, <2>4 DEF Asked
<1>6. ASSUME NEW c \in Sweeps, NEW r \in Requests, Swept(c, r)
      PROVE  \A s \in Requests : Counted(s)'
  <2>1. c \in Workers
    BY DEF Workers
  <2> QED BY <1>1, <1>2, <1>3, <1>6, <2>1
          DEF Swept, Expire, Release, RetryStale, Approves, Starts, Idle, Running, memory, history
<1>7. CASE UNCHANGED approvalVars \/ Revoke \/ \E r \in Requests : Lapse(r)
  BY <1>3, <1>7 DEF approvalVars, Revoke, Lapse, memory, history
<1>8. CASE Crash
  <2> SUFFICES ASSUME NEW r \in Requests PROVE Counted(r)'
    OBVIOUS
  <2>1. /\ Reasons(r)' = Reasons(r) + 1 /\ begun'[r] = begun[r]
        /\ Reasons(r) \in Nat /\ begun[r] \in Nat
    BY <1>1, <1>8 DEF Crash, Reasons, history
  <2> QED BY <2>1 DEF Counted
<1> QED BY <1>4, <1>5, <1>6, <1>7, <1>8, RunsCount DEF ApprovalNext

-----------------------------------------------------------------------------
(* Answers are kept *)

\* No step weakens what a waiting request asks for, or what it was answered with.
LEMMA StrictStep ==
  ASSUME Control, [ApprovalNext]_approvalVars, \A r \in Requests : Strict(r)
  PROVE  \A r \in Requests : Strict(r)'
<1>1. /\ row \in [Requests -> Row] /\ answered \in [Requests -> SUBSET Resolutions]
      /\ \A m \in Modes : Rank[m] \in 0..3
  BY Ranks DEF Control, ApprovalTypeOK
<1>2. ASSUME RequestSteps, NEW r \in Requests
      PROVE  Strict(r)'
  <2>1. row'[r] \in Row /\ row[r] \in Row
    BY <1>1, <1>2 DEF RequestSteps
  <2>2. CASE Kept(r) \/ Shared(r)
    BY <1>1, <2>2 DEF Kept, Shared, Strict, Satisfies, IsPending
  <2>3. CASE Opened(r)
    <3>1. row'[r].res.mode \in Modes /\ row'[r].res \in Resolution
      BY <2>1, ResolutionTypes DEF Row, Resolution
    <3> QED BY <1>1, <2>3, <3>1 DEF Opened, Strict, Satisfies, Resolution
  <2>4. CASE Given(r)
    BY <2>4 DEF Given, Strict, Satisfies, SameAsk
  <2>5. CASE Settled(r)
    BY <2>5 DEF Settled, Strict, Satisfies, SameAsk
  <2> QED BY <1>2, <2>2, <2>3, <2>4, <2>5 DEF RequestSteps, RequestStep
<1>3. ASSUME NEW c \in Workers, Commit(c), NEW r \in Requests
      PROVE  Strict(r)'
  <2>1. /\ answered' = answered /\ row'[r].res = row[r].res /\ row'[r].by = row[r].by
        /\ row'[r].status = row[r].status
           \/ (row[r].status = "approved" /\ row'[r].status = "executed")
    BY <1>1, <1>3 DEF Commit, Transition, Unchanged, IsApproved, Row
  <2> QED BY <2>1 DEF Strict, Satisfies
<1> QED BY <1>2, <1>3, AnyStep

-----------------------------------------------------------------------------
(* The theorems *)

\* Nothing was asked yet.
LEMMA ApprovalInvInit == ApprovalInit => ApprovalInv
<1> SUFFICES ASSUME ApprovalInit PROVE ApprovalInv
  OBVIOUS
<1>1. Nowhere \in Call /\ Nowhere.at = "idle" /\ Nowhere.ask \in Asks /\ Nowhere.res \in Resolutions
  BY NowhereIsACall DEF Call
<1>2. ApprovalTypeOK
  BY <1>1 DEF ApprovalInit, ApprovalTypeOK, Row, Statuses
<1>3. \A r \in Requests : row[r].status = "none" /\ begun[r] = 0 /\ Reasons(r) = 0 /\ answered[r] = {}
  BY DEF ApprovalInit, Reasons
<1>4. \A c \in Workers : call[c].at = "idle"
  BY <1>1 DEF ApprovalInit
<1>5. CallsAreDecided /\ HeadRuns /\ OpenedInOrder
  BY <1>3, <1>4 DEF CallsAreDecided, HeadRuns, OpenedInOrder, Decided, Running
<1>6. \A r \in Requests : Counted(r) /\ Strict(r)
  BY <1>3 DEF Counted, Strict
<1> QED BY <1>2, <1>5, <1>6 DEF ApprovalInv, Control

\* The invariant is inductive.
LEMMA ApprovalInvStep == ApprovalInv /\ [ApprovalNext]_approvalVars => ApprovalInv'
<1> SUFFICES ASSUME ApprovalInv, [ApprovalNext]_approvalVars PROVE ApprovalInv'
  OBVIOUS
<1>1. Control /\ (\A r \in Requests : Counted(r)) /\ (\A r \in Requests : Strict(r))
  BY DEF ApprovalInv
<1>2. Control'
  BY <1>1, ControlStep
<1>3. \A r \in Requests : Counted(r)'
  BY <1>1, CountStep
<1>4. \A r \in Requests : Strict(r)'
  BY <1>1, StrictStep
<1> QED BY <1>2, <1>3, <1>4 DEF ApprovalInv

\* The invariant of requests, calls and lines holds in every reachable state.
THEOREM ApprovalInvariance == ApprovalSpec => []ApprovalInv
  BY ApprovalInvInit, ApprovalInvStep, PTL DEF ApprovalSpec

\* Every row, call and line keeps its type.
THEOREM ApprovalTypes == ApprovalSpec => []ApprovalTypeOK
<1>1. ApprovalInv => ApprovalTypeOK
  BY DEF ApprovalInv, Control
<1> QED BY <1>1, ApprovalInvariance, PTL

\* Nobody's call is released more cheaply than it asked for, whoever else the
\* request was opened by (satisfiesResolution, decideEligibility).
THEOREM ReleasesAreAsAsked == ApprovalSpec => []ReleasedAsAsked
<1>1. ASSUME ApprovalInv PROVE ReleasedAsAsked
  <2> SUFFICES ASSUME NEW r \in Requests, row[r].status \in {"approved", "executed"},
                      NEW res \in answered[r]
               PROVE  IF row[r].by = "none" THEN res.policy
                                            ELSE Rank[row[r].by] >= Rank[res.mode]
    BY DEF ReleasedAsAsked
  <2>1. Strict(r) /\ row[r] \in Row /\ res \in Resolution
    BY <1>1, ResolutionTypes DEF ApprovalInv, Control, ApprovalTypeOK
  <2>2. Rank[row[r].res.mode] >= Rank[res.mode] /\ (res.policy \/ ~row[r].res.policy)
    BY <2>1 DEF Strict, Satisfies
  <2>3. row[r].res \in Resolutions /\ row[r].res \in Resolution /\ row[r].by \in Modes \cup {"none"}
    BY <2>1, ResolutionTypes DEF Row
  <2>4. CASE row[r].by = "none"
    <3>1. row[r].res.onTimeout = "approve"
      BY <2>1, <2>4 DEF Strict
    <3>2. row[r].res.policy
      BY <2>3, <3>1, ResolutionAssumption
    <3> QED BY <2>2, <2>4, <3>2
  <2>5. CASE row[r].by # "none"
    <3>1. Rank[row[r].by] >= Rank[row[r].res.mode]
      BY <2>1, <2>5 DEF Strict
    <3>2. /\ Rank[row[r].by] \in 0..3 /\ Rank[row[r].res.mode] \in 0..3 /\ Rank[res.mode] \in 0..3
      BY <2>1, <2>3, Ranks DEF Resolution
    <3> QED BY <2>2, <2>5, <3>1, <3>2
  <2> QED BY <2>4, <2>5
<1> QED BY <1>1, ApprovalInvariance, PTL

\* Calls that queue for a request prepare and run it once between them, and once
\* more for each failure and crash (run, executeOnce, serialised).
THEOREM RunsBeginOnce == ApprovalSpec => []BegunOnce
<1>1. ASSUME ApprovalInv PROVE BegunOnce
  BY <1>1 DEF ApprovalInv, Control, ApprovalTypeOK, Counted, Reasons, BegunOnce
<1> QED BY <1>1, ApprovalInvariance, PTL

\* A step of the engine is one of the promised life of requests.
LEMMA LifecycleStep ==
  ASSUME ApprovalInv, [ApprovalNext]_approvalVars
  PROVE  [Lifecycle!LifecycleNext]_(Lifecycle!lifecycleVars)
<1> DEFINE status == [r \in Requests |-> row[r].status]
<1>1. Control /\ row \in [Requests -> Row] /\ effects \in [Requests -> Nat]
  BY DEF ApprovalInv, Control, ApprovalTypeOK
<1>2. ASSUME RequestSteps
      PROVE  Lifecycle!Move
  <2>1. ASSUME NEW r \in Requests
        PROVE  row'[r].status = row[r].status \/ row'[r].status \in Lifecycle!After(row[r].status)
    BY <1>2 DEF RequestSteps, RequestStep, Kept, Shared, Opened, Given, Settled, Lifecycle!After
  <2>2. \A r \in Requests : row'[r].status \in Lifecycle!Statuses
    BY <1>2 DEF RequestSteps, Row, Statuses, Terminal, Lifecycle!Statuses, Lifecycle!Terminal
  <2> QED BY <1>2, <2>1, <2>2 DEF RequestSteps, Lifecycle!Move
<1>3. ASSUME NEW c \in Workers, Commit(c)
      PROVE  Lifecycle!LifecycleNext
  <2>1. PICK r \in Requests : r = call[c].req
    BY <1>1, <1>3 DEF Control, CallsAreDecided, Commit, Decided, Running
  <2>2. /\ row[r].status = "approved" /\ row' = [row EXCEPT ![r].status = "executed"]
        /\ effects' = [effects EXCEPT ![r] = @ + 1]
    BY <1>3, <2>1 DEF Commit, Transition, Unchanged, IsApproved
  <2>3. status' = [status EXCEPT ![r] = "executed"]
    BY <1>1, <2>2 DEF Row
  <2> QED BY <2>2, <2>3 DEF Lifecycle!LifecycleNext, Lifecycle!Execute
<1> QED BY <1>1, <1>2, <1>3, AnyStep DEF Lifecycle!LifecycleNext

\* The engine keeps the promise of ApprovalLifecycle: a command's writes commit in
\* the step that marks its request executed, and what is settled stays so.
THEOREM EngineImplementsLifecycle == ApprovalSpec => ImplementsLifecycle
<1>1. ApprovalInit => Lifecycle!LifecycleInit
  BY DEF ApprovalInit, Lifecycle!LifecycleInit
<1>2. ApprovalInv /\ [ApprovalNext]_approvalVars => [Lifecycle!LifecycleNext]_(Lifecycle!lifecycleVars)
  BY LifecycleStep
<1> QED BY <1>1, <1>2, ApprovalInvariance, PTL
        DEF ApprovalSpec, ImplementsLifecycle, Lifecycle!LifecycleSpec
=============================================================================
