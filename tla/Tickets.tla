-------------------------------- MODULE Tickets --------------------------------
(***************************************************************************)
(* One ticket and its pull requests.  A ticket moves through its states by *)
(* calls of its users and agents, by the dispatch of a fleet job, and by   *)
(* the merge of a linked PR.  A call is asked at one moment and carried    *)
(* out at another: whether an agent's own fix needs an approval is looked  *)
(* up before the gate, an approval takes its time, and the status is read  *)
(* once or twice before the transaction that writes it on condition it is  *)
(* still the one read.  PR states come from a poll, from webhooks and from *)
(* the fleet's refresher, late, twice or never.                            *)
(*                                                                         *)
(* Tickets do not interact.  What an approval is and who gives it is       *)
(* ApprovalEngine; here it is a wait and somebody's release.               *)
(***************************************************************************)
EXTENDS Integers, Sequences, FiniteSets

CONSTANTS
  Principals, Users, NoOne,  \* the principals that are not users are agents
  KeysOf,                    \* [Principals -> SUBSET of the permission keys]
  PolicyModes,               \* what approval policies may want of a call
  Calls, Observers,
  MaxMoves, MaxLinks         \* length of the trail and linked PRs, bounds of the model

ASSUME TicketPrincipals == Users \subseteq Principals /\ NoOne \notin Principals
ASSUME TicketPolicies == PolicyModes \subseteq {"none", "self", "agent", "human"}
ASSUME TicketObservers == Observers \subseteq {"poll", "refresh", "hook"}
ASSUME TicketBounds == MaxMoves \in Nat /\ MaxLinks \in Nat

VARIABLES
  ticket,   \* the Ticket row: its status, and whether it is deleted
  trail,    \* TicketActivity rows of moves, with the call each comes from
  call,     \* what each request in flight is doing
  opener,   \* the post-commit task that opens the classic PR
  job,      \* a fleet job linked to the ticket
  link,     \* TicketLink.prState of each PR, "none" without a link
  merged,   \* the linked PRs that are merged at the provider
  announced,  \* TicketActivity has the VCS_PR_CREATED row of the classic PR
  observer  \* what each observer of PR states is doing

work == <<call, opener>>
prs == <<link, merged, announced>>
ticketVars == <<ticket, trail, work, job, prs, observer>>

-----------------------------------------------------------------------------
Statuses == {"CREATED", "VERIFIED", "IN_PROGRESS", "VERIFY_FIX", "CLOSED", "REJECTED"}
Modes == {"none", "self", "agent", "human"}
Rank == [none |-> 0, self |-> 1, agent |-> 2, human |-> 3]
Stricter(a, b) == IF Rank[a] >= Rank[b] THEN a ELSE b

Rules == {
  <<"CREATED",     "VERIFIED",    "VERIFICATION">>,
  <<"CREATED",     "IN_PROGRESS", "NONE">>,
  <<"CREATED",     "REJECTED",    "GENERAL">>,
  <<"VERIFIED",    "IN_PROGRESS", "NONE">>,
  <<"VERIFIED",    "REJECTED",    "GENERAL">>,
  <<"IN_PROGRESS", "VERIFY_FIX",  "FIX_REPORT">>,
  <<"VERIFY_FIX",  "CLOSED",      "REVIEW">>,
  <<"VERIFY_FIX",  "IN_PROGRESS", "REVIEW">>}

Edges == {
  <<"CREATED",     "VERIFIED",    "verify">>,
  <<"CREATED",     "IN_PROGRESS", "start">>,
  <<"CREATED",     "REJECTED",    "reject">>,
  <<"VERIFIED",    "IN_PROGRESS", "start">>,
  <<"VERIFIED",    "REJECTED",    "reject">>,
  <<"IN_PROGRESS", "VERIFY_FIX",  "fix">>,
  <<"VERIFY_FIX",  "CLOSED",      "approve">>,
  <<"VERIFY_FIX",  "IN_PROGRESS", "return">>}

\* patch is a status in a PATCH; only a start needs no comment, which a PATCH has none of.
Routes == {"verify", "start", "patch", "fix", "approve", "return", "close", "reject"}
RouteKeys(route) ==
  CASE route \in {"approve", "return"} -> {"approve", "return"}
    [] route = "patch" -> {"update"}
    [] OTHER -> {route}
CommentOf(route, to) ==
  CASE to = "VERIFIED" -> "VERIFICATION"
    [] route = "fix" -> "FIX_REPORT"
    [] route = "reject" -> "GENERAL"
    [] route \in {"verify", "approve", "return"} -> "REVIEW"
    [] OTHER -> "NONE"

Prs == {"classic", "fleet"}
PrStates == {"none", "open", "closed", "merged"}

IdleCall == [at |-> "idle", route |-> "start", who |-> NoOne, seen |-> "CREATED",
             to |-> "CREATED", mode |-> "none", by |-> NoOne]
IdleObserver == [at |-> "idle", pr |-> "classic", next |-> "open", live |-> FALSE]

Drops(c) == call' = [call EXCEPT ![c] = IdleCall]
Step(c, at) == call' = [call EXCEPT ![c].at = at]

-----------------------------------------------------------------------------
\* The activity a self-fix is looked up in: the latest STATUS_CHANGE to VERIFY_FIX.
FixRows == {i \in DOMAIN trail : trail[i].action = "STATUS_CHANGE" /\ trail[i].to = "VERIFY_FIX"}
FixActor ==
  IF FixRows = {} THEN NoOne
  ELSE trail[CHOOSE i \in FixRows : \A j \in FixRows : j <= i].actor

Closes(route) == route \in {"verify", "approve", "close"}
Floor(p, route) ==
  IF Closes(route) /\ ticket.status = "VERIFY_FIX" /\ FixActor = p THEN "agent" ELSE "none"

\* A route: its guard, the floor, the gate.  A user meets every mode; an agent's
\* call waits for an approval, whatever it then finds.
Ask(c, p, route, policy) ==
  LET mode == Stricter(policy, Floor(p, route)) IN
  /\ call[c].at = "idle" /\ ~ticket.deleted /\ Len(trail) < MaxMoves
  /\ RouteKeys(route) \cap KeysOf[p] # {}
  /\ call' = [call EXCEPT ![c] =
       [IdleCall EXCEPT !.at = IF mode = "none" \/ p \in Users THEN "called" ELSE "waiting",
                        !.route = route, !.who = p, !.mode = mode,
                        !.by = IF mode # "none" /\ p \in Users THEN p ELSE NoOne]]
  /\ UNCHANGED <<ticket, trail, opener, job, prs, observer>>

\* Somebody of the tier asked for releases the call, or it is over.
Release(c, p) ==
  /\ call[c].at = "waiting"
  /\ call[c].mode # "self" => p # call[c].who
  /\ call[c].mode = "human" => p \in Users
  /\ call' = [call EXCEPT ![c].at = "called", ![c].by = p]
  /\ UNCHANGED <<ticket, trail, opener, job, prs, observer>>

Refuse(c) ==
  /\ call[c].at = "waiting"
  /\ Drops(c)
  /\ UNCHANGED <<ticket, trail, opener, job, prs, observer>>

-----------------------------------------------------------------------------
\* verify and verifyFix read the status once to know where to go, the transition
\* reads it again.
AimsFirst(route) == route \in {"verify", "approve", "return"}
Target(route, status) ==
  CASE route = "verify" -> IF status = "VERIFY_FIX" THEN "CLOSED" ELSE "VERIFIED"
    [] route = "fix" -> "VERIFY_FIX"
    [] route \in {"approve", "close"} -> "CLOSED"
    [] route = "reject" -> "REJECTED"
    [] OTHER -> "IN_PROGRESS"

Aim(c) ==
  LET route == call[c].route IN
  /\ call[c].at = "called" /\ AimsFirst(route)
  /\ IF route # "verify" /\ (ticket.deleted \/ ticket.status # "VERIFY_FIX") THEN Drops(c)
     ELSE call' = [call EXCEPT ![c].at = "aimed", ![c].to = Target(route, ticket.status)]
  /\ UNCHANGED <<ticket, trail, opener, job, prs, observer>>

Goal(c) == IF AimsFirst(call[c].route) THEN call[c].to ELSE Target(call[c].route, ticket.status)

\* close has no edge, and a dispatch was allowed as such.
MayTake(p, route, from, to) ==
  \/ route \in {"close", "dispatch"}
  \/ \A e \in Edges : e[1] = from /\ e[2] = to => e[3] \in KeysOf[p]

Valid(route, from, to) ==
  IF route = "close" THEN from \notin {"CLOSED", "CREATED", "REJECTED"}
  ELSE \E rule \in Rules : rule[1] = from /\ rule[2] = to /\ rule[3] \in {"NONE", CommentOf(route, to)}

Check(c) ==
  LET k == call[c]  from == ticket.status IN
  /\ k.at = IF AimsFirst(k.route) THEN "aimed" ELSE "called"
  /\ IF ~ticket.deleted /\ MayTake(k.who, k.route, from, Goal(c)) /\ Valid(k.route, from, Goal(c))
     THEN call' = [call EXCEPT ![c].at = "moving", ![c].seen = from, ![c].to = Goal(c)]
     ELSE Drops(c)
  /\ UNCHANGED <<ticket, trail, opener, job, prs, observer>>

\* mutant: a deleted ticket is still there.
StillKept(from) == ticket.status = from

\* mutant: the status read before is trusted.
StillThere(from) == ~ticket.deleted

\* updateTicketStatusIf.
Still(from) == ticket.status = from /\ ~ticket.deleted

\* mutant: the floor looked up before the gate is the only one.
SelfFixByFloor(k) == FALSE

\* assertSelfFixApproval, under the row's lock.
SelfFix(k) ==
  /\ k.seen = "VERIFY_FIX" /\ k.to = "CLOSED"
  /\ FixActor = k.who /\ Rank[k.mode] < Rank.agent

Records(action, k) ==
  trail' = Append(trail, [action |-> action, from |-> k.seen, to |-> k.to, actor |-> k.who,
                          route |-> k.route, mode |-> k.mode, by |-> k.by])

\* mutant: a start opens the PR.
OpensOnStart(k) == IF k.to = "IN_PROGRESS" THEN "due" ELSE opener

Opens(k) == IF k.to = "VERIFIED" THEN "due" ELSE opener

\* The transaction: status, comment and activity together, or nothing.
Move(c) ==
  LET k == call[c] IN
  /\ k.at = "moving"
  /\ Len(trail) < MaxMoves
  /\ IF Still(k.seen) /\ ~SelfFix(k)
     THEN /\ ticket' = [ticket EXCEPT !.status = k.to]
          /\ Records("STATUS_CHANGE", k)
          /\ opener' = Opens(k)
     ELSE UNCHANGED <<ticket, trail, opener>>
  /\ Drops(c)
  /\ UNCHANGED <<job, prs, observer>>

Delete(p) ==
  /\ ~ticket.deleted /\ "delete" \in KeysOf[p]
  /\ ticket' = [ticket EXCEPT !.deleted = TRUE]
  /\ UNCHANGED <<trail, work, job, prs, observer>>

-----------------------------------------------------------------------------
\* A RUN dispatch links the ticket, then starts it by its status of before.
Dispatch(c, p) ==
  /\ call[c].at = "idle" /\ Len(trail) < MaxMoves
  /\ job = "none" /\ "dispatch" \in KeysOf[p]
  /\ ~ticket.deleted /\ ticket.status \notin {"CLOSED", "REJECTED"}
  /\ job' = "active"
  /\ IF ticket.status \in {"CREATED", "VERIFIED"}
     THEN call' = [call EXCEPT ![c] = [IdleCall EXCEPT !.at = "called", !.route = "dispatch", !.who = p]]
     ELSE UNCHANGED call
  /\ UNCHANGED <<ticket, trail, opener, prs, observer>>

Links(p) ==
  /\ Cardinality({q \in Prs : link[q] # "none"}) < MaxLinks
  /\ link' = [link EXCEPT ![p] = "open"]

\* The job ends, perhaps with a PR, which the ticket is then linked to.
JobEnds ==
  /\ job = "active" /\ job' = "over"
  /\ UNCHANGED link \/ Links("fleet")
  /\ UNCHANGED <<ticket, trail, work, merged, announced, observer>>

\* createPrForTicket, after the commit: first whether there is a PR already.
CheckPr ==
  /\ opener = "due"
  /\ opener' = IF job = "active" \/ \E p \in Prs : link[p] # "none" THEN "idle" ELSE "opening"
  /\ UNCHANGED <<ticket, trail, call, job, prs, observer>>

\* Then the PR, its link and its activity row; each may fail, and a PR without a
\* link is nobody's.  Whether the ticket was deleted meanwhile is not looked at.
OpenPr ==
  /\ opener = "opening" /\ opener' = "idle"
  /\ \/ UNCHANGED <<link, announced>>
     \/ Links("classic") /\ announced' \in {announced, TRUE}
  /\ UNCHANGED <<ticket, trail, call, job, merged, observer>>

-----------------------------------------------------------------------------
\* At the provider.  A PR that is not merged may be closed and reopened at any time.
Merge(p) ==
  /\ link[p] # "none" /\ p \notin merged
  /\ merged' = merged \cup {p}
  /\ UNCHANGED <<ticket, trail, work, job, link, announced, observer>>

\* What an observer may hear of a PR: a poll what is so, a webhook what ever was.
Heard(o, p) ==
  (IF p \in merged THEN {"merged"} ELSE {}) \cup
  (IF p \in merged /\ o # "hook" THEN {} ELSE {"open", "closed"})
Looks(o, p) ==
  IF o = "hook" THEN link[p] # "none"
  ELSE link[p] = "open" /\ ~ticket.deleted /\ (o = "refresh" => p = "fleet")

\* The link is read with the status of its ticket, then the PR.
Hear(o, p, next) ==
  /\ observer[o].at = "idle" /\ Looks(o, p) /\ Len(trail) < MaxMoves
  /\ next \in Heard(o, p) /\ next # link[p]
  /\ observer' = [observer EXCEPT ![o] =
       [at |-> "heard", pr |-> p, next |-> next, live |-> ticket.status = "IN_PROGRESS"]]
  /\ UNCHANGED <<ticket, trail, work, job, prs>>

Rests(o) == observer' = [observer EXCEPT ![o] = IdleObserver]

\* mutant: a merge recorded already is recorded again.
WritesAgain(o) == o = "poll" => link[observer[o].pr] = "open"

\* updateTicketLinkWithPrState: merged is for good, and a poll, which reads open
\* links, expects the state it read.
Writes(o) ==
  /\ link[observer[o].pr] # "merged"
  /\ o = "poll" => link[observer[o].pr] = "open"

Write(o) ==
  LET seen == observer[o] IN
  /\ seen.at = "heard"
  /\ IF Writes(o)
     THEN /\ link' = [link EXCEPT ![seen.pr] = seen.next]
          /\ IF seen.next = "merged" /\ seen.live
             THEN observer' = [observer EXCEPT ![o].at = "moving"]
             ELSE Rests(o)
     ELSE Rests(o) /\ UNCHANGED link
  /\ UNCHANGED <<ticket, trail, work, job, merged, announced>>

\* applyMergedPrTransition; its failure is logged, the state of the link stays.
MergeMoves(o) ==
  /\ observer[o].at = "moving" /\ Len(trail) < MaxMoves
  /\ \/ UNCHANGED <<ticket, trail>>
     \/ /\ Still("IN_PROGRESS")
        /\ ticket' = [ticket EXCEPT !.status = "VERIFY_FIX"]
        /\ Records("VCS_PR_MERGED", [IdleCall EXCEPT !.seen = "IN_PROGRESS", !.to = "VERIFY_FIX",
                                                     !.route = observer[o].pr])
  /\ Rests(o)
  /\ UNCHANGED <<work, job, prs>>

-----------------------------------------------------------------------------
TicketInit ==
  /\ ticket = [status |-> "CREATED", deleted |-> FALSE]
  /\ trail = <<>>
  /\ call = [c \in Calls |-> IdleCall]
  /\ opener = "idle" /\ job = "none"
  /\ link = [p \in Prs |-> "none"] /\ merged = {}
  /\ announced = FALSE
  /\ observer = [o \in Observers |-> IdleObserver]

CallNext(c) ==
  \/ \E p \in Principals, route \in Routes, policy \in PolicyModes : Ask(c, p, route, policy)
  \/ \E p \in Principals : Release(c, p) \/ Dispatch(c, p)
  \/ Refuse(c) \/ Aim(c) \/ Check(c) \/ Move(c)
ObserverNext(o) ==
  \/ \E p \in Prs, next \in PrStates : Hear(o, p, next)
  \/ Write(o) \/ MergeMoves(o)

TicketNext ==
  \/ \E c \in Calls : CallNext(c)
  \/ \E o \in Observers : ObserverNext(o)
  \/ \E p \in Principals : Delete(p)
  \/ \E p \in Prs : Merge(p)
  \/ JobEnds \/ CheckPr \/ OpenPr

TicketSpec == TicketInit /\ [][TicketNext]_ticketVars

-----------------------------------------------------------------------------
Row == [action: {"STATUS_CHANGE", "VCS_PR_MERGED"}, from: Statuses, to: Statuses,
        actor: Principals \cup {NoOne}, route: Routes \cup {"dispatch"} \cup Prs, mode: Modes,
        by: Principals \cup {NoOne}]
Call == [at: {"idle", "waiting", "called", "aimed", "moving"}, route: Routes \cup {"dispatch"},
         who: Principals \cup {NoOne}, seen: Statuses, to: Statuses, mode: Modes,
         by: Principals \cup {NoOne}]
Observation == [at: {"idle", "heard", "moving"}, pr: Prs, next: PrStates, live: BOOLEAN]

TicketTypeOK ==
  /\ ticket \in [status: Statuses, deleted: BOOLEAN]
  /\ trail \in Seq(Row) /\ Len(trail) <= MaxMoves
  /\ call \in [Calls -> Call]
  /\ opener \in {"idle", "due", "opening"} /\ job \in {"none", "active", "over"}
  /\ opener # "idle" => \E i \in DOMAIN trail : trail[i].to = "VERIFIED"
  /\ link \in [Prs -> PrStates] /\ merged \subseteq Prs
  /\ announced \in BOOLEAN
  /\ observer \in [Observers -> Observation]

\* The activity rows are the ticket's path: each move starts where the one before
\* ended and the last ended where the ticket is, whoever raced whom on a status
\* read before the transaction (updateTicketStatusIf).
TrailIsPath ==
  LET ends == [i \in 0..Len(trail) |-> IF i = 0 THEN "CREATED" ELSE trail[i].to] IN
  /\ \A i \in DOMAIN trail : trail[i].from = ends[i - 1]
  /\ ticket.status = ends[Len(trail)]

\* Row i closes the fix that the row before submitted, by the same agent.
OwnFix(i) ==
  /\ i > 1 /\ trail[i].from = "VERIFY_FIX" /\ trail[i].to = "CLOSED"
  /\ trail[i].actor = trail[i - 1].actor /\ trail[i].actor \notin Users

\* An agent that submitted the fix a ticket is in VERIFY_FIX for closes it only
\* released by somebody else, though the fix may have been submitted after the
\* call was asked and aimed (assertSelfFixApproval).
SelfFixApproved ==
  \A i \in DOMAIN trail : OwnFix(i) => trail[i].by \notin {NoOne, trail[i].actor}

\* A caller moves a ticket only along an edge whose key it holds, whatever edge it
\* was on when the call was let in; but for the override and the dispatch
\* (assertEdgeAllowed).
MovesWereAllowed ==
  \A i \in DOMAIN trail :
    \/ trail[i].route \in Prs
    \/ trail[i].route \in {"close", "dispatch"} /\ trail[i].route \in KeysOf[trail[i].actor]
    \/ \E e \in Edges : e[1] = trail[i].from /\ e[2] = trail[i].to /\ e[3] \in KeysOf[trail[i].actor]

\* A PR moves its ticket once, whatever saw it merge and how often, and though the
\* ticket was returned in between (applyMergedPr).
OneMergeMove ==
  \A p \in Prs : Cardinality({i \in DOMAIN trail : trail[i].route = p}) <= 1

\* A deleted ticket is moved by nothing that read it before, a call, a dispatch or a
\* merge (updateTicketStatusIf).  All it may still get is the link and the row of a
\* PR that was due when it was deleted (createPrForTicket).
DeletedStaysPut ==
  [][ticket.deleted => trail' = trail /\ ticket'.status = ticket.status]_ticketVars

\* Of the code's own words: the snapshot is only a fast rejection, and the writer
\* that recorded the merge moves a ticket in progress (vcs-pr-sync.service.ts).
RecorderMoves ==
  [][\A p \in Prs :
       link[p] # "merged" /\ link'[p] = "merged" /\ Still("IN_PROGRESS") =>
         \E o \in Observers : observer'[o].at = "moving" /\ observer'[o].pr = p]_ticketVars
=============================================================================
