------------------------------ MODULE TicketProofs ------------------------------
(***************************************************************************)
(* Theorems about tickets, for any principals, keys, policies, calls,      *)
(* observers and bounds.  A row of the trail is written by one of two      *)
(* actions, so the proof says what a call has been through when it comes   *)
(* to write (CallsSound) and what a merge leaves behind (MergesOnce), and  *)
(* then reads the properties of the trail off the row it appends.          *)
(***************************************************************************)
EXTENDS Tickets, FiniteSetTheorems, TLAPS

\* What a call is about, and how it was let in: by an approval when one was asked
\* for, which an agent does not give itself.
Released(k) ==
  /\ k.who \in Principals
  /\ k.mode # "none" => k.by \in Principals
  /\ k.mode \in {"agent", "human"} /\ k.who \notin Users => k.by # k.who

\* A call that is about to write took an edge it may take.
Allowed(k) ==
  \/ k.route \in {"close", "dispatch"} /\ k.route \in KeysOf[k.who]
  \/ \E e \in Edges : e[1] = k.seen /\ e[2] = k.to /\ e[3] \in KeysOf[k.who]

\* The override and the dispatch were asked for with their keys.
Overrides(k) == k.route \in {"close", "dispatch"} => k.route \in KeysOf[k.who]

CallSound(k) ==
  /\ k.at # "idle" => k.who \in Principals /\ Overrides(k)
  /\ k.at = "waiting" => k.who \notin Users
  /\ k.at \in {"called", "aimed", "moving"} => Released(k)
  /\ k.at = "moving" => Allowed(k)
CallsSound == \A c \in Calls : CallSound(call[c])

\* A row of the trail was written by a call or by the merge of a PR, which has no actor.
RowSound(row) ==
  IF row.action = "STATUS_CHANGE" THEN row.route \notin Prs
  ELSE row.route \in Prs /\ row.actor = NoOne
RowsSound == \A i \in DOMAIN trail : RowSound(trail[i])

\* A PR is linked once, and observed only then.
LinkedOnce ==
  /\ link["fleet"] # "none" => job = "over"
  /\ opener = "opening" => link["classic"] = "none"
  /\ \A o \in Observers : /\ observer[o].at # "idle" => link[observer[o].pr] # "none"
                          /\ observer[o].next # "none"

\* A merge is recorded once, by one observer, which moves the ticket once.
Moving(o, p) == observer[o].at = "moving" /\ observer[o].pr = p
NoRow(p) == \A i \in DOMAIN trail : trail[i].route # p
MergesOnce ==
  \A p \in Prs :
    /\ \A i, j \in DOMAIN trail : trail[i].route = p /\ trail[j].route = p => i = j
    /\ \A o, q \in Observers : Moving(o, p) /\ Moving(q, p) => o = q
    /\ \A o \in Observers : Moving(o, p) => link[p] = "merged" /\ NoRow(p)
    /\ link[p] # "merged" => NoRow(p)

TrailInv == TrailIsPath /\ RowsSound /\ SelfFixApproved /\ MovesWereAllowed
TicketInv == TicketTypeOK /\ CallsSound /\ TrailInv /\ LinkedOnce /\ MergesOnce

-----------------------------------------------------------------------------
(* Calls *)

\* What a request in flight is at rest.
LEMMA IdleCallIsSound == IdleCall \in Call /\ CallSound(IdleCall)
BY DEF IdleCall, Call, CallSound, Overrides, Released, Allowed, Routes, Statuses, Modes

\* A step of one call, which writes nothing, preserves all.
LEMMA CallStep ==
  ASSUME TicketInv, NEW c \in Calls, NEW k \in Call, CallSound(k),
         call' = [call EXCEPT ![c] = k],
         UNCHANGED <<ticket, trail, opener, job, prs, observer>>
  PROVE  TicketInv'
<1>1. TicketTypeOK'
  BY DEF TicketInv, TicketTypeOK, prs
<1>2. CallsSound'
  BY DEF TicketInv, TicketTypeOK, CallsSound
<1>3. TrailInv'
  BY DEF TicketInv, TrailInv, TrailIsPath, RowsSound, SelfFixApproved, OwnFix, MovesWereAllowed
<1>4. LinkedOnce' /\ MergesOnce'
  BY DEF TicketInv, LinkedOnce, MergesOnce, Moving, NoRow, prs
<1> QED BY <1>1, <1>2, <1>3, <1>4 DEF TicketInv

\* Policies want one of the modes, and the stricter of two is one of them.
LEMMA StricterMode ==
  ASSUME NEW a \in Modes, NEW b \in Modes PROVE Stricter(a, b) \in Modes
BY DEF Stricter

\* A call is asked, and waits for a release if a policy wants one.
LEMMA AskPreserves ==
  ASSUME TicketInv, NEW c \in Calls, NEW p \in Principals, NEW route \in Routes,
         NEW policy \in PolicyModes, Ask(c, p, route, policy)
  PROVE  TicketInv'
<1> DEFINE mode == Stricter(policy, Floor(p, route))
           at == IF mode = "none" \/ p \in Users THEN "called" ELSE "waiting"
           by == IF mode # "none" /\ p \in Users THEN p ELSE NoOne
           k == [IdleCall EXCEPT !.at = at, !.route = route, !.who = p, !.mode = mode, !.by = by]
<1>1. mode \in Modes
  BY TicketPolicies, StricterMode DEF Floor, Modes
<1>2. call' = [call EXCEPT ![c] = k] /\ RouteKeys(route) \cap KeysOf[p] # {}
  BY DEF Ask
<1> HIDE DEF mode
<1>3. at \in {"called", "waiting"} /\ by \in Principals \cup {NoOne}
  OBVIOUS
<1>4. /\ at = "waiting" => p \notin Users
      /\ mode # "none" /\ at = "called" => by = p /\ p \in Users
  OBVIOUS
<1> HIDE DEF at, by
<1>5. k \in Call
  BY <1>1, <1>3, IdleCallIsSound DEF Call
<1>6. /\ k.at = at /\ k.route = route /\ k.who = p /\ k.mode = mode /\ k.by = by
  BY IdleCallIsSound DEF Call
<1> HIDE DEF k
<1>7. route \in {"close", "dispatch"} => route \in KeysOf[p]
  BY <1>2 DEF RouteKeys, Routes
<1>8. CallSound(k)
  BY <1>1, <1>3, <1>4, <1>6, <1>7 DEF CallSound, Overrides, Released, Modes
<1> QED BY <1>2, <1>5, <1>8, CallStep DEF Ask

\* An approver who is not the caller releases it.
LEMMA ReleasePreserves ==
  ASSUME TicketInv, NEW c \in Calls, NEW p \in Principals, Release(c, p)
  PROVE  TicketInv'
<1> DEFINE k == [call[c] EXCEPT !.at = "called", !.by = p]
<1>1. call[c] \in Call /\ CallSound(call[c])
  BY DEF TicketInv, TicketTypeOK, CallsSound
<1>2. k \in Call
  BY <1>1 DEF Call
<1>3. CallSound(k)
  BY <1>1, TicketPrincipals DEF Release, CallSound, Overrides, Released, Call, Modes
<1>4. call' = [call EXCEPT ![c] = k]
  BY DEF Release, TicketInv, TicketTypeOK
<1> QED BY <1>2, <1>3, <1>4, CallStep DEF Release

\* A call that is refused or over rests.
LEMMA DropPreserves ==
  ASSUME TicketInv, NEW c \in Calls, Drops(c),
         UNCHANGED <<ticket, trail, opener, job, prs, observer>>
  PROVE  TicketInv'
BY CallStep, IdleCallIsSound DEF Drops

\* What a call asks for is a status.
LEMMA TargetIsStatus ==
  ASSUME NEW route, NEW status PROVE Target(route, status) \in Statuses
BY DEF Target, Statuses

\* A released call looks where it would go.
LEMMA AimPreserves ==
  ASSUME TicketInv, NEW c \in Calls, Aim(c)
  PROVE  TicketInv'
<1> DEFINE k == [call[c] EXCEPT !.at = "aimed", !.to = Target(call[c].route, ticket.status)]
<1>1. call[c] \in Call /\ CallSound(call[c])
  BY DEF TicketInv, TicketTypeOK, CallsSound
<1>2. CASE Drops(c)
  BY <1>2, DropPreserves DEF Aim
<1>3. CASE call' = [call EXCEPT ![c] = k]
  <2>1. k \in Call
    BY <1>1, TargetIsStatus DEF Call
  <2>2. CallSound(k)
    BY <1>1 DEF Aim, CallSound, Overrides, Released, Call
  <2> QED BY <2>1, <2>2, <1>3, CallStep DEF Aim
<1>4. Drops(c) \/ call' = [call EXCEPT ![c] = k]
  BY DEF Aim, TicketInv, TicketTypeOK
<1> QED BY <1>2, <1>3, <1>4

\* A valid move is along an edge.
LEMMA ValidIsEdge ==
  ASSUME NEW route, route # "close", NEW from, NEW to, Valid(route, from, to)
  PROVE  \E e \in Edges : e[1] = from /\ e[2] = to
BY DEF Valid, Rules, Edges

\* A checked call took an edge of the table that its caller may take.
LEMMA CheckPreserves ==
  ASSUME TicketInv, NEW c \in Calls, Check(c)
  PROVE  TicketInv'
<1> DEFINE k == [call[c] EXCEPT !.at = "moving", !.seen = ticket.status, !.to = Goal(c)]
<1>1. call[c] \in Call /\ CallSound(call[c]) /\ ticket.status \in Statuses
  BY DEF TicketInv, TicketTypeOK, CallsSound
<1>2. CASE Drops(c)
  BY <1>2, DropPreserves DEF Check
<1>3. CASE /\ call' = [call EXCEPT ![c] = k]
           /\ MayTake(call[c].who, call[c].route, ticket.status, Goal(c))
           /\ Valid(call[c].route, ticket.status, Goal(c))
  <2>1. Goal(c) \in Statuses
    BY <1>1, TargetIsStatus DEF Goal, Call
  <2>2. k \in Call
    BY <1>1, <2>1 DEF Call
  <2>3. call[c].at \in {"called", "aimed"}
    BY DEF Check
  <2>4. k.who = call[c].who /\ k.route = call[c].route /\ k.mode = call[c].mode
        /\ k.by = call[c].by /\ k.at = "moving" /\ k.seen = ticket.status /\ k.to = Goal(c)
    BY <1>1 DEF Call
  <2>5. Released(k) /\ Overrides(k)
    BY <1>1, <2>3, <2>4 DEF CallSound, Released, Overrides
  <2>6. Allowed(k)
    <3>1. CASE k.route \in {"close", "dispatch"}
      BY <3>1, <2>5 DEF Allowed, Overrides
    <3>2. CASE k.route \notin {"close", "dispatch"}
      BY <3>2, <1>3, <2>4, ValidIsEdge DEF MayTake, Allowed
    <3> QED BY <3>1, <3>2
  <2>7. CallSound(k)
    BY <2>4, <2>5, <2>6 DEF CallSound, Released
  <2> QED BY <1>3, <2>2, <2>7, CallStep DEF Check
<1>4. \/ Drops(c)
      \/ /\ call' = [call EXCEPT ![c] = k]
         /\ MayTake(call[c].who, call[c].route, ticket.status, Goal(c))
         /\ Valid(call[c].route, ticket.status, Goal(c))
  BY DEF Check, TicketInv, TicketTypeOK
<1> QED BY <1>2, <1>3, <1>4

\* A dispatch starts the ticket as a call that was let in.
LEMMA DispatchPreserves ==
  ASSUME TicketInv, NEW c \in Calls, NEW p \in Principals, Dispatch(c, p)
  PROVE  TicketInv'
<1> DEFINE k == [IdleCall EXCEPT !.at = "called", !.route = "dispatch", !.who = p]
<1>1. k.at = "called" /\ k.route = "dispatch" /\ k.who = p /\ k.mode = "none"
  BY IdleCallIsSound DEF Call, IdleCall
<1>2. k \in Call
  BY IdleCallIsSound DEF Call
<1>3. CallSound(k)
  BY <1>1 DEF Dispatch, CallSound, Overrides, Released
<1> HIDE DEF k
<1>4. UNCHANGED call \/ call' = [call EXCEPT ![c] = k]
  BY DEF Dispatch, k
<1>5. TicketTypeOK'
  BY <1>2, <1>4 DEF TicketInv, TicketTypeOK, Dispatch, prs
<1>6. CallsSound'
  BY <1>3, <1>4 DEF TicketInv, TicketTypeOK, CallsSound, CallSound, Overrides, Released, Allowed
<1>7. UNCHANGED <<ticket, trail>>
  BY DEF Dispatch
<1>8. TrailInv'
  BY <1>7 DEF TicketInv, TrailInv, TrailIsPath, RowsSound, SelfFixApproved, OwnFix, MovesWereAllowed
<1>9. LinkedOnce' /\ MergesOnce'
  BY DEF TicketInv, LinkedOnce, MergesOnce, Moving, NoRow, prs, Dispatch
<1> QED BY <1>5, <1>6, <1>8, <1>9 DEF TicketInv

-----------------------------------------------------------------------------
(* Moves *)

\* Row i of a trail is the row appended, or a row that was there.
LEMMA Appended ==
  ASSUME trail \in Seq(Row), NEW row \in Row, trail' = Append(trail, row)
  PROVE  /\ trail' \in Seq(Row) /\ Len(trail') = Len(trail) + 1
         /\ DOMAIN trail' = 1..(Len(trail) + 1) /\ DOMAIN trail = 1..Len(trail)
         /\ Len(trail) \in Nat
         /\ trail'[Len(trail) + 1] = row
         /\ \A i \in 1..Len(trail) : trail'[i] = trail[i]
OBVIOUS

\* What is asked of a row that moves the ticket.
LEMMA RowPreserves ==
  ASSUME TicketInv, NEW row \in Row, trail' = Append(trail, row),
         ticket' = [ticket EXCEPT !.status = row.to], ticket.status = row.from,
         RowSound(row),
         \/ row.route \in Prs
         \/ row.route \in {"close", "dispatch"} /\ row.route \in KeysOf[row.actor]
         \/ \E e \in Edges : e[1] = row.from /\ e[2] = row.to /\ e[3] \in KeysOf[row.actor],
         trail # <<>> /\ row.from = "VERIFY_FIX" /\ row.to = "CLOSED" /\ row.actor \notin Users
           /\ trail[Len(trail)].actor = row.actor => row.by \notin {NoOne, row.actor}
  PROVE  TrailInv'
<1> DEFINE n == Len(trail)
<1>1. /\ trail \in Seq(Row) /\ ticket \in [status: Statuses, deleted: BOOLEAN]
      /\ RowsSound /\ TrailIsPath /\ SelfFixApproved /\ MovesWereAllowed
  BY DEF TicketInv, TicketTypeOK, TrailInv
<1>2. /\ Len(trail') = n + 1 /\ DOMAIN trail' = 1..(n + 1) /\ DOMAIN trail = 1..n /\ n \in Nat
      /\ trail'[n + 1] = row /\ \A i \in 1..n : trail'[i] = trail[i]
  BY <1>1, Appended
<1>3. ticket'.status = row.to
  BY <1>1
<1> HIDE DEF n
<1>4. RowsSound'
  BY <1>1, <1>2 DEF RowsSound, RowSound
<1>5. MovesWereAllowed'
  BY <1>1, <1>2 DEF MovesWereAllowed
<1>6. TrailIsPath'
  <2> DEFINE f == [i \in 0..n |-> IF i = 0 THEN "CREATED" ELSE trail[i].to]
             g == [i \in 0..(n + 1) |-> IF i = 0 THEN "CREATED" ELSE trail'[i].to]
  <2>1. (\A i \in 1..n : trail[i].from = f[i - 1]) /\ ticket.status = f[n]
    BY <1>1, <1>2 DEF TrailIsPath, n
  <2>2. \A i \in 0..n : f[i] = g[i]
    BY <1>2
  <2>3. g[n + 1] = row.to
    BY <1>2
  <2> HIDE DEF f, g
  <2>5. \A i \in 1..(n + 1) : trail'[i].from = g[i - 1]
    <3> TAKE i \in 1..(n + 1)
    <3>1. CASE i \in 1..n
      <4>1. i - 1 \in 0..n
        BY <3>1, <1>2
      <4>2. trail'[i].from = trail[i].from /\ trail[i].from = f[i - 1]
        BY <3>1, <2>1, <1>2
      <4>3. f[i - 1] = g[i - 1]
        BY <4>1, <2>2
      <4> QED BY <4>2, <4>3
    <3>2. CASE i = n + 1
      <4>1. i - 1 = n /\ n \in 0..n /\ trail'[i].from = row.from
        BY <3>2, <1>2
      <4>2. g[n] = ticket.status
        BY <4>1, <2>1, <2>2
      <4> QED BY <4>1, <4>2
    <3> QED BY <3>1, <3>2, <1>2
  <2> QED BY <2>3, <2>5, <1>2, <1>3 DEF TrailIsPath, g
<1>7. SelfFixApproved'
  <2> SUFFICES ASSUME NEW i \in 1..(n + 1), OwnFix(i)'
               PROVE  trail'[i].by \notin {NoOne, trail'[i].actor}
    BY <1>2 DEF SelfFixApproved
  <2>1. CASE i \in 1..n
    <3>1. OwnFix(i)
      BY <2>1, <1>2 DEF OwnFix
    <3> QED BY <3>1, <2>1, <1>1, <1>2 DEF SelfFixApproved
  <2>2. CASE i = n + 1
    <3>1. /\ n + 1 > 1 /\ row.from = "VERIFY_FIX" /\ row.to = "CLOSED"
          /\ row.actor = trail'[n].actor /\ row.actor \notin Users
      BY <2>2, <1>2 DEF OwnFix
    <3>2. n \in 1..n
      BY <3>1, <1>2
    <3>3. trail # <<>> /\ trail'[n] = trail[Len(trail)]
      BY <3>2, <1>1, <1>2 DEF n
    <3> QED BY <3>1, <3>3, <2>2, <1>2
  <2> QED BY <2>1, <2>2, <1>2
<1> QED BY <1>4, <1>5, <1>6, <1>7 DEF TrailInv

\* The last row is the latest to submit a fix when the ticket waits for its check.
LEMMA LastFix ==
  ASSUME trail \in Seq(Row), trail # <<>>, trail[Len(trail)].action = "STATUS_CHANGE",
         trail[Len(trail)].to = "VERIFY_FIX"
  PROVE  FixActor = trail[Len(trail)].actor
<1> DEFINE n == Len(trail)
<1>1. n \in Nat \ {0} /\ DOMAIN trail = 1..n
  OBVIOUS
<1>2. n \in FixRows /\ \A j \in FixRows : j \in Nat /\ j <= n
  BY <1>1 DEF FixRows
<1> DEFINE last(i) == \A j \in FixRows : j <= i
<1>3. last(n)
  BY <1>2
<1>4. (CHOOSE i \in FixRows : last(i)) \in FixRows /\ last(CHOOSE i \in FixRows : last(i))
  BY <1>2, <1>3
<1>5. (CHOOSE i \in FixRows : last(i)) = n
  BY <1>1, <1>2, <1>4
<1> QED BY <1>2, <1>5 DEF FixActor

\* A call that writes appends one row, from the status it read.
LEMMA MovePreserves ==
  ASSUME TicketInv, NEW c \in Calls, Move(c)
  PROVE  TicketInv'
<1> DEFINE k == call[c]
           row == [action |-> "STATUS_CHANGE", from |-> k.seen, to |-> k.to, actor |-> k.who,
                   route |-> k.route, mode |-> k.mode, by |-> k.by]
<1>1. /\ k \in Call /\ CallSound(k) /\ k.at = "moving" /\ IdleCall \in Call /\ CallSound(IdleCall)
      /\ Len(trail) < MaxMoves /\ call' = [call EXCEPT ![c] = IdleCall]
      /\ UNCHANGED <<job, prs, observer>>
  BY IdleCallIsSound DEF TicketInv, TicketTypeOK, CallsSound, Move, Drops
<1>2. CASE UNCHANGED <<ticket, trail, opener>>
  BY <1>1, <1>2, CallStep
<1>3. CASE /\ Still(k.seen) /\ ~SelfFix(k)
           /\ ticket' = [ticket EXCEPT !.status = k.to]
           /\ trail' = Append(trail, row)
           /\ opener' = Opens(k)
  <2>1. row \in Row /\ row.route \notin Prs /\ k.who \in Principals
    BY <1>1 DEF Call, Row, CallSound, Prs, Routes
  <2>2. /\ trail' \in Seq(Row) /\ Len(trail') = Len(trail) + 1 /\ Len(trail) \in Nat
        /\ DOMAIN trail' = 1..(Len(trail) + 1) /\ DOMAIN trail = 1..Len(trail)
        /\ trail'[Len(trail) + 1] = row /\ \A i \in 1..Len(trail) : trail'[i] = trail[i]
    BY <2>1, <1>3, Appended DEF TicketInv, TicketTypeOK
  <2>3. TicketTypeOK'
    <3>1. ticket' \in [status: Statuses, deleted: BOOLEAN] /\ Len(trail') <= MaxMoves
      BY <2>2, <1>1, <1>3, TicketBounds DEF TicketInv, TicketTypeOK, Call
    <3>2. call' \in [Calls -> Call]
      BY <1>1 DEF TicketInv, TicketTypeOK
    <3>3. /\ opener' \in {"idle", "due", "opening"}
          /\ opener' # "idle" => \E i \in DOMAIN trail' : trail'[i].to = "VERIFIED"
      <4>1. CASE k.to = "VERIFIED"
        BY <4>1, <2>2, <1>3 DEF Opens
      <4>2. CASE k.to # "VERIFIED"
        <5>1. opener' = opener
          BY <4>2, <1>3 DEF Opens
        <5> QED BY <5>1, <2>2 DEF TicketInv, TicketTypeOK
      <4> QED BY <4>1, <4>2
    <3> QED BY <2>2, <3>1, <3>2, <3>3, <1>1 DEF TicketInv, TicketTypeOK, prs
  <2>4. CallsSound'
    BY <1>1 DEF TicketInv, TicketTypeOK, CallsSound
  <2>5. TrailInv'
    <3>1. ticket.status = row.from /\ RowSound(row)
      BY <1>3, <2>1 DEF Still, RowSound
    <3>2. \/ row.route \in {"close", "dispatch"} /\ row.route \in KeysOf[row.actor]
          \/ \E e \in Edges : e[1] = row.from /\ e[2] = row.to /\ e[3] \in KeysOf[row.actor]
      BY <1>1 DEF CallSound, Allowed
    <3>3. ASSUME trail # <<>>, row.from = "VERIFY_FIX", row.to = "CLOSED",
                 row.actor \notin Users, trail[Len(trail)].actor = row.actor
          PROVE  row.by \notin {NoOne, row.actor}
      <4> DEFINE n == Len(trail)
      <4>1. n \in 1..Len(trail) /\ trail \in Seq(Row)
        BY <2>2, <3>3 DEF TicketInv, TicketTypeOK
      <4>2. trail[n].to = "VERIFY_FIX" /\ RowSound(trail[n])
        BY <4>1, <2>2, <3>1, <3>3 DEF TicketInv, TrailInv, TrailIsPath, RowsSound
      <4>3. trail[n].action = "STATUS_CHANGE"
        BY <4>2, <3>3, <2>1, TicketPrincipals DEF RowSound
      <4>4. FixActor = k.who
        BY <4>1, <4>2, <4>3, <3>3, LastFix
      <4>5. k.mode \in {"agent", "human"}
        BY <4>4, <3>3, <1>1, <1>3 DEF SelfFix, Rank, Call, Modes
      <4> QED BY <4>5, <3>3, <1>1, <2>1, TicketPrincipals DEF CallSound, Released
    <3> QED BY <3>1, <3>2, <3>3, <2>1, <1>3, RowPreserves
  <2>6. LinkedOnce' /\ MergesOnce'
    <3>1. LinkedOnce'
      <4>1. opener' = "opening" => opener = "opening"
        BY <1>3 DEF Opens
      <4> QED BY <4>1, <1>1 DEF TicketInv, LinkedOnce, prs
    <3>2. \A p \in Prs : /\ NoRow(p) => NoRow(p)'
                         /\ \A i \in DOMAIN trail' : trail'[i].route = p =>
                              i \in DOMAIN trail /\ trail[i].route = p
      BY <2>1, <2>2 DEF NoRow
    <3> QED BY <3>1, <3>2, <1>1 DEF TicketInv, MergesOnce, Moving, prs
  <2> QED BY <2>3, <2>4, <2>5, <2>6 DEF TicketInv
<1> QED BY <1>2, <1>3 DEF Move, Records

\* The one observer that moves the ticket for a PR rests after it.
LEMMA MergeMovesPreserves ==
  ASSUME TicketInv, NEW o \in Observers, MergeMoves(o)
  PROVE  TicketInv'
<1> DEFINE pr == observer[o].pr
           idle == [IdleCall EXCEPT !.seen = "IN_PROGRESS", !.to = "VERIFY_FIX", !.route = pr]
           row == [action |-> "VCS_PR_MERGED", from |-> idle.seen, to |-> idle.to,
                   actor |-> idle.who, route |-> idle.route, mode |-> idle.mode, by |-> idle.by]
<1>1. /\ observer \in [Observers -> Observation] /\ pr \in Prs /\ link[pr] = "merged"
      /\ observer[o].at = "moving" /\ IdleObserver \in Observation /\ IdleObserver.at = "idle"
      /\ IdleObserver.next # "none"
  BY DEF TicketInv, TicketTypeOK, Observation, IdleObserver, Prs, PrStates, MergeMoves,
         MergesOnce, Moving
<1>2. /\ observer' = [observer EXCEPT ![o] = IdleObserver]
      /\ UNCHANGED <<call, opener, job, link, merged, announced>>
  BY DEF MergeMoves, Rests, work, prs
<1>3. LinkedOnce'
  BY <1>1, <1>2 DEF TicketInv, LinkedOnce
<1>4. CallsSound'
  BY <1>2 DEF TicketInv, CallsSound
<1>5. /\ \A q \in Observers, p \in Prs : Moving(q, p)' => q # o /\ Moving(q, p)
      /\ \A p \in Prs : link'[p] = link[p]
  BY <1>1, <1>2 DEF Moving
<1>6. CASE UNCHANGED <<ticket, trail>>
  <2>1. TicketTypeOK'
    BY <1>1, <1>2, <1>6 DEF TicketInv, TicketTypeOK
  <2>2. TrailInv'
    BY <1>6 DEF TicketInv, TrailInv, TrailIsPath, RowsSound, SelfFixApproved, OwnFix, MovesWereAllowed
  <2>3. MergesOnce'
    BY <1>5, <1>6 DEF TicketInv, MergesOnce, NoRow
  <2> QED BY <2>1, <2>2, <2>3, <1>3, <1>4 DEF TicketInv
<1>7. CASE /\ Still("IN_PROGRESS")
           /\ ticket' = [ticket EXCEPT !.status = "VERIFY_FIX"]
           /\ trail' = Append(trail, row)
  <2>1. /\ idle.seen = "IN_PROGRESS" /\ idle.to = "VERIFY_FIX" /\ idle.route = pr
        /\ idle.who = NoOne /\ idle.mode = "none" /\ idle.by = NoOne
    BY DEF IdleCall
  <2> HIDE DEF idle
  <2>2. row \in Row /\ row.from = "IN_PROGRESS" /\ row.to = "VERIFY_FIX" /\ row.route = pr
        /\ row.actor = NoOne /\ row.action = "VCS_PR_MERGED"
    BY <2>1, <1>1 DEF Row, Statuses, Modes, Prs
  <2> HIDE DEF row
  <2>3. /\ trail' \in Seq(Row) /\ Len(trail') = Len(trail) + 1 /\ Len(trail) \in Nat
        /\ DOMAIN trail' = 1..(Len(trail) + 1) /\ DOMAIN trail = 1..Len(trail)
        /\ trail'[Len(trail) + 1] = row /\ \A i \in 1..Len(trail) : trail'[i] = trail[i]
    BY <2>2, <1>7, Appended DEF TicketInv, TicketTypeOK
  <2>4. TicketTypeOK'
    <3>1. ticket' \in [status: Statuses, deleted: BOOLEAN]
      <4>1. ticket \in [status: Statuses, deleted: BOOLEAN] /\ "VERIFY_FIX" \in Statuses
        BY DEF TicketInv, TicketTypeOK, Statuses
      <4> QED BY <4>1, <1>7
    <3>2. Len(trail') <= MaxMoves
      BY <2>3, TicketBounds DEF MergeMoves
    <3>3. observer' \in [Observers -> Observation]
      BY <1>1, <1>2
    <3>4. opener' # "idle" => \E i \in DOMAIN trail' : trail'[i].to = "VERIFIED"
      BY <1>2, <2>3 DEF TicketInv, TicketTypeOK
    <3> QED BY <2>3, <3>1, <3>2, <3>3, <3>4, <1>2 DEF TicketInv, TicketTypeOK
  <2>5. TrailInv'
    <3>1. RowSound(row) /\ ticket.status = row.from /\ ticket' = [ticket EXCEPT !.status = row.to]
      BY <2>2, <1>1, <1>7 DEF RowSound, Still
    <3> QED BY <3>1, <2>2, <1>1, <1>7, RowPreserves
  <2>6. MergesOnce'
    <3>1. NoRow(pr) /\ MergesOnce /\ Moving(o, pr)
      BY <1>1 DEF TicketInv, MergesOnce, Moving
    <3>2. ASSUME NEW p \in Prs, p # pr, NoRow(p) PROVE NoRow(p)'
      BY <3>2, <2>2, <2>3 DEF NoRow
    <3>3. ASSUME NEW p \in Prs, NEW i \in DOMAIN trail', NEW j \in DOMAIN trail',
                 trail'[i].route = p, trail'[j].route = p
          PROVE  i = j
      <4>1. CASE p = pr
        BY <4>1, <3>1, <3>3, <2>2, <2>3 DEF NoRow
      <4>2. CASE p # pr
        <5>1. i \in 1..Len(trail) /\ j \in 1..Len(trail)
          BY <4>2, <3>3, <2>2, <2>3
        <5> QED BY <5>1, <3>1, <3>3, <2>3 DEF MergesOnce
      <4> QED BY <4>1, <4>2
    <3>4. \A p \in Prs : \A q \in Observers : Moving(q, p)' => p # pr
      BY <1>5, <3>1 DEF MergesOnce
    <3> QED BY <3>1, <3>2, <3>3, <3>4, <1>1, <1>5 DEF MergesOnce
  <2> QED BY <2>4, <2>5, <2>6, <1>3, <1>4 DEF TicketInv
<1> QED BY <1>6, <1>7 DEF MergeMoves, Records

-----------------------------------------------------------------------------
(* Observers, pull requests and jobs: no row is written *)

\* A step that writes no row and changes no call keeps the trail and the calls.
LEMMA OutsideKeeps ==
  ASSUME TicketInv, UNCHANGED <<trail, call>>, ticket'.status = ticket.status
  PROVE  CallsSound' /\ TrailInv' /\ \A p \in Prs : NoRow(p)' = NoRow(p)
BY DEF TicketInv, CallsSound, TrailInv, TrailIsPath, RowsSound, SelfFixApproved, OwnFix,
       MovesWereAllowed, NoRow

\* An observer hears only of a PR that is linked.
LEMMA HearPreserves ==
  ASSUME TicketInv, NEW o \in Observers, NEW p \in Prs, NEW next \in PrStates, Hear(o, p, next)
  PROVE  TicketInv'
<1> DEFINE seen == [at |-> "heard", pr |-> p, next |-> next, live |-> ticket.status = "IN_PROGRESS"]
<1>1. /\ observer' = [observer EXCEPT ![o] = seen] /\ link[p] # "none" /\ next # "none"
      /\ UNCHANGED <<ticket, trail, call, opener, job, link, merged, announced>>
  BY DEF Hear, Looks, Heard, work, prs
<1>2. seen \in Observation /\ seen.at = "heard" /\ seen.pr = p /\ seen.next = next
  BY DEF Observation
<1> HIDE DEF seen
<1>3. TicketTypeOK'
  BY <1>1, <1>2 DEF TicketInv, TicketTypeOK
<1>4. LinkedOnce' /\ MergesOnce'
  BY <1>1, <1>2 DEF TicketInv, TicketTypeOK, LinkedOnce, MergesOnce, Moving, NoRow
<1> QED BY <1>1, <1>3, <1>4, OutsideKeeps DEF TicketInv

\* A merge that is recorded was not recorded, so it moved nothing and nobody is about to.
LEMMA WritePreserves ==
  ASSUME TicketInv, NEW o \in Observers, Write(o)
  PROVE  TicketInv'
<1> DEFINE pr == observer[o].pr
<1>1. /\ observer \in [Observers -> Observation] /\ observer[o] \in Observation /\ pr \in Prs
      /\ observer[o].at = "heard" /\ observer[o].next # "none" /\ link \in [Prs -> PrStates]
      /\ link[pr] # "none" /\ IdleObserver \in Observation /\ IdleObserver.at = "idle"
      /\ IdleObserver.next # "none"
      /\ UNCHANGED <<ticket, trail, call, opener, job, merged, announced>>
  BY DEF TicketInv, TicketTypeOK, LinkedOnce, Observation, IdleObserver, Prs, PrStates, Write, work
<1>2. CallsSound' /\ TrailInv' /\ \A p \in Prs : NoRow(p)' = NoRow(p)
  BY <1>1, OutsideKeeps
<1>3. CASE Rests(o) /\ UNCHANGED link
  <2>1. TicketTypeOK'
    BY <1>1, <1>3 DEF TicketInv, TicketTypeOK, Rests
  <2>2. LinkedOnce' /\ MergesOnce'
    BY <1>1, <1>3 DEF TicketInv, LinkedOnce, MergesOnce, Moving, NoRow, Rests
  <2> QED BY <2>1, <2>2, <1>2 DEF TicketInv
<1>4. CASE /\ link[pr] # "merged"
           /\ link' = [link EXCEPT ![pr] = observer[o].next]
           /\ \/ observer[o].next = "merged" /\ observer' = [observer EXCEPT ![o].at = "moving"]
              \/ Rests(o)
  <2>1. /\ observer' \in [Observers -> Observation]
        /\ \A q \in Observers : /\ q # o => observer'[q] = observer[q]
                                /\ observer'[q].next # "none"
                                /\ observer'[q].at # "idle" => observer'[q].pr = observer[q].pr
                                                               /\ observer[q].at # "idle"
    BY <1>1, <1>4 DEF TicketInv, LinkedOnce, Rests, Observation
  <2>2. \A p \in Prs : link'[p] = IF p = pr THEN observer[o].next ELSE link[p]
    BY <1>1, <1>4
  <2>3. TicketTypeOK'
    BY <1>1, <1>4, <2>1 DEF TicketInv, TicketTypeOK, Observation
  <2>4. LinkedOnce'
    <3>1. \A p \in Prs : link'[p] # "none" <=> link[p] # "none"
      BY <1>1, <2>2
    <3>2. \A q \in Observers : observer'[q].at # "idle" => link'[observer'[q].pr] # "none"
      <4> TAKE q \in Observers
      <4> HAVE observer'[q].at # "idle"
      <4>1. observer'[q].pr = observer[q].pr /\ observer[q].at # "idle" /\ observer[q].pr \in Prs
        BY <2>1, <1>1 DEF Observation
      <4> QED BY <4>1, <3>1 DEF TicketInv, LinkedOnce
    <3> QED BY <3>1, <3>2, <2>1, <1>1 DEF TicketInv, LinkedOnce, Prs
  <2>5. MergesOnce'
    <3>1. NoRow(pr) /\ \A q \in Observers : ~Moving(q, pr)
      BY <1>1, <1>4 DEF TicketInv, MergesOnce
    <3>2. \A q \in Observers, p \in Prs :
            Moving(q, p)' => Moving(q, p) \/ (q = o /\ p = pr /\ link'[pr] = "merged")
      <4> TAKE q \in Observers, p \in Prs
      <4> HAVE Moving(q, p)'
      <4>1. CASE q # o
        BY <4>1, <2>1 DEF Moving
      <4>2. CASE q = o
        <5>1. observer'[o].at = "moving" /\ observer'[o].pr = p
          BY <4>2 DEF Moving
        <5>2. ~Rests(o)
          BY <5>1, <1>1 DEF Rests
        <5>3. p = pr /\ observer[o].next = "merged"
          BY <4>2, <5>1, <5>2, <1>1, <1>4, <2>1
        <5> QED BY <4>2, <5>3, <1>1, <2>2
      <4> QED BY <4>1, <4>2
    <3> QED BY <3>1, <3>2, <2>2, <1>1, <1>2 DEF TicketInv, MergesOnce
  <2> QED BY <2>3, <2>4, <2>5, <1>2 DEF TicketInv
<1> QED BY <1>3, <1>4 DEF Write, Writes

\* A PR is linked that was not.
LEMMA LinkPreserves ==
  ASSUME TicketInv, NEW p \in Prs, link[p] = "none", link' = [link EXCEPT ![p] = "open"],
         UNCHANGED <<ticket, trail, call, merged, observer>>, announced' \in BOOLEAN,
         job' \in {"none", "active", "over"}, opener' \in {"idle", opener},
         p = "fleet" => job' = "over", p # "fleet" => UNCHANGED job,
         p = "classic" => opener' = "idle"
  PROVE  TicketInv'
<1>1. link \in [Prs -> PrStates] /\ \A q \in Prs : link'[q] = IF q = p THEN "open" ELSE link[q]
  BY DEF TicketInv, TicketTypeOK
<1>2. TicketTypeOK'
  BY DEF TicketInv, TicketTypeOK, PrStates
<1>3. LinkedOnce'
  BY <1>1 DEF TicketInv, TicketTypeOK, LinkedOnce, Prs, Observation
<1>4. MergesOnce'
  BY <1>1 DEF TicketInv, MergesOnce, Moving, NoRow
<1> QED BY <1>2, <1>3, <1>4, OutsideKeeps DEF TicketInv

\* A deletion, a merge, the end of a job and the opener write no row.
LEMMA OutsidePreserves ==
  ASSUME TicketInv,
         \/ \E p \in Principals : Delete(p)
         \/ \E p \in Prs : Merge(p)
         \/ JobEnds \/ CheckPr \/ OpenPr
  PROVE  TicketInv'
<1>1. ASSUME NEW p \in Principals, Delete(p) PROVE TicketInv'
  <2>1. /\ ticket' = [ticket EXCEPT !.deleted = TRUE]
        /\ UNCHANGED <<trail, call, opener, job, link, merged, announced, observer>>
    BY <1>1 DEF Delete, work, prs
  <2>2. ticket \in [status: Statuses, deleted: BOOLEAN]
    BY DEF TicketInv, TicketTypeOK
  <2>3. ticket' \in [status: Statuses, deleted: BOOLEAN] /\ ticket'.status = ticket.status
    BY <2>1, <2>2
  <2>4. TicketTypeOK' /\ LinkedOnce' /\ MergesOnce'
    BY <2>1, <2>3 DEF TicketInv, TicketTypeOK, LinkedOnce, MergesOnce, Moving, NoRow
  <2> QED BY <2>1, <2>3, <2>4, OutsideKeeps DEF TicketInv
<1>2. ASSUME NEW p \in Prs, Merge(p) PROVE TicketInv'
  <2>1. TicketTypeOK' /\ LinkedOnce' /\ MergesOnce'
    BY <1>2 DEF Merge, TicketInv, TicketTypeOK, LinkedOnce, MergesOnce, Moving, NoRow, work
  <2> QED BY <2>1, <1>2, OutsideKeeps DEF Merge, work, TicketInv
<1>3. ASSUME JobEnds PROVE TicketInv'
  <2>1. link["fleet"] = "none" /\ job' = "over" /\ "fleet" \in Prs
        /\ UNCHANGED <<ticket, trail, call, opener, merged, announced, observer>>
        /\ announced \in BOOLEAN
    BY <1>3 DEF JobEnds, TicketInv, TicketTypeOK, LinkedOnce, work, Prs
  <2>2. CASE UNCHANGED link
    <3>1. TicketTypeOK' /\ LinkedOnce' /\ MergesOnce'
      BY <2>1, <2>2 DEF TicketInv, TicketTypeOK, LinkedOnce, MergesOnce, Moving, NoRow
    <3> QED BY <3>1, <2>1, OutsideKeeps DEF TicketInv
  <2>3. CASE Links("fleet")
    BY <2>1, <2>3, LinkPreserves DEF Links
  <2> QED BY <1>3, <2>2, <2>3 DEF JobEnds
<1>4. ASSUME CheckPr PROVE TicketInv'
  <2>1. TicketTypeOK' /\ LinkedOnce' /\ MergesOnce'
    BY <1>4 DEF CheckPr, TicketInv, TicketTypeOK, LinkedOnce, MergesOnce, Moving, NoRow, prs, Prs
  <2> QED BY <2>1, <1>4, OutsideKeeps DEF CheckPr, TicketInv
<1>5. ASSUME OpenPr PROVE TicketInv'
  <2>1. link["classic"] = "none" /\ opener' = "idle" /\ "classic" \in Prs
        /\ UNCHANGED <<ticket, trail, call, job, merged, observer>>
        /\ job \in {"none", "active", "over"} /\ announced \in BOOLEAN
    BY <1>5 DEF OpenPr, TicketInv, TicketTypeOK, LinkedOnce, Prs
  <2>2. CASE UNCHANGED <<link, announced>>
    <3>1. TicketTypeOK' /\ LinkedOnce' /\ MergesOnce'
      BY <2>1, <2>2 DEF TicketInv, TicketTypeOK, LinkedOnce, MergesOnce, Moving, NoRow
    <3> QED BY <3>1, <2>1, OutsideKeeps DEF TicketInv
  <2>3. CASE Links("classic") /\ announced' \in {announced, TRUE}
    BY <2>1, <2>3, LinkPreserves DEF Links
  <2> QED BY <1>5, <2>2, <2>3 DEF OpenPr
<1> QED BY <1>1, <1>2, <1>3, <1>4, <1>5

-----------------------------------------------------------------------------
\* A new ticket has no trail and nothing in flight.
LEMMA TicketStart == TicketInit => TicketInv
<1> SUFFICES ASSUME TicketInit PROVE TicketInv
  OBVIOUS
<1>1. TicketTypeOK
  <2>1. /\ ticket \in [status: Statuses, deleted: BOOLEAN]
        /\ trail \in Seq(Row) /\ Len(trail) <= MaxMoves
        /\ call \in [Calls -> Call]
    BY IdleCallIsSound, TicketBounds DEF TicketInit, Statuses
  <2>2. /\ opener = "idle" /\ job \in {"none", "active", "over"} /\ announced \in BOOLEAN
    BY DEF TicketInit
  <2>3. link \in [Prs -> PrStates] /\ merged \subseteq Prs
    BY DEF TicketInit, PrStates
  <2>4. observer \in [Observers -> Observation]
    BY DEF TicketInit, PrStates, Prs, Observation, IdleObserver
  <2> QED BY <2>1, <2>2, <2>3, <2>4 DEF TicketTypeOK
<1>2. CallsSound
  BY IdleCallIsSound DEF TicketInit, CallsSound
<1>3. TrailInv
  BY DEF TicketInit, TrailInv, TrailIsPath, RowsSound, SelfFixApproved, MovesWereAllowed
<1>4. LinkedOnce /\ MergesOnce
  BY DEF TicketInit, LinkedOnce, MergesOnce, Moving, NoRow, IdleObserver, Prs
<1> QED BY <1>1, <1>2, <1>3, <1>4 DEF TicketInv

\* Every step of the specification is one of those above.
LEMMA TicketStep == TicketInv /\ [TicketNext]_ticketVars => TicketInv'
<1> SUFFICES ASSUME TicketInv, [TicketNext]_ticketVars PROVE TicketInv'
  OBVIOUS
<1>1. ASSUME NEW c \in Calls, CallNext(c) PROVE TicketInv'
  <2>1. CASE Refuse(c)
    BY <2>1, DropPreserves DEF Refuse
  <2> QED BY <2>1, <1>1, AskPreserves, ReleasePreserves, DispatchPreserves, AimPreserves,
             CheckPreserves, MovePreserves DEF CallNext
<1>2. ASSUME NEW o \in Observers, ObserverNext(o) PROVE TicketInv'
  BY <1>2, HearPreserves, WritePreserves, MergeMovesPreserves DEF ObserverNext
<1>3. CASE UNCHANGED ticketVars
  <2>1. UNCHANGED <<ticket, trail, call, opener, job, link, merged, announced, observer>>
    BY <1>3 DEF ticketVars, work, prs
  <2>2. TicketTypeOK' /\ LinkedOnce' /\ MergesOnce'
    BY <2>1 DEF TicketInv, TicketTypeOK, LinkedOnce, MergesOnce, Moving, NoRow
  <2> QED BY <2>1, <2>2, OutsideKeeps DEF TicketInv
<1> QED BY <1>1, <1>2, <1>3, OutsidePreserves DEF TicketNext

\* The invariant of a ticket: typed, its trail the path of rows that were allowed,
\* every call in flight let in as its principal must be.
THEOREM TicketInvariant == TicketSpec => []TicketInv
BY TicketStart, TicketStep, PTL DEF TicketSpec

\* Rows and calls have their types, and only a verification opens a PR (the
\* post-commit task of TicketTransitionsService).
THEOREM TicketTypes == TicketSpec => []TicketTypeOK
BY TicketInvariant, PTL DEF TicketInv

\* The activity is the ticket's path, whatever raced (updateTicketStatusIf).
THEOREM TrailHolds == TicketSpec => []TrailIsPath
BY TicketInvariant, PTL DEF TicketInv, TrailInv

\* No agent closes the fix it submitted unless another principal released the
\* call, however late the fix came (assertSelfFixApproval).
THEOREM SelfFixHolds == TicketSpec => []SelfFixApproved
BY TicketInvariant, PTL DEF TicketInv, TrailInv

\* Every move was along an edge whose key the caller holds, the override and the
\* dispatch apart (assertEdgeAllowed).
THEOREM EdgesHold == TicketSpec => []MovesWereAllowed
BY TicketInvariant, PTL DEF TicketInv, TrailInv

\* The rows of a PR are one at most.
LEMMA OnceIsOne == TicketInv => OneMergeMove
<1> SUFFICES ASSUME TicketInv, NEW p \in Prs
             PROVE  Cardinality({i \in DOMAIN trail : trail[i].route = p}) <= 1
  BY DEF OneMergeMove
<1> DEFINE S == {i \in DOMAIN trail : trail[i].route = p}
<1>1. CASE S = {}
  BY <1>1, FS_EmptySet
<1>2. CASE S # {}
  <2>1. PICK i \in S : TRUE
    BY <1>2
  <2>2. S = {i}
    BY <2>1 DEF TicketInv, MergesOnce
  <2> QED BY <2>2, FS_Singleton
<1> QED BY <1>1, <1>2

\* A merge moves its ticket once, whoever sees it and however often (applyMergedPr).
THEOREM MergeMovesOnce == TicketSpec => []OneMergeMove
BY TicketInvariant, OnceIsOne, PTL

\* A deleted ticket is moved by nothing that read it before (updateTicketStatusIf).
THEOREM DeletedHolds == TicketSpec => DeletedStaysPut
<1>1. ASSUME [TicketNext]_ticketVars, ticket.deleted PROVE trail' = trail /\ UNCHANGED ticket
  BY <1>1 DEF TicketNext, CallNext, ObserverNext, ticketVars, Ask, Release, Dispatch, Refuse, Aim,
              Check, Move, Still, Hear, Write, MergeMoves, Delete, Merge, JobEnds, CheckPr, OpenPr
<1>2. [TicketNext]_ticketVars =>
        [ticket.deleted => trail' = trail /\ ticket'.status = ticket.status]_ticketVars
  BY <1>1
<1> QED BY <1>2, PTL DEF TicketSpec, DeletedStaysPut
=============================================================================
