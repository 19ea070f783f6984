------------------------ MODULE FleetScheduleProofs ------------------------
(***************************************************************************)
(* Theorems about recurring jobs, for any schedules, features, tickers,    *)
(* limits and bounds.  A claim moves a schedule's next fire past it, and a *)
(* user only moves it past the clock, so no fire can be claimed twice      *)
(* (FiresPassed) and a fire that is still to be spent is in one hand       *)
(* (InHand).                                                               *)
(***************************************************************************)
EXTENDS FleetSchedules, FiniteSetTheorems, TLAPS

SchedTyped ==
  /\ sched \in [Schedules -> ScheduleRow] /\ jobs \in Seq(JobRow)
  /\ tick \in [Tickers -> Ticker] /\ clock \in Nat /\ restarts \in Nat

\* A schedule that is on has not stalled as often as it may.
OnHasTicksLeft == \A s \in Schedules : Enabled(s) => \E l \in Limits : sched[s].ticks < l

\* Steps with a claimed fire in hand that no job has got.
Unspent == {"fire", "absorb", "access", "dispatch"}

\* A ticker deals with what was due when it began, which is not after now.
TickersSound ==
  \A t \in Tickers :
    /\ tick[t].now <= clock
    /\ \A d \in tick[t].due : d.at <= tick[t].now
    /\ tick[t].at \notin {"idle", "next"} => tick[t].cur \in Fire

Answers(i) == {jobs[i].fire} \cup jobs[i].absorbed
Passed(f) == f.at <= clock /\ f.at < sched[f.sched].next

\* What was claimed is past, for the clock and for its schedule.
FiresPassed ==
  /\ \A t \in Tickers : tick[t].at \in Unspent => Passed(tick[t].cur)
  /\ \A i \in DOMAIN jobs : \A f \in Answers(i) \cap Fire : Passed(f)

\* A fire that is still to be spent is in one hand, and no job has got it.
InHand ==
  \A t \in Tickers : tick[t].at \in Unspent =>
    /\ \A i \in DOMAIN jobs : tick[t].cur \notin Answers(i)
    /\ \A u \in Tickers \ {t} : tick[u].at \in Unspent => tick[u].cur # tick[t].cur

FireInv == SchedTyped /\ TickersSound /\ FiresPassed /\ InHand /\ FireOnce
SchedInv == FireInv /\ OnHasTicksLeft /\ EachJobCountsOnce

-----------------------------------------------------------------------------
(* Shapes of steps *)

\* A row of no fire is none of the fires.
LEMMA NoFireIsNone == NoFire \notin Fire
BY ScheduleAssumption DEF NoFire, Fire

\* A ticker at rest.
LEMMA IdleFacts ==
  /\ Idle \in Ticker
  /\ Idle.at = "idle" /\ Idle.cur = NoFire /\ Idle.due = {} /\ Idle.now = 0 /\ Idle.round = 0
BY DEF Idle, Ticker, Steps

\* A ticker on its way, with the schedules d still to do.
OnTheWay(n, d) == [Idle EXCEPT !.at = "next", !.now = n, !.due = d]

\* It is a ticker again, with no fire in hand.
LEMMA OnTheWayFacts ==
  ASSUME NEW n \in Nat, NEW d \in SUBSET Fire
  PROVE  /\ OnTheWay(n, d) \in Ticker /\ OnTheWay(n, d).at = "next"
         /\ OnTheWay(n, d).now = n /\ OnTheWay(n, d).due = d /\ OnTheWay(n, d).cur = NoFire
<1>1. ASSUME NEW x \in Ticker
      PROVE  LET z == [x EXCEPT !.at = "next", !.now = n, !.due = d] IN
             z \in Ticker /\ z.at = "next" /\ z.now = n /\ z.due = d /\ z.cur = x.cur
  BY DEF Ticker, Steps
<1> QED BY <1>1, IdleFacts DEF OnTheWay

\* A ticker with the schedule of fire f in hand.
InStep(at, n, d, f) == [Idle EXCEPT !.at = at, !.now = n, !.due = d, !.cur = f]

\* It is a ticker again, with f in hand.
LEMMA InStepFacts ==
  ASSUME NEW at \in Steps, NEW n \in Nat, NEW d \in SUBSET Fire, NEW f \in Fire
  PROVE  /\ InStep(at, n, d, f) \in Ticker /\ InStep(at, n, d, f).at = at
         /\ InStep(at, n, d, f).now = n /\ InStep(at, n, d, f).due = d
         /\ InStep(at, n, d, f).cur = f
<1>1. ASSUME NEW x \in Ticker
      PROVE  LET z == [x EXCEPT !.at = at, !.now = n, !.due = d, !.cur = f] IN
             z \in Ticker /\ z.at = at /\ z.now = n /\ z.due = d /\ z.cur = f
  BY DEF Ticker
<1> QED BY <1>1, IdleFacts DEF InStep

\* Becoming idle, or going on with the next due schedule.
LEMMA DoneFacts ==
  ASSUME SchedTyped, TickersSound, NEW t \in Tickers, Done(t)
  PROVE  /\ tick' \in [Tickers -> Ticker]
         /\ \A u \in Tickers \ {t} : tick'[u] = tick[u]
         /\ tick'[t].at \in {"idle", "next"} /\ tick'[t].cur = NoFire
         /\ tick'[t].due \subseteq tick[t].due
         /\ tick'[t].due = {} \/ tick'[t].now = tick[t].now
         /\ tick'[t].now <= clock
<1>1. tick[t] \in Ticker /\ clock \in Nat
  BY DEF SchedTyped
<1>4. CASE tick[t].due = {}
  <2>1. tick' = [tick EXCEPT ![t] = Idle]
    BY <1>4 DEF Done
  <2>2. tick' \in [Tickers -> Ticker] /\ tick'[t] = Idle /\ \A u \in Tickers \ {t} : tick'[u] = tick[u]
    BY IdleFacts, <2>1 DEF SchedTyped
  <2> QED BY <1>1, IdleFacts, <2>2
<1>5. CASE tick[t].due # {}
  <2> DEFINE x == OnTheWay(tick[t].now, tick[t].due)
  <2>1. tick' = [tick EXCEPT ![t] = x]
    BY <1>5 DEF Done, OnTheWay
  <2>2. x \in Ticker /\ x.at = "next" /\ x.now = tick[t].now /\ x.due = tick[t].due /\ x.cur = NoFire
    BY <1>1, OnTheWayFacts DEF Ticker
  <2> HIDE DEF x
  <2>3. /\ tick' \in [Tickers -> Ticker]
        /\ tick'[t] = x
        /\ \A u \in Tickers \ {t} : tick'[u] = tick[u]
    BY <2>1, <2>2 DEF SchedTyped
  <2> QED BY <1>1, <2>2, <2>3 DEF TickersSound
<1> QED BY <1>4, <1>5

\* Going to another step with the same fire.
LEMMA ToFacts ==
  ASSUME SchedTyped, NEW t \in Tickers, NEW at \in Steps, To(t, at)
  PROVE  /\ tick' \in [Tickers -> Ticker]
         /\ \A u \in Tickers \ {t} : tick'[u] = tick[u]
         /\ tick'[t] = [tick[t] EXCEPT !.at = at] /\ tick'[t].at = at
         /\ tick'[t].cur = tick[t].cur /\ tick'[t].due = tick[t].due /\ tick'[t].now = tick[t].now
BY DEF To, SchedTyped, Ticker

\* What a ticker may become when it claims nothing.
Turned(t) ==
  /\ tick'[t].now <= clock'
  /\ \A d \in tick'[t].due : d.at <= tick'[t].now
  /\ tick'[t].at \notin {"idle", "next"} => tick'[t].cur \in Fire
  /\ tick'[t].at \in Unspent => tick[t].at \in Unspent
  /\ tick'[t].at \in Unspent => tick'[t].cur = tick[t].cur

\* Every job answers the fires it answered.
SameFires ==
  /\ DOMAIN jobs' = DOMAIN jobs
  /\ \A i \in DOMAIN jobs : jobs'[i].fire = jobs[i].fire /\ jobs'[i].absorbed = jobs[i].absorbed

\* A next fire is moved only past the clock.
NextMovesAhead == \A s \in Schedules : sched'[s].next = sched[s].next \/ sched'[s].next > clock

\* The fires in C, and no others, find a job.
Spends(C) ==
  \A i \in DOMAIN jobs' : \A f \in Answers(i)' \cap Fire :
    f \in C \/ \E k \in DOMAIN jobs : f \in Answers(k)

\* A step that claims nothing, and spends fires that nobody has in hand after it.
LEMMA SpendKeepsFires ==
  ASSUME FireInv, SchedTyped', FireOnce', clock' >= clock, NextMovesAhead,
         \A t \in Tickers : Turned(t),
         NEW C \in SUBSET Fire, Spends(C), \A f \in C : Passed(f),
         \A t \in Tickers : tick'[t].at \in Unspent => tick[t].cur \notin C
  PROVE  FireInv'
<1>1. TickersSound'
  BY DEF Turned, TickersSound
<1>2. ASSUME NEW f \in Fire, Passed(f) PROVE Passed(f)'
  <2>1. f.sched \in Schedules /\ f.at \in Nat /\ clock \in Nat /\ clock' \in Nat
    BY DEF Fire, FireInv, SchedTyped
  <2>2. sched[f.sched].next \in Nat /\ sched'[f.sched].next \in Nat
    BY <2>1 DEF FireInv, SchedTyped, ScheduleRow
  <2> QED BY <1>2, <2>1, <2>2 DEF Passed, NextMovesAhead
<1>3. ASSUME NEW t \in Tickers, tick'[t].at \in Unspent
      PROVE  /\ tick[t].at \in Unspent /\ tick'[t].cur = tick[t].cur
             /\ tick[t].cur \in Fire /\ Passed(tick[t].cur)
  BY <1>3 DEF Turned, FireInv, FiresPassed, TickersSound, Unspent
<1>4. FiresPassed'
  <2>1. (\A t \in Tickers : tick[t].at \in Unspent => Passed(tick[t].cur))'
    BY <1>2, <1>3 DEF Passed
  <2>2. (\A i \in DOMAIN jobs : \A f \in Answers(i) \cap Fire : Passed(f))'
    BY <1>2 DEF Spends, FireInv, FiresPassed
  <2> QED BY <2>1, <2>2 DEF FiresPassed
<1>5. InHand'
  <2>1. ASSUME NEW t \in Tickers, tick'[t].at \in Unspent, NEW i \in DOMAIN jobs'
        PROVE  tick[t].cur \notin Answers(i)'
    BY <1>3, <2>1 DEF Spends, FireInv, InHand
  <2> QED BY <1>3, <2>1 DEF FireInv, InHand
<1> QED BY <1>1, <1>4, <1>5 DEF FireInv

\* A step that claims and spends nothing.
LEMMA QuietKeepsFires ==
  ASSUME FireInv, SchedTyped', clock' >= clock, SameFires, NextMovesAhead,
         \A t \in Tickers : Turned(t)
  PROVE  FireInv'
<1>1. FireOnce' /\ Spends({})
  BY DEF SameFires, FireInv, FireOnce, Spends, Answers
<1> QED BY <1>1, SpendKeepsFires

\* A ticker that does not move has turned, if time does not go back.
LEMMA StillTurned ==
  ASSUME FireInv, clock' \in Nat, clock' >= clock, NEW t \in Tickers, tick'[t] = tick[t]
  PROVE  Turned(t)
<1>1. tick[t].now \in Nat /\ clock \in Nat
  BY DEF FireInv, SchedTyped, Ticker
<1> QED BY <1>1 DEF Turned, FireInv, TickersSound

\* Whoever ends a fire has turned.
LEMMA DoneTurns ==
  ASSUME FireInv, NEW t \in Tickers, Done(t), clock' = clock
  PROVE  /\ tick' \in [Tickers -> Ticker] /\ \A u \in Tickers : Turned(u)
         /\ tick'[t].at \notin Unspent
<1>1. \A u \in Tickers \ {t} : Turned(u)
  BY DoneFacts, StillTurned DEF FireInv, SchedTyped
<1>2. Turned(t) /\ tick'[t].at \notin Unspent
  BY DoneFacts DEF Turned, Unspent, FireInv, SchedTyped, TickersSound
<1> QED BY <1>1, <1>2, DoneFacts DEF FireInv

\* Whoever goes on with the fire in hand has turned.
LEMMA ToTurns ==
  ASSUME FireInv, NEW t \in Tickers, NEW at \in Steps, To(t, at), clock' = clock,
         tick[t].at \notin {"idle", "next"}, at \in Unspent => tick[t].at \in Unspent
  PROVE  /\ tick' \in [Tickers -> Ticker] /\ \A u \in Tickers : Turned(u)
         /\ tick'[t].at = at
<1>1. \A u \in Tickers \ {t} : Turned(u)
  <2>1. \A u \in Tickers \ {t} : tick'[u] = tick[u]
    BY ToFacts DEF FireInv
  <2>2. clock' \in Nat /\ clock' >= clock
    BY DEF FireInv, SchedTyped
  <2> QED BY <2>1, <2>2, StillTurned
<1>2. Turned(t)
  BY ToFacts DEF Turned, FireInv, TickersSound
<1> QED BY <1>1, <1>2, ToFacts DEF FireInv

-----------------------------------------------------------------------------
(* The ticker *)

\* Switching off leaves the next fire where it is.
LEMMA DisableRowFacts ==
  ASSUME SchedTyped, NEW t \in Tickers, DisableRow(t)
  PROVE  /\ sched' \in [Schedules -> ScheduleRow] /\ NextMovesAhead
         /\ \A s \in Schedules :
              /\ sched'[s].live = sched[s].live /\ sched'[s].ticks = sched[s].ticks
              /\ sched'[s] = sched[s] \/ (Enabled(s) /\ sched'[s].off = "auto")
<1> DEFINE d == tick[t].cur.sched
<1>1. CASE Enabled(d)
  <2>1. sched' = [sched EXCEPT ![d].off = "auto"]
    BY <1>1 DEF DisableRow
  <2> HIDE DEF d
  <2>2. \A s \in Schedules : sched'[s] = IF s = d THEN [sched[s] EXCEPT !.off = "auto"] ELSE sched[s]
    BY <2>1 DEF SchedTyped
  <2>3. sched' \in [Schedules -> ScheduleRow]
    BY <2>1 DEF SchedTyped, ScheduleRow
  <2>4. \A s \in Schedules :
          /\ sched'[s].live = sched[s].live /\ sched'[s].ticks = sched[s].ticks
          /\ sched'[s].next = sched[s].next
          /\ s = d => Enabled(s) /\ sched'[s].off = "auto"
          /\ s # d => sched'[s] = sched[s]
    <3>1. ASSUME NEW s \in Schedules, s = d PROVE Enabled(s)
      BY <1>1, <3>1
    <3>2. ASSUME NEW row \in ScheduleRow
          PROVE  LET new == [row EXCEPT !.off = "auto"] IN
                 /\ new.live = row.live /\ new.ticks = row.ticks /\ new.next = row.next
                 /\ new.off = "auto"
      BY DEF ScheduleRow
    <3>3. ASSUME NEW s \in Schedules, s = d
          PROVE  sched'[s] = [sched[s] EXCEPT !.off = "auto"] /\ sched[s] \in ScheduleRow
      BY <2>2, <3>3 DEF SchedTyped
    <3>4. \A s \in Schedules \ {d} : sched'[s] = sched[s]
      BY <2>2
    <3>5. ASSUME NEW s \in Schedules, s = d
          PROVE  /\ sched'[s].live = sched[s].live /\ sched'[s].ticks = sched[s].ticks
                 /\ sched'[s].next = sched[s].next /\ sched'[s].off = "auto"
      BY <3>2, <3>3, <3>5
    <3> QED BY <3>1, <3>4, <3>5
  <2> QED BY <1>1, <2>3, <2>4 DEF NextMovesAhead
<1>2. CASE ~Enabled(d)
  <2>1. sched' = sched
    BY <1>2 DEF DisableRow
  <2> QED BY <2>1 DEF SchedTyped, NextMovesAhead
<1> QED BY <1>1, <1>2

\* Begin: the due schedules are put down for this tick.
LEMMA BeginKeepsFires ==
  ASSUME FireInv, NEW t \in Tickers, Begin(t)
  PROVE  FireInv'
<1>1. PICK B \in Oldest(Due(clock)) :
        tick' = [tick EXCEPT ![t] = OnTheWay(clock, B)]
  BY DEF Begin, OnTheWay
<1> DEFINE x == OnTheWay(clock, B)
<1>2. clock \in Nat /\ B \in SUBSET Fire /\ \A d \in B : d.at <= clock
  BY DEF Oldest, Due, Fire, FireInv, SchedTyped, ScheduleRow
<1>3. x \in Ticker /\ x.at = "next" /\ x.now = clock /\ x.due = B
  BY <1>2, OnTheWayFacts
<1> HIDE DEF x
<1>4. /\ tick' \in [Tickers -> Ticker]
      /\ tick'[t] = x
      /\ \A u \in Tickers \ {t} : tick'[u] = tick[u]
  BY <1>1, <1>3 DEF FireInv, SchedTyped, x
<1>5. Turned(t)
  <2>1. clock' = clock
    BY DEF Begin
  <2> QED BY <1>2, <1>3, <1>4, <2>1 DEF Turned, Unspent
<1>6. \A u \in Tickers : Turned(u)
  BY <1>2, <1>4, <1>5, StillTurned DEF Begin
<1> QED BY <1>2, <1>4, <1>6, QuietKeepsFires
        DEF Begin, FireInv, SchedTyped, SameFires, NextMovesAhead

\* NextDue: the claim of a schedule that is due.
LEMMA ClaimKeepsFires ==
  ASSUME FireInv, NEW t \in Tickers, tick[t].at = "next", NEW d \in tick[t].due, Claimable(d),
         NEW n \in FireTimes(tick[t].now), sched' = [sched EXCEPT ![d.sched].next = n],
         tick' = [tick EXCEPT ![t] = InStep("fire", tick[t].now, tick[t].due \ {d}, d)],
         UNCHANGED <<jobs, clock, restarts>>
  PROVE  FireInv'
<1> DEFINE x == InStep("fire", tick[t].now, tick[t].due \ {d}, d)
<1>1. tick[t] \in Ticker /\ d \in Fire /\ d.sched \in Schedules /\ d.at \in Nat
      /\ clock \in Nat /\ tick[t].now \in Nat /\ tick[t].now <= clock /\ d.at <= tick[t].now
  BY DEF FireInv, SchedTyped, TickersSound, Ticker, Fire
<1>2. x \in Ticker /\ x.at = "fire" /\ x.now = tick[t].now /\ x.due = tick[t].due \ {d}
      /\ x.cur = d
  <2>1. tick[t].due \ {d} \in SUBSET Fire
    BY <1>1 DEF Ticker
  <2> QED BY <1>1, <2>1, InStepFacts DEF Steps
<1> HIDE DEF x
<1>3. /\ tick' \in [Tickers -> Ticker]
      /\ tick'[t] = x
      /\ \A u \in Tickers \ {t} : tick'[u] = tick[u]
  BY <1>2 DEF FireInv, SchedTyped, x
<1>4. n \in Nat /\ n > tick[t].now
  BY <1>1 DEF FireTimes
<1>5. /\ sched' \in [Schedules -> ScheduleRow]
      /\ sched'[d.sched].next = n /\ \A s \in Schedules \ {d.sched} : sched'[s] = sched[s]
  BY <1>1, <1>4 DEF FireInv, SchedTyped, ScheduleRow
<1>6. SchedTyped'
  BY <1>3, <1>5 DEF FireInv, SchedTyped
<1>7. TickersSound'
  BY <1>1, <1>2, <1>3 DEF FireInv, TickersSound
<1>8. ASSUME NEW f \in Fire, Passed(f) PROVE Passed(f)' /\ f # d
  <2>1. f.sched \in Schedules /\ f.at \in Nat
    BY DEF Fire
  <2>2. sched[d.sched].next = d.at
    BY DEF Claimable
  <2> QED BY <1>1, <1>4, <1>5, <1>8, <2>1, <2>2 DEF Passed
<1>9. Passed(d)'
  BY <1>1, <1>4, <1>5 DEF Passed
<1>10. ASSUME NEW u \in Tickers, u # t, tick'[u].at \in Unspent
       PROVE  /\ tick[u].at \in Unspent /\ tick'[u].cur = tick[u].cur
              /\ tick[u].cur \in Fire /\ Passed(tick[u].cur) /\ tick[u].cur # d
  BY <1>3, <1>8, <1>10 DEF FireInv, FiresPassed, TickersSound, Unspent
<1>11. FiresPassed'
  <2>1. (\A u \in Tickers : tick[u].at \in Unspent => Passed(tick[u].cur))'
    BY <1>2, <1>3, <1>8, <1>9, <1>10 DEF Passed
  <2>2. (\A i \in DOMAIN jobs : \A f \in Answers(i) \cap Fire : Passed(f))'
    BY <1>8 DEF FireInv, FiresPassed, Answers
  <2> QED BY <2>1, <2>2 DEF FiresPassed
<1>12. InHand'
  <2>1. \A i \in DOMAIN jobs : d \notin Answers(i)
    BY <1>1, <1>8 DEF FireInv, FiresPassed
  <2>2. \A i \in DOMAIN jobs' : Answers(i)' = Answers(i)
    BY DEF Answers
  <2>3. ASSUME NEW u \in Tickers \ {t}, tick'[u].at \in Unspent
        PROVE  /\ \A i \in DOMAIN jobs : tick'[u].cur \notin Answers(i)
               /\ \A v \in Tickers \ {u} : tick'[v].at \in Unspent => tick'[v].cur # tick'[u].cur
    BY <1>2, <1>3, <1>10, <2>3 DEF FireInv, InHand
  <2>4. ASSUME NEW v \in Tickers \ {t}, tick'[v].at \in Unspent PROVE tick'[v].cur # tick'[t].cur
    BY <1>2, <1>3, <1>10, <2>4
  <2>5. ASSUME NEW u \in Tickers, tick'[u].at \in Unspent, NEW i \in DOMAIN jobs'
        PROVE  tick'[u].cur \notin Answers(i)'
    <3>1. CASE u = t
      BY <1>2, <1>3, <2>1, <2>2, <3>1
    <3> QED BY <2>2, <2>3, <2>5, <3>1
  <2>6. ASSUME NEW u \in Tickers, tick'[u].at \in Unspent, NEW v \in Tickers \ {u},
               tick'[v].at \in Unspent
        PROVE  tick'[v].cur # tick'[u].cur
    BY <2>3, <2>4, <2>6
  <2> QED BY <2>5, <2>6 DEF InHand
<1>13. FireOnce'
  BY DEF FireInv, FireOnce
<1> QED BY <1>6, <1>7, <1>11, <1>12, <1>13 DEF FireInv

\* NextDue: one after the other, and one whose claim fails is skipped.
LEMMA NextDueKeepsFires ==
  ASSUME FireInv, NEW t \in Tickers, NextDue(t)
  PROVE  FireInv'
<1>1. tick[t].at = "next" /\ UNCHANGED <<jobs, clock, restarts>> /\ clock \in Nat
  BY DEF NextDue, FireInv, SchedTyped
<1>2. PICK d \in tick[t].due :
        \/ /\ Claimable(d)
           /\ tick' = [tick EXCEPT ![t] = InStep("fire", tick[t].now, tick[t].due \ {d}, d)]
           /\ \E n \in FireTimes(tick[t].now) : sched' = [sched EXCEPT ![d.sched].next = n]
        \/ /\ UNCHANGED sched
           /\ tick' = [tick EXCEPT ![t] = IF tick[t].due \ {d} = {} THEN Idle
                                          ELSE [@ EXCEPT !.due = tick[t].due \ {d}]]
        \/ /\ UNCHANGED sched
           /\ tick' = [tick EXCEPT ![t] = InStep("disable", tick[t].now, tick[t].due \ {d}, d)]
  BY DEF NextDue, InStep
<1>3. tick[t] \in Ticker /\ d \in Fire /\ tick[t].due \ {d} \in SUBSET Fire /\ tick[t].now \in Nat
      /\ tick[t].now <= clock
  BY <1>1 DEF FireInv, SchedTyped, TickersSound, Ticker
<1>4. ASSUME UNCHANGED sched, NEW x \in Ticker, tick' = [tick EXCEPT ![t] = x],
             x.now <= clock, \A e \in x.due : e.at <= x.now,
             x.at = "disable" => x.cur \in Fire, x.at \in {"idle", "next", "disable"}
      PROVE  FireInv'
  <2>1. /\ tick' \in [Tickers -> Ticker]
        /\ tick'[t] = x
        /\ \A u \in Tickers \ {t} : tick'[u] = tick[u]
    BY <1>4 DEF FireInv, SchedTyped
  <2>2. Turned(t)
    BY <1>1, <1>4, <2>1 DEF Turned, Unspent
  <2>3. \A u \in Tickers : Turned(u)
    BY <1>1, <2>1, <2>2, StillTurned
  <2> QED BY <1>1, <1>4, <2>1, <2>3, QuietKeepsFires
          DEF FireInv, SchedTyped, SameFires, NextMovesAhead
<1>5. CASE /\ UNCHANGED sched
           /\ tick' = [tick EXCEPT ![t] = IF tick[t].due \ {d} = {} THEN Idle
                                          ELSE [@ EXCEPT !.due = tick[t].due \ {d}]]
  <2>1. CASE tick[t].due \ {d} = {}
    <3>1. tick' = [tick EXCEPT ![t] = Idle]
      BY <1>5, <2>1
    <3> QED BY <1>1, <1>4, <1>5, <3>1, IdleFacts
  <2>2. CASE tick[t].due \ {d} # {}
    <3> DEFINE x == [tick[t] EXCEPT !.due = tick[t].due \ {d}]
    <3>1. tick' = [tick EXCEPT ![t] = x]
      BY <1>5, <2>2
    <3>2. x \in Ticker /\ x.at = "next" /\ x.now = tick[t].now /\ x.due = tick[t].due \ {d}
      BY <1>1, <1>3 DEF Ticker
    <3> HIDE DEF x
    <3>3. \A e \in x.due : e.at <= x.now
      BY <3>2 DEF FireInv, TickersSound
    <3> QED BY <1>3, <1>4, <1>5, <3>1, <3>2, <3>3
  <2> QED BY <2>1, <2>2
<1>6. CASE /\ UNCHANGED sched
           /\ tick' = [tick EXCEPT ![t] = InStep("disable", tick[t].now, tick[t].due \ {d}, d)]
  <2> DEFINE x == InStep("disable", tick[t].now, tick[t].due \ {d}, d)
  <2>2. /\ x \in Ticker /\ x.at = "disable" /\ x.now = tick[t].now /\ x.due = tick[t].due \ {d}
        /\ x.cur = d
    BY <1>3, InStepFacts DEF Steps
  <2> HIDE DEF x
  <2>3. tick' = [tick EXCEPT ![t] = x]
    BY <1>6 DEF x
  <2>4. \A e \in x.due : e.at <= x.now
    BY <2>2 DEF FireInv, TickersSound
  <2> QED BY <1>3, <1>4, <1>6, <2>2, <2>3, <2>4
<1> QED BY <1>1, <1>2, <1>5, <1>6, ClaimKeepsFires

\* A ticker that ends its fire or looks on, and writes nothing.
LEMMA TurnKeepsFires ==
  ASSUME FireInv, NEW t \in Tickers, UNCHANGED <<sched, jobs, clock, restarts>>,
         tick' \in [Tickers -> Ticker], \A u \in Tickers : Turned(u)
  PROVE  FireInv'
<1>1. clock \in Nat
  BY DEF FireInv, SchedTyped
<1> QED BY <1>1, QuietKeepsFires DEF FireInv, SchedTyped, SameFires, NextMovesAhead

\* The looks of a ticker: LookForActive, CheckOwner, Recover, Link, Throws.
LEMMA LookKeepsFires ==
  ASSUME FireInv, NEW t \in Tickers,
         LookForActive(t) \/ CheckOwner(t) \/ Recover(t) \/ Link(t) \/ Throws(t)
  PROVE  FireInv'
<1>1. CASE Done(t)
  BY <1>1, DoneTurns, TurnKeepsFires DEF LookForActive, CheckOwner, Recover, Link, Throws
<1>2. ASSUME NEW at \in Steps, To(t, at), tick[t].at \notin {"idle", "next"},
             at \in Unspent => tick[t].at \in Unspent
      PROVE  FireInv'
  BY <1>2, ToTurns, TurnKeepsFires DEF LookForActive, CheckOwner, Recover, Link, Throws
<1>3. CASE LookForActive(t)
  BY <1>1, <1>2, <1>3 DEF LookForActive, Steps, Unspent
<1>4. CASE CheckOwner(t)
  BY <1>1, <1>2, <1>4 DEF CheckOwner, Steps, Unspent
<1>5. CASE Recover(t)
  BY <1>1, <1>2, <1>5 DEF Recover, Steps, Unspent
<1> QED BY <1>1, <1>3, <1>4, <1>5 DEF Link, Throws

\* Disable: the row is switched off, its next fire stays.
LEMMA DisableKeepsFires ==
  ASSUME FireInv, NEW t \in Tickers, Disable(t)
  PROVE  FireInv'
<1>1. DisableRow(t) /\ Done(t) /\ UNCHANGED <<jobs, clock, restarts>> /\ clock \in Nat
  BY DEF Disable, FireInv, SchedTyped
<1>2. sched' \in [Schedules -> ScheduleRow] /\ NextMovesAhead
  BY <1>1, DisableRowFacts DEF FireInv
<1>3. tick' \in [Tickers -> Ticker] /\ \A u \in Tickers : Turned(u)
  BY <1>1, DoneTurns
<1>4. SameFires
  BY <1>1 DEF SameFires
<1> QED BY <1>1, <1>2, <1>3, <1>4, QuietKeepsFires DEF FireInv, SchedTyped

\* What a ticker with an unspent fire in hand knows of it.
LEMMA UnspentFacts ==
  ASSUME FireInv, NEW t \in Tickers, tick[t].at \in Unspent
  PROVE  /\ tick[t].cur \in Fire /\ Passed(tick[t].cur)
         /\ \A i \in DOMAIN jobs : tick[t].cur \notin Answers(i)
         /\ \A u \in Tickers \ {t} : tick[u].at \in Unspent => tick[u].cur # tick[t].cur
BY DEF FireInv, TickersSound, FiresPassed, InHand, Unspent

\* The fire in hand finds a job, and its ticker is rid of it.
LEMMA SpendInHand ==
  ASSUME FireInv, SchedTyped', FireOnce', NEW t \in Tickers, tick[t].at \in Unspent,
         UNCHANGED <<sched, clock, restarts>>, \A u \in Tickers : Turned(u),
         tick'[t].at \notin Unspent, Spends({tick[t].cur})
  PROVE  FireInv'
<1>1. clock \in Nat /\ NextMovesAhead
  BY DEF FireInv, SchedTyped, NextMovesAhead
<1>2. tick[t].cur \in Fire /\ Passed(tick[t].cur)
  BY UnspentFacts
<1>3. \A u \in Tickers : tick'[u].at \in Unspent => tick[u].cur \notin {tick[t].cur}
  BY UnspentFacts DEF Turned
<1>4. \A f \in {tick[t].cur} : Passed(f)
  BY <1>2
<1> QED BY <1>1, <1>2, <1>3, <1>4, SpendKeepsFires

\* A new job that answers a fire nobody answered, or none.
LEMMA NewJobFacts ==
  ASSUME SchedTyped, FireOnce, NEW s \in Schedules \cup {NoSchedule}, NEW f \in Features,
         NEW fire \in Fire \cup {NoFire}, NewJob(s, f, fire),
         fire = NoFire \/ \A i \in DOMAIN jobs : fire \notin Answers(i)
  PROVE  /\ jobs' \in Seq(JobRow) /\ FireOnce' /\ Spends({fire} \ {NoFire})
         /\ DOMAIN jobs' = DOMAIN jobs \cup {Len(jobs) + 1}
         /\ \A i \in DOMAIN jobs : jobs'[i] = jobs[i]
         /\ ~jobs'[Len(jobs) + 1].counted
<1> DEFINE new == [sched |-> s, feature |-> f, state |-> "QUEUED", counted |-> FALSE,
                   fire |-> fire, absorbed |-> {}]
<1>1. new \in JobRow /\ new.fire = fire /\ new.absorbed = {} /\ ~new.counted
  BY DEF JobRow
<1>2. jobs \in Seq(JobRow) /\ jobs' = Append(jobs, new)
  BY DEF SchedTyped, NewJob
<1> HIDE DEF new
<1>3. /\ jobs' \in Seq(JobRow) /\ DOMAIN jobs' = DOMAIN jobs \cup {Len(jobs) + 1}
      /\ \A i \in DOMAIN jobs : jobs'[i] = jobs[i]
      /\ jobs'[Len(jobs) + 1] = new /\ Len(jobs) + 1 \notin DOMAIN jobs
  BY <1>1, <1>2
<1>4. \A i \in DOMAIN jobs : NoFire \notin jobs[i].absorbed
  <2>1. \A i \in DOMAIN jobs : jobs[i] \in JobRow
    BY <1>2
  <2>2. \A row \in JobRow : row.absorbed \subseteq Fire
    BY DEF JobRow
  <2> QED BY <2>1, <2>2, NoFireIsNone
<1>5. FireOnce'
  <2>1. ASSUME NEW i \in DOMAIN jobs
        PROVE  /\ fire # jobs[i].fire \/ fire = NoFire
               /\ fire \notin jobs[i].absorbed
    BY <1>4 DEF Answers
  <2>2. \A i, k \in DOMAIN jobs :
          /\ i # k => /\ jobs[i].fire # jobs[k].fire \/ jobs[i].fire = NoFire
                      /\ jobs[i].absorbed \cap jobs[k].absorbed = {}
          /\ jobs[i].fire \notin jobs[k].absorbed
    BY DEF FireOnce
  <2>3. SUFFICES ASSUME NEW i \in DOMAIN jobs', NEW k \in DOMAIN jobs'
                 PROVE  /\ i # k => /\ jobs'[i].fire # jobs'[k].fire \/ jobs'[i].fire = NoFire
                                    /\ jobs'[i].absorbed \cap jobs'[k].absorbed = {}
                        /\ jobs'[i].fire \notin jobs'[k].absorbed
    BY DEF FireOnce
  <2>4. CASE i \in DOMAIN jobs /\ k \in DOMAIN jobs
    BY <1>3, <2>2, <2>4
  <2>5. CASE i \in DOMAIN jobs /\ k = Len(jobs) + 1
    BY <1>1, <1>3, <2>1, <2>5
  <2>6. CASE i = Len(jobs) + 1 /\ k \in DOMAIN jobs
    BY <1>1, <1>3, <2>1, <2>6
  <2>7. CASE i = Len(jobs) + 1 /\ k = Len(jobs) + 1
    BY <1>1, <1>3, <2>7
  <2> QED BY <1>3, <2>4, <2>5, <2>6, <2>7
<1>6. Spends({fire} \ {NoFire})
  BY <1>1, <1>3, NoFireIsNone DEF Spends, Answers
<1> QED BY <1>1, <1>3, <1>5, <1>6

\* One job's row is written.
LEMMA RowWritten ==
  ASSUME SchedTyped, NEW i \in DOMAIN jobs, NEW new \in JobRow, jobs' = [jobs EXCEPT ![i] = new]
  PROVE  /\ jobs' \in Seq(JobRow) /\ DOMAIN jobs' = DOMAIN jobs /\ jobs[i] \in JobRow
         /\ jobs'[i] = new /\ \A k \in DOMAIN jobs \ {i} : jobs'[k] = jobs[k]
<1>1. DOMAIN jobs = 1..Len(jobs) /\ Len(jobs) \in Nat /\ jobs \in [1..Len(jobs) -> JobRow]
  BY DEF SchedTyped
<1>2. jobs' \in [1..Len(jobs) -> JobRow]
  BY <1>1
<1> QED BY <1>1, <1>2

\* Absorb: one UPDATE gives the fire to the queued job.
LEMMA AbsorbKeepsFires ==
  ASSUME FireInv, NEW t \in Tickers, Absorb(t)
  PROVE  FireInv'
<1> DEFINE f == tick[t].cur
<1>1. /\ tick[t].at = "absorb" /\ UNCHANGED <<sched, clock, restarts>>
      /\ tick[t].at \in Unspent /\ tick[t] \in Ticker
  BY DEF Absorb, Unspent, FireInv, SchedTyped
<1>2. ASSUME NEW i \in QueuedOf(f.sched), AbsorbInto(i, f), Done(t) PROVE FireInv'
  <2>1. f \in Fire /\ \A k \in DOMAIN jobs : f \notin Answers(k)
    BY <1>1, UnspentFacts
  <2> HIDE DEF f
  <2>2. /\ i \in DOMAIN jobs /\ jobs \in Seq(JobRow)
        /\ jobs' = [jobs EXCEPT ![i].absorbed = @ \cup {f}]
    BY <1>2 DEF QueuedOf, ActiveOf, AbsorbInto, FireInv, SchedTyped
  <2>3. /\ jobs' \in Seq(JobRow) /\ DOMAIN jobs' = DOMAIN jobs
        /\ \A k \in DOMAIN jobs \ {i} : jobs'[k] = jobs[k]
        /\ jobs'[i].fire = jobs[i].fire /\ jobs'[i].absorbed = jobs[i].absorbed \cup {f}
    <3>1. ASSUME NEW row \in JobRow
          PROVE  LET new == [row EXCEPT !.absorbed = @ \cup {f}] IN
                 /\ new \in JobRow /\ new.fire = row.fire /\ new.absorbed = row.absorbed \cup {f}
      BY <2>1 DEF JobRow
    <3>2. jobs[i] \in JobRow
      BY <2>2
    <3> DEFINE new == [jobs[i] EXCEPT !.absorbed = @ \cup {f}]
    <3>3. new \in JobRow /\ new.fire = jobs[i].fire /\ new.absorbed = jobs[i].absorbed \cup {f}
      BY <3>1, <3>2
    <3>4. jobs' = [jobs EXCEPT ![i] = new]
      BY <2>2
    <3> HIDE DEF new
    <3> QED BY <2>2, <3>3, <3>4, RowWritten DEF FireInv
  <2>4. FireOnce'
    BY <2>1, <2>3 DEF FireOnce, FireInv, Answers
  <2>5. Spends({f})
    BY <2>3 DEF Spends, Answers
  <2>6. tick' \in [Tickers -> Ticker] /\ (\A u \in Tickers : Turned(u)) /\ tick'[t].at \notin Unspent
    BY <1>1, <1>2, DoneTurns
  <2>7. SchedTyped'
    BY <1>1, <2>3, <2>6 DEF FireInv, SchedTyped
  <2> QED BY <1>1, <2>4, <2>5, <2>6, <2>7, SpendInHand DEF f
<1>3. CASE Done(t) /\ UNCHANGED jobs
  BY <1>1, <1>3, DoneTurns, TurnKeepsFires
<1>4. CASE tick' = [tick EXCEPT ![t].at = "fire", ![t].round = @ + 1] /\ UNCHANGED jobs
  <2>1. ASSUME NEW x \in Ticker, NEW m \in Nat
        PROVE  LET y == [x EXCEPT !.at = "fire", !.round = m] IN
               y \in Ticker /\ y.at = "fire" /\ y.cur = x.cur /\ y.now = x.now /\ y.due = x.due
    BY DEF Ticker, Steps
  <2> DEFINE y == [tick[t] EXCEPT !.at = "fire", !.round = tick[t].round + 1]
  <2>2. /\ y \in Ticker /\ y.at = "fire" /\ y.cur = tick[t].cur /\ y.now = tick[t].now
        /\ y.due = tick[t].due
    <3>1. tick[t].round + 1 \in Nat
      BY <1>1 DEF Ticker
    <3> QED BY <1>1, <2>1, <3>1
  <2>3. tick' = [tick EXCEPT ![t] = y]
    BY <1>4
  <2> HIDE DEF y
  <2>4. tick' \in [Tickers -> Ticker] /\ tick'[t] = y /\ \A u \in Tickers \ {t} : tick'[u] = tick[u]
    BY <2>2, <2>3 DEF FireInv, SchedTyped
  <2>5. Turned(t)
    BY <1>1, <2>2, <2>4 DEF Turned, FireInv, TickersSound
  <2>6. \A u \in Tickers : Turned(u)
    BY <1>1, <2>4, <2>5, StillTurned DEF FireInv, SchedTyped
  <2> QED BY <1>1, <1>4, <2>4, <2>6, TurnKeepsFires
<1> QED BY <1>2, <1>3, <1>4 DEF Absorb

\* DispatchFresh: a job of the fire in hand, or none.
LEMMA DispatchKeepsFires ==
  ASSUME FireInv, NEW t \in Tickers, DispatchFresh(t)
  PROVE  FireInv'
<1> DEFINE f == tick[t].cur
<1>1. /\ tick[t].at = "dispatch" /\ UNCHANGED <<sched, clock, restarts>>
      /\ tick[t].at \in Unspent
  BY DEF DispatchFresh, Unspent
<1>2. f \in Fire /\ f.sched \in Schedules /\ \A k \in DOMAIN jobs : f \notin Answers(k)
  BY <1>1, UnspentFacts DEF Fire
<1>3. ASSUME NEW at \in {"link", "recover", "disable"}, To(t, at)
      PROVE  /\ tick' \in [Tickers -> Ticker] /\ \A u \in Tickers : Turned(u)
             /\ tick'[t].at \notin Unspent
  BY <1>1, <1>3, ToTurns DEF Unspent, Steps
<1>4. CASE NewJob(f.sched, FeatureOf[f.sched], f) /\ (To(t, "link") \/ To(t, "recover"))
  <2>1. FeatureOf[f.sched] \in Features
    BY <1>2 DEF Features
  <2>2. jobs' \in Seq(JobRow) /\ FireOnce' /\ Spends({f} \ {NoFire})
    BY <1>2, <1>4, <2>1, NewJobFacts DEF FireInv
  <2>3. Spends({f})
    BY <2>2 DEF Spends
  <2>4. SchedTyped'
    BY <1>1, <1>3, <1>4, <2>2 DEF FireInv, SchedTyped
  <2> QED BY <1>1, <1>3, <1>4, <2>2, <2>3, <2>4, SpendInHand
<1>5. CASE UNCHANGED jobs /\ (To(t, "disable") \/ To(t, "recover"))
  BY <1>1, <1>3, <1>5, TurnKeepsFires
<1>6. CASE UNCHANGED jobs /\ Done(t)
  BY <1>1, <1>6, DoneTurns, TurnKeepsFires
<1> QED BY <1>4, <1>5, <1>6 DEF DispatchFresh

\* Every step of a ticker.
LEMMA TickKeepsFires ==
  ASSUME FireInv, NEW t \in Tickers, TickStep(t)
  PROVE  FireInv'
BY BeginKeepsFires, NextDueKeepsFires, LookKeepsFires, DisableKeepsFires, AbsorbKeepsFires,
   DispatchKeepsFires DEF TickStep

-----------------------------------------------------------------------------
(* Jobs, users and the world *)

\* Every step of a schedule's row.
RowsMove ==
  \A s \in Schedules :
    /\ sched'[s].live => sched[s].live
    /\ sched[s].live /\ sched[s].off = "manual" =>
         \/ sched'[s].off = "manual"
         \/ sched'[s].off = "no" /\ sched'[s].ticks = 0 /\ sched'[s].next > clock
    /\ Enabled(s)' => \/ Enabled(s) /\ sched'[s].ticks = sched[s].ticks
                      \/ \E l \in Limits : sched'[s].ticks < l

Counted(s) == {i \in DOMAIN jobs : jobs[i].sched = s /\ jobs[i].counted}

\* A stall is counted for a job that was not counted before.
CountsMove ==
  \A s \in Schedules : sched'[s].live =>
    \/ sched'[s].ticks = 0
    \/ sched'[s].ticks = sched[s].ticks /\ Counted(s) \subseteq Counted(s)'
    \/ /\ sched'[s].ticks = sched[s].ticks + 1
       /\ \E i \in Counted(s)' \ Counted(s) : Counted(s) \subseteq Counted(s)'

\* Every limit lets a schedule stall at least once.
LEMMA SomeLimit == Limits \subseteq Nat /\ \E l \in Limits : 0 < l
<1>1. \A l \in Limits : l \in Nat /\ 0 < l
  BY LimitAssumption
<1>2. \E l \in Limits : TRUE
  BY LimitAssumption
<1> QED BY <1>1, <1>2

\* What the end of a job does to a row.
LEMMA JudgedFacts ==
  ASSUME NEW row \in ScheduleRow, NEW verdict \in {"done", "progress", "stalled"},
         NEW passed, verdict = "progress" => passed \in Nat
  PROVE  LET new == Judged(row, verdict, passed) IN
         /\ new \in ScheduleRow /\ new.next = row.next /\ new.live = row.live
         /\ row.off # "no" => new.off = row.off
         /\ new.ticks \in {0, row.ticks, row.ticks + 1}
         /\ new.off = "no" => new.ticks = 0 \/ new.ticks < row.limit
<1>1. CASE verdict = "progress"
  <2>1. Judged(row, verdict, passed) = [row EXCEPT !.ticks = 0, !.passed = passed]
    BY <1>1 DEF Judged
  <2>2. ASSUME NEW m \in Nat
        PROVE  LET x == [row EXCEPT !.ticks = 0, !.passed = m] IN
               /\ x \in ScheduleRow /\ x.next = row.next /\ x.live = row.live
               /\ x.off = row.off /\ x.ticks = 0
    BY DEF ScheduleRow
  <2> QED BY <1>1, <2>1, <2>2
<1>2. CASE verdict # "progress" /\ row.off # "no"
  BY <1>2 DEF Judged, ScheduleRow
<1>3. CASE verdict = "done" /\ row.off = "no"
  <2>1. Judged(row, verdict, passed) = [row EXCEPT !.off = "auto"]
    BY <1>3 DEF Judged
  <2> QED BY <1>3, <2>1 DEF ScheduleRow
<1>4. CASE verdict = "stalled" /\ row.off = "no"
  <2> DEFINE off == IF row.ticks + 1 >= row.limit THEN "auto" ELSE row.off
             n   == row.ticks + 1
  <2>1. Judged(row, verdict, passed) = [row EXCEPT !.ticks = n, !.off = off]
    BY <1>4 DEF Judged
  <2>2. n \in Nat /\ off \in {"no", "auto"} /\ (off = "no" => n < row.limit)
    <3>1. row.ticks \in Nat /\ row.limit \in Nat
      BY LimitAssumption DEF ScheduleRow
    <3> QED BY <1>4, <3>1
  <2>3. n \in {0, row.ticks, row.ticks + 1}
    OBVIOUS
  <2>4. ASSUME NEW m \in Nat, NEW o \in {"no", "auto"}
        PROVE  LET x == [row EXCEPT !.ticks = m, !.off = o] IN
               /\ x \in ScheduleRow /\ x.next = row.next /\ x.live = row.live
               /\ x.off = o /\ x.ticks = m
    BY DEF ScheduleRow
  <2> HIDE DEF n, off
  <2> DEFINE z == [row EXCEPT !.ticks = n, !.off = off]
  <2>5. /\ z \in ScheduleRow /\ z.next = row.next /\ z.live = row.live
        /\ z.off = off /\ z.ticks = n
    BY <2>2, <2>4
  <2>6. Judged(row, verdict, passed) = z
    BY <2>1
  <2> HIDE DEF z
  <2> QED BY <1>4, <2>2, <2>3, <2>5, <2>6
<1> QED BY <1>1, <1>2, <1>3, <1>4

\* A job that is taken or put back: only its state is written.
LEMMA StateWritten ==
  ASSUME FireInv, NEW i \in DOMAIN jobs, NEW to \in {"ASSIGNED", "QUEUED"},
         jobs' = [jobs EXCEPT ![i].state = to], UNCHANGED <<sched, tick, clock, restarts>>
  PROVE  FireInv' /\ RowsMove /\ CountsMove
<1> DEFINE new == [jobs[i] EXCEPT !.state = to]
<1>1. jobs[i] \in JobRow /\ SchedTyped /\ clock \in Nat
  BY DEF FireInv, SchedTyped
<1>2. /\ new \in JobRow /\ new.fire = jobs[i].fire /\ new.absorbed = jobs[i].absorbed
      /\ new.sched = jobs[i].sched /\ new.counted = jobs[i].counted
  BY <1>1 DEF JobRow
<1>3. jobs' = [jobs EXCEPT ![i] = new]
  OBVIOUS
<1> HIDE DEF new
<1>4. /\ jobs' \in Seq(JobRow) /\ DOMAIN jobs' = DOMAIN jobs
      /\ jobs'[i] = new /\ \A k \in DOMAIN jobs \ {i} : jobs'[k] = jobs[k]
  BY <1>1, <1>2, <1>3, RowWritten
<1>5. SameFires /\ \A s \in Schedules : Counted(s) \subseteq Counted(s)'
  BY <1>2, <1>4 DEF SameFires, Counted
<1>6. SchedTyped' /\ NextMovesAhead /\ \A t \in Tickers : Turned(t)
  BY <1>1, <1>4, StillTurned DEF SchedTyped, NextMovesAhead
<1>7. FireInv'
  BY <1>1, <1>5, <1>6, QuietKeepsFires
<1>8. RowsMove /\ CountsMove
  BY <1>5 DEF RowsMove, CountsMove, Enabled
<1> QED BY <1>7, <1>8

\* End: the job is over, and what it came to is counted for its schedule.
LEMMA EndKeeps ==
  ASSUME FireInv, NEW i \in DOMAIN jobs, NEW to \in TerminalStates, NEW p \in Reports,
         End(i, to, p[1], p[2])
  PROVE  FireInv' /\ RowsMove /\ CountsMove
<1> DEFINE new == [jobs[i] EXCEPT !.state = to, !.counted = jobs[i].counted \/ Counts(i, to)]
           s   == jobs[i].sched
<1>1. /\ jobs[i] \in JobRow /\ SchedTyped /\ clock \in Nat /\ UNCHANGED <<tick, clock, restarts>>
      /\ sched \in [Schedules -> ScheduleRow]
  BY DEF FireInv, SchedTyped, End
<1>2. /\ new \in JobRow /\ new.fire = jobs[i].fire /\ new.absorbed = jobs[i].absorbed
      /\ new.sched = jobs[i].sched /\ (new.counted <=> jobs[i].counted \/ Counts(i, to))
  <2>1. ASSUME NEW row \in JobRow, NEW c \in BOOLEAN
        PROVE  LET x == [row EXCEPT !.state = to, !.counted = c] IN
               /\ x \in JobRow /\ x.fire = row.fire /\ x.absorbed = row.absorbed
               /\ x.sched = row.sched /\ x.counted = c
    BY DEF JobRow
  <2>2. (jobs[i].counted \/ Counts(i, to)) \in BOOLEAN
    OBVIOUS
  <2> QED BY <1>1, <2>1, <2>2
<1>3. jobs' = [jobs EXCEPT ![i] = new]
  BY <1>1 DEF End, SchedTyped
<1> HIDE DEF new
<1>4. /\ jobs' \in Seq(JobRow) /\ DOMAIN jobs' = DOMAIN jobs
      /\ jobs'[i] = new /\ \A k \in DOMAIN jobs \ {i} : jobs'[k] = jobs[k]
  BY <1>1, <1>2, <1>3, RowWritten
<1>5. SameFires /\ \A u \in Schedules : Counted(u) \subseteq Counted(u)'
  BY <1>2, <1>4 DEF SameFires, Counted
<1>6. ASSUME sched' \in [Schedules -> ScheduleRow], NextMovesAhead PROVE FireInv'
  <2>1. SchedTyped' /\ \A t \in Tickers : Turned(t)
    BY <1>1, <1>4, <1>6, StillTurned DEF SchedTyped
  <2> QED BY <1>1, <1>5, <1>6, <2>1, QuietKeepsFires
<1>7. CASE ~Counts(i, to)
  <2>1. sched' = sched
    BY <1>7 DEF End
  <2>2. RowsMove /\ CountsMove
    BY <1>5, <2>1 DEF RowsMove, CountsMove, Enabled
  <2> QED BY <1>1, <1>6, <2>1, <2>2 DEF NextMovesAhead
<1>8. CASE Counts(i, to)
  <2> DEFINE verdict == Judge(to, p[1], p[2], sched[s].passed)
             row     == Judged(sched[s], verdict, p[1])
  <2>1. s \in Schedules /\ ~jobs[i].counted
    BY <1>1, <1>8 DEF Counts, JobRow
  <2>2. sched[s] \in ScheduleRow
    BY <1>1, <2>1
  <2>3. verdict \in {"done", "progress", "stalled"} /\ (verdict = "progress" => p[1] \in Nat)
    <3>1. p[1] \in Nat \cup {NoCount} /\ sched[s].passed \in Nat
      BY <2>2, LimitAssumption DEF Reports, ScheduleRow, NoCount
    <3> QED BY <3>1 DEF Judge, NoCount
  <2>4. sched' = [sched EXCEPT ![s] = row]
    BY <1>8 DEF End
  <2>5. /\ row \in ScheduleRow /\ row.next = sched[s].next /\ row.live = sched[s].live
        /\ sched[s].off # "no" => row.off = sched[s].off
        /\ row.ticks \in {0, sched[s].ticks, sched[s].ticks + 1}
        /\ row.off = "no" => row.ticks = 0 \/ row.ticks < sched[s].limit
    BY <2>2, <2>3, JudgedFacts
  <2> HIDE DEF s, row, verdict
  <2>6. /\ sched' \in [Schedules -> ScheduleRow] /\ sched'[s] = row
        /\ \A u \in Schedules \ {s} : sched'[u] = sched[u]
    BY <1>1, <2>1, <2>4, <2>5
  <2>7. NextMovesAhead
    BY <2>5, <2>6 DEF NextMovesAhead
  <2>8. RowsMove
    <3>1. sched[s].limit \in Limits /\ \E l \in Limits : 0 < l
      BY <2>2, SomeLimit DEF ScheduleRow
    <3>2. row.off = "no" => \E l \in Limits : row.ticks < l
      BY <2>5, <3>1
    <3> QED BY <2>5, <2>6, <3>2 DEF RowsMove, Enabled
  <2>9. CountsMove
    <3>1. ASSUME NEW u \in Schedules, u = s PROVE i \in Counted(u)' \ Counted(u)
      BY <1>2, <1>4, <1>8, <2>1, <3>1 DEF Counted, s
    <3> QED BY <1>5, <2>5, <2>6, <3>1 DEF CountsMove
  <2> QED BY <1>6, <2>6, <2>7, <2>8, <2>9
<1> QED BY <1>7, <1>8

\* A user's own job of a feature.
LEMMA DispatchByUserKeeps ==
  ASSUME FireInv, NEW f \in Features, DispatchByUser(f)
  PROVE  FireInv' /\ RowsMove /\ CountsMove
<1>1. NewJob(NoSchedule, f, NoFire) /\ UNCHANGED <<sched, tick, clock, restarts>>
      /\ SchedTyped /\ FireOnce /\ clock \in Nat
  BY DEF DispatchByUser, FireInv, SchedTyped
<1>2. /\ jobs' \in Seq(JobRow) /\ FireOnce' /\ Spends({})
      /\ DOMAIN jobs' = DOMAIN jobs \cup {Len(jobs) + 1}
      /\ \A i \in DOMAIN jobs : jobs'[i] = jobs[i]
  BY <1>1, NewJobFacts DEF Spends
<1>3. SchedTyped' /\ NextMovesAhead /\ \A t \in Tickers : Turned(t)
  BY <1>1, <1>2, StillTurned DEF SchedTyped, NextMovesAhead
<1>4. \A s \in Schedules : Counted(s) \subseteq Counted(s)'
  BY <1>2 DEF Counted
<1> QED BY <1>1, <1>2, <1>3, <1>4, SpendKeepsFires DEF RowsMove, CountsMove, Enabled

\* Whatever happens to a job.
LEMMA JobKeeps ==
  ASSUME FireInv, JobStep
  PROVE  FireInv' /\ RowsMove /\ CountsMove
BY StateWritten, EndKeeps, DispatchByUserKeeps DEF JobStep, Take, Requeue

\* A user writes one schedule's row.
LEMMA WriteKeeps ==
  ASSUME FireInv, NEW s \in Schedules, NEW row \in ScheduleRow, Write(s, row),
         row.next = sched[s].next \/ row.next > clock, row.live = sched[s].live,
         \/ row.off = sched[s].off /\ row.ticks = sched[s].ticks
         \/ row.off = "no" /\ row.ticks = 0 /\ row.next > clock
         \/ row.off = "manual" /\ row.ticks = sched[s].ticks
  PROVE  FireInv' /\ RowsMove /\ CountsMove
<1>1. /\ sched' = [sched EXCEPT ![s] = row] /\ UNCHANGED <<jobs, tick, clock, restarts>>
      /\ SchedTyped /\ clock \in Nat
  BY DEF Write, FireInv, SchedTyped
<1>2. /\ sched' \in [Schedules -> ScheduleRow] /\ sched'[s] = row
      /\ \A u \in Schedules \ {s} : sched'[u] = sched[u]
  BY <1>1 DEF SchedTyped
<1>3. SchedTyped' /\ NextMovesAhead /\ SameFires /\ \A t \in Tickers : Turned(t)
  BY <1>1, <1>2, StillTurned DEF SchedTyped, NextMovesAhead, SameFires
<1>4. RowsMove
  <2>1. \E l \in Limits : 0 < l
    BY SomeLimit
  <2> QED BY <1>2, <2>1 DEF RowsMove, Enabled
<1>5. CountsMove
  BY <1>1, <1>2 DEF CountsMove, Counted
<1> QED BY <1>1, <1>3, <1>4, <1>5, QuietKeepsFires

\* The jobs are detached, and the row goes.
LEMMA RemoveKeeps ==
  ASSUME FireInv, NEW s \in Schedules, Remove(s)
  PROVE  FireInv' /\ RowsMove /\ CountsMove
<1> DEFINE detached(i) == [jobs[i] EXCEPT !.sched = NoSchedule]
<1>1. /\ sched' = [sched EXCEPT ![s].live = FALSE] /\ UNCHANGED <<tick, clock, restarts>>
      /\ jobs' = [i \in DOMAIN jobs |-> IF jobs[i].sched = s THEN detached(i) ELSE jobs[i]]
      /\ SchedTyped /\ clock \in Nat /\ jobs \in Seq(JobRow)
  BY DEF Remove, FireInv, SchedTyped
<1>2. \A i \in DOMAIN jobs :
        /\ detached(i) \in JobRow /\ detached(i).fire = jobs[i].fire
        /\ detached(i).absorbed = jobs[i].absorbed
  <2>1. ASSUME NEW row \in JobRow
        PROVE  LET x == [row EXCEPT !.sched = NoSchedule] IN
               x \in JobRow /\ x.fire = row.fire /\ x.absorbed = row.absorbed
    BY DEF JobRow
  <2>2. \A i \in DOMAIN jobs : jobs[i] \in JobRow
    BY <1>1
  <2> QED BY <2>1, <2>2
<1> HIDE DEF detached
<1>3. /\ jobs' \in Seq(JobRow) /\ DOMAIN jobs' = DOMAIN jobs
      /\ \A i \in DOMAIN jobs : jobs'[i] = IF jobs[i].sched = s THEN detached(i) ELSE jobs[i]
  <2>1. DOMAIN jobs = 1..Len(jobs) /\ Len(jobs) \in Nat /\ \A i \in DOMAIN jobs : jobs[i] \in JobRow
    BY <1>1
  <2>2. jobs' \in [1..Len(jobs) -> JobRow]
    BY <1>1, <1>2, <2>1
  <2> QED BY <1>1, <2>1, <2>2
<1>4. /\ sched' \in [Schedules -> ScheduleRow]
      /\ ~sched'[s].live /\ sched'[s].next = sched[s].next
      /\ sched'[s].off = sched[s].off
      /\ \A u \in Schedules \ {s} : sched'[u] = sched[u]
  BY <1>1 DEF SchedTyped, ScheduleRow
<1>5. SameFires
  BY <1>2, <1>3 DEF SameFires
<1>6. SchedTyped' /\ NextMovesAhead /\ \A t \in Tickers : Turned(t)
  BY <1>1, <1>3, <1>4, StillTurned DEF SchedTyped, NextMovesAhead
<1>7. RowsMove
  BY <1>4 DEF RowsMove, Enabled
<1>8. CountsMove
  <2>1. \A u \in Schedules \ {s} : Counted(u) \subseteq Counted(u)'
    BY <1>3 DEF Counted
  <2> QED BY <1>4, <2>1 DEF CountsMove
<1> QED BY <1>1, <1>5, <1>6, <1>7, <1>8, QuietKeepsFires

\* Users edit, enable, disable and delete.
LEMMA UserKeeps ==
  ASSUME FireInv, UserStep
  PROVE  FireInv' /\ RowsMove /\ CountsMove
<1>1. PICK s \in Schedules : Update(s) \/ EnableByUser(s) \/ DisableByUser(s) \/ Remove(s)
  BY DEF UserStep
<1>2. sched[s] \in ScheduleRow /\ clock \in Nat
  BY DEF FireInv, SchedTyped
<1>3. \A n \in FireTimes(clock) : n \in Nat /\ n > clock
  BY <1>2 DEF FireTimes
<1>4. ASSUME NEW n \in FireTimes(clock), Write(s, [sched[s] EXCEPT !.next = n])
      PROVE  FireInv' /\ RowsMove /\ CountsMove
  <2> DEFINE row == [sched[s] EXCEPT !.next = n]
  <2>1. /\ row \in ScheduleRow /\ row.next = n /\ row.live = sched[s].live
        /\ row.off = sched[s].off /\ row.ticks = sched[s].ticks
    BY <1>2, <1>3 DEF ScheduleRow
  <2> HIDE DEF row
  <2>2. Write(s, row)
    BY <1>4 DEF row
  <2> QED BY <1>3, <2>1, <2>2, WriteKeeps
<1>5. ASSUME NEW l \in Limits, Write(s, [sched[s] EXCEPT !.limit = l])
      PROVE  FireInv' /\ RowsMove /\ CountsMove
  <2> DEFINE row == [sched[s] EXCEPT !.limit = l]
  <2>1. /\ row \in ScheduleRow /\ row.next = sched[s].next /\ row.live = sched[s].live
        /\ row.off = sched[s].off /\ row.ticks = sched[s].ticks
    BY <1>2 DEF ScheduleRow
  <2> HIDE DEF row
  <2>2. Write(s, row)
    BY <1>5 DEF row
  <2> QED BY <2>1, <2>2, WriteKeeps
<1>6. CASE EnableByUser(s)
  <2>1. PICK n \in FireTimes(clock) :
          Write(s, [sched[s] EXCEPT !.off = "no", !.ticks = 0, !.next = n])
    BY <1>6 DEF EnableByUser
  <2> DEFINE row == [sched[s] EXCEPT !.off = "no", !.ticks = 0, !.next = n]
  <2>2. /\ row \in ScheduleRow /\ row.next = n /\ row.live = sched[s].live
        /\ row.off = "no" /\ row.ticks = 0
    <3>1. ASSUME NEW old \in ScheduleRow, NEW m \in Nat
          PROVE  LET x == [old EXCEPT !.off = "no", !.ticks = 0, !.next = m] IN
                 /\ x \in ScheduleRow /\ x.next = m /\ x.live = old.live
                 /\ x.off = "no" /\ x.ticks = 0
      BY DEF ScheduleRow
    <3> QED BY <1>2, <1>3, <3>1
  <2>3. Write(s, row)
    BY <2>1
  <2> HIDE DEF row
  <2> QED BY <1>3, <2>2, <2>3, WriteKeeps
<1>7. CASE DisableByUser(s)
  <2> DEFINE row == [sched[s] EXCEPT !.off = "manual"]
  <2>1. /\ row \in ScheduleRow /\ row.next = sched[s].next /\ row.live = sched[s].live
        /\ row.off = "manual" /\ row.ticks = sched[s].ticks
    BY <1>2 DEF ScheduleRow
  <2> HIDE DEF row
  <2>2. Write(s, row)
    BY <1>7 DEF DisableByUser, row
  <2> QED BY <2>1, <2>2, WriteKeeps
<1> QED BY <1>1, <1>4, <1>5, <1>6, <1>7, RemoveKeeps DEF Update

\* Time passes, or the API process dies and its tickers forget what they had.
LEMMA WorldKeeps ==
  ASSUME FireInv, TimePasses \/ ApiRestart
  PROVE  FireInv' /\ RowsMove /\ CountsMove
<1>1. /\ UNCHANGED <<sched, jobs>> /\ clock \in Nat /\ clock' \in Nat /\ clock' >= clock
      /\ restarts' \in Nat
  BY DEF TimePasses, ApiRestart, FireInv, SchedTyped
<1>2. tick' \in [Tickers -> Ticker] /\ \A t \in Tickers : Turned(t)
  <2>1. CASE TimePasses
    BY <1>1, <2>1, StillTurned DEF TimePasses, FireInv, SchedTyped
  <2>2. CASE ApiRestart
    <3>1. tick' = [t \in Tickers |-> Idle]
      BY <2>2 DEF ApiRestart
    <3> QED BY <1>1, <3>1, IdleFacts DEF Turned, Unspent
  <2> QED BY <2>1, <2>2
<1>3. SchedTyped' /\ NextMovesAhead /\ SameFires
  BY <1>1, <1>2 DEF FireInv, SchedTyped, NextMovesAhead, SameFires
<1>4. RowsMove /\ CountsMove
  BY <1>1 DEF RowsMove, CountsMove, Enabled, Counted
<1> QED BY <1>1, <1>2, <1>3, <1>4, QuietKeepsFires

\* A ticker moves next fires and switches off; it counts nothing.
LEMMA TickMovesRows ==
  ASSUME FireInv, NEW t \in Tickers, TickStep(t)
  PROVE  RowsMove /\ CountsMove
<1>1. SchedTyped /\ clock \in Nat /\ sched \in [Schedules -> ScheduleRow] /\ jobs \in Seq(JobRow)
  BY DEF FireInv, SchedTyped
<1>2. ASSUME UNCHANGED sched, \A s \in Schedules : Counted(s) \subseteq Counted(s)'
      PROVE  RowsMove /\ CountsMove
  BY <1>2 DEF RowsMove, CountsMove, Enabled
<1>3. ASSUME UNCHANGED <<sched, jobs>> PROVE RowsMove /\ CountsMove
  BY <1>2, <1>3 DEF Counted
<1>4. CASE NextDue(t)
  <2>1. PICK d \in tick[t].due :
          \/ UNCHANGED sched
          \/ \E n \in FireTimes(tick[t].now) : sched' = [sched EXCEPT ![d.sched].next = n]
    BY <1>4 DEF NextDue
  <2>2. UNCHANGED jobs
    BY <1>4 DEF NextDue
  <2>3. ASSUME NEW n, sched' = [sched EXCEPT ![d.sched].next = n]
        PROVE  \A s \in Schedules :
                 /\ sched'[s].live = sched[s].live /\ sched'[s].off = sched[s].off
                 /\ sched'[s].ticks = sched[s].ticks
    BY <1>1, <2>3 DEF ScheduleRow
  <2>4. ASSUME \A s \in Schedules :
                 /\ sched'[s].live = sched[s].live /\ sched'[s].off = sched[s].off
                 /\ sched'[s].ticks = sched[s].ticks
        PROVE  RowsMove /\ CountsMove
    BY <2>2, <2>4 DEF RowsMove, CountsMove, Enabled, Counted
  <2> QED BY <1>3, <2>1, <2>2, <2>3, <2>4
<1>5. CASE Disable(t)
  <2>1. /\ UNCHANGED jobs
        /\ \A s \in Schedules :
             /\ sched'[s].live = sched[s].live /\ sched'[s].ticks = sched[s].ticks
             /\ sched'[s] = sched[s] \/ (Enabled(s) /\ sched'[s].off = "auto")
    BY <1>1, <1>5, DisableRowFacts DEF Disable
  <2> QED BY <2>1 DEF RowsMove, CountsMove, Enabled, Counted
<1>6. CASE Absorb(t)
  <2>1. ASSUME NEW i, AbsorbInto(i, tick[t].cur)
        PROVE  \A s \in Schedules : Counted(s) \subseteq Counted(s)'
    <3>1. /\ DOMAIN jobs' = DOMAIN jobs
          /\ \A k \in DOMAIN jobs : jobs'[k].sched = jobs[k].sched /\ jobs'[k].counted = jobs[k].counted
      BY <1>1, <2>1 DEF AbsorbInto, JobRow
    <3> QED BY <3>1 DEF Counted
  <2> QED BY <1>2, <1>3, <1>6, <2>1 DEF Absorb
<1>7. CASE DispatchFresh(t)
  <2>1. ASSUME NEW s, NEW f, NEW fire, NewJob(s, f, fire)
        PROVE  \A u \in Schedules : Counted(u) \subseteq Counted(u)'
    <3>1. \A i \in DOMAIN jobs : i \in DOMAIN jobs' /\ jobs'[i] = jobs[i]
      BY <1>1, <2>1 DEF NewJob
    <3> QED BY <3>1 DEF Counted
  <2> QED BY <1>2, <1>3, <1>7, <2>1 DEF DispatchFresh
<1> QED BY <1>3, <1>4, <1>5, <1>6, <1>7
        DEF TickStep, Throws, Begin, LookForActive, CheckOwner, Recover, Link

-----------------------------------------------------------------------------
(* The invariant *)

\* Every step is quiet, a claim or a spending, and moves rows and counts as it may.
LEMMA EveryScheduleStep ==
  ASSUME FireInv, [ScheduleNext]_scheduleVars
  PROVE  FireInv' /\ RowsMove /\ CountsMove
<1>1. CASE UNCHANGED scheduleVars
  <2>1. FireInv'
    BY <1>1 DEF scheduleVars, FireInv, SchedTyped, TickersSound, FiresPassed, Passed, Answers,
                InHand, FireOnce
  <2> QED BY <1>1, <2>1 DEF scheduleVars, RowsMove, CountsMove, Enabled, Counted
<1> QED BY <1>1, TickKeepsFires, TickMovesRows, JobKeeps, UserKeeps, WorldKeeps DEF ScheduleNext

\* The counted jobs of a schedule are finitely many.
LEMMA CountedFinite ==
  ASSUME NEW js \in Seq(JobRow), NEW s
  PROVE  LET C == {i \in DOMAIN js : js[i].sched = s /\ js[i].counted} IN
         IsFiniteSet(C) /\ Cardinality(C) \in Nat
<1> DEFINE C == {i \in DOMAIN js : js[i].sched = s /\ js[i].counted}
<1>1. DOMAIN js = 1..Len(js) /\ Len(js) \in Nat /\ C \subseteq 1..Len(js)
  OBVIOUS
<1>2. IsFiniteSet(1..Len(js))
  BY <1>1, FS_Interval
<1> HIDE DEF C
<1>3. IsFiniteSet(C) /\ Cardinality(C) \in Nat
  BY <1>1, <1>2, FS_Subset, FS_CardinalityType
<1> QED BY <1>3 DEF C

\* The stall counter stays within the jobs that were counted.
LEMMA CountsStep ==
  ASSUME SchedTyped, SchedTyped', EachJobCountsOnce, RowsMove, CountsMove
  PROVE  EachJobCountsOnce'
<1>1. SUFFICES ASSUME NEW s \in Schedules, sched'[s].live
               PROVE  sched'[s].ticks <= Cardinality(Counted(s)')
  BY DEF EachJobCountsOnce, Counted
<1>2. sched[s].ticks <= Cardinality(Counted(s))
  BY <1>1 DEF EachJobCountsOnce, Counted, RowsMove
<1>3. /\ IsFiniteSet(Counted(s)) /\ Cardinality(Counted(s)) \in Nat
      /\ IsFiniteSet(Counted(s)') /\ Cardinality(Counted(s)') \in Nat
  <2>1. jobs \in Seq(JobRow)
    BY DEF SchedTyped
  <2>2. jobs' \in Seq(JobRow)
    BY DEF SchedTyped
  <2> QED BY <2>1, <2>2, CountedFinite DEF Counted
<1>4. sched[s].ticks \in Nat /\ sched'[s].ticks \in Nat
  BY DEF SchedTyped, ScheduleRow
<1>5. CASE sched'[s].ticks = 0
  BY <1>3, <1>5
<1>6. CASE sched'[s].ticks = sched[s].ticks /\ Counted(s) \subseteq Counted(s)'
  <2>1. Cardinality(Counted(s)) <= Cardinality(Counted(s)')
    BY <1>3, <1>6, FS_Subset
  <2> QED BY <1>2, <1>3, <1>4, <1>6, <2>1
<1>7. ASSUME sched'[s].ticks = sched[s].ticks + 1, NEW i \in Counted(s)' \ Counted(s),
             Counted(s) \subseteq Counted(s)'
      PROVE  sched'[s].ticks <= Cardinality(Counted(s)')
  <2>1. Cardinality(Counted(s) \cup {i}) = Cardinality(Counted(s)) + 1
    BY <1>3, FS_AddElement
  <2>2. Counted(s) \cup {i} \subseteq Counted(s)'
    BY <1>7
  <2>3. Cardinality(Counted(s) \cup {i}) <= Cardinality(Counted(s)')
    BY <1>3, <2>2, FS_Subset
  <2> QED BY <1>2, <1>3, <1>4, <1>7, <2>1, <2>3
<1> QED BY <1>1, <1>5, <1>6, <1>7 DEF CountsMove

\* The strengthened invariant holds in every reachable state.
THEOREM ScheduleInvariance == ScheduleSpec => []SchedInv
<1>1. ScheduleInit => SchedInv
  <2> SUFFICES ASSUME ScheduleInit PROVE SchedInv
    OBVIOUS
  <2>1. \A s \in Schedules : sched[s] \in ScheduleRow /\ sched[s].ticks = 0
    <3>1. ASSUME NEW row \in [live: {TRUE}, off: {"no"}, next: {1}, limit: Limits,
                              ticks: {0}, passed: {0}]
          PROVE  row \in ScheduleRow /\ row.ticks = 0
      <4>1. {TRUE} \subseteq BOOLEAN
        OBVIOUS
      <4>2. ASSUME NEW L, L \subseteq BOOLEAN, row \in [live: L, off: {"no"}, next: {1}, limit: Limits,
                                                       ticks: {0}, passed: {0}]
            PROVE  row \in ScheduleRow /\ row.ticks = 0
        BY <4>2 DEF ScheduleRow
      <4> QED BY <3>1, <4>1, <4>2
    <3> QED BY <3>1 DEF ScheduleInit
  <2>2. jobs = << >> /\ DOMAIN jobs = {} /\ jobs \in Seq(JobRow)
    BY DEF ScheduleInit
  <2>3. SchedTyped
    BY <2>1, <2>2, IdleFacts DEF ScheduleInit, SchedTyped
  <2>4. \A t \in Tickers : tick[t] = Idle
    BY DEF ScheduleInit
  <2>5. TickersSound /\ FiresPassed /\ InHand /\ FireOnce
    BY <2>2, <2>4, IdleFacts
       DEF ScheduleInit, TickersSound, FiresPassed, InHand, FireOnce, Unspent
  <2>6. OnHasTicksLeft
    BY <2>1, SomeLimit DEF OnHasTicksLeft
  <2>7. EachJobCountsOnce
    <3>1. ASSUME NEW s \in Schedules PROVE sched[s].ticks <= Cardinality(Counted(s))
      <4>1. Cardinality(Counted(s)) \in Nat
        BY <2>2, CountedFinite DEF Counted
      <4> QED BY <2>1, <4>1
    <3> QED BY <3>1 DEF EachJobCountsOnce, Counted
  <2> QED BY <2>3, <2>5, <2>6, <2>7 DEF SchedInv, FireInv
<1>2. SchedInv /\ [ScheduleNext]_scheduleVars => SchedInv'
  <2> SUFFICES ASSUME SchedInv, [ScheduleNext]_scheduleVars PROVE SchedInv'
    OBVIOUS
  <2>1. FireInv' /\ RowsMove /\ CountsMove
    BY EveryScheduleStep DEF SchedInv
  <2>2. OnHasTicksLeft'
    BY <2>1 DEF SchedInv, OnHasTicksLeft, RowsMove
  <2>3. EachJobCountsOnce'
    BY <2>1, CountsStep DEF SchedInv, FireInv
  <2> QED BY <2>1, <2>2, <2>3 DEF SchedInv
<1> QED BY <1>1, <1>2, PTL DEF ScheduleSpec

\* Rows and tickers keep their types, and a schedule that is on may still stall.
THEOREM ScheduleTypes == ScheduleSpec => []ScheduleTypeOK
<1>1. SchedInv => ScheduleTypeOK
  BY DEF SchedInv, FireInv, SchedTyped, OnHasTicksLeft, ScheduleTypeOK
<1> QED BY <1>1, ScheduleInvariance, PTL

\* A fire starts or joins one job, whatever ticks overlap, users edit and crashes lose.
THEOREM FiresOnce == ScheduleSpec => []FireOnce
<1>1. SchedInv => FireOnce
  BY DEF SchedInv, FireInv
<1> QED BY <1>1, ScheduleInvariance, PTL

\* The stall counter never exceeds the jobs that ended (scheduleCountedAt).
THEOREM CountsOnce == ScheduleSpec => []EachJobCountsOnce
<1>1. SchedInv => EachJobCountsOnce
  BY DEF SchedInv
<1> QED BY <1>1, ScheduleInvariance, PTL

\* A schedule that a user switched off stays so until a user enables it.
THEOREM ManualHolds == ScheduleSpec => ManualOffStays
<1>1. SchedInv /\ [ScheduleNext]_scheduleVars =>
        [\A s \in Schedules : sched[s].live /\ sched[s].off = "manual" =>
           \/ sched'[s].off = "manual"
           \/ sched'[s].off = "no" /\ sched'[s].ticks = 0 /\ sched'[s].next > clock]_scheduleVars
  BY EveryScheduleStep DEF SchedInv, RowsMove
<1> QED BY <1>1, ScheduleInvariance, PTL DEF ScheduleSpec, ManualOffStays
=============================================================================
