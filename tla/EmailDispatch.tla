----------------------------- MODULE EmailDispatch -----------------------------
(***************************************************************************)
(* Notifications and their emails behind the outbox: the notification      *)
(* handler of an event writes each notification once, and with it the row  *)
(* of a delayed email; a dispatcher claims the rows that are due, builds   *)
(* and sends, and marks what became of each.                               *)
(*                                                                         *)
(* One notification and one email stand for those of an event.  The mail   *)
(* server and the database may fail, and a mail may be accepted though the *)
(* server's reply is lost; what was sent is not taken back.                *)
(***************************************************************************)
EXTENDS OutboxRelay

CONSTANTS
  Ticks,       \* calls of the dispatcher's timer in one API process
  MaxSends,    \* email maxAttempts
  MaxBlips     \* statements or builds that fail, replies of the mail server that
               \* are lost, and dispatchers that die: a bound

ASSUME MailAssumption == MaxSends \in Nat \ {0} /\ MaxBlips \in Nat

VARIABLES
  mail,     \* EmailSchedule rows, one for the notification of an event
  ticking,  \* the dispatcher's guard against overlapping ticks
  tick,     \* what each call of the timer is doing
  blips,
  sent      \* history: emails handed to the mail server

mailVars == <<mail, ticking, tick, blips, sent>>
dispatchVars == <<outboxVars, mailVars>>

-----------------------------------------------------------------------------
MailStatuses == {"none", "PENDING", "SENDING", "SENT", "FAILED", "SKIPPED"}
MailRow == [status: MailStatuses, locked: BOOLEAN, attempts: Nat]

\* at: which call of the loop comes next; rows: claimed and not yet handled.
NoTick == [at |-> "idle", rows |-> {}, cur |-> {}]

\* The unique key of a notification makes a redelivery a no-op; its email row is
\* written in the same transaction.
Notified(e) ==
  IF mail[e].status = "none" THEN [mail EXCEPT ![e].status = "PENDING"] ELSE mail

HandleEvent(w, e) ==
  \/ /\ Handle(w, e, TRUE)
     /\ mail' = IF HandlersOf[e][relay[w].next] = "notify" THEN Notified(e) ELSE mail
     /\ UNCHANGED <<ticking, tick, blips, sent>>
  \/ Handle(w, e, FALSE) /\ UNCHANGED mailVars

-----------------------------------------------------------------------------
(* The dispatcher *)

\* mutant: ticks overlap.
MayAlwaysTick == TRUE

\* tickGuarded: a tick still in flight suppresses the next.
MayTick == ~ticking

Due(e) == mail[e].status = "PENDING" \/ (mail[e].status = "SENDING" /\ ~mail[e].locked)

\* claimDue: one statement; due is a matter of the clock.
ClaimDue(t, rows) ==
  /\ tick[t].at = "idle" /\ MayTick
  /\ rows # {} /\ \A e \in rows : Due(e)
  /\ ticking' = TRUE
  /\ mail' = [e \in Events |->
       IF e \in rows THEN [status |-> "SENDING", locked |-> TRUE, attempts |-> mail[e].attempts + 1]
                     ELSE mail[e]]
  /\ tick' = [tick EXCEPT ![t] = [at |-> "next", rows |-> rows, cur |-> {}]]
  /\ UNCHANGED <<outboxVars, blips, sent>>

Goes(t, step)  == tick' = [tick EXCEPT ![t].at = step]
Sets(e, status) == mail' = [mail EXCEPT ![e].status = status, ![e].locked = FALSE]
RowDone(t)     == tick' = [tick EXCEPT ![t].at = "next", ![t].cur = {}]

NextRow(t) ==
  /\ tick[t].at = "next"
  /\ IF tick[t].rows = {}
     THEN tick' = [tick EXCEPT ![t] = NoTick] /\ ticking' = FALSE
     ELSE /\ \E e \in tick[t].rows :
               tick' = [tick EXCEPT ![t] = [at |-> "build", rows |-> @.rows \ {e}, cur |-> {e}]]
          /\ UNCHANGED ticking
  /\ UNCHANGED <<outboxVars, mail, blips, sent>>

\* The content is built from what the database says now: read, gone or not
\* wanted any more means no email.
Build(t, e) ==
  /\ tick[t].at = "build" /\ tick[t].cur = {e}
  /\ \/ Sets(e, "SKIPPED") /\ RowDone(t)
     \/ Goes(t, "send") /\ UNCHANGED mail
  /\ UNCHANGED <<outboxVars, ticking, blips, sent>>

\* Handed over; refused; or handed over and send throws all the same, because the
\* reply is lost or late.
Send(t, e) ==
  /\ tick[t].at = "send" /\ tick[t].cur = {e}
  /\ \/ sent' = [sent EXCEPT ![e] = @ + 1] /\ Goes(t, "mark") /\ UNCHANGED blips
     \/ Goes(t, "error") /\ UNCHANGED <<sent, blips>>
     \/ /\ blips < MaxBlips /\ blips' = blips + 1
        /\ sent' = [sent EXCEPT ![e] = @ + 1] /\ Goes(t, "error")
  /\ UNCHANGED <<outboxVars, mail, ticking>>

MarkSent(t, e) ==
  /\ tick[t].at = "mark" /\ tick[t].cur = {e}
  /\ Sets(e, "SENT") /\ RowDone(t)
  /\ UNCHANGED <<outboxVars, ticking, blips, sent>>

\* A failed send, and a failed markSent: for ever, or to be sent again.
Exhausted(e) == mail[e].attempts >= MaxSends

MarkError(t, e) ==
  /\ tick[t].at = "error" /\ tick[t].cur = {e}
  /\ \/ Sets(e, "FAILED")    \* exhausted, or an error that is permanent
     \/ ~Exhausted(e) /\ Sets(e, "PENDING")
  /\ RowDone(t)
  /\ UNCHANGED <<outboxVars, ticking, blips, sent>>

\* tick's own catch: the row is to be tried again, however often it was.
BackOff(t, e) ==
  /\ tick[t].at = "backoff" /\ tick[t].cur = {e}
  /\ Sets(e, "PENDING") /\ RowDone(t)
  /\ UNCHANGED <<outboxVars, ticking, blips, sent>>

\* A statement or the build throws; a throw of the last resort is only logged.
Blip(t) ==
  /\ blips < MaxBlips /\ blips' = blips + 1
  /\ \/ tick[t].at = "mark" /\ Goes(t, "error")
     \/ tick[t].at \in {"build", "error"} /\ Goes(t, "backoff")
     \/ tick[t].at = "backoff" /\ RowDone(t)
  /\ UNCHANGED <<outboxVars, mail, ticking, sent>>

\* The process dies.
DispatcherDies ==
  /\ blips < MaxBlips /\ blips' = blips + 1
  /\ ticking /\ ticking' = FALSE
  /\ tick' = [t \in Ticks |-> NoTick]
  /\ UNCHANGED <<outboxVars, mail, sent>>

\* lockedUntil passes, the row claimed by a tick that is dead or slow.
LockEnds(e) ==
  /\ mail[e].status = "SENDING" /\ mail[e].locked
  /\ mail' = [mail EXCEPT ![e].locked = FALSE]
  /\ UNCHANGED <<outboxVars, ticking, tick, blips, sent>>

-----------------------------------------------------------------------------
DispatchInit ==
  /\ OutboxInit
  /\ mail = [e \in Events |-> [status |-> "none", locked |-> FALSE, attempts |-> 0]]
  /\ ticking = FALSE /\ tick = [t \in Ticks |-> NoTick]
  /\ blips = 0
  /\ sent = [e \in Events |-> 0]

\* The steps of the outbox, the mail left alone.
Outbox(A) == A /\ UNCHANGED mailVars

RelayStep(w) ==
  \/ Outbox(Polls(w)) \/ Outbox(Works(w))
  \/ \E e \in Events : HandleEvent(w, e)

TickStep(t) ==
  \/ NextRow(t) \/ Blip(t)
  \/ \E e \in Events : Build(t, e) \/ Send(t, e) \/ MarkSent(t, e) \/ MarkError(t, e) \/ BackOff(t, e)
Timer == \E t \in Ticks : \E rows \in SUBSET Events : ClaimDue(t, rows)

DispatchNext ==
  \/ \E w \in Relays : RelayStep(w) \/ Outbox(Die(w))
  \/ \E e \in Events : Outbox(Record(e)) \/ Outbox(LeaseEnds(e)) \/ LockEnds(e)
  \/ Outbox(Operator)
  \/ \E t \in Ticks : TickStep(t)
  \/ Timer \/ DispatcherDies

DispatchSpec == DispatchInit /\ [][DispatchNext]_dispatchVars

\* Relays poll and work, the timer ticks, leases and locks run out; an event or
\* an email that is due stays first in its queue until it is claimed.
FairDispatchSpec ==
  /\ DispatchSpec
  /\ \A w \in Relays : WF_dispatchVars(RelayStep(w))
  /\ \A t \in Ticks : WF_dispatchVars(TickStep(t))
  /\ \A e \in Events :
       /\ WF_dispatchVars(Outbox(LeaseEnds(e))) /\ WF_dispatchVars(LockEnds(e))
       /\ SF_dispatchVars(\E w \in Relays, batch \in SUBSET Events :
                            e \in batch /\ Outbox(Claim(w, batch)))
       /\ SF_dispatchVars(\E t \in Ticks, rows \in SUBSET Events : e \in rows /\ ClaimDue(t, rows))

-----------------------------------------------------------------------------
MailTypeOK ==
  /\ OutboxTypeOK
  /\ mail \in [Events -> MailRow]
  /\ ticking = \E t \in Ticks : tick[t].at # "idle"
  /\ \A t \in Ticks : /\ tick[t].at \in {"idle", "next", "build", "send", "mark", "error", "backoff"}
                      /\ tick[t].rows \subseteq Events /\ tick[t].cur \subseteq Events
  /\ sent \in [Events -> Nat] /\ blips \in Nat

\* However often its event is redelivered and its row claimed anew, an email goes
\* out once more only if, after the mail server took it, the server's reply was
\* lost or the database or the process failed: at most one copy more for each of
\* these (tickGuarded, claimDue, sendOne, unique notificationId).
SentOnce == \A e \in Events : sent[e] <= 1 + blips

\* Every event comes to an end, and so does its email, though a relay dies with
\* its claim or outlives it, handlers and sends fail, and the timer's ticks overlap.
EventEnds ==
  LET busy(e) == Waits(e) \/ mail[e].status \in {"PENDING", "SENDING"} IN
  \A e \in Events : busy(e) ~> ~busy(e)

=============================================================================
