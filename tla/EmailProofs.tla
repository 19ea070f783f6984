------------------------------- MODULE EmailProofs -------------------------------
(***************************************************************************)
(* Theorems about events and their emails, for any events, relays, ticks,  *)
(* handlers, batches and bounds.  The outbox's part says what a relay that *)
(* works on an event knows of it (Progress, Seen); the mail's part that    *)
(* the rows a tick holds are its own (TickInv), so what was sent and is    *)
(* not marked is in one hand (SentInv).                                    *)
(***************************************************************************)
EXTENDS EmailDispatch, TLAPS

RelayMemory == [todo: SUBSET Events, cur: SUBSET Events, next: Nat, failed: BOOLEAN,
                seen: [Events -> Nat]]
TickMemory == [at: {"idle", "next", "build", "send", "mark", "error", "backoff"},
               rows: SUBSET Events, cur: SUBSET Events]

OutboxTyped ==
  /\ event \in [Events -> EventRow] /\ relay \in [Relays -> RelayMemory]
  /\ \A w \in Relays : relay[w].cur # {} => relay[w].next >= 1
  /\ reached \in [Events -> SUBSET STRING] /\ \A e \in Events : reached[e] \subseteq Handlers(e)
  /\ tries \in [Events -> Nat] /\ retries \in Nat /\ late \in Nat

\* While no handler of the event under way has failed, all those before the next
\* one were reached.
Progress ==
  \A w \in Relays, e \in Events : relay[w].cur = {e} /\ ~relay[w].failed =>
    \A i \in DOMAIN HandlersOf[e] : i < relay[w].next => HandlersOf[e][i] \in reached[e]

\* Attempts are counted from real ones, and a relay that still owns an event it
\* works on read the count that is there.
Seen ==
  \A e \in Events :
    /\ event[e].attempts <= tries[e]
    /\ \A w \in Relays : Owns(w, e) /\ Holds(w, e) => relay[w].seen[e] <= tries[e]

OutboxInv == OutboxTyped /\ Progress /\ PublishedReached /\ Seen /\ DeadWasTried

MailTyped ==
  /\ mail \in [Events -> MailRow] /\ tick \in [Ticks -> TickMemory]
  /\ ticking \in BOOLEAN /\ blips \in Nat /\ sent \in [Events -> Nat]

\* One tick at a time, and the rows it holds wait for it.
TickInv ==
  /\ ticking = \E t \in Ticks : tick[t].at # "idle"
  /\ \A t, u \in Ticks : tick[t].at # "idle" /\ tick[u].at # "idle" => t = u
  /\ \A t \in Ticks :
       /\ tick[t].at = "idle" => tick[t].rows = {} /\ tick[t].cur = {}
       /\ tick[t].at = "next" => tick[t].cur = {}
       /\ tick[t].rows \cap tick[t].cur = {}
       /\ \A e \in tick[t].rows \cup tick[t].cur : mail[e].status = "SENDING"

\* What was sent oftener than something failed was marked, or is about to be.
ToMark(t, e) == tick[t].at = "mark" /\ tick[t].cur = {e}
SentInv ==
  \A e \in Events :
    /\ sent[e] <= 1 + blips
    /\ sent[e] <= blips \/ mail[e].status = "SENT" \/ \E t \in Ticks : ToMark(t, e)

MailInv == MailTyped /\ TickInv /\ SentInv

-----------------------------------------------------------------------------
(* The outbox *)

\* The memory of a relay that does nothing.
LEMMA IdleIsMemory == Idle \in RelayMemory
BY DEF Idle, RelayMemory

\* What a mark leaves.
LEMMA FreedIsRow ==
  ASSUME event \in [Events -> EventRow], NEW e \in Events, NEW status \in Statuses,
         NEW attempts \in Nat
  PROVE  /\ Freed(e, status, attempts) \in EventRow
         /\ Freed(e, status, attempts).status = status
         /\ Freed(e, status, attempts).attempts = attempts
BY DEF Freed, EventRow

\* A step that only frees a row, for another end or for another try.
LEMMA FreePreserves ==
  ASSUME OutboxInv, NEW e \in Events, NEW status \in {"pending", "purged"},
         event' = [event EXCEPT ![e] = Freed(e, status, 0)],
         tries' \in [Events -> Nat], \A d \in Events : d # e => tries'[d] = tries[d],
         UNCHANGED <<relay, late, reached>>, retries' \in Nat
  PROVE  OutboxInv'
<1>1. /\ Freed(e, status, 0) \in EventRow /\ Freed(e, status, 0).status = status
      /\ Freed(e, status, 0).attempts = 0 /\ event \in [Events -> EventRow]
  BY FreedIsRow DEF OutboxInv, OutboxTyped, Statuses
<1>2. /\ event' \in [Events -> EventRow]
      /\ \A d \in Events : IF d = e THEN event'[d].status = status /\ event'[d].attempts = 0
                                    ELSE event'[d] = event[d]
  BY <1>1
<1>3. OutboxTyped'
  BY <1>2 DEF OutboxInv, OutboxTyped
<1>4. Progress'
  BY DEF OutboxInv, Progress
<1>5. PublishedReached' /\ DeadWasTried'
  BY <1>2 DEF OutboxInv, PublishedReached, DeadWasTried
<1>6. Seen'
  BY <1>2 DEF OutboxInv, Seen, Owns, Holds
<1> QED BY <1>3, <1>4, <1>5, <1>6 DEF OutboxInv

\* A step that touches neither the ends nor the counts of rows, and no relay.
LEMMA QuietPreserves ==
  ASSUME OutboxInv, event' \in [Events -> EventRow],
         \A d \in Events : /\ event'[d].attempts = event[d].attempts
                           /\ event'[d].status = event[d].status \/ event'[d].status = "pending"
                           /\ event'[d].owner = event[d].owner,
         \A d \in Events : event'[d].status = "processing" => event[d].status = "processing",
         UNCHANGED <<relay, retries, reached, tries>>, late' \in Nat
  PROVE  OutboxInv'
<1>1. OutboxTyped' /\ Progress'
  BY DEF OutboxInv, OutboxTyped, Progress
<1>2. PublishedReached' /\ DeadWasTried'
  BY DEF OutboxInv, PublishedReached, DeadWasTried
<1>3. Seen'
  BY DEF OutboxInv, Seen, Owns, Holds
<1> QED BY <1>1, <1>2, <1>3 DEF OutboxInv

\* A relay that claims reads the counts of what it claims.
LEMMA ClaimPreserves ==
  ASSUME OutboxInv, NEW w \in Relays, NEW batch \in SUBSET Events, Claim(w, batch)
  PROVE  OutboxInv'
<1> DEFINE seen == [e \in Events |-> IF e \in batch THEN event[e].attempts ELSE 0]
<1>1. /\ event \in [Events -> EventRow] /\ relay \in [Relays -> RelayMemory]
      /\ \A e \in Events : event[e].attempts \in Nat
  BY DEF OutboxInv, OutboxTyped, EventRow
<1>2. /\ event' \in [Events -> EventRow]
      /\ \A e \in Events : /\ event'[e].attempts = event[e].attempts
                           /\ e \notin batch => event'[e] = event[e]
                           /\ e \in batch => event'[e].status = "processing" /\ event'[e].owner = w
  <2> DEFINE Row(e) == [event[e] EXCEPT !.status = "processing", !.owner = w, !.leased = TRUE]
  <2>1. event' = [e \in Events |-> IF e \in batch THEN Row(e) ELSE event[e]]
    BY DEF Claim
  <2>2. \A e \in Events : /\ Row(e) \in EventRow /\ Row(e).attempts = event[e].attempts
                          /\ Row(e).status = "processing" /\ Row(e).owner = w
    BY <1>1 DEF EventRow, Statuses
  <2> HIDE DEF Row
  <2>3. event' \in [Events -> EventRow]
    BY <2>1, <2>2, <1>1
  <2>4. \A e \in Events : event'[e] = IF e \in batch THEN Row(e) ELSE event[e]
    BY <2>1
  <2> QED BY <2>2, <2>3, <2>4
<1>3. seen \in [Events -> Nat] /\ \A e \in batch : seen[e] = event[e].attempts
  BY <1>1
<1>4. relay' = [relay EXCEPT ![w].todo = batch, ![w].seen = seen]
  BY DEF Claim
<1> HIDE DEF seen
<1>5. /\ relay' \in [Relays -> RelayMemory]
      /\ \A v \in Relays \ {w} : relay'[v] = relay[v]
      /\ relay'[w].todo = batch /\ relay'[w].seen = seen /\ relay'[w].cur = {} /\ relay[w].cur = {}
  <2> DEFINE m == [relay[w] EXCEPT !.todo = batch, !.seen = seen]
  <2>1. m \in RelayMemory /\ m.todo = batch /\ m.seen = seen /\ m.cur = relay[w].cur
    BY <1>1, <1>3 DEF RelayMemory
  <2>2. relay' = [relay EXCEPT ![w] = m]
    BY <1>1, <1>4
  <2> HIDE DEF m
  <2> QED BY <1>1, <2>1, <2>2 DEF Claim
<1>6. OutboxTyped'
  BY <1>2, <1>5 DEF Claim, OutboxInv, OutboxTyped
<1>7. Progress'
  BY <1>5 DEF Claim, OutboxInv, Progress
<1>8. PublishedReached' /\ DeadWasTried'
  BY <1>2 DEF Claim, OutboxInv, PublishedReached, DeadWasTried
<1>9. Seen'
  <2> SUFFICES ASSUME NEW e \in Events, NEW v \in Relays, Owns(v, e)', Holds(v, e)'
               PROVE  relay'[v].seen[e] <= tries[e]
    BY <1>2 DEF Claim, OutboxInv, Seen
  <2>1. CASE e \in batch
    <3>1. v = w
      BY <2>1, <1>2 DEF Owns
    <3> QED BY <3>1, <2>1, <1>3, <1>5 DEF OutboxInv, Seen
  <2>2. CASE e \notin batch
    <3>1. v # w
      BY <2>2, <1>5 DEF Holds
    <3>2. Owns(v, e) /\ Holds(v, e)
      BY <3>1, <2>2, <1>2, <1>5 DEF Owns, Holds
    <3> QED BY <3>1, <3>2, <1>5 DEF OutboxInv, Seen
  <2> QED BY <2>1, <2>2
<1> QED BY <1>6, <1>7, <1>8, <1>9 DEF OutboxInv

\* A relay begins an event with its first handler.
LEMMA TakeUpPreserves ==
  ASSUME OutboxInv, NEW w \in Relays, NEW e \in Events, TakeUp(w, e)
  PROVE  OutboxInv'
<1> DEFINE m == [relay[w] EXCEPT !.todo = @ \ {e}, !.cur = {e}, !.next = 1, !.failed = FALSE]
<1>1. relay \in [Relays -> RelayMemory] /\ relay[w] \in RelayMemory
  BY DEF OutboxInv, OutboxTyped
<1>2. /\ m \in RelayMemory /\ m.todo = relay[w].todo \ {e} /\ m.cur = {e} /\ m.next = 1
      /\ m.seen = relay[w].seen
  BY <1>1 DEF RelayMemory
<1>3. relay' = [relay EXCEPT ![w] = m]
  BY <1>1 DEF TakeUp
<1> HIDE DEF m
<1>4. /\ relay' \in [Relays -> RelayMemory] /\ relay'[w] = m
      /\ \A v \in Relays \ {w} : relay'[v] = relay[v]
  BY <1>1, <1>2, <1>3
<1>5. UNCHANGED <<event, retries, late, reached, tries>> /\ e \in relay[w].todo
  BY DEF TakeUp
<1>6. OutboxTyped' /\ PublishedReached' /\ DeadWasTried'
  <2>1. \A v \in Relays : relay'[v].cur # {} => relay'[v].next >= 1
    BY <1>2, <1>4 DEF OutboxInv, OutboxTyped
  <2> QED BY <2>1, <1>4, <1>5 DEF OutboxInv, OutboxTyped, PublishedReached, DeadWasTried
<1>7. Progress'
  <2>1. \A d \in Events : \A i \in DOMAIN HandlersOf[d] : ~(i < 1)
    BY HandlerAssumption
  <2> QED BY <2>1, <1>2, <1>4, <1>5 DEF OutboxInv, Progress
<1>8. Seen'
  <2>1. \A v \in Relays, d \in Events : /\ Holds(v, d)' => Holds(v, d)
                                        /\ relay'[v].seen = relay[v].seen
    BY <1>2, <1>4, <1>5 DEF Holds
  <2> QED BY <2>1, <1>5 DEF OutboxInv, Seen, Owns
<1> QED BY <1>6, <1>7, <1>8 DEF OutboxInv

\* A handler that succeeds is one more that was reached.
LEMMA HandlePreserves ==
  ASSUME OutboxInv, NEW w \in Relays, NEW e \in Events, NEW ok \in BOOLEAN, Handle(w, e, ok)
  PROVE  OutboxInv'
<1> DEFINE n == relay[w].next
           failed == relay[w].failed \/ ~ok
           m == [relay[w] EXCEPT !.next = n + 1, !.failed = failed]
<1>1. /\ relay \in [Relays -> RelayMemory] /\ relay[w] \in RelayMemory
      /\ failed \in BOOLEAN /\ n \in Nat
  BY DEF OutboxInv, OutboxTyped, RelayMemory
<1>2. relay' = [relay EXCEPT ![w] = m]
  BY <1>1 DEF Handle, Next
<1>3. ~failed => ~relay[w].failed /\ ok
  OBVIOUS
<1> HIDE DEF failed
<1>4. /\ m \in RelayMemory /\ m.todo = relay[w].todo /\ m.cur = relay[w].cur
      /\ m.seen = relay[w].seen /\ m.next = n + 1 /\ m.failed = failed
  <2>1. CASE failed
    <3>1. m = [relay[w] EXCEPT !.next = n + 1, !.failed = TRUE] /\ (failed <=> TRUE)
      BY <2>1, <1>1
    <3>2. n + 1 \in Nat
      BY <1>1
    <3> HIDE DEF m, n
    <3>3. m \in RelayMemory
      BY <3>1, <3>2, <1>1 DEF RelayMemory
    <3>4. m.todo = relay[w].todo /\ m.cur = relay[w].cur
      BY <3>1, <1>1 DEF RelayMemory
    <3>5. m.seen = relay[w].seen /\ m.next = n + 1
      BY <3>1, <1>1 DEF RelayMemory
    <3>6. m.failed = TRUE
      BY <3>1, <1>1 DEF RelayMemory
    <3> QED BY <3>1, <3>3, <3>4, <3>5, <3>6
  <2>2. CASE ~failed
    <3>1. m = [relay[w] EXCEPT !.next = n + 1, !.failed = FALSE] /\ (failed <=> FALSE)
      BY <2>2, <1>1
    <3>2. n + 1 \in Nat
      BY <1>1
    <3> HIDE DEF m, n
    <3>3. m \in RelayMemory
      BY <3>1, <3>2, <1>1 DEF RelayMemory
    <3>4. m.todo = relay[w].todo /\ m.cur = relay[w].cur
      BY <3>1, <1>1 DEF RelayMemory
    <3>5. m.seen = relay[w].seen /\ m.next = n + 1
      BY <3>1, <1>1 DEF RelayMemory
    <3>6. m.failed = FALSE
      BY <3>1, <1>1 DEF RelayMemory
    <3> QED BY <3>1, <3>3, <3>4, <3>5, <3>6
  <2> QED BY <2>1, <2>2
<1> HIDE DEF m
<1>5. /\ relay' \in [Relays -> RelayMemory] /\ relay'[w] = m
      /\ \A v \in Relays \ {w} : relay'[v] = relay[v]
  BY <1>1, <1>2, <1>4
<1>6. UNCHANGED <<event, retries, late, tries>> /\ relay[w].cur = {e} /\ n <= Len(HandlersOf[e])
  BY DEF Handle
<1>7. /\ reached' \in [Events -> SUBSET STRING]
      /\ \A d \in Events : reached[d] \subseteq reached'[d] /\ reached'[d] \subseteq Handlers(d)
      /\ ok => HandlersOf[e][n] \in reached'[e]
  <2>1. reached \in [Events -> SUBSET STRING] /\ \A d \in Events : reached[d] \subseteq Handlers(d)
    BY DEF OutboxInv, OutboxTyped
  <2>2. CASE ~ok
    BY <2>1, <2>2 DEF Handle
  <2>3. CASE ok
    <3>1. HandlersOf[e] \in Seq(STRING) /\ n >= 1
      BY <1>6, HandlerAssumption DEF OutboxInv, OutboxTyped
    <3>2. n \in DOMAIN HandlersOf[e]
      BY <3>1, <1>1, <1>6
    <3>3. HandlersOf[e][n] \in Handlers(e) /\ HandlersOf[e][n] \in STRING
      BY <3>1, <3>2 DEF Handlers
    <3>4. reached' = [reached EXCEPT ![e] = @ \cup {HandlersOf[e][n]}]
      BY <2>3 DEF Handle
    <3>5. reached'[e] = reached[e] \cup {HandlersOf[e][n]}
      BY <3>4, <2>1
    <3>6. \A d \in Events : /\ d # e => reached'[d] = reached[d]
      BY <3>4, <2>1
    <3>7. reached' \in [Events -> SUBSET STRING]
      BY <3>3, <3>4, <2>1
    <3>8. reached[e] \subseteq reached'[e] /\ reached'[e] \subseteq Handlers(e)
      BY <3>3, <3>5, <2>1
    <3> QED BY <3>5, <3>6, <3>7, <3>8, <2>1
  <2> QED BY <2>2, <2>3
<1>8. OutboxTyped'
  <2>1. \A v \in Relays : relay'[v].cur # {} => relay'[v].next >= 1
    BY <1>1, <1>4, <1>5 DEF OutboxInv, OutboxTyped
  <2> QED BY <2>1, <1>5, <1>6, <1>7 DEF OutboxInv, OutboxTyped
<1>9. Progress'
  <2> SUFFICES ASSUME NEW v \in Relays, NEW d \in Events, relay'[v].cur = {d}, ~relay'[v].failed,
                      NEW i \in DOMAIN HandlersOf[d], i < relay'[v].next
               PROVE  HandlersOf[d][i] \in reached'[d]
    BY DEF Progress
  <2>1. CASE v # w
    BY <2>1, <1>5, <1>7 DEF OutboxInv, Progress
  <2>2. CASE v = w
    <3>4. d = e /\ ok /\ ~relay[w].failed /\ i < n + 1
      BY <2>2, <1>3, <1>4, <1>5, <1>6
    <3>5. HandlersOf[d] \in Seq(STRING)
      BY HandlerAssumption
    <3>6. i \in Nat
      BY <3>5
    <3>1. d = e /\ ok /\ ~relay[w].failed /\ (i < n \/ i = n)
      BY <3>4, <3>6, <1>1
    <3>2. CASE i < n
      BY <3>1, <3>2, <1>6, <1>7 DEF OutboxInv, Progress
    <3>3. CASE i = n
      BY <3>1, <3>3, <1>7
    <3> QED BY <3>1, <3>2, <3>3
  <2> QED BY <2>1, <2>2
<1>10. PublishedReached' /\ DeadWasTried'
  <2>1. \A d \in Events : reached[d] = Handlers(d) => reached'[d] = Handlers(d)
    BY <1>7
  <2> QED BY <2>1, <1>6 DEF OutboxInv, PublishedReached, DeadWasTried, Handlers
<1>11. Seen'
  <2>1. \A v \in Relays, d \in Events : /\ Holds(v, d)' => Holds(v, d)
                                        /\ relay'[v].seen = relay[v].seen
    BY <1>4, <1>5 DEF Holds
  <2> QED BY <2>1, <1>6 DEF OutboxInv, Seen, Owns
<1> QED BY <1>8, <1>9, <1>10, <1>11 DEF OutboxInv

\* A relay marks only what it owns, after every handler ran.
LEMMA FinishPreserves ==
  ASSUME OutboxInv, NEW w \in Relays, NEW e \in Events, Finish(w, e)
  PROVE  OutboxInv'
<1> DEFINE seen == [relay[w].seen EXCEPT ![e] = 0]
           m == [relay[w] EXCEPT !.cur = {}, !.next = 0, !.failed = FALSE, !.seen = seen]
           attempts == relay[w].seen[e] + 1
<1>1. /\ relay \in [Relays -> RelayMemory] /\ relay[w] \in RelayMemory
      /\ event \in [Events -> EventRow] /\ tries \in [Events -> Nat] /\ relay[w].seen[e] \in Nat
  BY DEF OutboxInv, OutboxTyped, RelayMemory
<1>2. /\ m \in RelayMemory /\ m.todo = relay[w].todo /\ m.cur = {}
      /\ \A d \in Events : m.seen[d] <= relay[w].seen[d]
  <2>1. seen \in [Events -> Nat] /\ \A d \in Events : seen[d] <= relay[w].seen[d]
    BY <1>1 DEF RelayMemory
  <2> HIDE DEF seen
  <2> QED BY <2>1, <1>1 DEF RelayMemory
<1>3. relay' = [relay EXCEPT ![w] = m]
  BY <1>1 DEF Finish
<1> HIDE DEF m
<1>4. /\ relay' \in [Relays -> RelayMemory] /\ relay'[w] = m
      /\ \A v \in Relays \ {w} : relay'[v] = relay[v]
  BY <1>1, <1>2, <1>3
<1>5. UNCHANGED <<retries, late, reached>> /\ relay[w].cur = {e} /\ Holds(w, e)
      /\ relay[w].next > Len(HandlersOf[e])
  BY DEF Finish, Holds
<1>6. /\ tries' \in [Events -> Nat] /\ \A d \in Events : tries[d] <= tries'[d]
      /\ relay[w].failed => tries'[e] = tries[e] + 1
  BY <1>1 DEF Finish
<1>7. PICK status \in {"published", "dead", "pending"}, count \in Nat :
        /\ Marks(w, e, status, count)
        /\ count <= IF relay[w].failed THEN attempts ELSE relay[w].seen[e]
        /\ status = "published" => ~relay[w].failed
        /\ status = "dead" => relay[w].failed /\ count >= MaxAttempts /\ count = attempts
  <2> DEFINE P(status, count) ==
               /\ Marks(w, e, status, count)
               /\ count <= IF relay[w].failed THEN attempts ELSE relay[w].seen[e]
               /\ status = "published" => ~relay[w].failed
               /\ status = "dead" => relay[w].failed /\ count >= MaxAttempts /\ count = attempts
  <2>1. CASE ~relay[w].failed
    <3>1. Marks(w, e, "published", relay[w].seen[e])
      BY <2>1 DEF Finish
    <3>2. P("published", relay[w].seen[e])
      BY <3>1, <2>1, <1>1
    <3> QED BY <3>2, <1>1
  <2>2. CASE relay[w].failed /\ attempts >= MaxAttempts
    <3>1. Marks(w, e, "dead", attempts)
      BY <2>2 DEF Finish
    <3>2. P("dead", attempts) /\ attempts \in Nat
      BY <3>1, <2>2, <1>1
    <3> QED BY <3>2
  <2>3. CASE relay[w].failed /\ ~(attempts >= MaxAttempts)
    <3>1. Marks(w, e, "pending", attempts)
      BY <2>3 DEF Finish
    <3>2. P("pending", attempts) /\ attempts \in Nat
      BY <3>1, <2>3, <1>1
    <3> QED BY <3>2
  <2> QED BY <2>1, <2>2, <2>3
<1>8. relay[w].next \in Nat /\ MaxAttempts \in Nat
  BY <1>1, OutboxAssumption DEF RelayMemory
<1>9. Progress'
  BY <1>2, <1>4, <1>5 DEF OutboxInv, Progress
<1>10. \A v \in Relays, d \in Events : /\ Holds(v, d)' => Holds(v, d)
                                       /\ relay'[v].seen[d] <= relay[v].seen[d]
                                       /\ relay'[v].seen[d] \in Nat /\ relay[v].seen[d] \in Nat
  BY <1>1, <1>2, <1>4 DEF Holds, RelayMemory
<1>11. \A v \in Relays : relay'[v].cur # {} => relay'[v].next >= 1
  BY <1>2, <1>4 DEF OutboxInv, OutboxTyped
<1>12. CASE UNCHANGED event
  <2>1. OutboxTyped' /\ PublishedReached'
    BY <1>4, <1>5, <1>6, <1>11, <1>12 DEF OutboxInv, OutboxTyped, PublishedReached
  <2>2. DeadWasTried'
    BY <1>1, <1>6, <1>8, <1>12 DEF OutboxInv, DeadWasTried
  <2>3. Seen'
    BY <1>1, <1>6, <1>10, <1>12 DEF OutboxInv, Seen, Owns, EventRow
  <2> QED BY <2>1, <2>2, <2>3, <1>9 DEF OutboxInv
<1>13. CASE Owns(w, e) /\ event' = [event EXCEPT ![e] = Freed(e, status, count)]
  <2>1. /\ event' \in [Events -> EventRow]
        /\ event'[e].status = status /\ event'[e].attempts = count
        /\ \A d \in Events \ {e} : event'[d] = event[d]
    BY <1>1, <1>13, FreedIsRow DEF Statuses
  <2>2. OutboxTyped'
    BY <2>1, <1>4, <1>5, <1>6, <1>11 DEF OutboxInv, OutboxTyped
  <2>3. relay[w].seen[e] <= tries[e] /\ count <= tries'[e]
    <3>1. relay[w].seen[e] <= tries[e]
      BY <1>5, <1>13 DEF OutboxInv, Seen
    <3> QED BY <3>1, <1>1, <1>6, <1>7
  <2>4. PublishedReached'
    <3>1. ASSUME status = "published" PROVE Handlers(e) \subseteq reached[e]
      <4>1. \A i \in DOMAIN HandlersOf[e] : i < relay[w].next
        BY <1>5, <1>8, HandlerAssumption
      <4> QED BY <4>1, <3>1, <1>5, <1>7 DEF OutboxInv, Progress, Handlers
    <3>2. reached[e] \subseteq Handlers(e)
      BY DEF OutboxInv, OutboxTyped
    <3>3. status = "published" => reached[e] = Handlers(e)
      BY <3>1, <3>2
    <3>4. reached' = reached
      BY <1>5
    <3> QED BY <3>3, <3>4, <2>1 DEF OutboxInv, PublishedReached, Handlers
  <2>5. DeadWasTried'
    BY <2>1, <2>3, <1>1, <1>6, <1>7, <1>8 DEF OutboxInv, DeadWasTried
  <2>6. Seen'
    <3>1. \A d \in Events : event'[d].attempts <= tries'[d]
      BY <2>1, <2>3, <1>1, <1>6 DEF OutboxInv, Seen, EventRow
    <3>2. \A d \in Events, v \in Relays : Owns(v, d)' => d # e /\ Owns(v, d)
      BY <2>1, <1>7 DEF Owns
    <3> QED BY <3>1, <3>2, <1>1, <1>6, <1>10 DEF OutboxInv, Seen
  <2> QED BY <2>2, <2>4, <2>5, <2>6, <1>9 DEF OutboxInv
<1> QED BY <1>7, <1>12, <1>13 DEF Marks

\* Every step of the outbox is one of those above.
LEMMA OutboxPreserves ==
  ASSUME OutboxInv,
         \/ \E w \in Relays : Polls(w) \/ Works(w) \/ Die(w)
         \/ \E w \in Relays, e \in Events, ok \in BOOLEAN : Handle(w, e, ok)
         \/ \E e \in Events : Record(e) \/ LeaseEnds(e)
         \/ Operator
  PROVE  OutboxInv'
<1>1. ASSUME NEW e \in Events, Record(e) PROVE OutboxInv'
  <2>1. event \in [Events -> EventRow] /\ event' = [event EXCEPT ![e].status = "pending"]
    BY <1>1 DEF Record, OutboxInv, OutboxTyped
  <2>2. /\ event' \in [Events -> EventRow]
        /\ \A d \in Events : /\ event'[d].attempts = event[d].attempts
                             /\ event'[d].owner = event[d].owner
                             /\ event'[d].status = IF d = e THEN "pending" ELSE event[d].status
    BY <2>1 DEF EventRow, Statuses
  <2>3. UNCHANGED <<relay, retries, reached, tries>> /\ late' \in Nat
    BY <1>1 DEF Record, OutboxInv, OutboxTyped
  <2> QED BY <2>2, <2>3, QuietPreserves
<1>2. ASSUME NEW e \in Events, LeaseEnds(e) PROVE OutboxInv'
  <2>1. event \in [Events -> EventRow] /\ event' = [event EXCEPT ![e].leased = FALSE]
    BY <1>2 DEF LeaseEnds, OutboxInv, OutboxTyped
  <2>2. /\ event' \in [Events -> EventRow]
        /\ \A d \in Events : /\ event'[d].attempts = event[d].attempts
                             /\ event'[d].owner = event[d].owner
                             /\ event'[d].status = event[d].status
    BY <2>1 DEF EventRow
  <2>3. UNCHANGED <<relay, retries, reached, tries>> /\ late' \in Nat
    BY <1>2 DEF LeaseEnds, OutboxInv, OutboxTyped
  <2> QED BY <2>2, <2>3, QuietPreserves
<1>3. ASSUME NEW e \in Events, Retry(e) PROVE OutboxInv'
  <2>1. /\ tries \in [Events -> Nat] /\ tries' = [tries EXCEPT ![e] = 0]
        /\ event' = [event EXCEPT ![e] = Freed(e, "pending", 0)]
        /\ UNCHANGED <<relay, late, reached>> /\ retries' \in Nat
    BY <1>3 DEF Retry, OutboxInv, OutboxTyped
  <2>2. tries' \in [Events -> Nat] /\ \A d \in Events : d # e => tries'[d] = tries[d]
    BY <2>1
  <2> QED BY <2>1, <2>2, FreePreserves
<1>4. ASSUME NEW e \in Events, Purge(e) PROVE OutboxInv'
  <2>1. /\ tries' \in [Events -> Nat] /\ tries' = tries
        /\ event' = [event EXCEPT ![e] = Freed(e, "purged", 0)]
        /\ UNCHANGED <<relay, late, reached>> /\ retries' \in Nat
    BY <1>4 DEF Purge, OutboxInv, OutboxTyped
  <2> QED BY <2>1, FreePreserves
<1>5. ASSUME NEW w \in Relays, Die(w) PROVE OutboxInv'
  <2>1. /\ relay \in [Relays -> RelayMemory] /\ relay' = [relay EXCEPT ![w] = Idle]
        /\ UNCHANGED <<event, retries, reached, tries>> /\ late' \in Nat
        /\ Idle.cur = {} /\ Idle.todo = {} /\ Idle \in RelayMemory
    BY <1>5, IdleIsMemory DEF Die, OutboxInv, OutboxTyped, Idle
  <2>2. /\ relay' \in [Relays -> RelayMemory] /\ relay'[w] = Idle
        /\ \A v \in Relays \ {w} : relay'[v] = relay[v]
    BY <2>1
  <2>3. OutboxTyped' /\ PublishedReached' /\ DeadWasTried'
    BY <2>1, <2>2 DEF OutboxInv, OutboxTyped, PublishedReached, DeadWasTried
  <2>4. Progress'
    BY <2>1, <2>2 DEF OutboxInv, Progress
  <2>5. Seen'
    BY <2>1, <2>2 DEF OutboxInv, Seen, Owns, Holds
  <2> QED BY <2>3, <2>4, <2>5 DEF OutboxInv
<1> QED BY <1>1, <1>2, <1>3, <1>4, <1>5, ClaimPreserves, TakeUpPreserves, HandlePreserves,
           FinishPreserves DEF Polls, Works, Operator

\* The mail's steps leave the outbox as it was.
LEMMA OutboxStutters == OutboxInv /\ UNCHANGED outboxVars => OutboxInv'
BY DEF outboxVars, OutboxInv, OutboxTyped, Progress, PublishedReached, Seen, DeadWasTried,
       Owns, Holds

-----------------------------------------------------------------------------
(* The mail *)

\* A notification writes the row of its email, if there is none.
LEMMA NotifiedPreserves ==
  ASSUME MailInv, NEW e \in Events, mail' \in {mail, Notified(e)},
         UNCHANGED <<ticking, tick, blips, sent>>
  PROVE  MailInv'
<1>1. /\ mail' \in [Events -> MailRow]
      /\ \A d \in Events : mail'[d] = mail[d] \/ (d = e /\ mail[d].status = "none")
  BY DEF MailInv, MailTyped, Notified, MailRow, MailStatuses
<1>2. MailTyped'
  BY <1>1 DEF MailInv, MailTyped
<1>3. TickInv'
  BY <1>1 DEF MailInv, MailTyped, TickMemory, TickInv
<1>4. SentInv'
  BY <1>1 DEF MailInv, SentInv, ToMark
<1> QED BY <1>2, <1>3, <1>4 DEF MailInv

\* A tick claims while no other is in hand, and what it claims waits for it.
LEMMA ClaimDuePreserves ==
  ASSUME MailInv, NEW t \in Ticks, NEW rows \in SUBSET Events, ClaimDue(t, rows)
  PROVE  MailInv'
<1> DEFINE m == [at |-> "next", rows |-> rows, cur |-> {}]
<1>1. /\ m \in TickMemory /\ m.at = "next" /\ m.rows = rows /\ m.cur = {}
      /\ tick \in [Ticks -> TickMemory] /\ tick' = [tick EXCEPT ![t] = m]
      /\ ticking' = TRUE /\ UNCHANGED <<blips, sent>>
  BY DEF TickMemory, MailInv, MailTyped, ClaimDue
<1> HIDE DEF m
<1>2. /\ tick' \in [Ticks -> TickMemory] /\ tick'[t] = m
      /\ \A u \in Ticks \ {t} : tick'[u] = tick[u] /\ tick[u].at = "idle"
      /\ tick[t].at = "idle"
  BY <1>1 DEF ClaimDue, MayTick, MailInv, TickInv
<1>3. /\ mail' \in [Events -> MailRow]
      /\ \A e \in Events : IF e \in rows THEN mail'[e].status = "SENDING" /\ mail[e].status # "SENT"
                                         ELSE mail'[e] = mail[e]
  BY DEF ClaimDue, Due, MailInv, MailTyped, MailRow, MailStatuses
<1>4. MailTyped'
  BY <1>1, <1>2, <1>3 DEF MailInv, MailTyped
<1>5. TickInv'
  BY <1>1, <1>2, <1>3 DEF MailInv, TickInv
<1>6. SentInv'
  BY <1>1, <1>2, <1>3 DEF MailInv, SentInv, ToMark
<1> QED BY <1>4, <1>5, <1>6 DEF MailInv

\* A tick takes up a row, or goes from one call to the next, and writes none.
LEMMA TickMoves ==
  ASSUME MailInv, NEW t \in Ticks, NEW m \in TickMemory, tick' = [tick EXCEPT ![t] = m],
         tick[t].at # "idle", m.at # "idle",
         m.at = "next" => m.cur = {},
         m.rows \cup m.cur \subseteq tick[t].rows \cup tick[t].cur, m.rows \cap m.cur = {},
         UNCHANGED <<mail, ticking>>, blips' \in Nat, blips' >= blips, sent' \in [Events -> Nat],
         \A e \in Events : \/ sent'[e] <= blips'
                           \/ sent'[e] = sent[e] /\ ~ToMark(t, e)
                           \/ sent'[e] = sent[e] + 1 /\ ~ToMark(t, e) /\ m.at = "mark" /\ m.cur = {e}
                              /\ mail[e].status # "SENT"
  PROVE  MailInv'
<1>1. /\ tick \in [Ticks -> TickMemory] /\ tick' \in [Ticks -> TickMemory] /\ tick'[t] = m
      /\ \A u \in Ticks \ {t} : tick'[u] = tick[u] /\ tick[u].at = "idle"
  BY DEF MailInv, MailTyped, TickInv
<1>2. MailTyped'
  BY <1>1 DEF MailInv, MailTyped
<1>3. TickInv'
  BY <1>1 DEF MailInv, TickInv
<1>4. SentInv'
  <2> SUFFICES ASSUME NEW e \in Events
               PROVE  /\ sent'[e] <= 1 + blips'
                      /\ sent'[e] <= blips' \/ mail[e].status = "SENT" \/ \E u \in Ticks : ToMark(u, e)'
    BY DEF SentInv
  <2>1. /\ blips \in Nat /\ sent[e] \in Nat /\ sent'[e] \in Nat
        /\ sent[e] <= 1 + blips
        /\ sent[e] <= blips \/ mail[e].status = "SENT" \/ ToMark(t, e)
    BY <1>1 DEF MailInv, MailTyped, SentInv, ToMark
  <2>2. CASE sent'[e] <= blips'
    BY <2>1, <2>2
  <2>3. CASE sent'[e] = sent[e] /\ ~ToMark(t, e)
    BY <2>1, <2>3
  <2>4. CASE sent'[e] = sent[e] + 1 /\ ~ToMark(t, e) /\ m.at = "mark" /\ m.cur = {e}
             /\ mail[e].status # "SENT"
    <3>1. sent[e] <= blips /\ ToMark(t, e)'
      BY <2>1, <2>4, <1>1 DEF ToMark
    <3> QED BY <3>1, <2>1, <2>4
  <2> QED BY <2>2, <2>3, <2>4
<1> QED BY <1>2, <1>3, <1>4 DEF MailInv

\* A tick is done with a row and writes what became of it; only the row of an
\* email that is sent and not marked has to become SENT.
LEMMA RowEnds ==
  ASSUME MailInv, NEW t \in Ticks, NEW e \in Events, NEW status \in MailStatuses,
         tick[t].cur = {e}, tick[t].at # "idle", tick[t].at # "mark" \/ status = "SENT",
         Sets(e, status), RowDone(t), UNCHANGED <<ticking, blips, sent>>
  PROVE  MailInv'
<1> DEFINE m == [tick[t] EXCEPT !.at = "next", !.cur = {}]
<1>1. tick \in [Ticks -> TickMemory] /\ tick[t] \in TickMemory
  BY DEF MailInv, MailTyped
<1>2. m \in TickMemory /\ m.at = "next" /\ m.cur = {} /\ m.rows = tick[t].rows
  BY <1>1 DEF TickMemory
<1>3. tick' = [tick EXCEPT ![t] = m]
  BY <1>1 DEF RowDone
<1> HIDE DEF m
<1>4. /\ tick' \in [Ticks -> TickMemory] /\ tick'[t] = m
      /\ \A u \in Ticks \ {t} : tick'[u] = tick[u] /\ tick[u].at = "idle"
  BY <1>1, <1>2, <1>3 DEF MailInv, TickInv
<1>5. /\ mail' \in [Events -> MailRow]
      /\ \A d \in Events : IF d = e THEN mail'[d].status = status ELSE mail'[d] = mail[d]
      /\ mail[e].status = "SENDING"
  BY DEF Sets, MailInv, MailTyped, TickInv, MailRow
<1>6. MailTyped'
  BY <1>4, <1>5 DEF MailInv, MailTyped
<1>7. TickInv'
  <2>1. e \notin tick[t].rows /\ ticking' = TRUE /\ tick'[t].at # "idle"
    BY <1>2, <1>4 DEF MailInv, TickInv
  <2>2. ticking' = \E u \in Ticks : tick'[u].at # "idle"
    BY <2>1
  <2>3. \A u, v \in Ticks : tick'[u].at # "idle" /\ tick'[v].at # "idle" => u = v
    BY <1>4
  <2>4. \A u \in Ticks :
          /\ tick'[u].at = "idle" => tick'[u].rows = {} /\ tick'[u].cur = {}
          /\ tick'[u].at = "next" => tick'[u].cur = {}
          /\ tick'[u].rows \cap tick'[u].cur = {}
    BY <1>2, <1>4 DEF MailInv, TickInv
  <2>5. \A u \in Ticks : \A d \in tick'[u].rows \cup tick'[u].cur : mail'[d].status = "SENDING"
    <3>1. \A u \in Ticks \ {t} : tick'[u].rows = {} /\ tick'[u].cur = {}
      BY <1>4 DEF MailInv, TickInv
    <3>2. \A d \in tick[t].rows : d \in Events /\ d # e /\ mail[d].status = "SENDING"
      BY <2>1, <1>1 DEF MailInv, TickInv, TickMemory
    <3> QED BY <3>1, <3>2, <1>2, <1>4, <1>5
  <2> QED BY <2>2, <2>3, <2>4, <2>5 DEF TickInv
<1>8. SentInv'
  <2> SUFFICES ASSUME NEW d \in Events
               PROVE  sent[d] <= blips \/ mail'[d].status = "SENT"
    BY DEF MailInv, SentInv
  <2>1. sent[d] <= blips \/ mail[d].status = "SENT" \/ ToMark(t, d)
    BY <1>4 DEF MailInv, SentInv, ToMark
  <2> QED BY <2>1, <1>5 DEF ToMark
<1> QED BY <1>6, <1>7, <1>8 DEF MailInv

\* A tick goes from one call for its row to the next.
LEMMA TickGoes ==
  ASSUME MailInv, NEW t \in Ticks, NEW e \in Events,
         NEW at \in {"build", "send", "mark", "error", "backoff"},
         tick[t].cur = {e}, Goes(t, at), UNCHANGED <<mail, ticking>>,
         \/ tick[t].at \in {"build", "send", "error"} /\ at # "mark" /\ UNCHANGED <<blips, sent>>
         \/ /\ tick[t].at = "send" /\ at = "mark" /\ blips' = blips
            /\ sent' = [sent EXCEPT ![e] = @ + 1]
         \/ /\ tick[t].at = "send" /\ at # "mark" /\ blips' = blips + 1
            /\ sent' = [sent EXCEPT ![e] = @ + 1]
         \/ tick[t].at # "idle" /\ at # "mark" /\ blips' = blips + 1 /\ sent' = sent
  PROVE  MailInv'
<1> DEFINE m == [tick[t] EXCEPT !.at = at]
<1>1. tick \in [Ticks -> TickMemory] /\ tick[t] \in TickMemory
  BY DEF MailInv, MailTyped
<1>2. m \in TickMemory /\ m.at = at /\ m.cur = {e} /\ m.rows = tick[t].rows
  BY <1>1 DEF TickMemory
<1>3. tick' = [tick EXCEPT ![t] = m]
  BY <1>1 DEF Goes
<1> HIDE DEF m
<1>4. /\ tick[t].at # "idle" /\ m.at # "idle" /\ m.at # "next"
      /\ m.rows \cup m.cur \subseteq tick[t].rows \cup tick[t].cur /\ m.rows \cap m.cur = {}
      /\ mail[e].status = "SENDING"
  BY <1>2 DEF MailInv, TickInv
<1>5. /\ blips \in Nat /\ sent \in [Events -> Nat]
      /\ \A d \in Events : sent[d] <= 1 + blips
  BY DEF MailInv, MailTyped, SentInv
<1>6. blips' \in Nat /\ blips' >= blips /\ sent' \in [Events -> Nat]
  BY <1>5
<1>7. ASSUME tick[t].at = "send" PROVE sent[e] <= blips
  <2>1. \A u \in Ticks : ~ToMark(u, e)
    BY <1>7 DEF MailInv, TickInv, ToMark
  <2> QED BY <2>1, <1>4 DEF MailInv, SentInv
<1>8. ASSUME NEW d \in Events
      PROVE  \/ sent'[d] <= blips'
             \/ sent'[d] = sent[d] /\ ~ToMark(t, d)
             \/ sent'[d] = sent[d] + 1 /\ ~ToMark(t, d) /\ m.at = "mark" /\ m.cur = {d}
                /\ mail[d].status # "SENT"
  <2>1. CASE tick[t].at = "send" /\ blips' = blips + 1 /\ sent' = [sent EXCEPT ![e] = @ + 1]
    BY <2>1, <1>5, <1>7
  <2>2. CASE ~(tick[t].at = "send" /\ blips' = blips + 1 /\ sent' = [sent EXCEPT ![e] = @ + 1])
    BY <2>2, <1>2, <1>4, <1>5 DEF ToMark
  <2> QED BY <2>1, <2>2
<1> QED BY <1>2, <1>3, <1>4, <1>6, <1>8, TickMoves

\* A tick takes up its next row, or ends.
LEMMA NextRowPreserves ==
  ASSUME MailInv, NEW t \in Ticks, NextRow(t)
  PROVE  MailInv'
<1>1. tick \in [Ticks -> TickMemory] /\ tick[t] \in TickMemory /\ tick[t].at = "next"
  BY DEF MailInv, MailTyped, NextRow
<1>2. CASE tick[t].rows = {}
  <2>1. /\ NoTick \in TickMemory /\ NoTick.at = "idle" /\ NoTick.rows = {} /\ NoTick.cur = {}
        /\ tick' = [tick EXCEPT ![t] = NoTick] /\ ticking' = FALSE
    BY <1>2 DEF NoTick, TickMemory, NextRow
  <2>2. /\ tick' \in [Ticks -> TickMemory] /\ tick'[t] = NoTick
        /\ \A u \in Ticks \ {t} : tick'[u] = tick[u] /\ tick[u].at = "idle"
    BY <2>1, <1>1 DEF MailInv, TickInv
  <2>3. MailTyped'
    BY <2>1, <2>2 DEF MailInv, MailTyped, NextRow
  <2>4. TickInv'
    BY <2>1, <2>2 DEF MailInv, TickInv, NextRow
  <2>5. SentInv'
    BY <2>1, <2>2, <1>1 DEF MailInv, SentInv, ToMark, NextRow
  <2> QED BY <2>3, <2>4, <2>5 DEF MailInv
<1>3. CASE tick[t].rows # {}
  <2>1. PICK e \in tick[t].rows :
          tick' = [tick EXCEPT ![t] = [at |-> "build", rows |-> @.rows \ {e}, cur |-> {e}]]
    BY <1>3 DEF NextRow
  <2> DEFINE m == [at |-> "build", rows |-> tick[t].rows \ {e}, cur |-> {e}]
  <2>2. /\ m \in TickMemory /\ m.at = "build" /\ m.rows = tick[t].rows \ {e} /\ m.cur = {e}
        /\ tick' = [tick EXCEPT ![t] = m]
    BY <2>1, <1>1 DEF TickMemory
  <2> HIDE DEF m
  <2>3. /\ UNCHANGED <<mail, ticking, blips, sent>>
        /\ blips \in Nat /\ sent \in [Events -> Nat]
    BY <1>3 DEF NextRow, MailInv, MailTyped
  <2>4. \A d \in Events : sent'[d] = sent[d] /\ ~ToMark(t, d)
    BY <2>3, <1>1 DEF ToMark
  <2>5. m.rows \cup m.cur \subseteq tick[t].rows \cup tick[t].cur /\ m.rows \cap m.cur = {}
    BY <2>2
  <2>6. blips' \in Nat /\ blips' >= blips /\ sent' \in [Events -> Nat]
    BY <2>3
  <2>7. tick[t].at # "idle" /\ m.at # "idle" /\ m.at # "next"
    BY <2>2, <1>1
  <2> QED BY <2>2, <2>3, <2>4, <2>5, <2>6, <2>7, TickMoves
<1> QED BY <1>2, <1>3

\* Every step of a tick ends a row, goes on with it, or takes up another.
LEMMA TickStepPreserves ==
  ASSUME MailInv, NEW t \in Ticks, TickStep(t)
  PROVE  MailInv'
<1>1. ASSUME NEW e \in Events, Build(t, e) PROVE MailInv'
  BY <1>1, RowEnds, TickGoes DEF Build, MailStatuses
<1>2. ASSUME NEW e \in Events, Send(t, e) PROVE MailInv'
  BY <1>2, TickGoes DEF Send
<1>3. ASSUME NEW e \in Events, MarkSent(t, e) PROVE MailInv'
  BY <1>3, RowEnds DEF MarkSent, MailStatuses
<1>4. ASSUME NEW e \in Events, MarkError(t, e) PROVE MailInv'
  BY <1>4, RowEnds DEF MarkError, MailStatuses
<1>5. ASSUME NEW e \in Events, BackOff(t, e) PROVE MailInv'
  BY <1>5, RowEnds DEF BackOff, MailStatuses
<1>6. ASSUME Blip(t) PROVE MailInv'
  <2>0. /\ tick \in [Ticks -> TickMemory] /\ tick[t] \in TickMemory /\ blips \in Nat
        /\ sent \in [Events -> Nat] /\ \A e \in Events : sent[e] <= 1 + blips
    BY DEF MailInv, MailTyped, SentInv
  <2> DEFINE at == IF tick[t].at = "mark" THEN "error"
                   ELSE IF tick[t].at = "backoff" THEN "next" ELSE "backoff"
             cur == IF tick[t].at = "backoff" THEN {} ELSE tick[t].cur
             m == [tick[t] EXCEPT !.at = at, !.cur = cur]
  <2>1. tick[t].at \in {"mark", "build", "error", "backoff"}
    BY <1>6 DEF Blip
  <2>2. tick' = [tick EXCEPT ![t] = m]
    BY <1>6, <2>0, <2>1 DEF Blip, Goes, RowDone, TickMemory
  <2>3. at \in {"error", "next", "backoff"} /\ (at = "next" => cur = {}) /\ cur \subseteq tick[t].cur
    BY <2>1
  <2> HIDE DEF at, cur
  <2>4. m \in TickMemory /\ m.at = at /\ m.cur = cur /\ m.rows = tick[t].rows
    BY <2>0, <2>3 DEF TickMemory
  <2> HIDE DEF m
  <2>5. m.rows \cup m.cur \subseteq tick[t].rows \cup tick[t].cur /\ m.rows \cap m.cur = {}
    BY <2>3, <2>4 DEF MailInv, TickInv
  <2>6. UNCHANGED <<mail, ticking, sent>> /\ blips' = blips + 1
    BY <1>6 DEF Blip
  <2>7. blips' \in Nat /\ blips' >= blips /\ \A d \in Events : sent'[d] <= blips'
    BY <2>0, <2>6
  <2> QED BY <2>0, <2>1, <2>2, <2>3, <2>4, <2>5, <2>6, <2>7, TickMoves
<1> QED BY <1>1, <1>2, <1>3, <1>4, <1>5, <1>6, NextRowPreserves DEF TickStep

\* Death forgets the tick, and counts as a failure for what it had sent.
LEMMA DispatcherDiesPreserves ==
  ASSUME MailInv, DispatcherDies
  PROVE  MailInv'
<1>1. /\ NoTick \in TickMemory /\ NoTick.at = "idle" /\ NoTick.rows = {} /\ NoTick.cur = {}
      /\ tick' = [t \in Ticks |-> NoTick] /\ ticking' = FALSE
      /\ blips' = blips + 1 /\ UNCHANGED <<mail, sent>>
  BY DEF NoTick, TickMemory, DispatcherDies
<1>2. MailTyped'
  <2>1. blips \in Nat
    BY DEF MailInv, MailTyped
  <2>2. blips' \in Nat
    BY <2>1, <1>1
  <2>3. ticking' \in BOOLEAN
    BY <1>1
  <2>4. tick' \in [Ticks -> TickMemory]
    BY <1>1
  <2> QED BY <2>2, <2>3, <2>4, <1>1 DEF MailInv, MailTyped
<1>3. TickInv'
  BY <1>1 DEF TickInv
<1>4. SentInv'
  BY <1>1 DEF MailInv, MailTyped, SentInv
<1> QED BY <1>2, <1>3, <1>4 DEF MailInv

\* The end of a lock changes no status.
LEMMA LockEndsPreserves ==
  ASSUME MailInv, NEW e \in Events, LockEnds(e)
  PROVE  MailInv'
<1>1. /\ mail \in [Events -> MailRow] /\ mail' = [mail EXCEPT ![e].locked = FALSE]
      /\ UNCHANGED <<ticking, tick, blips, sent>>
  BY DEF MailInv, MailTyped, LockEnds
<1>2. mail' \in [Events -> MailRow] /\ \A d \in Events : mail'[d].status = mail[d].status
  BY <1>1 DEF MailRow
<1>3. MailTyped'
  BY <1>1, <1>2 DEF MailInv, MailTyped
<1>4. TickInv'
  BY <1>1, <1>2 DEF MailInv, MailTyped, TickMemory, TickInv
<1>5. SentInv'
  BY <1>1, <1>2 DEF MailInv, SentInv, ToMark
<1> QED BY <1>3, <1>4, <1>5 DEF MailInv

\* The outbox's other steps leave the mail as it was.
LEMMA MailStutters == MailInv /\ UNCHANGED mailVars => MailInv'
BY DEF mailVars, MailInv, MailTyped, TickInv, SentInv, ToMark

-----------------------------------------------------------------------------
(* The composition *)

EmailInv == OutboxInv /\ MailInv

\* Nothing is recorded, claimed or sent at first.
LEMMA EmailInit == DispatchInit => EmailInv
<1> SUFFICES ASSUME DispatchInit PROVE EmailInv
  OBVIOUS
<1>1. OutboxTyped
  BY IdleIsMemory DEF DispatchInit, OutboxInit, OutboxTyped, EventRow, Statuses, Idle
<1>2. /\ \A e \in Events : event[e].status = "none" /\ event[e].attempts = 0 /\ tries[e] = 0
      /\ \A w \in Relays : relay[w].cur = {}
  BY DEF DispatchInit, OutboxInit, Idle
<1>3. Progress /\ PublishedReached /\ DeadWasTried
  BY <1>2 DEF Progress, PublishedReached, DeadWasTried
<1>4. Seen
  <2>1. \A w \in Relays, e \in Events : ~Owns(w, e)
    BY <1>2 DEF Owns
  <2>2. ASSUME NEW e \in Events PROVE event[e].attempts <= tries[e]
    <3>1. event[e].attempts = 0 /\ tries[e] = 0
      BY <1>2
    <3>2. 0 <= 0
      OBVIOUS
    <3> QED BY <3>1, <3>2, Zenon
  <2> QED BY <2>1, <2>2 DEF Seen
<1>5. /\ ticking = FALSE /\ blips = 0 /\ sent = [e \in Events |-> 0]
      /\ tick = [t \in Ticks |-> NoTick]
      /\ NoTick \in TickMemory /\ NoTick.at = "idle" /\ NoTick.rows = {} /\ NoTick.cur = {}
  BY DEF DispatchInit, NoTick, TickMemory
<1>6. mail \in [Events -> MailRow]
  BY DEF DispatchInit, MailRow, MailStatuses
<1>7. MailTyped
  <2>1. tick \in [Ticks -> TickMemory] /\ sent \in [Events -> Nat]
    BY <1>5
  <2>2. ticking \in BOOLEAN /\ blips \in Nat
    BY <1>5
  <2> QED BY <2>1, <2>2, <1>6 DEF MailTyped
<1>9. SentInv
  BY <1>5 DEF SentInv
<1>8. TickInv
  BY <1>5 DEF TickInv
<1> QED BY <1>1, <1>3, <1>4, <1>7, <1>8, <1>9 DEF EmailInv, OutboxInv, MailInv

\* Every step is one of the outbox, of the mail, or a handler's, which is of both.
LEMMA EmailNext == EmailInv /\ [DispatchNext]_dispatchVars => EmailInv'
<1> SUFFICES ASSUME EmailInv, [DispatchNext]_dispatchVars PROVE EmailInv'
  OBVIOUS
<1>1. ASSUME NEW w \in Relays, RelayStep(w) PROVE EmailInv'
  <2>1. ASSUME NEW e \in Events, HandleEvent(w, e) PROVE EmailInv'
    <3>1. OutboxInv'
      BY <2>1, HandlePreserves DEF HandleEvent, EmailInv
    <3>2. MailInv'
      BY <2>1, NotifiedPreserves, MailStutters DEF HandleEvent, EmailInv, mailVars
    <3> QED BY <3>1, <3>2 DEF EmailInv
  <2> QED BY <1>1, <2>1, OutboxPreserves, MailStutters DEF RelayStep, Outbox, EmailInv
<1>2. ASSUME NEW w \in Relays, Outbox(Die(w)) PROVE EmailInv'
  BY <1>2, OutboxPreserves, MailStutters DEF Outbox, EmailInv
<1>3. ASSUME NEW e \in Events, Outbox(Record(e)) \/ Outbox(LeaseEnds(e)) PROVE EmailInv'
  BY <1>3, OutboxPreserves, MailStutters DEF Outbox, EmailInv
<1>4. ASSUME NEW e \in Events, LockEnds(e) PROVE EmailInv'
  BY <1>4, LockEndsPreserves, OutboxStutters DEF LockEnds, EmailInv
<1>5. CASE Outbox(Operator)
  BY <1>5, OutboxPreserves, MailStutters DEF Outbox, EmailInv
<1>6. ASSUME NEW t \in Ticks, TickStep(t) PROVE EmailInv'
  <2>1. UNCHANGED outboxVars
    BY <1>6 DEF TickStep, NextRow, Blip, Build, Send, MarkSent, MarkError, BackOff
  <2> QED BY <1>6, <2>1, TickStepPreserves, OutboxStutters DEF EmailInv
<1>7. CASE Timer
  BY <1>7, ClaimDuePreserves, OutboxStutters DEF Timer, ClaimDue, EmailInv
<1>8. CASE DispatcherDies
  BY <1>8, DispatcherDiesPreserves, OutboxStutters DEF DispatcherDies, EmailInv
<1>9. CASE UNCHANGED dispatchVars
  BY <1>9, MailStutters, OutboxStutters DEF dispatchVars, EmailInv
<1> QED BY <1>1, <1>2, <1>3, <1>4, <1>5, <1>6, <1>7, <1>8, <1>9 DEF DispatchNext

\* Whatever relays, handlers, leases and ticks do, the parts of the invariant hold.
THEOREM EmailInvariant == DispatchSpec => []EmailInv
BY EmailInit, EmailNext, PTL DEF DispatchSpec

\* A published event reached every handler of its type, for any handlers and any
\* number of relays (FanOutPublisher.publish, markPublished).
THEOREM PublishedHolds == DispatchSpec => []PublishedReached
<1>1. EmailInv => PublishedReached
  BY DEF EmailInv, OutboxInv
<1> QED BY <1>1, EmailInvariant, PTL

\* A dead event failed as often as it may (markDead, OutboxAdminService.retry).
THEOREM DeadHolds == DispatchSpec => []DeadWasTried
<1>1. EmailInv => DeadWasTried
  BY DEF EmailInv, OutboxInv
<1> QED BY <1>1, EmailInvariant, PTL

\* An email goes out at most once more than replies of the mail server were lost and
\* the dispatcher or its database failed, whatever its event and its row went
\* through (tickGuarded, claimDue, sendOne, unique notificationId).
THEOREM SentAtMostOnce == DispatchSpec => []SentOnce
<1>1. EmailInv => SentOnce
  BY DEF EmailInv, MailInv, SentInv, SentOnce
<1> QED BY <1>1, EmailInvariant, PTL

-----------------------------------------------------------------------------
\* Every step of the outbox leaves an event that ended where it is, an operator's
\* apart.
LEMMA EndsKeptByOutbox ==
  ASSUME OutboxTyped,
         \/ \E w \in Relays : Polls(w) \/ Works(w) \/ Die(w)
         \/ \E w \in Relays, e \in Events, ok \in BOOLEAN : Handle(w, e, ok)
         \/ \E e \in Events : Record(e) \/ LeaseEnds(e)
         \/ Operator
  PROVE  EndsKept
<1>1. event \in [Events -> EventRow]
  BY DEF OutboxTyped
<1>2. ASSUME NEW e \in Events, NEW status \in Statuses, NEW n \in Nat,
             event' = [event EXCEPT ![e] = Freed(e, status, n)],
             event[e].status = "processing" \/ n = 0,
             event[e].status = "published" => status = "purged"
      PROVE  EndsKept
  <2>1. event'[e].status = status /\ event'[e].attempts = n
    BY <1>1, <1>2, FreedIsRow
  <2>2. \A d \in Events : d # e => event'[d] = event[d]
    BY <1>1, <1>2
  <2> QED BY <1>2, <2>1, <2>2 DEF EndsKept
<1>3. ASSUME NEW e \in Events, Record(e) \/ LeaseEnds(e) PROVE EndsKept
  <2>1. event[e].status \notin {"published", "dead"} /\ \A d \in Events \ {e} : event'[d] = event[d]
    BY <1>1, <1>3 DEF Record, LeaseEnds
  <2> QED BY <2>1 DEF EndsKept
<1>4. ASSUME NEW w \in Relays, NEW batch \in SUBSET Events, Claim(w, batch) PROVE EndsKept
  BY <1>1, <1>4 DEF Claim, Claimable, EndsKept
<1>5. ASSUME NEW w \in Relays, NEW e \in Events, Finish(w, e) PROVE EndsKept
  <2>1. PICK status \in {"published", "dead", "pending"}, n \in Nat : Marks(w, e, status, n)
    <3>1. relay[w].seen[e] \in Nat /\ relay[w].seen[e] + 1 \in Nat
      BY DEF OutboxTyped, RelayMemory
    <3> QED BY <3>1, <1>5 DEF Finish
  <2>2. CASE event' = event
    BY <2>2 DEF EndsKept
  <2>3. CASE Owns(w, e) /\ event' = [event EXCEPT ![e] = Freed(e, status, n)]
    BY <2>3, <1>2 DEF Owns, Statuses
  <2> QED BY <2>1, <2>2, <2>3 DEF Marks
<1>6. ASSUME NEW e \in Events, Retry(e) \/ Purge(e) PROVE EndsKept
  BY <1>6, <1>2 DEF Retry, Purge, Resettable, Statuses
<1>7. ASSUME event' = event PROVE EndsKept
  BY <1>7 DEF EndsKept
<1> QED BY <1>3, <1>4, <1>5, <1>6, <1>7 DEF Polls, Works, Operator, TakeUp, Handle, Die

\* A relay that comes late reopens nothing, and only an operator reopens what is
\* dead (markPublished, markRetry and markDead check the claim).
THEOREM EndsHold == DispatchSpec => EndsStay
<1>1. EmailInv /\ [DispatchNext]_dispatchVars => [EndsKept]_outboxVars
  <2> SUFFICES ASSUME EmailInv, DispatchNext, ~UNCHANGED outboxVars PROVE EndsKept
    BY DEF dispatchVars
  <2>1. OutboxTyped
    BY DEF EmailInv, OutboxInv
  <2>2. \/ \E w \in Relays : Polls(w) \/ Works(w) \/ Die(w)
        \/ \E w \in Relays, e \in Events, ok \in BOOLEAN : Handle(w, e, ok)
        \/ \E e \in Events : Record(e) \/ LeaseEnds(e)
        \/ Operator
    BY DEF DispatchNext, RelayStep, HandleEvent, Outbox, LockEnds, TickStep, NextRow, Blip, Build,
           Send, MarkSent, MarkError, BackOff, Timer, ClaimDue, DispatcherDies
  <2> QED BY <2>1, <2>2, EndsKeptByOutbox
<1> QED BY <1>1, EmailInvariant, PTL DEF DispatchSpec, EndsStay

=============================================================================
