------------------------------ MODULE OutboxRelay ------------------------------
(***************************************************************************)
(* The transactional outbox: a producer's event commits with the change it *)
(* tells of; relays claim events under a lease and hand each to every      *)
(* handler of its type; what failed is retried later, and given up on      *)
(* after too many tries.  An operator may retry a dead event, and old ends *)
(* are purged.                                                             *)
(*                                                                         *)
(* The store is the repository's; the relay that calls it is a library,    *)
(* modelled by the calls it makes: claim a batch, publish event by event,  *)
(* mark each.  Every statement is a step.  A lease may run out while its   *)
(* relay still works, and a relay may die with what it had claimed.        *)
(***************************************************************************)
EXTENDS Integers, Sequences, FiniteSets

CONSTANTS
  Events, Relays, NoRelay,
  HandlersOf,    \* [Events -> Seq of the handlers registered for the event's type]
  BatchSize, MaxAttempts,
  MaxRetries,    \* operator retries, a bound of the model
  MaxLate        \* relays that die or outlive a lease, a bound of the model

ASSUME RelayAssumption == NoRelay \notin Relays
ASSUME HandlerAssumption == HandlersOf \in [Events -> Seq(STRING)]
ASSUME OutboxAssumption ==
  /\ BatchSize \in Nat \ {0} /\ MaxAttempts \in Nat \ {0}
  /\ MaxRetries \in Nat /\ MaxLate \in Nat

VARIABLES
  event,    \* OutboxEvent rows
  relay,    \* what each relay holds in memory
  retries, late,
  reached,  \* history: the handlers that succeeded on an event
  tries     \* history: attempts on an event that failed since it was last reset

outboxVars == <<event, relay, retries, late, reached, tries>>

-----------------------------------------------------------------------------
Statuses == {"none", "pending", "processing", "published", "dead", "purged"}
EventRow == [status: Statuses, owner: Relays \cup {NoRelay}, leased: BOOLEAN, attempts: Nat]

\* todo: the claimed events still to handle; cur: the one under way, its next
\* handler and whether one failed.  seen: the attempts read with the claim.
Idle == [todo |-> {}, cur |-> {}, next |-> 0, failed |-> FALSE, seen |-> [e \in Events |-> 0]]

Handlers(e) == {HandlersOf[e][i] : i \in DOMAIN HandlersOf[e]}

\* mutant: any claim will do for a mark.
OwnsAny(w, e) == TRUE

Owns(w, e) == event[e].status = "processing" /\ event[e].owner = w

\* save: inside the producer's transaction.
Record(e) ==
  /\ event[e].status = "none"
  /\ event' = [event EXCEPT ![e].status = "pending"]
  /\ UNCHANGED <<relay, retries, late, reached, tries>>

\* mutant: the lease is not looked at.
ClaimableNew(e) == event[e].status = "pending"

\* Due is a matter of the clock: a pending event may be due or not.
Claimable(e) ==
  event[e].status = "pending" \/ (event[e].status = "processing" /\ ~event[e].leased)

\* claimBatch: one statement.
Claim(w, batch) ==
  /\ relay[w].todo = {} /\ relay[w].cur = {}
  /\ batch # {} /\ Cardinality(batch) <= BatchSize
  /\ \A e \in batch : Claimable(e)
  /\ event' = [e \in Events |->
       IF e \in batch THEN [event[e] EXCEPT !.status = "processing", !.owner = w, !.leased = TRUE]
                      ELSE event[e]]
  /\ relay' = [relay EXCEPT ![w].todo = batch,
       ![w].seen = [e \in Events |-> IF e \in batch THEN event[e].attempts ELSE 0]]
  /\ UNCHANGED <<retries, late, reached, tries>>

TakeUp(w, e) ==
  /\ relay[w].cur = {} /\ e \in relay[w].todo
  /\ relay' = [relay EXCEPT ![w].todo = @ \ {e}, ![w].cur = {e}, ![w].next = 1,
                            ![w].failed = FALSE]
  /\ UNCHANGED <<event, retries, late, reached, tries>>

\* mutant: the last handler decides.
NextForgets(w, e, ok) ==
  relay' = [relay EXCEPT ![w].next = @ + 1, ![w].failed = ~ok]

\* FanOutPublisher.publish: every handler runs, whatever became of those before.
Next(w, e, ok) ==
  relay' = [relay EXCEPT ![w].next = @ + 1, ![w].failed = @ \/ ~ok]

Handle(w, e, ok) ==
  /\ relay[w].cur = {e} /\ relay[w].next <= Len(HandlersOf[e])
  /\ Next(w, e, ok)
  /\ reached' = IF ok THEN [reached EXCEPT ![e] = @ \cup {HandlersOf[e][relay[w].next]}]
                      ELSE reached
  /\ UNCHANGED <<event, retries, late, tries>>

\* markPublished, markRetry and markDead change what this relay still owns.
Freed(e, status, attempts) ==
  [event[e] EXCEPT !.status = status, !.owner = NoRelay, !.leased = FALSE, !.attempts = attempts]
Marks(w, e, status, attempts) ==
  event' = IF Owns(w, e) THEN [event EXCEPT ![e] = Freed(e, status, attempts)] ELSE event

Finish(w, e) ==
  LET attempts == relay[w].seen[e] + 1 IN
  /\ relay[w].cur = {e} /\ relay[w].next > Len(HandlersOf[e])
  /\ IF ~relay[w].failed THEN Marks(w, e, "published", relay[w].seen[e])
     ELSE IF attempts >= MaxAttempts THEN Marks(w, e, "dead", attempts)
     ELSE Marks(w, e, "pending", attempts)
  /\ tries' = IF relay[w].failed THEN [tries EXCEPT ![e] = @ + 1] ELSE tries
  /\ relay' = [relay EXCEPT ![w].cur = {}, ![w].next = 0, ![w].failed = FALSE, ![w].seen[e] = 0]
  /\ UNCHANGED <<retries, late, reached>>

-----------------------------------------------------------------------------
\* A lease runs out, its relay dead or only slow.
Holds(w, e) == e \in relay[w].todo \cup relay[w].cur

LeaseEnds(e) ==
  /\ event[e].status = "processing" /\ event[e].leased
  /\ event' = [event EXCEPT ![e].leased = FALSE]
  /\ IF Holds(event[e].owner, e) THEN late < MaxLate /\ late' = late + 1 ELSE UNCHANGED late
  /\ UNCHANGED <<relay, retries, reached, tries>>

\* OutboxAdminService.retry: a claimed or published event is refused.
Resettable(e) == event[e].status \in {"dead", "pending"}

Retry(e) ==
  /\ retries < MaxRetries /\ retries' = retries + 1
  /\ Resettable(e)
  /\ event' = [event EXCEPT ![e] = Freed(e, "pending", 0)]
  /\ tries' = [tries EXCEPT ![e] = 0]
  /\ UNCHANGED <<relay, late, reached>>

\* deleteTerminalBefore: whatever ended long enough ago.
Purge(e) ==
  /\ event[e].status \in {"published", "dead"}
  /\ event' = [event EXCEPT ![e] = Freed(e, "purged", 0)]
  /\ UNCHANGED <<relay, retries, late, reached, tries>>

Die(w) ==
  /\ late < MaxLate /\ late' = late + 1
  /\ relay[w] # Idle /\ relay' = [relay EXCEPT ![w] = Idle]
  /\ UNCHANGED <<event, retries, reached, tries>>

OutboxInit ==
  /\ event = [e \in Events |-> [status |-> "none", owner |-> NoRelay, leased |-> FALSE, attempts |-> 0]]
  /\ relay = [w \in Relays |-> Idle]
  /\ retries = 0 /\ late = 0
  /\ reached = [e \in Events |-> {}]
  /\ tries = [e \in Events |-> 0]

\* A handler's step is left to the module that says what it does.
Polls(w)  == \E batch \in SUBSET Events : Claim(w, batch)
Works(w)  == \E e \in Events : TakeUp(w, e) \/ Finish(w, e)
Operator  == \E e \in Events : Retry(e) \/ Purge(e)

-----------------------------------------------------------------------------
OutboxTypeOK ==
  /\ event \in [Events -> EventRow]
  /\ \A w \in Relays :
       /\ relay[w].todo \subseteq Events /\ relay[w].cur \subseteq Events
       /\ relay[w].next \in Nat /\ relay[w].failed \in BOOLEAN
       /\ relay[w].seen \in [Events -> Nat]
  /\ \A e \in Events : reached[e] \subseteq Handlers(e)
  /\ tries \in [Events -> Nat] /\ retries \in Nat /\ late \in Nat

\* An event that counts as published reached every handler of its type, though
\* handlers fail one by one and leases pass from relay to relay
\* (FanOutPublisher.publish, markPublished).
PublishedReached ==
  \A e \in Events : event[e].status = "published" => reached[e] = Handlers(e)

\* An event is given up on after as many failed attempts as there may be, none
\* of them counted twice and none of before an operator's retry.
DeadWasTried ==
  \A e \in Events : event[e].status = "dead" => tries[e] >= MaxAttempts

\* A relay that comes late, its lease long over, reopens nothing: what is
\* published stays so until it is purged, and only an operator reopens a dead
\* event.
EndsKept ==
  \A e \in Events :
    /\ event[e].status = "published" => event'[e].status \in {"published", "purged"}
    /\ event[e].status = "dead" =>
         event'[e].status \in {"dead", "purged"} \/ event'[e].attempts = 0
EndsStay == [][EndsKept]_outboxVars

\* An event that still asks for work.
Waits(e) == event[e].status \in {"pending", "processing"}

=============================================================================
