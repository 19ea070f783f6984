------------------------- MODULE FleetDispatchProofs -------------------------
(***************************************************************************)
(* What is proved of FleetDispatch.                                        *)
(*                                                                         *)
(* First part: the types, and that nothing is said of a lease but by the   *)
(* machine it was given to (DispatchTyped).  With that every step is, seen *)
(* from the server, a step of FleetJob.                                    *)
(*                                                                         *)
(* Second part: the invariant (JournalInv) that ties the journals of the   *)
(* machines, the reports and acked numbers under way, and the jobs and     *)
(* acked numbers of the server.                                            *)
(*                                                                         *)
(* Third part: commands are handled in the order they were issued, and an  *)
(* end is journaled before the server is told of it (HandledInv).          *)
(*                                                                         *)
(* Fourth part: a machine whose daemon was not restarted (Tidy): it runs   *)
(* one process of a job and none of a lease it reported ended, and is told *)
(* of every lease that lingers.                                            *)
(***************************************************************************)
EXTENDS FleetDispatch, FleetJobProofs, WellFoundedInduction

-----------------------------------------------------------------------------
(* Numbers, and the path of a log *)

\* Every set of numbers that holds one has a least (well-foundedness of < on Nat).
LEMMA LeastNumber ==
  ASSUME NEW S \in SUBSET Nat, S # {}
  PROVE  \E n \in S : \A m \in S : n <= m
<1> DEFINE Less == {ss \in Nat \X Nat : ss[1] < ss[2]}
<1>1. IsWellFoundedOn(Less, Nat)
  BY NatLessThanWellFounded DEF OpToRel
<1>2. PICK n \in S : \A m \in S : ~ (<<m, n>> \in Less)
  <2> HIDE DEF Less
  <2> QED BY <1>1, WFMin
<1>3. ASSUME NEW m \in S PROVE n <= m
  <2>1. m \in Nat /\ n \in Nat /\ <<m, n>> \in Nat \X Nat
    OBVIOUS
  <2>2. ~(<<m, n>>[1] < <<m, n>>[2])
    BY <2>1, <1>2
  <2> QED BY <2>1, <2>2
<1> QED BY <1>3

\* Min, which picks the next command and the next ack, is in its set and below the rest.
LEMMA MinIsLeast ==
  ASSUME NEW S \in SUBSET Nat, S # {}
  PROVE  Min(S) \in S /\ \A m \in S : Min(S) <= m
  BY LeastNumber DEF Min

\* One event of a report: taken if the state allows it, else stored and skipped.
Taken(s, to) == IF CanTransition(s, to, "runner") THEN to ELSE s

\* at lists the states that the first m of events lead through, from state.
Path(at, state, events, m) ==
  at = [n \in 0..m |-> IF n = 0 THEN state ELSE Taken(at[n - 1], events[n])]

\* There is such a list for any log: by the least length for which there were none.
LEMMA PathExists ==
  ASSUME NEW state, NEW events, NEW N \in Nat
  PROVE  \E at : Path(at, state, events, N)
<1> DEFINE Bad == {m \in 0..N : ~\E at : Path(at, state, events, m)}
<1>1. SUFFICES ASSUME Bad # {} PROVE FALSE
  <2>1. N \in 0..N  OBVIOUS
  <2> QED BY <2>1
<1>2. PICK m \in Bad : \A k \in Bad : m <= k
  <2>1. Bad \in SUBSET Nat  OBVIOUS
  <2> HIDE DEF Bad
  <2> QED BY <1>1, <2>1, LeastNumber
<1>3. m # 0
  <2>1. ASSUME NEW at, at = [n \in {0} |-> state] PROVE Path(at, state, events, 0)
    BY <2>1, 0..0 = {0} DEF Path
  <2> QED BY <2>1
<1>4. m - 1 \in 0..N /\ m - 1 \notin Bad
  BY <1>2, <1>3
<1>5. PICK at : Path(at, state, events, m - 1)
  BY <1>4
<1>6. ASSUME NEW next, next = [n \in 0..m |-> IF n = m THEN Taken(at[m - 1], events[m]) ELSE at[n]]
      PROVE  Path(next, state, events, m)
  <2>1. next[0] = state
    BY <1>3, <1>4, <1>5, <1>6 DEF Path
  <2>2. ASSUME NEW n \in 1..m PROVE next[n] = Taken(next[n - 1], events[n])
    <3>1. next[n - 1] = at[n - 1]
      BY <1>4, <1>6
    <3>2. CASE n = m  BY <3>1, <3>2, <1>6
    <3>3. CASE n # m
      <4>1. at[n] = Taken(at[n - 1], events[n])
        BY <3>3, <1>4, <1>5 DEF Path
      <4> QED BY <3>1, <3>3, <4>1, <1>6
    <3> QED BY <3>2, <3>3
  <2>3. ASSUME NEW n \in 0..m
        PROVE  next[n] = IF n = 0 THEN state ELSE Taken(next[n - 1], events[n])
    BY <2>1, <2>2
  <2> QED BY <2>3, <1>6 DEF Path
<1> QED BY <1>6, <1>4

\* After is the end of the path, whatever way the recursive function is written.
LEMMA AfterIsPath ==
  ASSUME NEW state, NEW events, NEW N \in Nat, N = Len(events)
  PROVE  \E at : Path(at, state, events, N) /\ After(state, events) = at[N]
<1> DEFINE at == CHOOSE f : f = [n \in 0..N |->
                     IF n = 0 THEN state
                     ELSE IF CanTransition(f[n - 1], events[n], "runner") THEN events[n] ELSE f[n - 1]]
<1>1. PICK f : f = [n \in 0..N |-> IF n = 0 THEN state ELSE Taken(f[n - 1], events[n])]
  <2>1. PICK g : Path(g, state, events, N)
    BY PathExists
  <2> QED BY <2>1 DEF Path
<1>2. Path(at, state, events, N)
  BY <1>1, Zenon DEF Path, Taken
<1>3. After(state, events) = at[N]
  BY DEF After
<1> QED BY <1>2, <1>3

\* part lists the k events after the first a.
PartOf(part, events, a, k) == \A i \in 1..k : part[i] = events[a + i]

\* A path through part of the events, begun where the whole path is, stays on it.
LEMMA PathsAgree ==
  ASSUME NEW state, NEW events, NEW n \in Nat, NEW h, Path(h, state, events, n),
         NEW a \in Nat, NEW k \in Nat, a + k <= n,
         NEW part, PartOf(part, events, a, k),
         NEW f, Path(f, h[a], part, k)
  PROVE  f[k] = h[a + k]
<1> DEFINE Bad == {i \in 0..k : f[i] # h[a + i]}
<1>1. SUFFICES ASSUME Bad # {} PROVE FALSE
  OBVIOUS
<1>2. PICK m \in Bad : \A j \in Bad : m <= j
  <2>1. Bad \in SUBSET Nat  OBVIOUS
  <2> HIDE DEF Bad
  <2> QED BY <1>1, <2>1, LeastNumber
<1>3. f[0] = h[a]
  BY DEF Path
<1>4. m - 1 \in 0..k /\ m - 1 \notin Bad /\ m \in 1..k
  BY <1>2, <1>3
<1>5. f[m - 1] = h[a + m - 1]
  <2>1. f[m - 1] = h[a + (m - 1)]  BY <1>4
  <2>2. a + (m - 1) = a + m - 1  BY <1>4
  <2> QED BY <2>1, <2>2
<1>6. f[m] = Taken(f[m - 1], part[m])
  BY <1>4 DEF Path
<1>7. h[a + m] = Taken(h[a + m - 1], events[a + m])
  <2>1. a + m \in 0..n /\ a + m # 0  BY <1>4
  <2> QED BY <2>1 DEF Path
<1>8. part[m] = events[a + m]
  BY <1>4 DEF PartOf
<1> QED BY <1>5, <1>6, <1>7, <1>8

\* Events taken in two reports are taken as in one.
LEMMA AfterInTwo ==
  ASSUME NEW S, NEW state, NEW events \in Seq(S),
         NEW m \in 0..Len(events), NEW n \in m..Len(events)
  PROVE  After(After(state, SubSeq(events, 1, m)), SubSeq(events, m + 1, n))
           = After(state, SubSeq(events, 1, n))
<1> DEFINE first == SubSeq(events, 1, m)  rest == SubSeq(events, m + 1, n)
           all == SubSeq(events, 1, n)
<1>1. m = Len(first) /\ n - m = Len(rest) /\ n = Len(all)
  OBVIOUS
<1>2. PartOf(first, all, 0, m)
  BY DEF PartOf
<1>3. PartOf(rest, all, m, n - m)
  <2> SUFFICES \A i \in 1..(n - m) : rest[i] = all[m + i]
    BY DEF PartOf
  <2> TAKE i \in 1..(n - m)
  <2>1. m + i \in 1..n /\ (m + 1) + i - 1 = m + i  OBVIOUS
  <2>2. rest[i] = events[m + i] /\ all[m + i] = events[m + i]  BY <2>1
  <2> QED BY <2>2
<1>n. m \in Nat /\ n \in Nat /\ n - m \in Nat /\ 0 \in Nat /\ 0 + m <= n /\ m + (n - m) <= n
  OBVIOUS
<1> HIDE DEF first, rest, all
<1>4. PICK h : Path(h, state, all, n) /\ After(state, all) = h[n]
  <2>1. n \in Nat /\ n = Len(all)  BY <1>1, <1>n
  <2> QED BY <2>1, AfterIsPath, Zenon
<1>5. PICK f : Path(f, state, first, m) /\ After(state, first) = f[m]
  <2>1. m \in Nat /\ m = Len(first)  BY <1>1, <1>n
  <2> QED BY <2>1, AfterIsPath, Zenon
<1>6. f[m] = h[m]
  <2>1. h[0] = state  BY <1>4, <1>n DEF Path
  <2>2. Path(f, h[0], first, m)  BY <2>1, <1>5
  <2>3. f[m] = h[0 + m]  BY <2>2, <1>2, <1>n, <1>4, PathsAgree
  <2> QED BY <2>3
<1>7. PICK g : Path(g, h[m], rest, n - m) /\ After(h[m], rest) = g[n - m]
  <2>1. n - m \in Nat /\ n - m = Len(rest)  BY <1>1, <1>n
  <2> QED BY <2>1, AfterIsPath, Zenon
<1>8. g[n - m] = h[n]
  <2>1. g[n - m] = h[m + (n - m)]
    BY <1>7, <1>3, <1>n, <1>4, PathsAgree
  <2> QED BY <2>1
<1>9. After(After(state, first), rest) = After(state, all)
  BY <1>4, <1>5, <1>6, <1>7, <1>8
<1> QED BY <1>9 DEF first, rest, all

\* The journal's rows, the supervisor's runs and the nax processes.
Row  == [job: Jobs, epoch: Nat, events: Seq(JobStates), acked: Nat,
         pid: BOOLEAN, cancel: BOOLEAN, done: BOOLEAN]
Run  == [job: Jobs, epoch: Nat,
         phase: {"accepted", "prepare", "reprepare", "spawned", "watch", "finish", "upload"}]
Proc == [job: Jobs, epoch: Nat, known: BOOLEAN]
\* What a sync request says of a row, and what its reply says.
Sent == [job: Jobs, epoch: Nat, from: Nat, events: Seq(JobStates)]
Seen == [job: Jobs, epoch: Nat, seq: Nat]

\* An exchange has the fields of NoSync and no others.
SyncShape(s) ==
  s = [at |-> s.at, boot |-> s.boot, sent |-> s.sent, acks |-> s.acks, reports |-> s.reports,
       slots |-> s.slots, seqs |-> s.seqs, ids |-> s.ids, done |-> s.done]

\* A machine's journal, memory and processes.
MachinesTyped ==
  /\ up \subseteq Runners
  /\ boot \in [Runners -> 0..MaxBoot] /\ \A r \in up : boot[r] # 0
  /\ rows \in [Runners -> SUBSET Row]
  /\ runs \in [Runners -> SUBSET Run]
  /\ procs \in [Runners -> SUBSET Proc]
  /\ applied = [r \in Runners |-> applied[r]] /\ acks = [r \in Runners |-> acks[r]]

\* An exchange in hand was sent by a real boot, and its seqs are bounded.
ExchangesTyped ==
  /\ ackedSeq \in [Jobs -> Nat]
  /\ sync = [r \in Runners |-> sync[r]]
  /\ \A r \in Runners :
       /\ SyncShape(sync[r])
       /\ sync[r].at # "idle" => sync[r].boot \in Boots
       /\ sync[r].reports \subseteq Sent /\ sync[r].seqs \subseteq Seen
       /\ \E b \in Nat : \A q \in sync[r].seqs : q.seq <= b

\* What a machine has applied, acks or is about to handle was issued to it.
CommandsKnown ==
  \A r \in Runners :
    /\ \A c \in DOMAIN applied[r] : /\ c \in DOMAIN cmds /\ cmds[c].runner = r
                                    /\ applied[r][c] \in {"ok", "rejected"}
    /\ acks[r] \subseteq DOMAIN applied[r]
    /\ sync[r].acks \subseteq DOMAIN applied[r] /\ sync[r].done \subseteq DOMAIN applied[r]
    /\ \A c \in sync[r].ids : c \in DOMAIN cmds /\ cmds[c].runner = r

\* The machine r has applied the ASSIGN of lease e of job j.
Given(r, j, e) ==
  \E c \in DOMAIN applied[r] : /\ cmds[c].type = "ASSIGN"
                               /\ cmds[c].job = j /\ cmds[c].epoch = e

\* Nothing is journaled, reported or acked of a lease but by the machine it was given to.
LeasesGiven ==
  \A r \in Runners :
    /\ \A w \in rows[r] : Given(r, w.job, w.epoch)
    /\ \A p \in sync[r].reports : Given(r, p.job, p.epoch)
    /\ \A q \in sync[r].seqs : Given(r, q.job, q.epoch)

\* The invariant of the first half: types, and who may speak of which lease.
DispatchTyped == MachinesTyped /\ ExchangesTyped /\ CommandsKnown /\ LeasesGiven

-----------------------------------------------------------------------------
(* Rows *)

\* Two rows, reports or acks of one lease.
SameLeaseAs(v, w) == v.job = w.job /\ v.epoch = w.epoch
\* The row v is the row w with marks set and events appended.
Extends(w, v) ==
  /\ SameLeaseAs(v, w) /\ v.acked = w.acked
  /\ Len(w.events) <= Len(v.events)
  /\ \A i \in 1..Len(w.events) : v.events[i] = w.events[i]

\* An emitted event extends a row.
LEMMA EmitFacts ==
  ASSUME NEW w \in Row, NEW to \in JobStates
  PROVE  R!Emit(w, to) \in Row /\ Extends(w, R!Emit(w, to))
<1>1. Append(w.events, to) \in Seq(JobStates)
  BY DEF Row
<1>2. /\ Len(w.events) <= Len(Append(w.events, to))
      /\ \A i \in 1..Len(w.events) : Append(w.events, to)[i] = w.events[i]
  BY DEF Row
<1>3. R!Emit(w, to) = [w EXCEPT !.events = Append(w.events, to)]
  BY DEF R!Emit
<1> DEFINE es == Append(w.events, to)
<1> HIDE DEF es
<1>4. ASSUME NEW x, x = [w EXCEPT !.events = es], es \in Seq(JobStates)
      PROVE  x \in Row /\ SameLeaseAs(x, w) /\ x.acked = w.acked /\ x.events = es
  BY <1>4 DEF Row, SameLeaseAs
<1> QED BY <1>1, <1>2, <1>3, <1>4 DEF es, Extends

\* A mark on a row leaves its lease and its log alone.
LEMMA MarkFacts ==
  ASSUME NEW w \in Row, NEW x, NEW b \in BOOLEAN,
         \/ x = [w EXCEPT !.cancel = b] \/ x = [w EXCEPT !.done = b]
         \/ x = [w EXCEPT !.pid = b] \/ x = [w EXCEPT !.cancel = b, !.done = b]
  PROVE  x \in Row /\ Extends(w, x)
<1>1. x \in Row /\ SameLeaseAs(x, w) /\ x.acked = w.acked /\ x.events = w.events
  BY DEF Row, SameLeaseAs
<1>2. Len(w.events) \in Nat
  BY DEF Row
<1> QED BY <1>1, <1>2 DEF Extends

\* A row that extends one that extends w extends w.
LEMMA ExtendsTransitive ==
  ASSUME NEW u \in Row, NEW v \in Row, NEW w \in Row, Extends(u, v), Extends(v, w)
  PROVE  Extends(u, w)
<1>1. Len(u.events) \in Nat /\ Len(v.events) \in Nat /\ Len(w.events) \in Nat
  BY DEF Row
<1> QED BY <1>1 DEF Extends, SameLeaseAs

\* The jobs table has one row per lease.
OneRow(r) == \A v, w \in rows[r] : SameLeaseAs(v, w) => v = w

\* A step of the daemon on r that drops rows and lets others grow.
RowsGrow(r) ==
  /\ rows' \in [Runners -> SUBSET Row]
  /\ \A q \in Runners \ {r} : rows'[q] = rows[q]
  /\ \A v \in rows'[r] : \E w \in rows[r] : Extends(w, v)
  /\ OneRow(r) => OneRow(r)'

\* A row that is left alone extends itself.
LEMMA RowExtendsItself ==
  ASSUME NEW w \in Row
  PROVE  Extends(w, w)
<1>1. Len(w.events) \in Nat  BY DEF Row
<1> QED BY <1>1 DEF Extends, SameLeaseAs

\* Dropping rows, none included.
LEMMA DroppedGrow ==
  ASSUME MachinesTyped, NEW r \in Runners, NEW X,
         rows' = [rows EXCEPT ![r] = @ \ X] \/ rows' = rows
  PROVE  RowsGrow(r)
<1>1. rows' \in [Runners -> SUBSET Row] /\ rows'[r] \subseteq rows[r] /\ rows[r] \subseteq Row
      /\ \A q \in Runners \ {r} : rows'[q] = rows[q]
  BY DEF MachinesTyped
<1>2. \A v \in rows'[r] : v \in rows[r] /\ Extends(v, v)
  BY <1>1, RowExtendsItself
<1> QED BY <1>1, <1>2 DEF RowsGrow, OneRow

\* Replacing a row by one that extends it.
LEMMA ChangedGrow ==
  ASSUME MachinesTyped, NEW r \in Runners, NEW w \in rows[r], NEW v \in Row, Extends(w, v),
         rows' = R!Changed(r, w, v)
  PROVE  RowsGrow(r)
<1>1. rows' \in [Runners -> SUBSET Row] /\ rows'[r] = (rows[r] \ {w}) \cup {v} /\ rows[r] \subseteq Row
      /\ \A q \in Runners \ {r} : rows'[q] = rows[q]
  BY DEF MachinesTyped, R!Changed
<1>2. \A u \in rows'[r] : \E x \in rows[r] : Extends(x, u)
  BY <1>1, RowExtendsItself
<1>3. SameLeaseAs(v, w)
  BY DEF Extends
<1>4. OneRow(r) => OneRow(r)'
  BY <1>1, <1>3 DEF OneRow, SameLeaseAs
<1> QED BY <1>1, <1>2, <1>4 DEF RowsGrow

\* An event and the marks that are written with it extend a row.
LEMMA EmittedGrow ==
  ASSUME MachinesTyped, NEW r \in Runners, NEW w \in rows[r], NEW to \in JobStates, NEW v,
         \/ v = R!Emit(w, to)
         \/ v = [R!Emit(w, to) EXCEPT !.done = TRUE]
         \/ v = [R!Emit(w, to) EXCEPT !.pid = TRUE]
         \/ v = [R!Emit(w, to) EXCEPT !.cancel = TRUE, !.done = TRUE]
  PROVE  v \in Row /\ Extends(w, v)
<1>1. w \in Row
  BY DEF MachinesTyped
<1>2. R!Emit(w, to) \in Row /\ Extends(w, R!Emit(w, to))
  BY <1>1, EmitFacts
<1>3. TRUE \in BOOLEAN  OBVIOUS
<1>4. CASE v = R!Emit(w, to)
  BY <1>2, <1>4
<1>5. CASE v # R!Emit(w, to)
  <2>1. v \in Row /\ Extends(R!Emit(w, to), v)
    BY <1>2, <1>3, <1>5, MarkFacts
  <2> QED BY <1>1, <1>2, <2>1, ExtendsTransitive
<1> QED BY <1>4, <1>5

\* One step of a run.
LEMMA RunStepGrows ==
  ASSUME MachinesTyped, NEW r \in Runners, R!RunStep(r)
  PROVE  RowsGrow(r)
<1>1. PICK x \in runs[r] : \E w \in R!RowsFor(r, x.job, x.epoch) :
        \/ R!RunEndsEarly(r, x, w) \/ R!RunSpawn(r, x, w) \/ R!RunRecords(r, x, w)
        \/ R!RunFinishes(r, x, w) \/ R!RunFails(r, x, w)
  BY DEF R!RunStep
<1>0. PICK w \in R!RowsFor(r, x.job, x.epoch) :
        \/ R!RunEndsEarly(r, x, w) \/ R!RunSpawn(r, x, w) \/ R!RunRecords(r, x, w)
        \/ R!RunFinishes(r, x, w) \/ R!RunFails(r, x, w)
  BY <1>1
<1>2. w \in rows[r]
  BY DEF R!RowsFor
<1>3. CASE R!RunEndsEarly(r, x, w)
  <2>1. PICK to \in {"CANCELLED", "FAILED"} :
          rows' = R!Changed(r, w, [R!Emit(w, to) EXCEPT !.done = TRUE])
    BY <1>3 DEF R!RunEndsEarly
  <2>2. to \in JobStates
    BY DEF JobStates, TerminalStates
  <2> DEFINE v == [R!Emit(w, to) EXCEPT !.done = TRUE]
  <2>3. v \in Row /\ Extends(w, v)
    BY <1>2, <2>2, EmittedGrow
  <2> HIDE DEF v
  <2> QED BY <1>2, <2>1, <2>3, ChangedGrow DEF v
<1>4. CASE R!RunSpawn(r, x, w)
  BY <1>4, DroppedGrow DEF R!RunSpawn
<1>5. CASE R!RunRecords(r, x, w)
  <2>1. rows' = R!Changed(r, w, [R!Emit(w, "RUNNING") EXCEPT !.pid = TRUE])
    BY <1>5 DEF R!RunRecords
  <2>2. "RUNNING" \in JobStates
    BY DEF JobStates, ActiveStates
  <2> DEFINE v == [R!Emit(w, "RUNNING") EXCEPT !.pid = TRUE]
  <2>3. v \in Row /\ Extends(w, v)
    BY <1>2, <2>2, EmittedGrow
  <2> HIDE DEF v
  <2> QED BY <1>2, <2>1, <2>3, ChangedGrow DEF v
<1>6. CASE R!RunFinishes(r, x, w)
  <2>1. rows' = rows \/ rows' = R!Changed(r, w, R!Emit(w, "UPLOADING"))
    BY <1>6 DEF R!RunFinishes
  <2>2. "UPLOADING" \in JobStates
    BY DEF JobStates, ActiveStates
  <2>3. R!Emit(w, "UPLOADING") \in Row /\ Extends(w, R!Emit(w, "UPLOADING"))
    BY <1>2, <2>2, EmittedGrow
  <2> QED BY <1>2, <2>1, <2>3, ChangedGrow, DroppedGrow
<1>7. CASE R!RunFails(r, x, w)
  <2>1. PICK u : /\ u = IF R!LocalState(w) = "RUNNING" THEN R!Emit(w, "UPLOADING") ELSE w
                 /\ rows' = R!Changed(r, w, [R!Emit(u, "FAILED") EXCEPT !.done = TRUE])
    BY <1>7 DEF R!RunFails
  <2>2. "UPLOADING" \in JobStates /\ "FAILED" \in JobStates /\ w \in Row
    BY <1>2 DEF JobStates, ActiveStates, TerminalStates, MachinesTyped
  <2>3. u \in Row /\ Extends(w, u)
    BY <1>2, <2>1, <2>2, EmittedGrow, RowExtendsItself
  <2>4. R!Emit(u, "FAILED") \in Row /\ Extends(u, R!Emit(u, "FAILED"))
    BY <2>2, <2>3, EmitFacts
  <2> DEFINE v == [R!Emit(u, "FAILED") EXCEPT !.done = TRUE]
  <2>5. v \in Row /\ Extends(R!Emit(u, "FAILED"), v)
    BY <2>4, MarkFacts
  <2> HIDE DEF v
  <2>6. Extends(w, v)
    BY <2>2, <2>3, <2>4, <2>5, ExtendsTransitive
  <2> QED BY <1>2, <2>1, <2>5, <2>6, ChangedGrow DEF v
<1> QED BY <1>0, <1>3, <1>4, <1>5, <1>6, <1>7

\* The end of an upload.
LEMMA RunUploadsGrows ==
  ASSUME MachinesTyped, NEW r \in Runners, NEW x \in runs[r],
         NEW w \in R!RowsFor(r, x.job, x.epoch), NEW answer, R!RunUploads(r, x, w, answer)
  PROVE  RowsGrow(r)
<1>1. w \in rows[r] /\ w \in Row
  BY DEF R!RowsFor, MachinesTyped
<1>2. CASE rows' = rows
  BY <1>2, DroppedGrow
<1>3. CASE \E to \in Verdicts \cup {"CANCELLED"} :
             rows' = R!Changed(r, w, [R!Emit(w, to) EXCEPT !.done = TRUE])
  <2>1. PICK to \in Verdicts \cup {"CANCELLED"} :
          rows' = R!Changed(r, w, [R!Emit(w, to) EXCEPT !.done = TRUE])
    BY <1>3
  <2>2. to \in JobStates
    BY VerdictAssumption DEF JobStates, TerminalStates
  <2> DEFINE v == [R!Emit(w, to) EXCEPT !.done = TRUE]
  <2>3. v \in Row /\ Extends(w, v)
    BY <1>1, <2>2, EmittedGrow
  <2> HIDE DEF v
  <2> QED BY <1>1, <2>1, <2>3, ChangedGrow DEF v
<1>4. CASE rows' = R!Changed(r, w, [w EXCEPT !.done = TRUE])
  <2> DEFINE v == [w EXCEPT !.done = TRUE]
  <2>1. v \in Row /\ Extends(w, v)
    BY <1>1, MarkFacts
  <2> HIDE DEF v
  <2> QED BY <1>1, <1>4, <2>1, ChangedGrow DEF v
<1> QED BY <1>2, <1>3, <1>4 DEF R!RunUploads

\* The row of a lease that the machine did not know.
AddsRow(r, j, e) ==
  /\ R!RowsFor(r, j, e) = {}
  /\ rows' = [rows EXCEPT ![r] = @ \cup {R!NewRow(j, e)}]

\* A CANCEL marks a row, or appends the CANCELLED of a run that never started.
LEMMA HandleCancelGrows ==
  ASSUME MachinesTyped, NEW r \in Runners, NEW id, NEW j, NEW e, R!HandleCancel(r, id, j, e)
  PROVE  RowsGrow(r)
<1>1. CASE rows' = rows
  BY <1>1, DroppedGrow
<1>2. CASE \E w \in R!RowsFor(r, j, e) :
             rows' = R!Changed(r, w, [R!Emit(w, "CANCELLED") EXCEPT !.cancel = TRUE, !.done = TRUE])
  <2>1. PICK w \in R!RowsFor(r, j, e) :
          rows' = R!Changed(r, w, [R!Emit(w, "CANCELLED") EXCEPT !.cancel = TRUE, !.done = TRUE])
    BY <1>2
  <2>2. w \in rows[r] /\ "CANCELLED" \in JobStates
    BY DEF R!RowsFor, JobStates, TerminalStates
  <2> DEFINE v == [R!Emit(w, "CANCELLED") EXCEPT !.cancel = TRUE, !.done = TRUE]
  <2>3. v \in Row /\ Extends(w, v)
    BY <2>2, EmittedGrow
  <2> HIDE DEF v
  <2> QED BY <2>1, <2>2, <2>3, ChangedGrow DEF v
<1>3. CASE \E w \in R!RowsFor(r, j, e) : rows' = R!Changed(r, w, [w EXCEPT !.cancel = TRUE])
  <2>1. PICK w \in R!RowsFor(r, j, e) : rows' = R!Changed(r, w, [w EXCEPT !.cancel = TRUE])
    BY <1>3
  <2>2. w \in rows[r] /\ w \in Row
    BY DEF R!RowsFor, MachinesTyped
  <2> DEFINE v == [w EXCEPT !.cancel = TRUE]
  <2>3. v \in Row /\ Extends(w, v)
    BY <2>2, MarkFacts
  <2> HIDE DEF v
  <2> QED BY <2>1, <2>2, <2>3, ChangedGrow DEF v
<1> QED BY <1>1, <1>2, <1>3 DEF R!HandleCancel

\* A READOPT marks a row done or leaves the rows alone.
LEMMA HandleReadoptGrows ==
  ASSUME MachinesTyped, NEW r \in Runners, NEW id, NEW j, NEW e, R!HandleReadopt(r, id, j, e)
  PROVE  RowsGrow(r)
<1>1. CASE rows' = rows
  BY <1>1, DroppedGrow
<1>2. CASE \E w \in R!RowsFor(r, j, e) : rows' = R!Changed(r, w, [w EXCEPT !.done = TRUE])
  <2>1. PICK w \in R!RowsFor(r, j, e) : rows' = R!Changed(r, w, [w EXCEPT !.done = TRUE])
    BY <1>2
  <2>2. w \in rows[r] /\ w \in Row
    BY DEF R!RowsFor, MachinesTyped
  <2> DEFINE v == [w EXCEPT !.done = TRUE]
  <2>3. v \in Row /\ Extends(w, v)
    BY <2>2, MarkFacts
  <2> HIDE DEF v
  <2> QED BY <2>1, <2>2, <2>3, ChangedGrow DEF v
<1> QED BY <1>1, <1>2 DEF R!HandleReadopt, R!ReadoptOk, R!ReadoptRejects

\* A command lets the rows of the machine grow, or adds the row of a new ASSIGN.
LEMMA HandleRows ==
  ASSUME MachinesTyped, NEW r \in Runners, NEW id, NEW type, NEW j, NEW e,
         R!Handle(r, id, type, j, e)
  PROVE  \/ RowsGrow(r)
         \/ /\ type = "ASSIGN" /\ id \notin DOMAIN applied[r]
            /\ AddsRow(r, j, e) /\ applied' = R!Recorded(r, id, "ok")
<1>1. CASE R!Replay(r, id, type, j, e)
  BY <1>1, DroppedGrow DEF R!Replay
<1>2. CASE type = "ASSIGN" /\ R!HandleAssign(r, id, j, e)
  <2>1. CASE rows' = rows
    BY <2>1, DroppedGrow
  <2>2. CASE rows' # rows
    BY <1>2, <2>2 DEF R!HandleAssign, R!AcceptAssign, R!RejectAssign, R!Replayed, AddsRow
  <2> QED BY <2>1, <2>2
<1>3. CASE R!HandleCancel(r, id, j, e)
  BY <1>3, HandleCancelGrows
<1>4. CASE R!HandleAbandon(r, id, j, e)
  BY <1>4, DroppedGrow DEF R!HandleAbandon
<1>5. CASE R!HandleReadopt(r, id, j, e)
  BY <1>5, HandleReadoptGrows
<1> QED BY <1>1, <1>2, <1>3, <1>4, <1>5 DEF R!Handle

\* What a command leaves in the record of applied commands.
LEMMA HandleRecords ==
  ASSUME NEW r, NEW id, NEW type, NEW j, NEW e, R!Handle(r, id, type, j, e)
  PROVE  \/ id \in DOMAIN applied[r] /\ applied' = applied
         \/ id \notin DOMAIN applied[r] /\ applied' = R!Recorded(r, id, "ok")
         \/ id \notin DOMAIN applied[r] /\ applied' = R!Recorded(r, id, "rejected")
<1>1. CASE R!Replay(r, id, type, j, e)
  BY <1>1 DEF R!Replay, R!Replayed
<1>2. CASE R!HandleAssign(r, id, j, e)
  BY <1>2 DEF R!HandleAssign, R!AcceptAssign, R!RejectAssign, R!Replayed
<1>3. CASE R!HandleCancel(r, id, j, e)
  <2>1. CASE R!RowsFor(r, j, e) = {}
    BY <1>3, <2>1 DEF R!HandleCancel, R!Replayed
  <2>2. CASE R!RowsFor(r, j, e) # {}
    BY <1>3, <2>2 DEF R!HandleCancel, R!Replayed
  <2> QED BY <2>1, <2>2
<1>4. CASE R!HandleAbandon(r, id, j, e)
  BY <1>4 DEF R!HandleAbandon, R!Replayed
<1>5. CASE R!HandleReadopt(r, id, j, e)
  BY <1>5 DEF R!HandleReadopt, R!Replayed
<1> QED BY <1>1, <1>2, <1>3, <1>4, <1>5 DEF R!Handle

\* Recording a command's result adds it and changes no other.
LEMMA RecordedFacts ==
  ASSUME MachinesTyped, NEW r \in Runners, NEW id, NEW result, applied' = R!Recorded(r, id, result)
  PROVE  /\ applied' = [q \in Runners |-> applied'[q]]
         /\ DOMAIN applied'[r] = DOMAIN applied[r] \cup {id}
         /\ applied'[r][id] = result
         /\ \A c \in DOMAIN applied[r] : c # id => applied'[r][c] = applied[r][c]
         /\ \A q \in Runners \ {r} : applied'[q] = applied[q]
<1> DEFINE f == [c \in {id} \cup DOMAIN applied[r] |-> IF c = id THEN result ELSE applied[r][c]]
<1>1. applied' = [applied EXCEPT ![r] = f]
  BY DEF R!Recorded
<1>2. /\ DOMAIN f = DOMAIN applied[r] \cup {id} /\ f[id] = result
      /\ \A c \in DOMAIN applied[r] : c # id => f[c] = applied[r][c]
  OBVIOUS
<1> HIDE DEF f
<1>3. applied = [q \in Runners |-> applied[q]]
  BY DEF MachinesTyped
<1>4. applied' = [q \in Runners |-> IF q = r THEN f ELSE applied[q]]
  BY <1>1, <1>3
<1>5. applied'[r] = f /\ \A q \in Runners \ {r} : applied'[q] = applied[q]
  BY <1>4
<1>6. applied' = [q \in Runners |-> applied'[q]]
  BY <1>4
<1> QED BY <1>2, <1>5, <1>6

-----------------------------------------------------------------------------
(* The exchange *)

\* The fields of an exchange that the proofs speak of.
SyncIs(s, at, bt, as, reports, seqs, ids, done) ==
  /\ SyncShape(s) /\ s.at = at /\ s.boot = bt /\ s.acks = as
  /\ s.reports = reports /\ s.seqs = seqs /\ s.ids = ids /\ s.done = done

\* They after each kind of write.
LEMMA SyncForms ==
  ASSUME NEW s, SyncShape(s), NEW a, NEW A, NEW X, NEW Y, NEW n, NEW I, NEW D, NEW x
  PROVE
    /\ x = [s EXCEPT !.at = a] => SyncIs(x, a, s.boot, s.acks, s.reports, s.seqs, s.ids, s.done)
    /\ x = [s EXCEPT !.acks = A] => SyncIs(x, s.at, s.boot, A, s.reports, s.seqs, s.ids, s.done)
    /\ x = [s EXCEPT !.at = a, !.reports = X, !.seqs = Y] => SyncIs(x, a, s.boot, s.acks, X, Y, s.ids, s.done)
    /\ x = [s EXCEPT !.at = a, !.reports = X] => SyncIs(x, a, s.boot, s.acks, X, s.seqs, s.ids, s.done)
    /\ x = [s EXCEPT !.at = a, !.slots = n] => SyncIs(x, a, s.boot, s.acks, s.reports, s.seqs, s.ids, s.done)
    /\ x = [s EXCEPT !.at = a, !.slots = n, !.ids = I] => SyncIs(x, a, s.boot, s.acks, s.reports, s.seqs, I, s.done)
    /\ x = [s EXCEPT !.ids = I, !.done = D] => SyncIs(x, s.at, s.boot, s.acks, s.reports, s.seqs, I, D)
<1>1. x = [s EXCEPT !.at = a] => SyncIs(x, a, s.boot, s.acks, s.reports, s.seqs, s.ids, s.done)
  BY DEF SyncIs, SyncShape
<1>2. x = [s EXCEPT !.acks = A] => SyncIs(x, s.at, s.boot, A, s.reports, s.seqs, s.ids, s.done)
  BY DEF SyncIs, SyncShape
<1>3. x = [s EXCEPT !.at = a, !.reports = X, !.seqs = Y] => SyncIs(x, a, s.boot, s.acks, X, Y, s.ids, s.done)
  BY DEF SyncIs, SyncShape
<1>4. x = [s EXCEPT !.at = a, !.reports = X] => SyncIs(x, a, s.boot, s.acks, X, s.seqs, s.ids, s.done)
  BY DEF SyncIs, SyncShape
<1>5. x = [s EXCEPT !.at = a, !.slots = n] => SyncIs(x, a, s.boot, s.acks, s.reports, s.seqs, s.ids, s.done)
  BY DEF SyncIs, SyncShape
<1>6. x = [s EXCEPT !.at = a, !.slots = n, !.ids = I] => SyncIs(x, a, s.boot, s.acks, s.reports, s.seqs, I, s.done)
  BY DEF SyncIs, SyncShape
<1>7. x = [s EXCEPT !.ids = I, !.done = D] => SyncIs(x, s.at, s.boot, s.acks, s.reports, s.seqs, I, D)
  BY DEF SyncIs, SyncShape
<1> QED BY <1>1, <1>2, <1>3, <1>4, <1>5, <1>6, <1>7

\* An exchange that has not begun.
LEMMA NoSyncFacts == SyncIs(NoSync, "idle", NoBoot, {}, {}, {}, {}, {})
  BY DEF NoSync, SyncIs, SyncShape

\* An exchange at its beginning and after its reply.
LEMMA NewSyncForms ==
  ASSUME NEW b, NEW A, NEW X, NEW n, NEW I, NEW x
  PROVE
    /\ x = [NoSync EXCEPT !.at = "sent", !.boot = b, !.sent = A,
                          !.acks = A, !.reports = X, !.slots = n]
         => SyncIs(x, "sent", b, A, X, {}, {}, {})
    /\ x = [NoSync EXCEPT !.at = "handling", !.boot = b, !.ids = I]
         => SyncIs(x, "handling", b, {}, {}, {}, I, {})
<1>1. x = [NoSync EXCEPT !.at = "sent", !.boot = b, !.sent = A,
                         !.acks = A, !.reports = X, !.slots = n]
        => SyncIs(x, "sent", b, A, X, {}, {}, {})
  BY DEF NoSync, SyncIs, SyncShape
<1>2. x = [NoSync EXCEPT !.at = "handling", !.boot = b, !.ids = I]
        => SyncIs(x, "handling", b, {}, {}, {}, I, {})
  BY DEF NoSync, SyncIs, SyncShape
<1> QED BY <1>1, <1>2

\* Writing one exchange leaves the others alone.
LEMMA PutFacts ==
  ASSUME ExchangesTyped, NEW r \in Runners, NEW x, sync' = Put(r, x)
  PROVE  /\ sync' = [q \in Runners |-> sync'[q]]
         /\ sync'[r] = x /\ \A q \in Runners \ {r} : sync'[q] = sync[q]
<1>1. sync = [q \in Runners |-> sync[q]]
  BY DEF ExchangesTyped
<1>2. sync' = [q \in Runners |-> IF q = r THEN x ELSE sync[q]]
  BY <1>1 DEF Put
<1> QED BY <1>2

-----------------------------------------------------------------------------
(* Every step is one of the server's, or none of them *)

\* The lease of a row, or of what a row sent, was granted to its runner.
LEMMA GivenIsLease ==
  ASSUME CommandsKnown, NEW r \in Runners, NEW j, NEW e, Given(r, j, e)
  PROVE  [job |-> j, runner |-> r, epoch |-> e] \in Leases
<1>1. PICK c \in DOMAIN applied[r] : cmds[c].type = "ASSIGN" /\ cmds[c].job = j /\ cmds[c].epoch = e
  BY DEF Given
<1>2. c \in DOMAIN cmds /\ cmds[c].runner = r
  BY DEF CommandsKnown
<1> QED BY <1>1, <1>2 DEF Leases

\* An ack in hand is one of FleetJob's acks, or changes nothing there.
LEMMA AckIsNext ==
  ASSUME DispatchTyped, LeaseInv, NEW r \in Runners, ServerAck(r)
  PROVE  [Next]_vars
<1> DEFINE c == Min(sync[r].acks)
<1>1. c \in DOMAIN applied[r] /\ c \in DOMAIN cmds
  <2>1. sync[r].acks \subseteq DOMAIN applied[r] /\ DOMAIN applied[r] \subseteq DOMAIN cmds
    BY DEF DispatchTyped, CommandsKnown
  <2>2. DOMAIN cmds \subseteq Nat
    BY CmdDomain DEF LeaseInv, TypeOK
  <2>3. sync[r].acks \in SUBSET Nat /\ sync[r].acks # {}
    BY <2>1, <2>2 DEF ServerAck
  <2> QED BY <2>1, <2>3, MinIsLeast
<1>2. applied[r][c] \in {"ok", "rejected"}
  BY <1>1 DEF DispatchTyped, CommandsKnown
<1>3. sync[r].boot \in Boots
  BY DEF DispatchTyped, ExchangesTyped, ServerAck, At
<1>4. Ack(c, applied[r][c], sync[r].boot) \/ UNCHANGED vars
  BY DEF ServerAck
<1> HIDE DEF c
<1>5. CASE Ack(c, applied[r][c], sync[r].boot)
  BY <1>1, <1>2, <1>3, <1>5 DEF Next, SyncApi
<1> QED BY <1>4, <1>5

\* A report in hand is one of FleetJob's reports, or a fenced one.
LEMMA ReportIsNext ==
  ASSUME DispatchTyped, NEW r \in Runners, ServerReport(r)
  PROVE  [Next]_vars
<1>1. PICK p \in sync[r].reports : ReportTaken(r, p) \/ ReportFenced(r, p)
  BY DEF ServerReport
<1> DEFINE l == [job |-> p.job, runner |-> r, epoch |-> p.epoch]
<1>2. l \in Leases
  BY GivenIsLease DEF DispatchTyped, LeasesGiven
<1>3. CASE ReportFenced(r, p)
  BY <1>2, <1>3 DEF ReportFenced, Next, SyncApi
<1>4. CASE ReportTaken(r, p)
  <2> DEFINE to == After(job[p.job].state, NewEvents(p))
  <2>1. UNCHANGED vars \/ Report(l, to)
    BY <1>4 DEF ReportTaken
  <2> HIDE DEF to
  <2>2. CASE Report(l, to)
    <3>1. to \in ReportStates
      BY <2>2 DEF Report, ReportMoves, RunnerMoves, ReportStates, TerminalStates
    <3> QED BY <1>2, <2>2, <3>1 DEF Next, SyncApi
  <2> QED BY <2>1, <2>2
<1> QED BY <1>1, <1>3, <1>4

\* A bundle upload is fenced by FleetJob's own fence, or changes nothing there.
LEMMA UploadIsNext ==
  ASSUME DispatchTyped, NEW r \in Runners, UploadBundle(r)
  PROVE  [Next]_vars
<1>1. SUFFICES ASSUME ~UNCHANGED vars PROVE Next
  OBVIOUS
<1>2. PICK x \in runs[r] : \E w \in R!RowsFor(r, x.job, x.epoch) :
        Fenced([job |-> w.job, runner |-> r, epoch |-> w.epoch])
  BY <1>1 DEF UploadBundle
<1>3. PICK w \in R!RowsFor(r, x.job, x.epoch) :
        Fenced([job |-> w.job, runner |-> r, epoch |-> w.epoch])
  BY <1>2
<1>4. [job |-> w.job, runner |-> r, epoch |-> w.epoch] \in Leases
  BY GivenIsLease DEF DispatchTyped, LeasesGiven, R!RowsFor
<1> QED BY <1>3, <1>4 DEF Next, SyncApi

\* A step of an exchange is one step of FleetJob, or none.
LEMMA ExchangeIsNext ==
  ASSUME DispatchTyped, LeaseInv, NEW r \in Runners, Exchange(r)
  PROVE  [Next]_vars
<1>1. CASE UNCHANGED vars
  BY <1>1
<1>2. CASE SyncArrives(r)
  <2>1. sync[r].boot \in Boots
    BY <1>2 DEF DispatchTyped, ExchangesTyped, SyncArrives, At
  <2> QED BY <1>2, <2>1 DEF SyncArrives, Next, SyncApi
<1>3. CASE ServerReconcile(r)
  <2>1. sync[r].boot \in Boots
    BY <1>3 DEF DispatchTyped, ExchangesTyped, ServerReconcile, At
  <2> QED BY <1>3, <2>1 DEF ServerReconcile, Next, SyncApi
<1>4. CASE ServerReconciles(r)
  BY <1>4 DEF ServerReconciles, Next, SyncApi
<1> QED
  BY <1>1, <1>2, <1>3, <1>4, AckIsNext, ReportIsNext
  DEF Exchange, SendSync, ServerReplies, ReceiveReply, HandleCommand, BeginAssigned, EndSync, Discard

\* Every step of the composed system is, seen from the server, one step of
\* FleetJob or none.
LEMMA DispatchIsNext ==
  ASSUME DispatchTyped, LeaseInv, [DispatchNext]_dispatchVars
  PROVE  [Next]_vars
<1>1. CASE UNCHANGED dispatchVars
  BY <1>1 DEF dispatchVars
<1>2. ASSUME NEW r \in Runners, Exchange(r) PROVE [Next]_vars
  BY <1>2, ExchangeIsNext
<1>3. ASSUME NEW r \in Runners, ServerFill(r) PROVE [Next]_vars
  BY <1>3 DEF ServerFill, Next, SyncApi
<1>4. ASSUME NEW r \in Runners, Machine(r) PROVE [Next]_vars
  BY <1>4, UploadIsNext DEF Machine, RunStep, ProcExits, Start
<1>5. ASSUME NEW r \in Runners, Faults(r) PROVE [Next]_vars
  BY <1>5 DEF Faults, Crash, LoseMessage
<1>6. CASE ServerApi
  BY <1>6 DEF ServerApi, Next, Background
<1>7. CASE ApiCrash
  <2>1. CASE placing # {} \/ recon # {}
    BY <1>7, <2>1 DEF ApiCrash, Next, Background, ApiRestart
  <2>2. CASE placing = {} /\ recon = {}
    BY <1>7, <2>2 DEF ApiCrash, vars
  <2> QED BY <2>1, <2>2
<1> QED BY <1>1, <1>2, <1>3, <1>4, <1>5, <1>6, <1>7 DEF DispatchNext

-----------------------------------------------------------------------------
(* What a step of the server does to commands and held jobs *)

\* Commands are only added, and keep what they say.
CmdsGrow ==
  \A c \in DOMAIN cmds :
    /\ c \in DOMAIN cmds'
    /\ cmds'[c].type = cmds[c].type /\ cmds'[c].runner = cmds[c].runner
    /\ cmds'[c].job = cmds[c].job /\ cmds'[c].epoch = cmds[c].epoch

\* If job k is held after the step, it was held so before.
Kept(k) ==
  job'[k].state \in HeldStates =>
    /\ job'[k].state = job[k].state
    /\ job'[k].runner = job[k].runner /\ job'[k].epoch = job[k].epoch

\* Job k got a new lease.
Leased(k) == job'[k].state = "ASSIGNED" /\ job'[k].epoch = job[k].epoch + 1

\* Commands are kept, and no job gets a lease or changes one it keeps.
Quiet   == CmdsGrow /\ \A k \in Jobs : Kept(k)
\* Commands are kept, and a job keeps its lease or gets a new one.
Settles == CmdsGrow /\ \A k \in Jobs : Kept(k) \/ Leased(k)

\* Answering and withdrawing commands drops none.
LEMMA AnsweredGrow ==
  ASSUME Answered(cmds')
  PROVE  CmdsGrow
  BY DEF Answered, CmdsGrow

\* Issuing a command drops none.
LEMMA IssuedGrow ==
  ASSUME NEW cs, Answered(cs), NEW type, NEW r, NEW j, NEW e, cmds' = Issue(cs, type, r, j, e)
  PROVE  CmdsGrow
<1>1. cs \in Seq(Command) /\ DOMAIN cs = 1..Len(cs) /\ Len(cs) \in Nat
  BY CmdDomain DEF Answered
<1> DEFINE new == [type |-> type, runner |-> r, job |-> j, epoch |-> e, ack |-> "none"]
<1>2. cmds' = Append(cs, new)
  BY DEF Issue
<1> HIDE DEF new
<1>3. \A c \in DOMAIN cs : c \in DOMAIN cmds' /\ cmds'[c] = cs[c]
  BY <1>1, <1>2
<1> QED BY <1>3 DEF Answered, CmdsGrow

\* A transition out of the held states leaves the other jobs alone.
LEMMA MoveQuiet ==
  ASSUME RowInv, NEW j \in Jobs, NEW to, to \notin HeldStates, NEW by,
         NEW cs, Answered(cs), Move(j, to, by, cs)
  PROVE  Quiet
<1>1. Answered(cmds')
  BY WithdrawAnswered DEF Move, RowInv
<1>2. job'[j].state = to /\ \A k \in Jobs \ {j} : job'[k] = job[k]
  BY DEF Move, Moved, RowInv
<1> QED BY <1>1, <1>2, AnsweredGrow DEF Quiet, Kept

\* A terminal transition leaves the other jobs alone.
LEMMA ApplyQuiet ==
  ASSUME RowInv, NEW j \in Jobs, NEW to \in TerminalStates, NEW by,
         NEW cs, Answered(cs), Apply(j, to, by, cs)
  PROVE  Quiet
<1>1. to \notin HeldStates
  BY DEF TerminalStates, HeldStates
<1> QED BY <1>1, MoveQuiet DEF Apply

\* An assignment grants one lease.
LEMMA AssignSettles ==
  ASSUME RowInv, NEW j \in Jobs, NEW r, Assign(j, r)
  PROVE  Settles
<1>1. Answered(cmds)
  BY AnsweredTables
<1>2. CmdsGrow
  BY <1>1, IssuedGrow DEF Assign
<1>3. job'[j] = Placed(job[j], r) /\ \A k \in Jobs \ {j} : job'[k] = job[k]
  BY DEF Assign, RowInv
<1> QED BY <1>2, <1>3 DEF Settles, Kept, Leased, Placed

\* Nothing of a job but its mark or its boot id is written.
LEMMA SameQuiet ==
  ASSUME CmdsGrow,
         \A k \in Jobs : /\ job'[k].state = job[k].state /\ job'[k].runner = job[k].runner
                         /\ job'[k].epoch = job[k].epoch
  PROVE  Quiet
  BY DEF Quiet, Kept

\* A step that grants nothing also settles every job.
LEMMA QuietSettles ==
  ASSUME Quiet
  PROVE  Settles
  BY DEF Quiet, Settles

\* Users' dispatches, requeues and cancels, and the budget's.
LEMMA JobsApiSettles ==
  ASSUME RowInv, JobsApi
  PROVE  Settles
<1>1. Answered(cmds) /\ job \in [Jobs -> JobRecord] /\ "CANCELLED" \in TerminalStates
  BY AnsweredTables DEF RowInv, TerminalStates
<1>2. PICK j \in Jobs : \/ Dispatch(j) \/ PlaceJob(j) \/ Requeue(j)
                        \/ Cancel(j) \/ CancelForBudget(j) \/ CancelForProjectDelete(j)
  BY DEF JobsApi
<1>3. CASE Apply(j, "CANCELLED", "server", cmds)
  BY <1>1, <1>3, ApplyQuiet, QuietSettles
<1>4. CASE RequestCancel(j)
  <2>1. CmdsGrow
    BY <1>1, <1>4, IssuedGrow DEF RequestCancel
  <2>2. \A k \in Jobs : /\ job'[k].state = job[k].state /\ job'[k].runner = job[k].runner
                        /\ job'[k].epoch = job[k].epoch
    BY <1>1, <1>4 DEF RequestCancel, JobRecord
  <2> QED BY <2>1, <2>2, SameQuiet, QuietSettles
<1>5. CASE Dispatch(j)
  <2>1. job'[j].state \notin HeldStates /\ \A k \in Jobs \ {j} : job'[k] = job[k] /\ cmds' = cmds
    BY <1>1, <1>5 DEF Dispatch, HeldStates, JobRecord
  <2>2. CmdsGrow
    BY <1>5 DEF Dispatch, CmdsGrow
  <2> QED BY <2>1, <2>2 DEF Settles, Kept
<1>6. CASE Requeue(j)
  <2>1. job'[j].state \notin HeldStates /\ \A k \in Jobs \ {j} : job'[k] = job[k]
    BY <1>1, <1>6 DEF Requeue, HeldStates
  <2>2. CmdsGrow
    BY <1>6, AnsweredTables, AnsweredGrow DEF Requeue
  <2> QED BY <2>1, <2>2 DEF Settles, Kept
<1>7. CASE PlaceJob(j)
  <2>1. ASSUME NEW r \in Best(j), Assign(j, r)
        PROVE  Settles
    BY <2>1, AssignSettles
  <2>2. CASE UNCHANGED <<job, cmds>>
    BY <2>2 DEF Settles, Kept, CmdsGrow
  <2> QED BY <1>3, <1>7, <2>1, <2>2 DEF PlaceJob
<1> QED BY <1>2, <1>3, <1>4, <1>5, <1>6, <1>7
        DEF Cancel, CancelForBudget, CancelForProjectDelete

\* Filling a runner grants at most one lease at a time.
LEMMA FillSettles ==
  ASSUME RowInv, NEW r, NEW j \in Jobs, FillOne(r, j)
  PROVE  Settles
<1>1. Answered(cmds) /\ "CANCELLED" \in TerminalStates
  BY AnsweredTables DEF TerminalStates
<1> QED BY <1>1, ApplyQuiet, QuietSettles, AssignSettles DEF FillOne

\* The sweep of a silent runner grants nothing.
LEMMA SweepSettles ==
  ASSUME RowInv, NEW j \in Jobs, Sweep(j)
  PROVE  Settles
<1>1. Answered(cmds) /\ "CRASHED" \in TerminalStates
  BY AnsweredTables DEF TerminalStates
<1> QED BY <1>1, ApplyQuiet, QuietSettles DEF Sweep

\* An ack grants nothing.
LEMMA AckQuiet ==
  ASSUME RowInv, NEW c \in DOMAIN cmds, NEW result \in {"ok", "rejected"}, NEW b,
         Ack(c, result, b)
  PROVE  Quiet
<1> DEFINE j == cmds[c].job
           Same == \A k \in Jobs : /\ job'[k].state = job[k].state /\ job'[k].epoch = job[k].epoch
                                   /\ job'[k].runner = job[k].runner
<1>1. job \in [Jobs -> JobRecord] /\ cmds \in Seq(Command) /\ cmds[c] \in Command /\ j \in Jobs
  BY CmdDomain DEF RowInv, Command
<1>2. \A res \in {"ok", "rejected", "STALE"} : Answered(Answer(cmds, c, res))
  <2>1. \A res \in {"ok", "rejected", "STALE"} : res \in AckResults \ {"none"}
    BY DEF AckResults
  <2> QED BY <1>1, <2>1, AnswerFacts DEF Answered
<1>3. ASSUME NEW to \in {"CRASHED", "FAILED", "CANCELLED"}, NEW by,
             Apply(j, to, by, Answer(cmds, c, result))
      PROVE  Quiet
  BY <1>1, <1>2, <1>3, ApplyQuiet DEF TerminalStates
<1>4. ASSUME NEW res \in {"ok", "rejected", "STALE"}, cmds' = Answer(cmds, c, res), Same
      PROVE  Quiet
  BY <1>2, <1>4, AnsweredGrow, SameQuiet
<1>5. CASE AckStale(c)
  <2>1. Same
    BY <1>5 DEF AckStale
  <2>2. CASE cmds' = Answer(cmds, c, "STALE")
    BY <1>4, <2>1, <2>2
  <2>3. CASE cmds' = Issue(Answer(cmds, c, "STALE"), "ABANDON", cmds[c].runner, j, cmds[c].epoch)
    BY <1>2, <2>1, <2>3, IssuedGrow, SameQuiet
  <2> QED BY <1>5, <2>2, <2>3 DEF AckStale, Abandon
<1>6. CASE cmds' = Answer(cmds, c, result) /\ UNCHANGED job
  BY <1>4, <1>6
<1>7. CASE cmds' = Answer(cmds, c, result) /\ job' = [job EXCEPT ![j].boot = b]
  <2>1. Same
    BY <1>1, <1>7 DEF JobRecord
  <2> QED BY <1>4, <1>7, <2>1
<1> QED BY <1>3, <1>5, <1>6, <1>7 DEF Ack, AckHeld, AckAbandon

\* A fenced report grants nothing: it issues at most an ABANDON.
LEMMA FencedQuiet ==
  ASSUME RowInv, NEW l, Fenced(l)
  PROVE  Quiet
<1>1. Answered(cmds)
  BY AnsweredTables
<1>2. CASE cmds' = cmds
  BY <1>2, SameQuiet DEF Fenced, CmdsGrow
<1>3. CASE cmds' = Issue(cmds, "ABANDON", l.runner, l.job, l.epoch)
  BY <1>1, <1>3, IssuedGrow, SameQuiet DEF Fenced
<1> QED BY <1>2, <1>3 DEF Fenced, Abandon

\* Nor does a step that leaves jobs and commands alone.
LEMMA UnchangedQuiet ==
  ASSUME UNCHANGED <<job, cmds>>
  PROVE  Quiet
  BY DEF Quiet, Kept, CmdsGrow

\* Nor does a step of the boot reconciliation.
LEMMA ReconQuiet ==
  ASSUME RowInv, NEW x, ReconCheck(x) \/ ReconWrite(x)
  PROVE  Quiet
<1>1. CASE UNCHANGED <<job, cmds>>
  BY <1>1, UnchangedQuiet
<1>2. CASE job' = [job EXCEPT ![x.job].boot = x.boot] /\ UNCHANGED cmds
  <2>1. \A k \in Jobs : /\ job'[k].state = job[k].state /\ job'[k].runner = job[k].runner
                        /\ job'[k].epoch = job[k].epoch
    BY <1>2 DEF RowInv, JobRecord
  <2> QED BY <1>2, <2>1, SameQuiet DEF CmdsGrow
<1>3. CASE cmds' = Issue(cmds, "READOPT", x.runner, x.job, x.epoch) /\ UNCHANGED job
  BY <1>3, AnsweredTables, IssuedGrow, SameQuiet
<1> QED BY <1>1, <1>2, <1>3 DEF ReconCheck, ReconWrite

\* A report keeps the commands, though it may withdraw some.
LEMMA ReportGrows ==
  ASSUME RowInv, NEW l, NEW to, Report(l, to)
  PROVE  CmdsGrow
<1>1. Answered(cmds) /\ cmds \in Seq(Command)
  BY AnsweredTables DEF RowInv
<1>2. Answered(cmds')
  BY <1>1, WithdrawAnswered DEF Report, Move
<1> QED BY <1>2, AnsweredGrow

\* Every step of the server keeps the commands it issued.
LEMMA NextGrows ==
  ASSUME LeaseInv, [Next]_vars
  PROVE  CmdsGrow
<1>1. RowInv
  BY DEF LeaseInv, TypeOK, RowInv
<1>2. ASSUME UNCHANGED <<job, cmds>> PROVE CmdsGrow
  BY <1>2, UnchangedQuiet DEF Quiet
<1>3. CASE JobsApi
  BY <1>1, <1>3, JobsApiSettles DEF Settles
<1>4. CASE SyncApi
  <2>1. ASSUME NEW r \in Runners, NEW b \in Boots, SyncSeen(r, b) \/ ReconRead(r, b)
        PROVE  CmdsGrow
    BY <1>2, <2>1 DEF SyncSeen, ReconRead
  <2>2. ASSUME NEW r \in Runners, NEW j \in Jobs, FillOne(r, j) PROVE CmdsGrow
    BY <1>1, <2>2, FillSettles DEF Settles
  <2>3. ASSUME NEW c \in DOMAIN cmds, NEW result \in {"ok", "rejected"}, NEW b \in Boots,
               Ack(c, result, b)
        PROVE  CmdsGrow
    BY <1>1, <2>3, AckQuiet DEF Quiet
  <2>4. ASSUME NEW l \in Leases, Fenced(l) PROVE CmdsGrow
    BY <1>1, <2>4, FencedQuiet DEF Quiet
  <2>5. ASSUME NEW l \in Leases, NEW to \in ReportStates, Report(l, to) PROVE CmdsGrow
    BY <1>1, <2>5, ReportGrows
  <2>6. ASSUME NEW x \in recon, ReconCheck(x) \/ ReconWrite(x) PROVE CmdsGrow
    BY <1>1, <2>6, ReconQuiet DEF Quiet
  <2> QED BY <1>4, <2>1, <2>2, <2>3, <2>4, <2>5, <2>6 DEF SyncApi
<1>5. CASE Background
  <2>1. ASSUME NEW j \in Jobs, Sweep(j) PROVE CmdsGrow
    BY <1>1, <2>1, SweepSettles DEF Settles
  <2> QED
    BY <1>2, <1>5, <2>1 DEF Background, TimePasses, SetEnabled, TogglePause, ApiRestart
<1>6. CASE UNCHANGED vars
  BY <1>2, <1>6 DEF vars
<1> QED BY <1>3, <1>4, <1>5, <1>6 DEF Next

-----------------------------------------------------------------------------
(* The machines keep their types *)

\* A run or a process of a lease of a job.
LEMMA RunForms ==
  ASSUME NEW j \in Jobs, NEW e \in Nat, NEW p, NEW x \in Run,
         p \in {"accepted", "prepare", "reprepare", "spawned", "watch", "finish", "upload"}
  PROVE  [job |-> j, epoch |-> e, phase |-> p] \in Run /\ [x EXCEPT !.phase = p] \in Run
  BY DEF Run

\* Writing one machine's entry.
LEMMA EntryTyped ==
  ASSUME NEW S, NEW f \in [Runners -> SUBSET S], NEW r \in Runners, NEW X \in SUBSET S
  PROVE  [f EXCEPT ![r] = X] \in [Runners -> SUBSET S]
  OBVIOUS

\* The runs that a replayed or readopted row gets.
LEMMA BegunTyped ==
  ASSUME MachinesTyped, NEW r \in Runners, NEW w \in rows[r],
         NEW p \in {"reprepare", "watch", "finish"}
  PROVE  R!Begun(r, w, p) \subseteq Run
<1>1. w.job \in Jobs /\ w.epoch \in Nat /\ runs[r] \subseteq Run
  BY DEF MachinesTyped, Row
<1>2. [job |-> w.job, epoch |-> w.epoch, phase |-> p] \in Run
  BY <1>1 DEF Run
<1> QED BY <1>1, <1>2 DEF R!Begun

\* The runs that resumeStranded leaves.
LEMMA ResumedTyped ==
  ASSUME MachinesTyped, NEW r \in Runners, NEW j, NEW e
  PROVE  R!Resumed(r, j, e) \subseteq Run
<1>1. runs[r] \subseteq Run
  BY DEF MachinesTyped
<1>2. \A w \in R!RowsFor(r, j, e) : R!Begun(r, w, "reprepare") \subseteq Run
  BY BegunTyped DEF R!RowsFor
<1> QED BY <1>1, <1>2 DEF R!Resumed

\* A command lets processes go, and starts none.
LEMMA HandleProcs ==
  ASSUME NEW r, NEW id, NEW type, NEW j, NEW e, R!Handle(r, id, type, j, e)
  PROVE  procs' = procs \/ \E X : procs' = [procs EXCEPT ![r] = @ \ X]
<1>1. CASE R!Replay(r, id, type, j, e)
  BY <1>1 DEF R!Replay
<1>2. CASE R!HandleAssign(r, id, j, e)
  BY <1>2 DEF R!HandleAssign, R!AcceptAssign, R!RejectAssign
<1>3. CASE R!HandleCancel(r, id, j, e)
  BY <1>3 DEF R!HandleCancel
<1>4. CASE R!HandleAbandon(r, id, j, e)
  BY <1>4 DEF R!HandleAbandon
<1>5. CASE R!HandleReadopt(r, id, j, e)
  BY <1>5 DEF R!HandleReadopt, R!ReadoptRejects
<1> QED BY <1>1, <1>2, <1>3, <1>4, <1>5 DEF R!Handle

\* The runs that a command leaves.
LEMMA HandleRuns ==
  ASSUME MachinesTyped, NEW r \in Runners, NEW id, NEW type, NEW j \in Jobs, NEW e \in Nat,
         R!Handle(r, id, type, j, e)
  PROVE  runs' = runs \/ \E X \in SUBSET Run : runs' = [runs EXCEPT ![r] = X]
<1>1. runs[r] \subseteq Run /\ rows[r] \subseteq Row
  BY DEF MachinesTyped
<1>2. R!Resumed(r, j, e) \in SUBSET Run
  BY ResumedTyped
<1>3. CASE R!Replay(r, id, type, j, e)
  BY <1>2, <1>3 DEF R!Replay
<1>4. CASE R!HandleAssign(r, id, j, e)
  <2>1. [job |-> j, epoch |-> e, phase |-> "accepted"] \in Run
    BY DEF Run
  <2>2. runs[r] \cup {[job |-> j, epoch |-> e, phase |-> "accepted"]} \in SUBSET Run
    BY <1>1, <2>1
  <2> QED BY <1>2, <1>4, <2>2 DEF R!HandleAssign, R!AcceptAssign, R!RejectAssign
<1>5. CASE R!HandleCancel(r, id, j, e)
  <2>1. \A x : runs[r] \ {x} \in SUBSET Run
    BY <1>1
  <2> QED BY <1>5, <2>1 DEF R!HandleCancel, R!Ended
<1>6. CASE R!HandleAbandon(r, id, j, e)
  <2>1. runs[r] \ R!RunsFor(r, j, e) \in SUBSET Run
    BY <1>1
  <2> QED BY <1>6, <2>1 DEF R!HandleAbandon
<1>7. CASE R!HandleReadopt(r, id, j, e)
  <2>1. runs' = runs \/ \E w \in rows[r], p \in {"reprepare", "watch", "finish"} :
                          runs' = [runs EXCEPT ![r] = R!Begun(r, w, p)]
    BY <1>7 DEF R!HandleReadopt, R!ReadoptOk, R!ReadoptRejects, R!RowsFor
  <2>2. \A w \in rows[r], p \in {"reprepare", "watch", "finish"} : R!Begun(r, w, p) \in SUBSET Run
    BY BegunTyped
  <2> QED BY <2>1, <2>2
<1> QED BY <1>3, <1>4, <1>5, <1>6, <1>7 DEF R!Handle

\* One step of a run, and the runs and processes it leaves.
LEMMA RunStepTypes ==
  ASSUME MachinesTyped, NEW r \in Runners, R!RunStep(r)
  PROVE  runs' \in [Runners -> SUBSET Run] /\ procs' \in [Runners -> SUBSET Proc]
<1>1. PICK x \in runs[r] : \E w \in R!RowsFor(r, x.job, x.epoch) :
        \/ R!RunEndsEarly(r, x, w) \/ R!RunSpawn(r, x, w) \/ R!RunRecords(r, x, w)
        \/ R!RunFinishes(r, x, w) \/ R!RunFails(r, x, w)
  BY DEF R!RunStep
<1>2. PICK w \in R!RowsFor(r, x.job, x.epoch) :
        \/ R!RunEndsEarly(r, x, w) \/ R!RunSpawn(r, x, w) \/ R!RunRecords(r, x, w)
        \/ R!RunFinishes(r, x, w) \/ R!RunFails(r, x, w)
  BY <1>1
<1>3. /\ runs \in [Runners -> SUBSET Run] /\ runs[r] \subseteq Run /\ x \in Run
      /\ procs \in [Runners -> SUBSET Proc] /\ procs[r] \subseteq Proc
      /\ w.job \in Jobs /\ w.epoch \in Nat
  BY DEF MachinesTyped, R!RowsFor, Row
<1>4. \A p \in {"spawned", "watch", "upload"} : (runs[r] \ {x}) \cup {[x EXCEPT !.phase = p]} \in SUBSET Run
  <2>1. \A p \in {"spawned", "watch", "upload"} : [x EXCEPT !.phase = p] \in Run
    BY <1>3 DEF Run
  <2> QED BY <1>3, <2>1
<1>5. runs' \in [Runners -> SUBSET Run]
  <2>1. runs' = R!Ended(r, x) \/ \E p \in {"spawned", "watch", "upload"} : runs' = R!Step(r, x, p)
    BY <1>2 DEF R!RunEndsEarly, R!RunSpawn, R!RunRecords, R!RunFinishes, R!RunFails
  <2>2. runs[r] \ {x} \in SUBSET Run
    BY <1>3
  <2> QED BY <1>3, <1>4, <2>1, <2>2, EntryTyped DEF R!Ended, R!Step
<1>6. procs' \in [Runners -> SUBSET Proc]
  <2>1. ASSUME procs' = procs \/ \E X : procs' = [procs EXCEPT ![r] = @ \ X]
        PROVE  procs' \in [Runners -> SUBSET Proc]
    BY <1>3, <2>1
  <2>2. CASE R!RunSpawn(r, x, w)
    <3>1. [job |-> w.job, epoch |-> w.epoch, known |-> FALSE] \in Proc
      BY <1>3 DEF Proc
    <3>2. PICK X : procs' = [procs EXCEPT ![r] = (@ \ X) \cup {[job |-> w.job, epoch |-> w.epoch, known |-> FALSE]}]
      BY <2>2 DEF R!RunSpawn
    <3> QED BY <1>3, <3>1, <3>2
  <2>3. CASE R!RunRecords(r, x, w)
    <3> DEFINE new == {IF R!LeaseOf(p) = R!LeaseOf(w) THEN [p EXCEPT !.known = TRUE] ELSE p : p \in procs[r]}
    <3>1. procs' = [procs EXCEPT ![r] = new]
      BY <2>3 DEF R!RunRecords
    <3>2. \A p \in procs[r] : [p EXCEPT !.known = TRUE] \in Proc
      BY <1>3 DEF Proc
    <3>3. new \in SUBSET Proc
      BY <1>3, <3>2
    <3> HIDE DEF new
    <3> QED BY <1>3, <3>1, <3>3, EntryTyped
  <2>4. CASE R!RunEndsEarly(r, x, w)
    BY <2>1, <2>4 DEF R!RunEndsEarly
  <2>5. CASE R!RunFinishes(r, x, w)
    BY <2>1, <2>5 DEF R!RunFinishes
  <2>6. CASE R!RunFails(r, x, w)
    BY <2>1, <2>6 DEF R!RunFails
  <2> QED BY <1>2, <2>2, <2>3, <2>4, <2>5, <2>6
<1> QED BY <1>5, <1>6

\* Max, which a reply's acks are folded with, is in its set and above the rest, if
\* the set is bounded.
LEMMA MaxIsGreatest ==
  ASSUME NEW S \in SUBSET Nat, S # {}, NEW b \in Nat, \A m \in S : m <= b
  PROVE  Max(S) \in S /\ \A m \in S : m <= Max(S)
<1> DEFINE U == {n \in Nat : \A m \in S : m <= n}
<1>1. U \in SUBSET Nat /\ U # {}
  OBVIOUS
<1>2. PICK n \in U : \A k \in U : n <= k
  BY <1>1, LeastNumber
<1>3. n \in S
  <2>1. SUFFICES ASSUME n \notin S PROVE FALSE
    OBVIOUS
  <2>2. PICK s \in S : TRUE
    OBVIOUS
  <2>3. n \in Nat /\ s \in Nat /\ s <= n /\ s # n
    BY <2>1, <2>2
  <2>4. n - 1 \in Nat
    BY <2>3
  <2>5. \A m \in S : m <= n - 1
    BY <2>1
  <2>6. n <= n - 1
    BY <1>2, <2>4, <2>5
  <2> QED BY <2>3, <2>6
<1>4. \E s \in S : \A m \in S : s >= m
  BY <1>3
<1>5. Max(S) \in S /\ \A m \in S : Max(S) >= m
  BY <1>4 DEF Max
<1> QED BY <1>5

\* A reply moves the acked mark of a row, and no more than a seq for its lease.
LEMMA AckedThroughFacts ==
  ASSUME ExchangesTyped, NEW r \in Runners, NEW w \in Row, NEW v, v = AckedThrough(r, w)
  PROVE  /\ v \in Row /\ SameLeaseAs(v, w) /\ v.events = w.events /\ w.acked <= v.acked
         /\ v.acked = w.acked \/ \E q \in sync[r].seqs : SameLeaseAs(q, w) /\ v.acked = q.seq
<1> DEFINE seqs == {s.seq : s \in {q \in sync[r].seqs : q.job = w.job /\ q.epoch = w.epoch}}
           S == seqs \cup {w.acked}
<1>1. v = [w EXCEPT !.acked = Max(S)]
  BY DEF AckedThrough
<1>2. w.acked \in Nat
  BY DEF Row
<1>3. sync[r].seqs \subseteq Seen
  BY DEF ExchangesTyped
<1>4. \A q \in sync[r].seqs : q.seq \in Nat
  BY <1>3 DEF Seen
<1>5. PICK b \in Nat : \A q \in sync[r].seqs : q.seq <= b
  BY DEF ExchangesTyped
<1>6. S \in SUBSET Nat /\ S # {} /\ w.acked \in S
  BY <1>2, <1>4
<1>7. b + w.acked \in Nat /\ \A m \in S : m <= b + w.acked
  BY <1>2, <1>4, <1>5
<1>8. \A m \in S : m = w.acked \/ \E q \in sync[r].seqs : SameLeaseAs(q, w) /\ m = q.seq
  BY DEF SameLeaseAs
<1> HIDE DEF S, seqs
<1>9. Max(S) \in S /\ \A m \in S : m <= Max(S)
  BY <1>6, <1>7, MaxIsGreatest
<1> DEFINE m == Max(S)
<1>10. m \in Nat /\ w.acked <= m
  BY <1>6, <1>9
<1>11. m = w.acked \/ \E q \in sync[r].seqs : SameLeaseAs(q, w) /\ m = q.seq
  BY <1>8, <1>9
<1>12. v = [w EXCEPT !.acked = m]
  BY <1>1
<1> HIDE DEF m
<1>13. v \in Row /\ v.job = w.job /\ v.epoch = w.epoch /\ v.events = w.events /\ v.acked = m
  BY <1>10, <1>12 DEF Row
<1> QED BY <1>10, <1>11, <1>13 DEF SameLeaseAs

\* The rows after a reply.
LEMMA ReplyRows ==
  ASSUME MachinesTyped, ExchangesTyped, NEW r \in Runners,
         rows' = [rows EXCEPT ![r] = {AckedThrough(r, w) : w \in @}]
  PROVE  /\ rows' \in [Runners -> SUBSET Row] /\ \A q \in Runners \ {r} : rows'[q] = rows[q]
         /\ \A v \in rows'[r] : \E w \in rows[r] : v = AckedThrough(r, w)
         /\ \A v \in rows'[r] : \E w \in rows[r] : SameLeaseAs(v, w)
<1>1. rows \in [Runners -> SUBSET Row] /\ rows[r] \subseteq Row
  BY DEF MachinesTyped
<1>2. \A w \in rows[r] : AckedThrough(r, w) \in Row /\ SameLeaseAs(AckedThrough(r, w), w)
  BY <1>1, AckedThroughFacts
<1> DEFINE new == {AckedThrough(r, w) : w \in rows[r]}
<1>3. rows' = [rows EXCEPT ![r] = new]
  OBVIOUS
<1>4. new \in SUBSET Row /\ \A v \in new : \E w \in rows[r] : v = AckedThrough(r, w)
  BY <1>2
<1> HIDE DEF new
<1>5. rows'[r] = new
  BY <1>1, <1>3
<1>6. \A v \in rows'[r] : \E w \in rows[r] : SameLeaseAs(v, w)
  BY <1>2, <1>4, <1>5
<1> QED BY <1>1, <1>3, <1>4, <1>5, <1>6

-----------------------------------------------------------------------------
(* The invariant of types and granted leases is inductive *)

\* The journal keeps its records of applied commands.
AppliedGrows ==
  /\ applied' = [q \in Runners |-> applied'[q]]
  /\ \A q \in Runners : DOMAIN applied[q] \subseteq DOMAIN applied'[q]

\* An applied command stays applied, so a lease once given stays given.
LEMMA GivenKept ==
  ASSUME CommandsKnown, CmdsGrow, AppliedGrows, NEW r \in Runners, NEW j, NEW e, Given(r, j, e)
  PROVE  Given(r, j, e)'
<1>1. PICK c \in DOMAIN applied[r] : cmds[c].type = "ASSIGN" /\ cmds[c].job = j /\ cmds[c].epoch = e
  BY DEF Given
<1>2. c \in DOMAIN applied'[r] /\ c \in DOMAIN cmds
  BY DEF CommandsKnown, AppliedGrows
<1> QED BY <1>1, <1>2 DEF Given, CmdsGrow

\* Rows, reports and acked seqs of leases that the machine was given.
LEMMA LeasesKept ==
  ASSUME DispatchTyped, CmdsGrow, AppliedGrows,
         \A q \in Runners : \A v \in rows'[q] :
           (\E w \in rows[q] : SameLeaseAs(v, w)) \/ Given(q, v.job, v.epoch)',
         \A q \in Runners : \A p \in sync'[q].reports :
           p \in sync[q].reports \/ \E w \in rows[q] : SameLeaseAs(p, w),
         \A q \in Runners : \A s \in sync'[q].seqs :
           s \in sync[q].seqs \/ \E p \in sync[q].reports : SameLeaseAs(s, p)
  PROVE  LeasesGiven'
<1>1. LeasesGiven /\ CommandsKnown
  BY DEF DispatchTyped
<1>2. ASSUME NEW q \in Runners, NEW v \in rows'[q] PROVE Given(q, v.job, v.epoch)'
  BY <1>1, GivenKept DEF LeasesGiven, SameLeaseAs
<1>3. ASSUME NEW q \in Runners, NEW p \in sync'[q].reports PROVE Given(q, p.job, p.epoch)'
  BY <1>1, GivenKept DEF LeasesGiven, SameLeaseAs
<1>4. ASSUME NEW q \in Runners, NEW s \in sync'[q].seqs PROVE Given(q, s.job, s.epoch)'
  BY <1>1, GivenKept DEF LeasesGiven, SameLeaseAs
<1> QED BY <1>2, <1>3, <1>4 DEF LeasesGiven

\* Acks of recorded commands, and commands in a reply that exist.
LEMMA KnownKept ==
  ASSUME CommandsKnown, CmdsGrow, AppliedGrows,
         \A q \in Runners : \A c \in DOMAIN applied'[q] :
           \/ c \in DOMAIN applied[q] /\ applied'[q][c] = applied[q][c]
           \/ /\ c \in DOMAIN cmds /\ cmds[c].runner = q
              /\ applied'[q][c] \in {"ok", "rejected"},
         \A q \in Runners : acks'[q] \subseteq acks[q] \cup sync[q].done,
         \A q \in Runners : sync'[q].acks \subseteq sync[q].acks \cup acks[q],
         \A q \in Runners : sync'[q].done \subseteq sync[q].done \cup DOMAIN applied'[q],
         \A q \in Runners : \A c \in sync'[q].ids :
           c \in sync[q].ids \/ (c \in DOMAIN cmds /\ cmds[c].runner = q)
  PROVE  CommandsKnown'
<1> SUFFICES ASSUME NEW q \in Runners
             PROVE  /\ \A c \in DOMAIN applied'[q] : /\ c \in DOMAIN cmds' /\ cmds'[c].runner = q
                                                     /\ applied'[q][c] \in {"ok", "rejected"}
                    /\ acks'[q] \subseteq DOMAIN applied'[q]
                    /\ sync'[q].acks \subseteq DOMAIN applied'[q]
                    /\ sync'[q].done \subseteq DOMAIN applied'[q]
                    /\ \A c \in sync'[q].ids : c \in DOMAIN cmds' /\ cmds'[c].runner = q
  BY DEF CommandsKnown
<1>1. DOMAIN applied[q] \subseteq DOMAIN applied'[q]
  BY DEF AppliedGrows
<1>2. /\ \A c \in DOMAIN applied[q] : /\ c \in DOMAIN cmds /\ cmds[c].runner = q
                                      /\ applied[q][c] \in {"ok", "rejected"}
      /\ acks[q] \subseteq DOMAIN applied[q]
      /\ sync[q].acks \subseteq DOMAIN applied[q] /\ sync[q].done \subseteq DOMAIN applied[q]
      /\ \A c \in sync[q].ids : c \in DOMAIN cmds /\ cmds[c].runner = q
  BY DEF CommandsKnown
<1>3. \A c \in DOMAIN applied'[q] : /\ c \in DOMAIN cmds /\ cmds[c].runner = q
                                    /\ applied'[q][c] \in {"ok", "rejected"}
  BY <1>2
<1>4. \A c \in DOMAIN applied'[q] : c \in DOMAIN cmds' /\ cmds'[c].runner = q
  BY <1>3 DEF CmdsGrow
<1>5. \A c \in sync'[q].ids : c \in DOMAIN cmds' /\ cmds'[c].runner = q
  BY <1>2 DEF CmdsGrow
<1> QED BY <1>1, <1>2, <1>3, <1>4, <1>5

\* One exchange is written.
ExchangeFits(r, x) ==
  /\ SyncShape(x)
  /\ x.at # "idle" => x.boot \in Boots
  /\ x.acks \subseteq sync[r].acks \cup acks[r]
  /\ x.done \subseteq sync[r].done
  /\ \A c \in x.ids : c \in sync[r].ids \/ (c \in DOMAIN cmds /\ cmds[c].runner = r)
  /\ x.reports \subseteq sync[r].reports \cup Reports(r)

\* The server took a report, or nothing more was acked.
SeqsFit(r, x) ==
  \/ x.seqs \subseteq sync[r].seqs
  \/ \E s \in Seen : /\ x.seqs = sync[r].seqs \cup {s}
                     /\ \E p \in sync[r].reports : SameLeaseAs(s, p)

\* A sync request quotes one row in each of its reports, from the acked event on.
LEMMA ReportsTyped ==
  ASSUME MachinesTyped, NEW r \in Runners
  PROVE  /\ Reports(r) \subseteq Sent
         /\ \A p \in Reports(r) : \E w \in rows[r] :
              /\ SameLeaseAs(p, w) /\ p.from = w.acked /\ R!Unsent(w)
              /\ p.events = SubSeq(w.events, w.acked + 1, Len(w.events))
<1>1. ASSUME NEW w \in rows[r], NEW es, es = SubSeq(w.events, w.acked + 1, Len(w.events))
      PROVE  /\ [job |-> w.job, epoch |-> w.epoch, from |-> w.acked, events |-> es] \in Sent
             /\ SameLeaseAs([job |-> w.job, epoch |-> w.epoch, from |-> w.acked, events |-> es], w)
  <2>1. /\ w.job \in Jobs /\ w.epoch \in Nat /\ w.acked \in Nat /\ w.events \in Seq(JobStates)
        /\ Len(w.events) \in Nat
    BY DEF MachinesTyped, Row
  <2>2. es \in Seq(JobStates)
    <3>1. \A i \in (w.acked + 1)..Len(w.events) : w.events[i] \in JobStates
      BY <2>1
    <3> QED BY <1>1, <2>1, <3>1
  <2> QED BY <2>1, <2>2 DEF Sent, SameLeaseAs
<1>2. ASSUME NEW p \in Reports(r)
      PROVE  \E w \in rows[r] :
               /\ R!Unsent(w)
               /\ p = [job |-> w.job, epoch |-> w.epoch, from |-> w.acked,
                       events |-> SubSeq(w.events, w.acked + 1, Len(w.events))]
  BY DEF Reports
<1>3. ASSUME NEW p \in Reports(r)
      PROVE  p \in Sent /\ \E w \in rows[r] :
              /\ SameLeaseAs(p, w) /\ p.from = w.acked /\ R!Unsent(w)
              /\ p.events = SubSeq(w.events, w.acked + 1, Len(w.events))
  <2>1. PICK w \in rows[r] :
          /\ R!Unsent(w)
          /\ p = [job |-> w.job, epoch |-> w.epoch, from |-> w.acked,
                  events |-> SubSeq(w.events, w.acked + 1, Len(w.events))]
    BY <1>2
  <2> QED BY <1>1, <2>1
<1> QED BY <1>3

\* What a step may bring into the exchanges.
SyncFits ==
  \A q \in Runners :
    /\ sync'[q].acks \subseteq sync[q].acks \cup acks[q]
    /\ sync'[q].done \subseteq sync[q].done \cup DOMAIN applied'[q]
    /\ \A c \in sync'[q].ids : c \in sync[q].ids \/ (c \in DOMAIN cmds /\ cmds[c].runner = q)
    /\ \A p \in sync'[q].reports : p \in sync[q].reports \/ \E w \in rows[q] : SameLeaseAs(p, w)
    /\ \A s \in sync'[q].seqs : s \in sync[q].seqs \/ \E p \in sync[q].reports : SameLeaseAs(s, p)

\* What a step may bring into the records of applied commands and their acks.
RecordsFit ==
  /\ AppliedGrows
  /\ \A q \in Runners : \A c \in DOMAIN applied'[q] :
       \/ c \in DOMAIN applied[q] /\ applied'[q][c] = applied[q][c]
       \/ c \in DOMAIN cmds /\ cmds[c].runner = q /\ applied'[q][c] \in {"ok", "rejected"}
  /\ \A q \in Runners : acks'[q] \subseteq acks[q] \cup sync[q].done

\* Rows of leases that were given.
RowsFit == \A q \in Runners : \A v \in rows'[q] :
             (\E w \in rows[q] : SameLeaseAs(v, w)) \/ Given(q, v.job, v.epoch)'

\* The invariant's parts after a step, from what the step brought in.
LEMMA TypedStep ==
  ASSUME DispatchTyped, CmdsGrow, MachinesTyped', ExchangesTyped', SyncFits, RecordsFit, RowsFit
  PROVE  DispatchTyped'
<1>1. CommandsKnown'
  BY KnownKept DEF DispatchTyped, SyncFits, RecordsFit
<1>2. LeasesGiven'
  BY LeasesKept DEF SyncFits, RecordsFit, RowsFit
<1> QED BY <1>1, <1>2 DEF DispatchTyped

\* A step that records nothing.
LEMMA SameRecords ==
  ASSUME MachinesTyped, UNCHANGED applied, \A q \in Runners : acks'[q] \subseteq acks[q] \cup sync[q].done
  PROVE  RecordsFit
  BY DEF MachinesTyped, RecordsFit, AppliedGrows

\* A step that leaves the rows alone.
LEMMA SameRows ==
  ASSUME UNCHANGED rows
  PROVE  RowsFit
  BY DEF RowsFit, SameLeaseAs

\* A step that lets the rows of one machine grow.
LEMMA GrownRowsFit ==
  ASSUME NEW r \in Runners, RowsGrow(r)
  PROVE  RowsFit
  BY DEF RowsGrow, RowsFit, Extends, SameLeaseAs

\* One exchange is written, or none.
LEMMA SyncWritten ==
  ASSUME MachinesTyped, ExchangesTyped, NEW r \in Runners, NEW x, sync' = Put(r, x),
         ExchangeFits(r, x), SeqsFit(r, x), ackedSeq' \in [Jobs -> Nat]
  PROVE  ExchangesTyped' /\ SyncFits
<1>1. /\ sync' = [q \in Runners |-> sync'[q]]
      /\ sync'[r] = x /\ \A q \in Runners \ {r} : sync'[q] = sync[q]
  BY PutFacts
<1>2. \A p \in x.reports : p \in Sent /\ (p \in sync[r].reports \/ \E w \in rows[r] : SameLeaseAs(p, w))
  BY ReportsTyped DEF ExchangeFits, ExchangesTyped
<1>3. \A s \in x.seqs : s \in Seen /\ (s \in sync[r].seqs \/ \E p \in sync[r].reports : SameLeaseAs(s, p))
  BY DEF SeqsFit, ExchangesTyped
<1>4. \E b \in Nat : \A q \in x.seqs : q.seq <= b
  <2>1. PICK b \in Nat : \A q \in sync[r].seqs : q.seq <= b
    BY DEF ExchangesTyped
  <2>2. CASE x.seqs \subseteq sync[r].seqs
    BY <2>1, <2>2
  <2>3. ASSUME NEW s \in Seen, x.seqs = sync[r].seqs \cup {s}
        PROVE  \E d \in Nat : \A q \in x.seqs : q.seq <= d
    <3>1. s.seq \in Nat /\ sync[r].seqs \subseteq Seen
      BY DEF Seen, ExchangesTyped
    <3>2. \A q \in x.seqs : q.seq <= b + s.seq
      BY <2>1, <2>3, <3>1 DEF Seen
    <3> QED BY <3>1, <3>2, <2>1
  <2> QED BY <2>2, <2>3 DEF SeqsFit
<1>5. ExchangesTyped'
  <2> SUFFICES ASSUME NEW q \in Runners
               PROVE  /\ SyncShape(sync'[q])
                      /\ sync'[q].at # "idle" => sync'[q].boot \in Boots
                      /\ sync'[q].reports \subseteq Sent /\ sync'[q].seqs \subseteq Seen
                      /\ \E b \in Nat : \A s \in sync'[q].seqs : s.seq <= b
    BY <1>1 DEF ExchangesTyped, SyncShape
  <2>1. CASE q = r
    BY <1>1, <1>2, <1>3, <1>4, <2>1 DEF ExchangeFits
  <2>2. CASE q # r
    BY <1>1, <2>2 DEF ExchangesTyped
  <2> QED BY <2>1, <2>2
<1>6. SyncFits
  <2> SUFFICES ASSUME NEW q \in Runners
               PROVE  /\ sync'[q].acks \subseteq sync[q].acks \cup acks[q]
                      /\ sync'[q].done \subseteq sync[q].done \cup DOMAIN applied'[q]
                      /\ \A c \in sync'[q].ids : c \in sync[q].ids \/ (c \in DOMAIN cmds /\ cmds[c].runner = q)
                      /\ \A p \in sync'[q].reports : p \in sync[q].reports \/ \E w \in rows[q] : SameLeaseAs(p, w)
                      /\ \A s \in sync'[q].seqs : s \in sync[q].seqs \/ \E p \in sync[q].reports : SameLeaseAs(s, p)
    BY DEF SyncFits
  <2>1. CASE q = r
    BY <1>1, <1>2, <1>3, <2>1 DEF ExchangeFits
  <2>2. CASE q # r
    BY <1>1, <2>2
  <2> QED BY <2>1, <2>2
<1> QED BY <1>5, <1>6

\* A step that leaves the exchanges alone.
LEMMA SyncKept ==
  ASSUME ExchangesTyped, UNCHANGED sync, ackedSeq' \in [Jobs -> Nat]
  PROVE  ExchangesTyped' /\ SyncFits
<1>1. ExchangesTyped'
  BY DEF ExchangesTyped, SyncShape
<1>2. SyncFits
  BY DEF SyncFits
<1> QED BY <1>1, <1>2

\* A step that leaves the machines alone.
LEMMA MachinesKept ==
  ASSUME MachinesTyped, UNCHANGED machines
  PROVE  MachinesTyped' /\ RecordsFit /\ RowsFit
<1>1. MachinesTyped'
  BY DEF MachinesTyped, machines
<1> QED BY <1>1, SameRecords, SameRows DEF machines

\* A step of the server in one exchange, or outside of any.
LEMMA ServerStepTyped ==
  ASSUME DispatchTyped, CmdsGrow, UNCHANGED machines, ackedSeq' \in [Jobs -> Nat],
         \/ UNCHANGED sync
         \/ \E r \in Runners : \E x : sync' = Put(r, x) /\ ExchangeFits(r, x) /\ SeqsFit(r, x)
  PROVE  DispatchTyped'
<1>1. MachinesTyped' /\ RecordsFit /\ RowsFit
  BY MachinesKept DEF DispatchTyped
<1>2. ExchangesTyped' /\ SyncFits
  BY SyncWritten, SyncKept DEF DispatchTyped
<1> QED BY <1>1, <1>2, TypedStep

\* Renumbering the events of new leases leaves numbers.
LEMMA RenumberedTyped ==
  ASSUME ackedSeq \in [Jobs -> Nat]
  PROVE  Renumbered \in [Jobs -> Nat]
  BY DEF Renumbered

\* An exchange that is begun, dropped, or written in fields that grow in no way.
LEMMA DroppedFits ==
  ASSUME NEW r \in Runners, ExchangesTyped
  PROVE  ExchangeFits(r, NoSync) /\ SeqsFit(r, NoSync)
  BY NoSyncFacts DEF SyncIs, ExchangeFits, SeqsFit

\* A request brings in the machine's acks and reports.
LEMMA SendFits ==
  ASSUME MachinesTyped, NEW r \in up, NEW x,
         x = [NoSync EXCEPT !.at = "sent", !.boot = boot[r], !.sent = acks[r],
                            !.acks = acks[r], !.reports = Reports(r), !.slots = Slots(r)]
  PROVE  ExchangeFits(r, x) /\ SeqsFit(r, x)
<1>1. SyncIs(x, "sent", boot[r], acks[r], Reports(r), {}, {}, {})
  BY NewSyncForms
<1>2. boot[r] \in Boots
  BY BootAssumption DEF MachinesTyped
<1> QED BY <1>1, <1>2 DEF SyncIs, ExchangeFits, SeqsFit

\* Ids of commands of r, the ones its exchange has already included.
MayList(r, I) == \A c \in I : c \in sync[r].ids \/ (c \in DOMAIN cmds /\ cmds[c].runner = r)

\* An exchange in hand of which only some fields were written.
LEMMA WrittenFits ==
  ASSUME ExchangesTyped, NEW r \in Runners, ~At(r, "idle"),
         NEW x, NEW at, NEW A \in SUBSET sync[r].acks, NEW P \in SUBSET sync[r].reports,
         NEW Q, NEW I, NEW D,
         SyncIs(x, at, sync[r].boot, A, P, Q, I, D),
         Q = sync[r].seqs, D \subseteq sync[r].done, MayList(r, I)
  PROVE  ExchangeFits(r, x) /\ SeqsFit(r, x)
  BY DEF MayList, ExchangesTyped, At, SyncIs, ExchangeFits, SeqsFit

\* The server's next loop.
LEMMA MoveFits ==
  ASSUME ExchangesTyped, NEW r \in Runners, ~At(r, "idle"), NEW x, NEW a, x = [sync[r] EXCEPT !.at = a]
  PROVE  ExchangeFits(r, x) /\ SeqsFit(r, x)
<1>1. SyncShape(sync[r]) /\ MayList(r, sync[r].ids)
  BY DEF ExchangesTyped, MayList
<1>2. SyncIs(x, a, sync[r].boot, sync[r].acks, sync[r].reports, sync[r].seqs, sync[r].ids, sync[r].done)
  BY <1>1, SyncForms
<1> QED BY <1>1, <1>2, WrittenFits

\* One ack is taken.
LEMMA AckFits ==
  ASSUME ExchangesTyped, NEW r \in Runners, ~At(r, "idle"), NEW x, NEW A,
         x = [sync[r] EXCEPT !.acks = @ \ A]
  PROVE  ExchangeFits(r, x) /\ SeqsFit(r, x)
<1>1. SyncShape(sync[r]) /\ MayList(r, sync[r].ids)
  BY DEF ExchangesTyped, MayList
<1> DEFINE B == sync[r].acks \ A
<1>2. x = [sync[r] EXCEPT !.acks = B] /\ B \subseteq sync[r].acks
  OBVIOUS
<1> HIDE DEF B
<1>3. SyncIs(x, sync[r].at, sync[r].boot, B, sync[r].reports, sync[r].seqs, sync[r].ids, sync[r].done)
  BY <1>1, <1>2, SyncForms
<1> QED BY <1>1, <1>2, <1>3, WrittenFits

\* One report is turned down.
LEMMA FencedFits ==
  ASSUME ExchangesTyped, NEW r \in Runners, ~At(r, "idle"), NEW x, NEW a, NEW X,
         x = [sync[r] EXCEPT !.at = a, !.reports = @ \ X]
  PROVE  ExchangeFits(r, x) /\ SeqsFit(r, x)
<1>1. SyncShape(sync[r]) /\ MayList(r, sync[r].ids)
  BY DEF ExchangesTyped, MayList
<1> DEFINE B == sync[r].reports \ X
<1>2. x = [sync[r] EXCEPT !.at = a, !.reports = B] /\ B \subseteq sync[r].reports
  OBVIOUS
<1> HIDE DEF B
<1>3. SyncIs(x, a, sync[r].boot, sync[r].acks, B, sync[r].seqs, sync[r].ids, sync[r].done)
  BY <1>1, <1>2, SyncForms
<1> QED BY <1>1, <1>2, <1>3, WrittenFits

\* One slot is filled.
LEMMA FillFits ==
  ASSUME ExchangesTyped, NEW r \in Runners, ~At(r, "idle"), NEW x, NEW a, NEW n,
         x = [sync[r] EXCEPT !.at = a, !.slots = n]
  PROVE  ExchangeFits(r, x) /\ SeqsFit(r, x)
<1>1. SyncShape(sync[r]) /\ MayList(r, sync[r].ids)
  BY DEF ExchangesTyped, MayList
<1>2. SyncIs(x, a, sync[r].boot, sync[r].acks, sync[r].reports, sync[r].seqs, sync[r].ids, sync[r].done)
  BY <1>1, SyncForms
<1> QED BY <1>1, <1>2, WrittenFits

\* A reply lists commands of its runner.
LEMMA ReplyFits ==
  ASSUME ExchangesTyped, NEW r \in Runners, ~At(r, "idle"), NEW x, NEW a, NEW n, NEW I,
         x = [sync[r] EXCEPT !.at = a, !.slots = n, !.ids = I], MayList(r, I)
  PROVE  ExchangeFits(r, x) /\ SeqsFit(r, x)
<1>1. SyncShape(sync[r]) /\ MayList(r, sync[r].ids)
  BY DEF ExchangesTyped, MayList
<1>2. SyncIs(x, a, sync[r].boot, sync[r].acks, sync[r].reports, sync[r].seqs, I, sync[r].done)
  BY <1>1, SyncForms
<1> QED BY <1>1, <1>2, WrittenFits

\* The steps of the server within an exchange, reports apart, keep the invariant.
LEMMA ServerExchangeTyped ==
  ASSUME DispatchTyped, CmdsGrow, NEW r \in Runners,
         \/ SendSync(r) \/ SyncArrives(r) \/ ServerAck(r) \/ ServerReconcile(r)
         \/ ServerReconciles(r) \/ ServerReplies(r) \/ Discard(r) \/ ServerFill(r)
  PROVE  DispatchTyped'
<1>1. /\ MachinesTyped /\ ExchangesTyped /\ ackedSeq \in [Jobs -> Nat] /\ Renumbered \in [Jobs -> Nat]
  BY RenumberedTyped DEF DispatchTyped, ExchangesTyped
<1>2. CASE SendSync(r)
  BY <1>1, <1>2, SendFits, ServerStepTyped DEF SendSync
<1>3. CASE SyncArrives(r)
  <2>1. ~At(r, "idle")
    BY <1>3 DEF SyncArrives, At
  <2> QED BY <1>1, <1>3, <2>1, MoveFits, ServerStepTyped DEF SyncArrives
<1>4. CASE ServerAck(r)
  <2> DEFINE c == Min(sync[r].acks)
  <2>1. ~At(r, "idle")
    BY <1>4 DEF ServerAck, At
  <2>2. sync' = Put(r, [sync[r] EXCEPT !.acks = @ \ {c}]) /\ UNCHANGED <<machines, ackedSeq>>
    BY <1>4 DEF ServerAck
  <2> QED BY <1>1, <2>1, <2>2, AckFits, ServerStepTyped
<1>5. CASE ServerReconcile(r)
  <2>1. ~At(r, "idle")
    BY <1>5 DEF ServerReconcile, At
  <2> QED BY <1>1, <1>5, <2>1, MoveFits, ServerStepTyped DEF ServerReconcile
<1>6. CASE ServerReconciles(r)
  BY <1>1, <1>6, ServerStepTyped DEF ServerReconciles
<1>7. CASE ServerReplies(r)
  <2> DEFINE I == {c \in DOMAIN cmds : Pending(c) /\ cmds[c].runner = r}
  <2>1. ~At(r, "idle")
    BY <1>7 DEF ServerReplies, At
  <2>2. MayList(r, I)
    BY DEF MayList
  <2>3. sync' = Put(r, [sync[r] EXCEPT !.at = "answered", !.slots = 0, !.ids = I])
    BY <1>7 DEF ServerReplies
  <2> HIDE DEF I
  <2> DEFINE x == [sync[r] EXCEPT !.at = "answered", !.slots = 0, !.ids = I]
  <2>4. ExchangeFits(r, x) /\ SeqsFit(r, x)
    BY <1>1, <2>1, <2>2, ReplyFits
  <2>5. sync' = Put(r, x) /\ UNCHANGED <<machines, ackedSeq>>
    BY <1>7, <2>3 DEF ServerReplies
  <2> HIDE DEF x
  <2> QED BY <1>1, <2>4, <2>5, ServerStepTyped
<1>8. CASE Discard(r)
  BY <1>1, <1>8, DroppedFits, ServerStepTyped DEF Discard
<1>9. CASE ServerFill(r)
  <2> DEFINE n == IF HeldBy(r)' = HeldBy(r) THEN sync[r].slots ELSE sync[r].slots - 1
  <2>1. ~At(r, "idle")
    BY <1>9 DEF ServerFill, At
  <2>2. sync' = Put(r, [sync[r] EXCEPT !.at = "fill", !.slots = n])
    BY <1>9 DEF ServerFill
  <2> HIDE DEF n
  <2> DEFINE x == [sync[r] EXCEPT !.at = "fill", !.slots = n]
  <2>4. ExchangeFits(r, x) /\ SeqsFit(r, x)
    BY <1>1, <2>1, FillFits
  <2>5. sync' = Put(r, x) /\ UNCHANGED machines /\ ackedSeq' = Renumbered
    BY <1>9, <2>2 DEF ServerFill
  <2> HIDE DEF x
  <2> QED BY <1>1, <2>4, <2>5, ServerStepTyped
<1> QED BY <1>2, <1>3, <1>4, <1>5, <1>6, <1>7, <1>8, <1>9

\* What a report adds to the events that the server has taken.
LEMMA NewEventsTyped ==
  ASSUME ExchangesTyped, NEW r \in Runners, NEW p \in sync[r].reports
  PROVE  /\ p.job \in Jobs /\ p.epoch \in Nat /\ NewEvents(p) \in Seq(JobStates)
         /\ Len(NewEvents(p)) \in Nat /\ ackedSeq[p.job] \in Nat
<1>1. p \in Sent
  BY DEF ExchangesTyped
<1>2. /\ p.job \in Jobs /\ p.epoch \in Nat /\ p.from \in Nat /\ p.events \in Seq(JobStates)
      /\ ackedSeq[p.job] \in Nat /\ Len(p.events) \in Nat
  BY <1>1 DEF Sent, ExchangesTyped
<1>3. NewEvents(p) \in Seq(JobStates)
  <2>1. CASE p.from > ackedSeq[p.job]
    BY <2>1 DEF NewEvents
  <2>2. CASE ~(p.from > ackedSeq[p.job])
    <3>1. ackedSeq[p.job] - p.from + 1 \in Nat /\ ackedSeq[p.job] - p.from + 1 >= 1
      BY <1>2, <2>2
    <3>2. SubSeq(p.events, ackedSeq[p.job] - p.from + 1, Len(p.events)) \in Seq(JobStates)
      BY <1>2, <3>1
    <3> QED BY <2>2, <3>2 DEF NewEvents
  <2> QED BY <2>1, <2>2
<1>4. Len(NewEvents(p)) \in Nat
  BY <1>3
<1> QED BY <1>2, <1>3, <1>4

\* A report that is taken or fenced keeps it.
LEMMA ServerReportTyped ==
  ASSUME DispatchTyped, CmdsGrow, NEW r \in Runners, ServerReport(r)
  PROVE  DispatchTyped'
<1>1. MachinesTyped /\ ExchangesTyped /\ ackedSeq \in [Jobs -> Nat] /\ SyncShape(sync[r])
  BY DEF DispatchTyped, ExchangesTyped
<1>2. ~At(r, "idle") /\ UNCHANGED machines
  BY DEF ServerReport, At
<1>3. PICK p \in sync[r].reports : ReportTaken(r, p) \/ ReportFenced(r, p)
  BY DEF ServerReport
<1>4. CASE ReportFenced(r, p)
  <2> DEFINE x == [sync[r] EXCEPT !.at = "jobs", !.reports = @ \ {p}]
  <2>1. ExchangeFits(r, x) /\ SeqsFit(r, x)
    BY <1>1, <1>2, FencedFits
  <2>2. sync' = Put(r, x) /\ UNCHANGED ackedSeq
    BY <1>4 DEF ReportFenced
  <2> HIDE DEF x
  <2> QED BY <1>1, <1>2, <2>1, <2>2, ServerStepTyped
<1>5. CASE ReportTaken(r, p)
  <2> DEFINE seq == ackedSeq[p.job] + Len(NewEvents(p))
             s == [job |-> p.job, epoch |-> p.epoch, seq |-> seq]
             P == sync[r].reports \ {p}
             Q == sync[r].seqs \cup {s}
             x == [sync[r] EXCEPT !.at = "jobs", !.reports = P, !.seqs = Q]
  <2>1. seq \in Nat /\ p.job \in Jobs /\ p.epoch \in Nat
    BY <1>1, NewEventsTyped
  <2>2. ackedSeq' \in [Jobs -> Nat] /\ sync' = Put(r, x)
    BY <1>1, <1>5, <2>1 DEF ReportTaken
  <2>3. s \in Seen /\ SameLeaseAs(s, p)
    BY <2>1 DEF Seen, SameLeaseAs
  <2>4. P \subseteq sync[r].reports
    OBVIOUS
  <2>5. Q = sync[r].seqs \cup {s}
    OBVIOUS
  <2>6. x = [sync[r] EXCEPT !.at = "jobs", !.reports = P, !.seqs = Q]
    OBVIOUS
  <2> HIDE DEF s, P, Q, x
  <2>7. SyncIs(x, "jobs", sync[r].boot, sync[r].acks, P, Q, sync[r].ids, sync[r].done)
    BY <1>1, <2>6, SyncForms
  <2>8. ExchangeFits(r, x) /\ SeqsFit(r, x)
    BY <1>1, <1>2, <2>3, <2>4, <2>5, <2>7
    DEF ExchangesTyped, At, SyncIs, ExchangeFits, SeqsFit
  <2> QED BY <1>2, <2>2, <2>8, ServerStepTyped
<1> QED BY <1>3, <1>4, <1>5

\* So does a reply that the daemon takes,
LEMMA ReceiveReplyTyped ==
  ASSUME DispatchTyped, CmdsGrow, NEW r \in Runners, ReceiveReply(r)
  PROVE  DispatchTyped'
<1>1. MachinesTyped /\ ExchangesTyped
  BY DEF DispatchTyped
<1>2. rows' = [rows EXCEPT ![r] = {AckedThrough(r, w) : w \in @}]
  BY DEF ReceiveReply
<1>3. /\ rows' \in [Runners -> SUBSET Row] /\ \A q \in Runners \ {r} : rows'[q] = rows[q]
      /\ \A v \in rows'[r] : \E w \in rows[r] : SameLeaseAs(v, w)
  BY <1>1, <1>2, ReplyRows
<1>4. RowsFit
  BY <1>3 DEF RowsFit, SameLeaseAs
<1>5. acks' = [acks EXCEPT ![r] = @ \ sync[r].sent] /\ UNCHANGED applied
  BY DEF ReceiveReply
<1>6. acks' = [q \in Runners |-> acks'[q]] /\ \A q \in Runners : acks'[q] \subseteq acks[q]
  BY <1>1, <1>5 DEF MachinesTyped
<1>7. RecordsFit
  BY <1>1, <1>5, <1>6, SameRecords
<1>8. MachinesTyped'
  BY <1>1, <1>3, <1>6 DEF ReceiveReply, MachinesTyped
<1> DEFINE x == [NoSync EXCEPT !.at = "handling", !.boot = boot[r], !.ids = sync[r].ids]
<1>9. SyncIs(x, "handling", boot[r], {}, {}, {}, sync[r].ids, {})
  BY NewSyncForms
<1>10. sync' = Put(r, x) /\ boot[r] \in Boots /\ ackedSeq' \in [Jobs -> Nat]
  BY <1>1, BootAssumption DEF ReceiveReply, MachinesTyped, ExchangesTyped
<1> HIDE DEF x
<1>11. ExchangeFits(r, x) /\ SeqsFit(r, x)
  BY <1>9, <1>10 DEF SyncIs, ExchangeFits, SeqsFit
<1>12. ExchangesTyped' /\ SyncFits
  BY <1>1, <1>10, <1>11, SyncWritten
<1> QED BY <1>4, <1>7, <1>8, <1>12, TypedStep

\* the end of an exchange,
LEMMA EndSyncTyped ==
  ASSUME DispatchTyped, CmdsGrow, NEW r \in Runners, EndSync(r)
  PROVE  DispatchTyped'
<1>1. MachinesTyped /\ ExchangesTyped
  BY DEF DispatchTyped
<1>2. acks' = [acks EXCEPT ![r] = @ \cup sync[r].done] /\ UNCHANGED <<applied, rows>>
  BY DEF EndSync
<1>3. /\ acks' = [q \in Runners |-> acks'[q]]
      /\ \A q \in Runners : acks'[q] \subseteq acks[q] \cup sync[q].done
  BY <1>1, <1>2 DEF MachinesTyped
<1>4. RecordsFit /\ RowsFit
  BY <1>1, <1>2, <1>3, SameRecords, SameRows
<1>5. MachinesTyped'
  BY <1>1, <1>3 DEF EndSync, MachinesTyped
<1>6. ExchangesTyped' /\ SyncFits
  BY <1>1, DroppedFits, SyncWritten DEF EndSync, ExchangesTyped
<1> QED BY <1>4, <1>5, <1>6, TypedStep

\* and a daemon that is killed.
LEMMA CrashTyped ==
  ASSUME DispatchTyped, CmdsGrow, NEW r \in Runners, Crash(r)
  PROVE  DispatchTyped'
<1>1. MachinesTyped /\ ExchangesTyped
  BY DEF DispatchTyped
<1>2. /\ acks' = [acks EXCEPT ![r] = {}] /\ runs' = [runs EXCEPT ![r] = {}] /\ up' = up \ {r}
      /\ UNCHANGED <<applied, rows, boot, procs, ackedSeq>>
  BY DEF Crash, R!Crash
<1>3. /\ acks' = [q \in Runners |-> acks'[q]]
      /\ \A q \in Runners : acks'[q] \subseteq acks[q] \cup sync[q].done
  BY <1>1, <1>2 DEF MachinesTyped
<1>4. RecordsFit /\ RowsFit
  BY <1>1, <1>2, <1>3, SameRecords, SameRows
<1>5. MachinesTyped'
  BY <1>1, <1>2, <1>3 DEF MachinesTyped
<1>6. ackedSeq' \in [Jobs -> Nat]
  BY <1>1, <1>2 DEF ExchangesTyped
<1>7. ExchangesTyped' /\ SyncFits
  <2>1. CASE sync' = sync
    BY <1>1, <1>6, <2>1, SyncKept
  <2>2. CASE sync' = Put(r, NoSync)
    BY <1>1, <1>6, <2>2, DroppedFits, SyncWritten
  <2> QED BY <2>1, <2>2 DEF Crash
<1> QED BY <1>4, <1>5, <1>7, TypedStep

\* The command that the daemon handles next.
NextId(r) == Min(sync[r].ids)

\* The next command of a reply is one that was issued to the machine.
LEMMA NextIdKnown ==
  ASSUME CommandsKnown, TypeOK, NEW r \in Runners, sync[r].ids # {}
  PROVE  /\ NextId(r) \in sync[r].ids /\ \A c \in sync[r].ids : NextId(r) <= c
         /\ NextId(r) \in DOMAIN cmds /\ cmds[NextId(r)].runner = r
         /\ cmds[NextId(r)].job \in Jobs /\ cmds[NextId(r)].epoch \in Nat
<1>1. \A c \in sync[r].ids : c \in DOMAIN cmds /\ cmds[c].runner = r
  BY DEF CommandsKnown
<1>2. sync[r].ids \in SUBSET Nat
  BY <1>1, CmdDomain DEF TypeOK
<1>3. NextId(r) \in sync[r].ids /\ \A c \in sync[r].ids : NextId(r) <= c
  BY <1>2, MinIsLeast DEF NextId
<1>4. \A c \in DOMAIN cmds : cmds[c].job \in Jobs /\ cmds[c].epoch \in Nat
  BY CmdDomain DEF TypeOK, Command
<1> QED BY <1>1, <1>3, <1>4

\* What a command leaves in the records.
LEMMA HandledRecords ==
  ASSUME MachinesTyped, NEW r \in Runners, NEW c \in DOMAIN cmds, cmds[c].runner = r,
         NEW type, NEW j, NEW e, R!Handle(r, c, type, j, e), UNCHANGED acks
  PROVE  /\ RecordsFit /\ DOMAIN applied'[r] = DOMAIN applied[r] \cup {c}
         /\ applied' = [q \in Runners |-> applied'[q]]
<1>1. CASE c \in DOMAIN applied[r] /\ applied' = applied
  BY <1>1, SameRecords DEF MachinesTyped
<1>2. ASSUME c \notin DOMAIN applied[r], NEW result \in {"ok", "rejected"},
             applied' = R!Recorded(r, c, result)
      PROVE  RecordsFit /\ DOMAIN applied'[r] = DOMAIN applied[r] \cup {c}
             /\ applied' = [q \in Runners |-> applied'[q]]
  <2>1. /\ applied' = [q \in Runners |-> applied'[q]]
        /\ DOMAIN applied'[r] = DOMAIN applied[r] \cup {c}
        /\ applied'[r][c] = result
        /\ \A d \in DOMAIN applied[r] : d # c => applied'[r][d] = applied[r][d]
        /\ \A q \in Runners \ {r} : applied'[q] = applied[q]
    BY <1>2, RecordedFacts
  <2> QED BY <1>2, <2>1 DEF RecordsFit, AppliedGrows
<1> QED BY <1>1, <1>2, HandleRecords

\* The row that an ASSIGN adds.
LEMMA AddedRow ==
  ASSUME MachinesTyped, NEW r \in Runners, NEW j \in Jobs, NEW e \in Nat, AddsRow(r, j, e)
  PROVE  /\ rows' \in [Runners -> SUBSET Row] /\ \A q \in Runners \ {r} : rows'[q] = rows[q]
         /\ R!NewRow(j, e) \in Row /\ R!NewRow(j, e).job = j /\ R!NewRow(j, e).epoch = e
         /\ R!NewRow(j, e).events = << >> /\ R!NewRow(j, e).acked = 0
         /\ rows'[r] = rows[r] \cup {R!NewRow(j, e)}
         /\ \A w \in rows[r] : ~SameLeaseAs(w, R!NewRow(j, e))
<1>1. R!NewRow(j, e) \in Row /\ R!NewRow(j, e).job = j /\ R!NewRow(j, e).epoch = e
      /\ R!NewRow(j, e).events = << >> /\ R!NewRow(j, e).acked = 0
  BY DEF R!NewRow, Row
<1>2. rows \in [Runners -> SUBSET Row]
  BY DEF MachinesTyped
<1>3. \A w \in rows[r] : ~(w.job = j /\ w.epoch = e)
  BY DEF AddsRow, R!RowsFor
<1>4. rows' = [rows EXCEPT ![r] = rows[r] \cup {R!NewRow(j, e)}]
  BY DEF AddsRow
<1> QED BY <1>1, <1>2, <1>3, <1>4 DEF SameLeaseAs

\* A handled command keeps the invariant: the row of an ASSIGN is of a given lease.
LEMMA HandleCommandTyped ==
  ASSUME DispatchTyped, LeaseInv, CmdsGrow, NEW r \in Runners, HandleCommand(r)
  PROVE  DispatchTyped'
<1>1. MachinesTyped /\ ExchangesTyped /\ CommandsKnown /\ TypeOK
  BY DEF DispatchTyped, LeaseInv
<1>. PICK c : c = NextId(r)
  OBVIOUS
<1>. PICK type, j, e : type = cmds[c].type /\ j = cmds[c].job /\ e = cmds[c].epoch
  OBVIOUS
<1>2. c \in sync[r].ids /\ c \in DOMAIN cmds /\ cmds[c].runner = r /\ j \in Jobs /\ e \in Nat
  BY <1>1, NextIdKnown DEF HandleCommand
<1>3. R!Handle(r, c, type, j, e)
  BY DEF HandleCommand, NextId
<1>4. UNCHANGED <<acks, cmds, up, boot, ackedSeq>>
  BY <1>3 DEF HandleCommand, R!Handle, vars
<1>5. sync' = Put(r, [sync[r] EXCEPT !.ids = @ \ {c}, !.done = @ \cup {c}]) /\ ~At(r, "idle")
  BY DEF HandleCommand, NextId, At
<1>6. RecordsFit /\ DOMAIN applied'[r] = DOMAIN applied[r] \cup {c}
      /\ applied' = [q \in Runners |-> applied'[q]]
  BY <1>1, <1>2, <1>3, <1>4, HandledRecords
<1>7. rows' \in [Runners -> SUBSET Row] /\ RowsFit
  <2>1. CASE RowsGrow(r)
    BY <2>1, GrownRowsFit DEF RowsGrow
  <2>2. CASE /\ type = "ASSIGN" /\ c \notin DOMAIN applied[r]
             /\ AddsRow(r, j, e) /\ applied' = R!Recorded(r, c, "ok")
    <3>1. /\ rows' \in [Runners -> SUBSET Row] /\ \A q \in Runners \ {r} : rows'[q] = rows[q]
          /\ R!NewRow(j, e).job = j /\ R!NewRow(j, e).epoch = e
          /\ rows'[r] = rows[r] \cup {R!NewRow(j, e)}
      BY <1>1, <1>2, <2>2, AddedRow
    <3>2. Given(r, j, e)'
      BY <1>4, <1>6, <2>2 DEF Given
    <3> QED BY <3>1, <3>2 DEF RowsFit, SameLeaseAs
  <2> QED BY <1>1, <1>3, <2>1, <2>2, HandleRows
<1>8. runs' \in [Runners -> SUBSET Run]
  <2>1. runs \in [Runners -> SUBSET Run]
    BY <1>1 DEF MachinesTyped
  <2>2. runs' = runs \/ \E X \in SUBSET Run : runs' = [runs EXCEPT ![r] = X]
    BY <1>1, <1>2, <1>3, HandleRuns
  <2> QED BY <2>1, <2>2
<1>9. procs' \in [Runners -> SUBSET Proc]
  <2>1. procs \in [Runners -> SUBSET Proc]
    BY <1>1 DEF MachinesTyped
  <2>2. procs' = procs \/ \E X : procs' = [procs EXCEPT ![r] = @ \ X]
    BY <1>3, HandleProcs
  <2> QED BY <2>1, <2>2
<1>10. MachinesTyped'
  BY <1>1, <1>4, <1>6, <1>7, <1>8, <1>9 DEF MachinesTyped
<1> DEFINE I == sync[r].ids \ {c}
           D == sync[r].done \cup {c}
           x == [sync[r] EXCEPT !.ids = I, !.done = D]
<1>11. sync' = Put(r, x)
  BY <1>5
<1>12. SyncShape(sync[r]) /\ sync[r].boot \in Boots /\ ackedSeq' \in [Jobs -> Nat]
  BY <1>1, <1>4, <1>5 DEF ExchangesTyped, At
<1>13. I \subseteq sync[r].ids /\ D = sync[r].done \cup {c}
  OBVIOUS
<1>14. x = [sync[r] EXCEPT !.ids = I, !.done = D]
  OBVIOUS
<1> HIDE DEF I, D, x
<1>15. SyncIs(x, sync[r].at, sync[r].boot, sync[r].acks, sync[r].reports, sync[r].seqs, I, D)
  BY <1>12, <1>14, SyncForms
<1>16. /\ sync' = [q \in Runners |-> sync'[q]]
       /\ sync'[r] = x /\ \A q \in Runners \ {r} : sync'[q] = sync[q]
  BY <1>1, <1>11, PutFacts
<1>17. ExchangesTyped'
  <2> SUFFICES ASSUME NEW q \in Runners
               PROVE  /\ SyncShape(sync'[q])
                      /\ sync'[q].at # "idle" => sync'[q].boot \in Boots
                      /\ sync'[q].reports \subseteq Sent /\ sync'[q].seqs \subseteq Seen
                      /\ \E b \in Nat : \A s \in sync'[q].seqs : s.seq <= b
    BY <1>12, <1>16 DEF ExchangesTyped, SyncShape
  <2>1. CASE q = r
    BY <1>1, <1>12, <1>15, <1>16, <2>1 DEF ExchangesTyped, SyncIs
  <2>2. CASE q # r
    BY <1>1, <1>16, <2>2 DEF ExchangesTyped
  <2> QED BY <2>1, <2>2
<1>18. SyncFits
  <2> SUFFICES ASSUME NEW q \in Runners
               PROVE  /\ sync'[q].acks \subseteq sync[q].acks \cup acks[q]
                      /\ sync'[q].done \subseteq sync[q].done \cup DOMAIN applied'[q]
                      /\ \A d \in sync'[q].ids : d \in sync[q].ids \/ (d \in DOMAIN cmds /\ cmds[d].runner = q)
                      /\ \A p \in sync'[q].reports : p \in sync[q].reports \/ \E w \in rows[q] : SameLeaseAs(p, w)
                      /\ \A s \in sync'[q].seqs : s \in sync[q].seqs \/ \E p \in sync[q].reports : SameLeaseAs(s, p)
    BY DEF SyncFits
  <2>1. CASE q = r
    BY <1>6, <1>13, <1>15, <1>16, <2>1 DEF SyncIs
  <2>2. CASE q # r
    BY <1>16, <2>2
  <2> QED BY <2>1, <2>2
<1> QED BY <1>6, <1>7, <1>10, <1>17, <1>18, TypedStep

\* So do the steps of runs and processes, and a start.
LEMMA MachineTyped ==
  ASSUME DispatchTyped, CmdsGrow, NEW r \in Runners, Machine(r) \/ BeginAssigned(r)
  PROVE  DispatchTyped'
<1>1. MachinesTyped /\ ExchangesTyped /\ ackedSeq \in [Jobs -> Nat]
  BY DEF DispatchTyped, ExchangesTyped
<1>2. UNCHANGED <<sync, ackedSeq, applied, acks>>
  BY DEF Machine, BeginAssigned, RunStep, UploadBundle, ProcExits, Start, R!BeginAssigned, R!RunStep,
         R!RunEndsEarly, R!RunSpawn, R!RunRecords, R!RunFinishes, R!RunFails, R!RunUploads,
         R!ProcExits, R!Start
<1>3. RecordsFit /\ ExchangesTyped' /\ SyncFits
  BY <1>1, <1>2, SameRecords, SyncKept DEF MachinesTyped
<1>4. /\ applied' = [q \in Runners |-> applied'[q]] /\ acks' = [q \in Runners |-> acks'[q]]
      /\ runs \in [Runners -> SUBSET Run] /\ procs \in [Runners -> SUBSET Proc]
  BY <1>1, <1>2 DEF MachinesTyped
<1>5. ASSUME UNCHANGED <<up, boot>>, RowsGrow(r),
             runs' \in [Runners -> SUBSET Run], procs' \in [Runners -> SUBSET Proc]
      PROVE  DispatchTyped'
  <2>1. MachinesTyped' /\ RowsFit
    BY <1>1, <1>4, <1>5, GrownRowsFit DEF MachinesTyped, RowsGrow
  <2> QED BY <1>3, <2>1, TypedStep
<1>6. CASE RunStep(r)
  <2>1. UNCHANGED <<up, boot>>
    BY <1>6 DEF RunStep, R!RunStep, R!RunEndsEarly, R!RunSpawn, R!RunRecords, R!RunFinishes, R!RunFails
  <2> QED BY <1>1, <1>5, <1>6, <2>1, RunStepGrows, RunStepTypes DEF RunStep
<1>7. CASE UploadBundle(r)
  <2>1. PICK x \in runs[r] : \E w \in R!RowsFor(r, x.job, x.epoch) :
          \E answer \in {"done", "stale", "conflict"} : R!RunUploads(r, x, w, answer)
    BY <1>7 DEF UploadBundle
  <2>2. PICK w \in R!RowsFor(r, x.job, x.epoch) :
          \E answer \in {"done", "stale", "conflict"} : R!RunUploads(r, x, w, answer)
    BY <2>1
  <2>3. RowsGrow(r)
    BY <1>1, <2>2, RunUploadsGrows
  <2>4. /\ UNCHANGED <<up, boot, procs>> /\ runs' = [runs EXCEPT ![r] = @ \ {x}]
    BY <2>2 DEF R!RunUploads, R!Ended
  <2> QED BY <1>4, <1>5, <2>3, <2>4
<1>8. CASE ProcExits(r)
  <2>1. UNCHANGED <<up, boot, rows, runs>> /\ \E p : procs' = [procs EXCEPT ![r] = @ \ {p}]
    BY <1>8 DEF ProcExits, R!ProcExits
  <2>2. RowsGrow(r)
    BY <1>1, <2>1, DroppedGrow
  <2> QED BY <1>4, <1>5, <2>1, <2>2
<1>9. CASE BeginAssigned(r)
  <2>1. PICK x \in runs[r] :
           LET older == {w \in rows[r] : w.job = x.job /\ w.epoch < x.epoch} IN
           /\ rows' = [rows EXCEPT ![r] = @ \ older]
           /\ procs' = [procs EXCEPT ![r] = @ \ UNION {R!Killed(r, w) : w \in older}]
           /\ runs' = [runs EXCEPT ![r] = {y \in @ \ {x} : y.job = x.job => y.epoch > x.epoch}
                                          \cup {[x EXCEPT !.phase = "prepare"]}]
    BY <1>9 DEF BeginAssigned, R!BeginAssigned
  <2>2. RowsGrow(r)
    BY <1>1, <2>1, DroppedGrow
  <2>3. procs' \in [Runners -> SUBSET Proc]
    BY <1>4, <2>1
  <2>4. runs' \in [Runners -> SUBSET Run]
    <3> DEFINE new == {y \in runs[r] \ {x} : y.job = x.job => y.epoch > x.epoch}
                      \cup {[x EXCEPT !.phase = "prepare"]}
    <3>1. x \in Run /\ [x EXCEPT !.phase = "prepare"] \in Run
      BY <1>4 DEF Run
    <3>2. new \in SUBSET Run /\ runs' = [runs EXCEPT ![r] = new]
      BY <1>4, <2>1, <3>1
    <3> HIDE DEF new
    <3> QED BY <1>4, <3>2
  <2>5. UNCHANGED <<up, boot>>
    BY <1>9 DEF BeginAssigned, R!BeginAssigned
  <2> QED BY <1>5, <2>2, <2>3, <2>4, <2>5
<1>10. CASE Start(r)
  <2>1. /\ UNCHANGED <<rows, runs, procs>> /\ up' = up \cup {r}
        /\ boot' = [boot EXCEPT ![r] = @ + 1] /\ boot[r] < MaxBoot
    BY <1>10 DEF Start, R!Start
  <2>2. boot' \in [Runners -> 0..MaxBoot] /\ \A q \in up' : boot'[q] # 0
    BY <1>1, <2>1, BootAssumption DEF MachinesTyped
  <2>3. MachinesTyped' /\ RowsFit
    BY <1>1, <1>4, <2>1, <2>2, SameRows DEF MachinesTyped
  <2> QED BY <1>3, <2>3, TypedStep
<1> QED BY <1>6, <1>7, <1>8, <1>9, <1>10 DEF Machine

\* So do the server's other callers, and lost messages.
LEMMA ServerApiTyped ==
  ASSUME DispatchTyped, CmdsGrow, ServerApi \/ \E r \in Runners : LoseMessage(r)
  PROVE  DispatchTyped'
<1>1. ExchangesTyped /\ ackedSeq \in [Jobs -> Nat]
  BY DEF DispatchTyped, ExchangesTyped
<1>2. CASE ServerApi
  BY <1>1, <1>2, RenumberedTyped, ServerStepTyped DEF ServerApi
<1>3. ASSUME NEW r \in Runners, LoseMessage(r) PROVE DispatchTyped'
  BY <1>1, <1>3, DroppedFits, ServerStepTyped DEF LoseMessage
<1> QED BY <1>2, <1>3

\* So does a restart of the API, which drops what it had in hand.
LEMMA ApiCrashTyped ==
  ASSUME DispatchTyped, CmdsGrow, ApiCrash
  PROVE  DispatchTyped'
<1>1. MachinesTyped /\ ExchangesTyped
  BY DEF DispatchTyped
<1>2. /\ UNCHANGED <<machines, ackedSeq>>
      /\ \A q \in Runners : sync'[q] \in {sync[q], NoSync}
      /\ sync' = [q \in Runners |-> sync'[q]]
  <2>1. sync' = [q \in Runners |-> IF sync[q].at \in AtServer THEN NoSync ELSE sync[q]]
    BY DEF ApiCrash
  <2> QED BY <2>1 DEF ApiCrash
<1>3. MachinesTyped' /\ RecordsFit /\ RowsFit
  BY <1>1, <1>2, MachinesKept
<1>4. SyncShape(NoSync) /\ NoSync.at = "idle" /\ NoSync.acks = {} /\ NoSync.reports = {}
      /\ NoSync.seqs = {} /\ NoSync.ids = {} /\ NoSync.done = {}
  BY NoSyncFacts DEF SyncIs
<1>5. ExchangesTyped'
  <2> SUFFICES ASSUME NEW q \in Runners
               PROVE  /\ SyncShape(sync'[q])
                      /\ sync'[q].at # "idle" => sync'[q].boot \in Boots
                      /\ sync'[q].reports \subseteq Sent /\ sync'[q].seqs \subseteq Seen
                      /\ \E b \in Nat : \A s \in sync'[q].seqs : s.seq <= b
    <3>1. ackedSeq' \in [Jobs -> Nat]
      BY <1>1, <1>2 DEF ExchangesTyped
    <3> QED BY <1>2, <3>1 DEF ExchangesTyped, SyncShape
  <2>1. CASE sync'[q] = sync[q]
    BY <1>1, <2>1 DEF ExchangesTyped
  <2>2. CASE sync'[q] = NoSync
    BY <1>4, <2>2
  <2> QED BY <1>2, <2>1, <2>2
<1>6. SyncFits
  BY <1>2, <1>4 DEF SyncFits
<1> QED BY <1>3, <1>5, <1>6, TypedStep

\* The invariant is inductive,
LEMMA DispatchTypedStep ==
  ASSUME DispatchTyped, LeaseInv, [DispatchNext]_dispatchVars
  PROVE  DispatchTyped'
<1>1. CmdsGrow
  BY DispatchIsNext, NextGrows
<1>2. CASE UNCHANGED dispatchVars
  BY <1>1, <1>2, ServerStepTyped DEF dispatchVars, DispatchTyped, ExchangesTyped
<1>3. ASSUME NEW r \in Runners, Exchange(r) \/ ServerFill(r) \/ Machine(r) \/ Faults(r)
      PROVE  DispatchTyped'
  BY <1>1, <1>3, ServerExchangeTyped, ServerReportTyped, ReceiveReplyTyped, HandleCommandTyped,
     EndSyncTyped, MachineTyped, CrashTyped, ServerApiTyped
  DEF Exchange, Faults
<1> QED BY <1>1, <1>2, <1>3, ServerApiTyped, ApiCrashTyped DEF DispatchNext

\* and holds at first.
LEMMA DispatchTypedInit == DispatchInit => DispatchTyped
<1> SUFFICES ASSUME DispatchInit PROVE DispatchTyped
  OBVIOUS
<1>1. MachinesTyped
  BY BootAssumption DEF DispatchInit, R!RunnerInit, MachinesTyped
<1>2. \A r \in Runners : sync[r] = NoSync
  BY DEF DispatchInit
<1>3. SyncShape(NoSync) /\ NoSync.at = "idle" /\ NoSync.acks = {} /\ NoSync.reports = {}
      /\ NoSync.seqs = {} /\ NoSync.ids = {} /\ NoSync.done = {}
  BY NoSyncFacts DEF SyncIs
<1>4. ExchangesTyped
  <2>1. ackedSeq \in [Jobs -> Nat] /\ sync = [r \in Runners |-> sync[r]]
    BY DEF DispatchInit
  <2>2. \A r \in Runners : \E b \in Nat : \A q \in sync[r].seqs : q.seq <= b
    BY <1>2, <1>3
  <2> QED BY <1>2, <1>3, <2>1, <2>2 DEF ExchangesTyped
<1>5. \A r \in Runners : rows[r] = {} /\ acks[r] = {} /\ DOMAIN applied[r] = {}
  BY DEF DispatchInit, R!RunnerInit
<1>6. CommandsKnown
  BY <1>2, <1>3, <1>5 DEF CommandsKnown
<1>7. LeasesGiven
  BY <1>2, <1>3, <1>5 DEF LeasesGiven
<1> QED BY <1>1, <1>4, <1>6, <1>7 DEF DispatchTyped

\* The composed system has its types, no machine journals, reports or acks a lease it
\* was not given, and the server's own invariant holds under its daemons
\* (sync.service.ts, command-handler.ts).
THEOREM DispatchTypes == DispatchSpec => [](DispatchTyped /\ LeaseInv)
<1>1. DispatchInit => DispatchTyped /\ LeaseInv
  BY DispatchTypedInit, LeaseInit DEF DispatchInit
<1>2. DispatchTyped /\ LeaseInv /\ [DispatchNext]_dispatchVars => (DispatchTyped /\ LeaseInv)'
  BY DispatchTypedStep, DispatchIsNext, LeaseStep
<1> QED BY <1>1, <1>2, PTL DEF DispatchSpec

\* Every behaviour of daemons, journals and lossy exchanges is, seen from the server,
\* a behaviour of FleetJob, where acks and reports may come at any time: what is
\* proved of FleetJob holds of the whole system.
THEOREM DispatchImplementsFleetJob == DispatchSpec => Spec
<1>1. DispatchInit => Init
  BY DEF DispatchInit
<1>2. DispatchTyped /\ LeaseInv /\ [DispatchNext]_dispatchVars => [Next]_vars
  BY DispatchIsNext
<1> QED BY <1>1, <1>2, DispatchTypes, PTL DEF DispatchSpec, Spec

\* The report p holds a part of the log of the row w.
Quotes(p, w) ==
  /\ p.from + Len(p.events) <= Len(w.events)
  /\ \A i \in 1..Len(p.events) : p.events[i] = w.events[p.from + i]

\* The server is behind the row w, and where the row's log leads.
Reported(w) ==
  /\ w.acked <= ackedSeq[w.job] /\ ackedSeq[w.job] <= Len(w.events)
  /\ job[w.job].state = After("ASSIGNED", SubSeq(w.events, 1, ackedSeq[w.job]))

\* The journals, what was sent of them, and what the server has taken agree.
ReportsQuote ==
  \A r \in Runners : \A p \in sync[r].reports, w \in rows[r] : SameLeaseAs(p, w) => Quotes(p, w)
\* A reply never says that more of a held lease was taken than was.
SeqsTaken ==
  \A r \in Runners : \A q \in sync[r].seqs :
    Held(q.job) /\ Holds(q.job, r, q.epoch) => q.seq <= ackedSeq[q.job]
\* A held lease is where its row's log leads, up to the acked event.
RowsReported ==
  \A r \in Runners : \A w \in rows[r] : Held(w.job) /\ Holds(w.job, r, w.epoch) => Reported(w)
\* A lease that its machine has not seen is as it was granted.
LeasesFresh ==
  \A j \in Jobs : Held(j) /\ ~Given(job[j].runner, j, job[j].epoch) =>
    job[j].state = "ASSIGNED" /\ ackedSeq[j] = 0

\* The invariant of the second half.
JournalInv ==
  /\ \A r \in Runners : OneRow(r)
  /\ ReportsQuote /\ SeqsTaken /\ RowsReported /\ LeasesFresh

\* Two logs that agree at each position are one.
LEMMA SeqSame ==
  ASSUME NEW S, NEW s \in Seq(S), NEW t \in Seq(S), Len(s) = Len(t),
         \A i \in 1..Len(s) : s[i] = t[i]
  PROVE  s = t
  OBVIOUS

\* A part of a log, element by element.
LEMMA SubSeqFacts ==
  ASSUME NEW S, NEW s \in Seq(S), NEW m \in Nat, m >= 1, NEW n \in Nat, n <= Len(s)
  PROVE  /\ SubSeq(s, m, n) \in Seq(S)
         /\ Len(SubSeq(s, m, n)) = IF m <= n THEN n - m + 1 ELSE 0
         /\ \A i \in 1..(n - m + 1) : SubSeq(s, m, n)[i] = s[m + i - 1]
<1>1. Len(s) \in Nat
  OBVIOUS
<1>2. SubSeq(s, m, n) \in Seq(S)
  OBVIOUS
<1>3. Len(SubSeq(s, m, n)) = IF m <= n THEN n - m + 1 ELSE 0
  OBVIOUS
<1>4. \A i \in 1..(n - m + 1) : SubSeq(s, m, n)[i] = s[m + i - 1]
  OBVIOUS
<1> QED BY <1>2, <1>3, <1>4

\* An empty report leaves the state.
LEMMA AfterNothing ==
  ASSUME NEW state, NEW events, Len(events) = 0
  PROVE  After(state, events) = state
<1>1. 0 \in Nat /\ 0 = Len(events)
  OBVIOUS
<1>2. PICK at : Path(at, state, events, 0) /\ After(state, events) = at[0]
  BY <1>1, AfterIsPath
<1> QED BY <1>2 DEF Path

\* The part s of a report that starts after f, seen from after a, goes on with the log t.
Continues(s, t, f, a, L, M) ==
  \E n \in a..M : /\ n = a + Len(SubSeq(s, a - f + 1, L))
                 /\ SubSeq(s, a - f + 1, L) = SubSeq(t, a + 1, n)

\* The arithmetic of applyContiguous: a report that overlaps what was taken.
LEMMA QuoteContinues ==
  ASSUME NEW s \in Seq(JobStates), NEW t \in Seq(JobStates),
         NEW L \in Nat, L = Len(s), NEW M \in Nat, M = Len(t),
         NEW f \in Nat, NEW a \in Nat, f <= a, a <= M, f + L <= M, PartOf(s, t, f, L)
  PROVE  Continues(s, t, f, a, L, M)
<1>1. PICK k \in Nat : k = a - f + 1 /\ k >= 1
  OBVIOUS
<1>2. PICK n \in a..M : n = a + (IF k <= L THEN L - k + 1 ELSE 0)
  <2>1. CASE k <= L
    BY <1>1, <2>1
  <2>2. CASE ~(k <= L)
    BY <1>1, <2>2
  <2> QED BY <2>1, <2>2
<1>3. PICK m \in Nat : m = a + 1 /\ m >= 1
  OBVIOUS
<1>4. n \in Nat /\ n <= Len(t) /\ L <= Len(s)
  BY <1>2
<1> DEFINE new == SubSeq(s, k, L)
           old == SubSeq(t, m, n)
<1>5. /\ new \in Seq(JobStates) /\ Len(new) = IF k <= L THEN L - k + 1 ELSE 0
      /\ \A i \in 1..(L - k + 1) : new[i] = s[k + i - 1]
  BY <1>1, <1>4, SubSeqFacts
<1>6. /\ old \in Seq(JobStates) /\ Len(old) = IF m <= n THEN n - m + 1 ELSE 0
      /\ \A i \in 1..(n - m + 1) : old[i] = t[m + i - 1]
  BY <1>3, <1>4, SubSeqFacts
<1> HIDE DEF new, old
<1>7. Len(old) = Len(new) /\ n = a + Len(new)
  <2>1. CASE k <= L
    BY <1>1, <1>2, <1>3, <1>5, <1>6, <2>1
  <2>2. CASE ~(k <= L)
    BY <1>1, <1>2, <1>3, <1>5, <1>6, <2>2
  <2> QED BY <2>1, <2>2
<1>8. ASSUME NEW i \in 1..Len(new) PROVE new[i] = old[i]
  <2>1. k <= L /\ i \in 1..(L - k + 1) /\ i \in Nat
    BY <1>1, <1>5, <1>8
  <2>2. i \in 1..(n - m + 1)
    BY <1>1, <1>2, <1>3, <2>1
  <2>3. PICK d \in 1..L : d = k + i - 1
    BY <1>1, <2>1
  <2>4. f + d = m + i - 1
    BY <1>1, <1>3, <2>1, <2>3
  <2>5. s[d] = t[f + d]
    BY <2>3 DEF PartOf
  <2>6. new[i] = s[k + i - 1] /\ old[i] = t[m + i - 1]
    BY <1>5, <1>6, <2>1, <2>2
  <2> QED BY <2>3, <2>4, <2>5, <2>6
<1>9. new = old
  BY <1>5, <1>6, <1>7, <1>8, SeqSame
<1> QED BY <1>1, <1>3, <1>7, <1>9 DEF Continues, new, old

\* What the server takes of a report continues the part of the log it has taken.
LEMMA NewEventsContinue ==
  ASSUME NEW p \in Sent, NEW w \in Row, Quotes(p, w),
         NEW a \in Nat, a = ackedSeq[p.job], a <= Len(w.events)
  PROVE  \E n \in a..Len(w.events) : /\ n = a + Len(NewEvents(p))
                                     /\ NewEvents(p) = SubSeq(w.events, a + 1, n)
<1>1. /\ p.from \in Nat /\ p.events \in Seq(JobStates) /\ Len(p.events) \in Nat
      /\ w.events \in Seq(JobStates) /\ Len(w.events) \in Nat
  BY DEF Sent, Row
<1>2. CASE p.from > a
  <2>1. NewEvents(p) = << >>
    BY <1>2 DEF NewEvents
  <2>2. a = a + Len(NewEvents(p)) /\ a \in a..Len(w.events)
    BY <1>1, <2>1
  <2>3. a + 1 \in Nat /\ a + 1 >= 1
    OBVIOUS
  <2>4. SubSeq(w.events, a + 1, a) \in Seq(JobStates) /\ Len(SubSeq(w.events, a + 1, a)) = 0
    BY <1>1, <2>3, SubSeqFacts
  <2>5. SubSeq(w.events, a + 1, a) = << >>
    BY <2>4
  <2> QED BY <2>1, <2>2, <2>5
<1>3. CASE ~(p.from > a)
  <2>1. NewEvents(p) = SubSeq(p.events, a - p.from + 1, Len(p.events))
    BY <1>3 DEF NewEvents
  <2>2. p.from <= a /\ p.from + Len(p.events) <= Len(w.events)
    BY <1>1, <1>3 DEF Quotes
  <2>3. PartOf(p.events, w.events, p.from, Len(p.events))
    BY DEF Quotes, PartOf
  <2>4. Continues(p.events, w.events, p.from, a, Len(p.events), Len(w.events))
    BY <1>1, <2>2, <2>3, QuoteContinues
  <2> QED BY <2>1, <2>4 DEF Continues
<1> QED BY <1>2, <1>3

\* A log that grew keeps its beginning.
LEMMA BeginningKept ==
  ASSUME NEW v \in Row, NEW w \in Row, Len(w.events) <= Len(v.events),
         \A i \in 1..Len(w.events) : v.events[i] = w.events[i],
         NEW n \in Nat, n <= Len(w.events)
  PROVE  SubSeq(v.events, 1, n) = SubSeq(w.events, 1, n)
<1>1. v.events \in Seq(JobStates) /\ w.events \in Seq(JobStates)
      /\ Len(v.events) \in Nat /\ Len(w.events) \in Nat /\ n <= Len(v.events)
      /\ 1 \in Nat /\ 1 >= 1
  BY DEF Row
<1> DEFINE a == SubSeq(v.events, 1, n)
           b == SubSeq(w.events, 1, n)
<1>2. /\ a \in Seq(JobStates) /\ Len(a) = IF 1 <= n THEN n - 1 + 1 ELSE 0
      /\ \A i \in 1..(n - 1 + 1) : a[i] = v.events[1 + i - 1]
  BY <1>1, SubSeqFacts
<1>3. /\ b \in Seq(JobStates) /\ Len(b) = IF 1 <= n THEN n - 1 + 1 ELSE 0
      /\ \A i \in 1..(n - 1 + 1) : b[i] = w.events[1 + i - 1]
  BY <1>1, SubSeqFacts
<1>4. ASSUME NEW i \in 1..Len(a) PROVE a[i] = b[i]
  <2>1. i \in 1..(n - 1 + 1) /\ 1 + i - 1 \in 1..Len(w.events)
    BY <1>1, <1>2
  <2> QED BY <1>2, <1>3, <2>1
<1> HIDE DEF a, b
<1>5. a = b
  BY <1>2, <1>3, <1>4, SeqSame
<1> QED BY <1>5 DEF a, b

\* What a step does to job k, if it is held afterwards: nothing, or a new lease.
JobSettles(k) ==
  \/ job'[k].state \in HeldStates =>
       /\ job'[k].state = job[k].state
       /\ job'[k].runner = job[k].runner /\ job'[k].epoch = job[k].epoch
       /\ ackedSeq'[k] = ackedSeq[k]
  \/ Leased(k) /\ ackedSeq'[k] = 0

\* A job held on a lease that its machine has seen was held on it before.
LEMMA HeldBefore ==
  ASSUME LeaseInv, CommandsKnown, NEW k \in Jobs, JobSettles(k), NEW r \in Runners, NEW e,
         Given(r, k, e), Held(k)', Holds(k, r, e)'
  PROVE  /\ Held(k) /\ Holds(k, r, e) /\ job'[k].state = job[k].state
         /\ ackedSeq'[k] = ackedSeq[k]
<1>1. job[k].epoch \in Nat
  BY DEF LeaseInv, TypeOK, JobRecord
<1>2. e <= job[k].epoch
  <2>1. PICK c \in DOMAIN applied[r] : cmds[c].job = k /\ cmds[c].epoch = e
    BY DEF Given
  <2>2. c \in DOMAIN cmds
    BY DEF CommandsKnown
  <2> QED BY <2>1, <2>2 DEF LeaseInv, IssuedEpochs
<1>3. ~Leased(k)
  BY <1>1, <1>2 DEF Leased, Holds
<1> QED BY <1>3 DEF JobSettles, Held, Holds

\* The row v goes on where the row w of runner q was.
GoesOn(q, w, v) ==
  /\ SameLeaseAs(v, w)
  /\ Len(w.events) <= Len(v.events)
  /\ \A i \in 1..Len(w.events) : v.events[i] = w.events[i]
  /\ v.acked = w.acked \/ \E s \in sync[q].seqs : SameLeaseAs(s, w) /\ v.acked = s.seq

\* A report still quotes a row that grew after it was sent.
LEMMA QuotesGoOn ==
  ASSUME NEW p \in Sent, NEW w \in Row, NEW v \in Row, NEW q, GoesOn(q, w, v), Quotes(p, w)
  PROVE  Quotes(p, v)
<1>1. /\ p.from \in Nat /\ Len(p.events) \in Nat /\ Len(w.events) \in Nat /\ Len(v.events) \in Nat
  BY DEF Sent, Row
<1>2. p.from + Len(p.events) <= Len(v.events)
  BY <1>1 DEF GoesOn, Quotes
<1>3. ASSUME NEW i \in 1..Len(p.events) PROVE p.events[i] = v.events[p.from + i]
  <2>1. p.from + i \in 1..Len(w.events)
    BY <1>1 DEF Quotes
  <2> QED BY <2>1 DEF GoesOn, Quotes
<1> QED BY <1>2, <1>3 DEF Quotes

\* A held row is still what the server believes, after a step that grows the
\* log, moves the acked mark as the reply says, and leaves the job alone.
LEMMA RowGoesOn ==
  ASSUME DispatchTyped, LeaseInv, JournalInv, NEW r \in Runners, NEW w \in rows[r], NEW v \in Row,
         GoesOn(r, w, v), JobSettles(w.job), Held(v.job)', Holds(v.job, r, v.epoch)'
  PROVE  Reported(v)'
<1>1. w \in Row /\ w.job \in Jobs /\ Given(r, w.job, w.epoch) /\ CommandsKnown
      /\ v.job = w.job /\ v.epoch = w.epoch
  BY DEF DispatchTyped, MachinesTyped, LeasesGiven, Row, GoesOn, SameLeaseAs
<1>2. /\ Held(w.job) /\ Holds(w.job, r, w.epoch) /\ job'[w.job].state = job[w.job].state
      /\ ackedSeq'[w.job] = ackedSeq[w.job]
  BY <1>1, HeldBefore
<1>3. Reported(w)
  BY <1>2 DEF JournalInv, RowsReported
<1>4. ackedSeq[w.job] \in Nat /\ Len(w.events) \in Nat /\ Len(v.events) \in Nat
  BY <1>1 DEF DispatchTyped, ExchangesTyped, Row
<1>5. v.acked <= ackedSeq[w.job]
  <2>1. CASE v.acked = w.acked
    BY <1>3, <2>1 DEF Reported
  <2>2. ASSUME NEW s \in sync[r].seqs, SameLeaseAs(s, w), v.acked = s.seq
        PROVE  v.acked <= ackedSeq[w.job]
    BY <1>2, <2>2 DEF JournalInv, SeqsTaken, SameLeaseAs
  <2> QED BY <2>1, <2>2 DEF GoesOn
<1>6. ackedSeq[w.job] <= Len(w.events) /\ ackedSeq[w.job] <= Len(v.events)
  BY <1>3, <1>4 DEF Reported, GoesOn
<1>7. SubSeq(v.events, 1, ackedSeq[w.job]) = SubSeq(w.events, 1, ackedSeq[w.job])
  BY <1>1, <1>4, <1>6, BeginningKept DEF GoesOn
<1>8. job[w.job].state = After("ASSIGNED", SubSeq(v.events, 1, ackedSeq[w.job]))
  BY <1>3, <1>7 DEF Reported
<1>9. /\ v.acked <= ackedSeq'[v.job] /\ ackedSeq'[v.job] <= Len(v.events)
      /\ job'[v.job].state = After("ASSIGNED", SubSeq(v.events, 1, ackedSeq'[v.job]))
  BY <1>1, <1>2, <1>5, <1>6, <1>8
<1> QED BY <1>9 DEF Reported

\* A lease that its machine has not seen is still as it was granted.
LEMMA LeasesStayFresh ==
  ASSUME LeaseInv, LeaseInv', CommandsKnown, CmdsGrow, AppliedGrows, LeasesFresh,
         \A k \in Jobs : JobSettles(k) \/ Given(job[k].runner, k, job[k].epoch)'
  PROVE  LeasesFresh'
<1> SUFFICES ASSUME NEW j \in Jobs, Held(j)', ~Given(job[j].runner, j, job[j].epoch)'
             PROVE  job'[j].state = "ASSIGNED" /\ ackedSeq'[j] = 0
  BY DEF LeasesFresh
<1>1. CASE Leased(j) /\ ackedSeq'[j] = 0
  BY <1>1 DEF Leased
<1>2. CASE /\ job'[j].state = job[j].state /\ job'[j].runner = job[j].runner
           /\ job'[j].epoch = job[j].epoch /\ ackedSeq'[j] = ackedSeq[j]
  <2>. PICK r, e : r = job[j].runner /\ e = job[j].epoch
    OBVIOUS
  <2>1. Held(j) /\ r \in Runners
    <3>1. Held(j)
      BY <1>2 DEF Held
    <3>2. PICK c \in DOMAIN cmds : cmds[c].runner = r
      BY <3>1 DEF LeaseInv, HolderWasAssigned, Leases
    <3>3. cmds[c] \in Command
      BY CmdDomain DEF LeaseInv, TypeOK
    <3> QED BY <3>1, <3>2, <3>3 DEF Command
  <2>2. ~Given(r, j, e)'
    BY <1>2 DEF Given
  <2>3. ~Given(r, j, e)
    BY <2>1, <2>2, GivenKept
  <2> QED BY <1>2, <2>1, <2>3 DEF LeasesFresh
<1> QED BY <1>1, <1>2 DEF JobSettles, Held

\* What a step may do to rows and exchanges, so that they go on agreeing.
RowsGoOn ==
  /\ \A q \in Runners : OneRow(q)'
  /\ \A q \in Runners : \A v \in rows'[q] : v \in Row /\ \E w \in rows[q] : GoesOn(q, w, v)
\* Reports in hand were there, or quote the rows; acked seqs were there.
SyncGoesOn ==
  \A q \in Runners :
    /\ \A p \in sync'[q].reports :
         p \in sync[q].reports \/ \A w \in rows[q] : SameLeaseAs(p, w) => p \in Sent /\ Quotes(p, w)
    /\ sync'[q].seqs \subseteq sync[q].seqs

\* A step that lets rows and exchanges go on and gives up or keeps each lease keeps
\* the invariant.
LEMMA JournalStep ==
  ASSUME DispatchTyped, DispatchTyped', LeaseInv, LeaseInv', JournalInv, CmdsGrow, AppliedGrows,
         \A k \in Jobs : JobSettles(k), RowsGoOn, SyncGoesOn
  PROVE  JournalInv'
<1>1. LeasesFresh'
  BY LeasesStayFresh DEF DispatchTyped, JournalInv
<1>2. ASSUME NEW r \in Runners, NEW v \in rows'[r], Held(v.job)', Holds(v.job, r, v.epoch)'
      PROVE  Reported(v)'
  <2>1. PICK w \in rows[r] : v \in Row /\ GoesOn(r, w, v)
    BY DEF RowsGoOn
  <2>2. w.job \in Jobs
    BY DEF DispatchTyped, MachinesTyped, Row
  <2> QED BY <1>2, <2>1, <2>2, RowGoesOn
<1>3. ASSUME NEW r \in Runners, NEW s \in sync'[r].seqs, Held(s.job)', Holds(s.job, r, s.epoch)'
      PROVE  s.seq <= ackedSeq'[s.job]
  <2>1. s \in sync[r].seqs
    BY DEF SyncGoesOn
  <2>2. s.job \in Jobs /\ Given(r, s.job, s.epoch) /\ CommandsKnown
    BY <2>1 DEF DispatchTyped, LeasesGiven, ExchangesTyped, Seen
  <2>3. Held(s.job) /\ Holds(s.job, r, s.epoch) /\ ackedSeq'[s.job] = ackedSeq[s.job]
    BY <1>3, <2>2, HeldBefore
  <2> QED BY <2>1, <2>3 DEF JournalInv, SeqsTaken
<1>4. ASSUME NEW r \in Runners, NEW p \in sync'[r].reports, NEW v \in rows'[r], SameLeaseAs(p, v)
      PROVE  Quotes(p, v)
  <2>1. PICK w \in rows[r] : v \in Row /\ GoesOn(r, w, v)
    BY DEF RowsGoOn
  <2>2. SameLeaseAs(p, w) /\ w \in Row
    BY <1>4, <2>1 DEF GoesOn, SameLeaseAs, DispatchTyped, MachinesTyped
  <2>3. p \in Sent /\ Quotes(p, w)
    BY <2>2 DEF SyncGoesOn, JournalInv, ReportsQuote, DispatchTyped, ExchangesTyped
  <2> QED BY <2>1, <2>2, <2>3, QuotesGoOn
<1>5. RowsReported'
  BY <1>2 DEF RowsReported
<1>6. SeqsTaken'
  BY <1>3 DEF SeqsTaken
<1>7. ReportsQuote'
  BY <1>4 DEF ReportsQuote, SameLeaseAs, Quotes
<1> QED BY <1>1, <1>5, <1>6, <1>7 DEF JournalInv, RowsGoOn

\* The three things a step may leave alone.
LEMMA RowsUntouched ==
  ASSUME MachinesTyped, \A q \in Runners : OneRow(q), UNCHANGED rows
  PROVE  RowsGoOn
<1>1. \A q \in Runners : OneRow(q)'
  BY DEF OneRow, SameLeaseAs
<1>2. \A q \in Runners : \A v \in rows'[q] : v \in Row /\ v \in rows[q] /\ GoesOn(q, v, v)
  BY DEF MachinesTyped, GoesOn, SameLeaseAs, Row
<1> QED BY <1>1, <1>2 DEF RowsGoOn

\* Rows that grew on one machine.
LEMMA RowsGrown ==
  ASSUME MachinesTyped, \A q \in Runners : OneRow(q), NEW r \in Runners, RowsGrow(r)
  PROVE  RowsGoOn
<1>1. ASSUME NEW q \in Runners PROVE OneRow(q)'
  <2>1. CASE q = r
    BY <2>1 DEF RowsGrow
  <2>2. CASE q # r
    BY <2>2 DEF RowsGrow, OneRow, SameLeaseAs
  <2> QED BY <2>1, <2>2
<1>2. ASSUME NEW q \in Runners, NEW v \in rows'[q]
      PROVE  v \in Row /\ \E w \in rows[q] : GoesOn(q, w, v)
  <2>1. v \in Row
    BY DEF RowsGrow
  <2>2. CASE q = r
    BY <2>2 DEF RowsGrow, Extends, GoesOn
  <2>3. CASE q # r
    <3>1. v \in rows[q]
      BY <2>3 DEF RowsGrow
    <3>2. GoesOn(q, v, v)
      BY <2>1 DEF GoesOn, SameLeaseAs, Row
    <3> QED BY <2>1, <3>1, <3>2
  <2> QED BY <2>1, <2>2, <2>3
<1> QED BY <1>1, <1>2 DEF RowsGoOn

\* Exchanges that are left alone.
LEMMA SyncUntouched ==
  ASSUME UNCHANGED sync
  PROVE  SyncGoesOn
  BY DEF SyncGoesOn

\* Jobs and acked events that are left alone.
LEMMA JobsUntouched ==
  ASSUME UNCHANGED <<job, ackedSeq>>, NEW k \in Jobs
  PROVE  JobSettles(k)
  BY DEF JobSettles

\* A step that grants nothing, and acks nothing.
LEMMA QuietJobs ==
  ASSUME Quiet, UNCHANGED ackedSeq, NEW k \in Jobs
  PROVE  JobSettles(k)
  BY DEF Quiet, Kept, JobSettles

\* A step that grants new leases and starts their logs over.
LEMMA RenumberedJobs ==
  ASSUME Settles, LeaseInv, ackedSeq' = Renumbered, NEW k \in Jobs
  PROVE  JobSettles(k)
<1>1. job[k].epoch \in Nat
  BY DEF LeaseInv, TypeOK, JobRecord
<1>2. ackedSeq'[k] = IF job'[k].epoch # job[k].epoch /\ job'[k].state \in {"ASSIGNED", "QUEUED"}
                     THEN 0 ELSE ackedSeq[k]
  BY DEF Renumbered
<1>3. CASE Kept(k)
  BY <1>2, <1>3 DEF Kept, JobSettles
<1>4. CASE Leased(k)
  BY <1>1, <1>2, <1>4 DEF Leased, JobSettles
<1> QED BY <1>3, <1>4 DEF Settles

\* One exchange is written, and its reports and seqs do not grow.
LEMMA SyncShrinks ==
  ASSUME ExchangesTyped, NEW r \in Runners, NEW x, sync' = Put(r, x),
         x.reports \subseteq sync[r].reports, x.seqs \subseteq sync[r].seqs
  PROVE  SyncGoesOn
  BY PutFacts DEF SyncGoesOn

\* A dropped exchange holds nothing.
LEMMA NoSyncShrinks ==
  ASSUME NEW r
  PROVE  NoSync.reports \subseteq sync[r].reports /\ NoSync.seqs \subseteq sync[r].seqs
  BY NoSyncFacts DEF SyncIs

\* What a write of other fields leaves of an exchange.
LEMMA InHand ==
  ASSUME ExchangesTyped, NEW r \in Runners, NEW x, NEW a, NEW A, NEW n, NEW I, NEW D
  PROVE  /\ x = [sync[r] EXCEPT !.at = a] => x.reports = sync[r].reports /\ x.seqs = sync[r].seqs
         /\ x = [sync[r] EXCEPT !.acks = A] => x.reports = sync[r].reports /\ x.seqs = sync[r].seqs
         /\ x = [sync[r] EXCEPT !.at = a, !.slots = n] =>
              x.reports = sync[r].reports /\ x.seqs = sync[r].seqs
         /\ x = [sync[r] EXCEPT !.at = a, !.slots = n, !.ids = I] =>
              x.reports = sync[r].reports /\ x.seqs = sync[r].seqs
         /\ x = [sync[r] EXCEPT !.ids = I, !.done = D] =>
              x.reports = sync[r].reports /\ x.seqs = sync[r].seqs
<1> DEFINE s == sync[r]
<1>1. SyncShape(s)
  BY DEF ExchangesTyped
<1> HIDE DEF s
<1>2. x = [s EXCEPT !.at = a] => x.reports = s.reports /\ x.seqs = s.seqs
  BY <1>1 DEF SyncShape
<1>3. x = [s EXCEPT !.acks = A] => x.reports = s.reports /\ x.seqs = s.seqs
  BY <1>1 DEF SyncShape
<1>4. x = [s EXCEPT !.at = a, !.slots = n] => x.reports = s.reports /\ x.seqs = s.seqs
  BY <1>1 DEF SyncShape
<1>5. x = [s EXCEPT !.at = a, !.slots = n, !.ids = I] => x.reports = s.reports /\ x.seqs = s.seqs
  BY <1>1 DEF SyncShape
<1>6. x = [s EXCEPT !.ids = I, !.done = D] => x.reports = s.reports /\ x.seqs = s.seqs
  BY <1>1 DEF SyncShape
<1> QED BY <1>2, <1>3, <1>4, <1>5, <1>6 DEF s

\* What every step of the proof below starts from.
StepInv ==
  /\ DispatchTyped /\ DispatchTyped' /\ LeaseInv /\ LeaseInv' /\ JournalInv /\ CmdsGrow

\* Its parts, by name.
LEMMA StepParts ==
  ASSUME StepInv
  PROVE  /\ MachinesTyped /\ ExchangesTyped /\ CommandsKnown /\ LeasesGiven /\ RowInv /\ TypeOK
         /\ \A q \in Runners : OneRow(q)
         /\ UNCHANGED applied => AppliedGrows
  BY DEF StepInv, DispatchTyped, MachinesTyped, LeaseInv, TypeOK, RowInv, JournalInv, AppliedGrows

\* A step of the server in one exchange, or outside of any, that takes no report.
LEMMA ServerStepJournal ==
  ASSUME StepInv, UNCHANGED machines, SyncGoesOn, \A k \in Jobs : JobSettles(k)
  PROVE  JournalInv'
<1>1. RowsGoOn /\ AppliedGrows
  BY StepParts, RowsUntouched DEF machines
<1> QED BY <1>1, JournalStep DEF StepInv

\* A request quotes the journal as it is written.
LEMMA SendSyncJournal ==
  ASSUME StepInv, NEW r \in Runners, SendSync(r)
  PROVE  JournalInv'
<1> DEFINE x == [NoSync EXCEPT !.at = "sent", !.boot = boot[r], !.sent = acks[r],
                               !.acks = acks[r], !.reports = Reports(r), !.slots = Slots(r)]
<1>1. UNCHANGED <<machines, job, ackedSeq>> /\ sync' = Put(r, x)
  BY DEF SendSync, vars
<1>2. SyncIs(x, "sent", boot[r], acks[r], Reports(r), {}, {}, {})
  BY NewSyncForms
<1> HIDE DEF x
<1>3. ASSUME NEW p \in Reports(r), NEW w \in rows[r], SameLeaseAs(p, w)
      PROVE  p \in Sent /\ Quotes(p, w)
  <2>1. PICK u \in rows[r] : /\ SameLeaseAs(p, u) /\ p.from = u.acked /\ R!Unsent(u)
                             /\ p.events = SubSeq(u.events, u.acked + 1, Len(u.events))
    BY StepParts, ReportsTyped
  <2>2. u = w
    BY <1>3, <2>1, StepParts DEF OneRow, SameLeaseAs
  <2>3. p \in Sent
    BY StepParts, ReportsTyped
  <2>. PICK a, m, N : a = w.acked /\ m = a + 1 /\ N = Len(w.events)
    OBVIOUS
  <2>4. /\ a \in Nat /\ N \in Nat /\ m \in Nat /\ m >= 1 /\ N <= Len(w.events)
        /\ w.events \in Seq(JobStates) /\ a < N
    BY <2>1, <2>2, StepParts DEF MachinesTyped, Row, R!Unsent
  <2>5. /\ Len(SubSeq(w.events, m, N)) = IF m <= N THEN N - m + 1 ELSE 0
        /\ \A i \in 1..(N - m + 1) : SubSeq(w.events, m, N)[i] = w.events[m + i - 1]
    BY <2>4, SubSeqFacts
  <2>6. p.from = a /\ p.events = SubSeq(w.events, m, N)
    BY <2>1, <2>2
  <2>7. Len(p.events) = N - a
    BY <2>4, <2>5, <2>6
  <2>8. ASSUME NEW i \in 1..Len(p.events) PROVE p.events[i] = w.events[p.from + i]
    <3>1. i \in 1..(N - m + 1) /\ m + i - 1 = a + i
      BY <2>4, <2>7
    <3>2. p.events[i] = w.events[m + i - 1]
      BY <2>5, <2>6, <3>1
    <3> QED BY <2>6, <3>1, <3>2
  <2>9. p.from + Len(p.events) <= Len(w.events)
    BY <2>4, <2>6, <2>7
  <2> QED BY <2>3, <2>8, <2>9 DEF Quotes
<1>4. /\ sync'[r] = x /\ \A q \in Runners \ {r} : sync'[q] = sync[q]
  BY <1>1, StepParts, PutFacts
<1>5. SyncGoesOn
  BY <1>2, <1>3, <1>4 DEF SyncIs, SyncGoesOn
<1>6. \A k \in Jobs : JobSettles(k)
  BY <1>1, JobsUntouched
<1> QED BY <1>1, <1>5, <1>6, ServerStepJournal

\* The server's steps within an exchange, reports apart, keep the invariant.
LEMMA ServerExchangeJournal ==
  ASSUME StepInv, NEW r \in Runners,
         \/ SyncArrives(r) \/ ServerAck(r) \/ ServerReconcile(r) \/ ServerReconciles(r)
         \/ ServerReplies(r) \/ Discard(r) \/ ServerFill(r)
  PROVE  JournalInv'
<1>1. /\ MachinesTyped /\ ExchangesTyped /\ RowInv /\ LeaseInv
  BY StepParts DEF StepInv
<1>2. CASE SyncArrives(r)
  <2> DEFINE x == [sync[r] EXCEPT !.at = "acks"]
  <2>1. UNCHANGED <<machines, job, ackedSeq>> /\ sync' = Put(r, x)
    BY <1>2 DEF SyncArrives, SyncSeen
  <2>2. SyncGoesOn
    BY <1>1, <2>1, InHand, SyncShrinks
  <2> QED BY <2>1, <2>2, JobsUntouched, ServerStepJournal
<1>3. CASE ServerAck(r)
  <2>. PICK c, A : c = Min(sync[r].acks) /\ A = sync[r].acks \ {c}
    OBVIOUS
  <2> DEFINE x == [sync[r] EXCEPT !.acks = A]
  <2>1. UNCHANGED <<machines, ackedSeq>> /\ sync' = Put(r, x)
    BY <1>3 DEF ServerAck
  <2>2. SyncGoesOn
    <3>1. x.reports = sync[r].reports /\ x.seqs = sync[r].seqs
      BY <1>1, InHand
    <3> QED BY <1>1, <2>1, <3>1, SyncShrinks
  <2>3. c \in DOMAIN cmds /\ applied[r][c] \in {"ok", "rejected"}
    <3>1. CommandsKnown /\ DOMAIN cmds \subseteq Nat
      BY StepParts, CmdDomain DEF TypeOK
    <3>2. sync[r].acks \in SUBSET Nat /\ sync[r].acks # {} /\ sync[r].acks \subseteq DOMAIN applied[r]
      BY <1>3, <3>1 DEF CommandsKnown, ServerAck
    <3>3. c \in sync[r].acks
      BY <3>2, MinIsLeast
    <3> QED BY <3>1, <3>2, <3>3 DEF CommandsKnown
  <2>4. Ack(c, applied[r][c], sync[r].boot) \/ UNCHANGED vars
    BY <1>3 DEF ServerAck
  <2>5. Quiet
    BY <1>1, <2>3, <2>4, AckQuiet, UnchangedQuiet DEF vars
  <2>6. \A k \in Jobs : JobSettles(k)
    BY <2>1, <2>5, QuietJobs
  <2> QED BY <2>1, <2>2, <2>6, ServerStepJournal
<1>4. CASE ServerReconcile(r)
  <2> DEFINE x == [sync[r] EXCEPT !.at = "boot"]
  <2>1. UNCHANGED <<machines, job, ackedSeq>> /\ sync' = Put(r, x)
    BY <1>4 DEF ServerReconcile, ReconRead
  <2>2. SyncGoesOn
    BY <1>1, <2>1, InHand, SyncShrinks
  <2> QED BY <2>1, <2>2, JobsUntouched, ServerStepJournal
<1>5. CASE ServerReconciles(r)
  <2>1. UNCHANGED <<machines, sync, ackedSeq>> /\ \E x \in recon : ReconCheck(x) \/ ReconWrite(x)
    BY <1>5 DEF ServerReconciles
  <2>2. Quiet
    BY <1>1, <2>1, ReconQuiet
  <2> QED BY <2>1, <2>2, QuietJobs, SyncUntouched, ServerStepJournal
<1>6. CASE ServerReplies(r)
  <2>. PICK I : I = {c \in DOMAIN cmds : Pending(c) /\ cmds[c].runner = r}
    OBVIOUS
  <2> DEFINE x == [sync[r] EXCEPT !.at = "answered", !.slots = 0, !.ids = I]
  <2>1. UNCHANGED <<machines, job, ackedSeq>> /\ sync' = Put(r, x)
    BY <1>6 DEF ServerReplies, vars
  <2>2. SyncGoesOn
    <3>1. x.reports = sync[r].reports /\ x.seqs = sync[r].seqs
      BY <1>1, InHand
    <3> QED BY <1>1, <2>1, <3>1, SyncShrinks
  <2> QED BY <2>1, <2>2, JobsUntouched, ServerStepJournal
<1>7. CASE Discard(r)
  <2>1. UNCHANGED <<machines, job, ackedSeq>> /\ sync' = Put(r, NoSync)
    BY <1>7 DEF Discard, vars
  <2>2. SyncGoesOn
    BY <1>1, <2>1, NoSyncShrinks, SyncShrinks
  <2> QED BY <2>1, <2>2, JobsUntouched, ServerStepJournal
<1>8. CASE ServerFill(r)
  <2>. PICK n : n = IF HeldBy(r)' = HeldBy(r) THEN sync[r].slots ELSE sync[r].slots - 1
    OBVIOUS
  <2> DEFINE x == [sync[r] EXCEPT !.at = "fill", !.slots = n]
  <2>1. UNCHANGED machines /\ ackedSeq' = Renumbered /\ sync' = Put(r, x)
    BY <1>8 DEF ServerFill
  <2>2. SyncGoesOn
    <3>1. x.reports = sync[r].reports /\ x.seqs = sync[r].seqs
      BY <1>1, InHand
    <3> QED BY <1>1, <2>1, <3>1, SyncShrinks
  <2>3. Settles
    BY <1>1, <1>8, FillSettles DEF ServerFill
  <2>4. \A k \in Jobs : JobSettles(k)
    BY <1>1, <2>1, <2>3, RenumberedJobs
  <2> QED BY <2>1, <2>2, <2>4, ServerStepJournal
<1> QED BY <1>2, <1>3, <1>4, <1>5, <1>6, <1>7, <1>8

\* Taking the log of a row in two parts.
LEMMA RowInTwo ==
  ASSUME NEW w, w.events \in Seq(JobStates), NEW a \in 0..Len(w.events), NEW n \in a..Len(w.events)
  PROVE  After(After("ASSIGNED", SubSeq(w.events, 1, a)), SubSeq(w.events, a + 1, n))
           = After("ASSIGNED", SubSeq(w.events, 1, n))
  BY AfterInTwo, Zenon

\* What taking a report writes to the jobs.
LEMMA TakenJobs ==
  ASSUME RowInv, NEW r \in Runners, NEW p \in Sent, ReportTaken(r, p)
  PROVE  /\ \A k \in Jobs : job'[k].runner = job[k].runner /\ job'[k].epoch = job[k].epoch
         /\ \A k \in Jobs \ {p.job} : job'[k].state = job[k].state
         /\ job'[p.job].state = After(job[p.job].state, NewEvents(p))
         /\ Held(p.job)' => Held(p.job)
<1> DEFINE to == After(job[p.job].state, NewEvents(p))
           l == [job |-> p.job, runner |-> r, epoch |-> p.epoch]
<1>1. p.job \in Jobs /\ job \in [Jobs -> JobRecord]
  BY DEF Sent, RowInv
<1>2. IF to = job[p.job].state THEN UNCHANGED vars ELSE Report(l, to)
  BY DEF ReportTaken
<1> HIDE DEF to
<1>3. CASE to = job[p.job].state
  BY <1>2, <1>3 DEF vars, Held, to
<1>4. CASE to # job[p.job].state
  <2>1. /\ <<job[p.job].state, to>> \in ReportMoves
        /\ job' = [job EXCEPT ![p.job] = Moved(job[p.job], to, "runner")]
    BY <1>2, <1>4 DEF Report, Move
  <2>2. job[p.job].state \in HeldStates
    BY <2>1 DEF ReportMoves, RunnerMoves, HeldStates
  <2>3. /\ Moved(job[p.job], to, "runner").state = to
        /\ Moved(job[p.job], to, "runner").runner = job[p.job].runner
        /\ Moved(job[p.job], to, "runner").epoch = job[p.job].epoch
    BY DEF Moved
  <2>4. job'[p.job] = Moved(job[p.job], to, "runner") /\ \A k \in Jobs \ {p.job} : job'[k] = job[k]
    BY <1>1, <2>1
  <2> QED BY <1>1, <2>2, <2>3, <2>4 DEF Held, to
<1> QED BY <1>3, <1>4

\* A taken report moves the job where its row's log leads, and the acked event with
\* it, whatever part of the report was taken before.
LEMMA ReportTakenJournal ==
  ASSUME StepInv, NEW r \in Runners, NEW p \in sync[r].reports, ReportTaken(r, p), UNCHANGED machines
  PROVE  JournalInv'
<1>. PICK j, a, new : j = p.job /\ a = ackedSeq[p.job] /\ new = NewEvents(p)
  OBVIOUS
<1>1. /\ MachinesTyped /\ ExchangesTyped /\ CommandsKnown /\ LeasesGiven /\ RowInv
      /\ \A q \in Runners : OneRow(q)
  BY StepParts
<1>2. p \in Sent /\ Given(r, j, p.epoch) /\ SyncShape(sync[r]) /\ ackedSeq \in [Jobs -> Nat]
  BY <1>1 DEF ExchangesTyped, LeasesGiven
<1>3. j \in Jobs /\ a \in Nat /\ Len(new) \in Nat
  BY <1>1, NewEventsTyped
<1>4. /\ \A k \in Jobs : job'[k].runner = job[k].runner /\ job'[k].epoch = job[k].epoch
      /\ \A k \in Jobs \ {j} : job'[k].state = job[k].state
      /\ job'[j].state = After(job[j].state, new)
      /\ Held(j)' => Held(j)
  BY <1>1, <1>2, TakenJobs
<1>. PICK seq : seq = a + Len(new)
  OBVIOUS
<1>. PICK s, P, Q : /\ s = [job |-> p.job, epoch |-> p.epoch, seq |-> seq]
                    /\ P = sync[r].reports \ {p} /\ Q = sync[r].seqs \cup {s}
  OBVIOUS
<1>5. /\ Holds(j, r, p.epoch) /\ ackedSeq' = [ackedSeq EXCEPT ![j] = seq]
      /\ sync' = Put(r, [sync[r] EXCEPT !.at = "jobs", !.reports = P, !.seqs = Q])
  BY DEF ReportTaken
<1>6. ackedSeq'[j] = seq /\ \A k \in Jobs \ {j} : ackedSeq'[k] = ackedSeq[k]
  BY <1>2, <1>3, <1>5
<1> DEFINE x == [sync[r] EXCEPT !.at = "jobs", !.reports = P, !.seqs = Q]
<1>7. x.reports = P /\ x.seqs = Q
  <2> DEFINE y == sync[r]
  <2>1. SyncShape(y)
    BY <1>2
  <2> HIDE DEF y
  <2>2. /\ [y EXCEPT !.at = "jobs", !.reports = P, !.seqs = Q].reports = P
        /\ [y EXCEPT !.at = "jobs", !.reports = P, !.seqs = Q].seqs = Q
    BY <2>1 DEF SyncShape
  <2> QED BY <2>2 DEF y
<1>8. sync'[r] = x /\ \A q \in Runners \ {r} : sync'[q] = sync[q]
  BY <1>1, <1>5, PutFacts
<1> HIDE DEF x
<1>9. \A q \in Runners : OneRow(q)'
  BY <1>1 DEF machines, OneRow, SameLeaseAs
<1>10. ReportsQuote'
  <2>1. \A q \in Runners : sync'[q].reports \subseteq sync[q].reports
    BY <1>7, <1>8
  <2>2. ReportsQuote /\ rows' = rows
    BY DEF StepInv, JournalInv, machines
  <2> QED BY <2>1, <2>2 DEF ReportsQuote, SameLeaseAs, Quotes
<1>11. SeqsTaken'
  <2> SUFFICES ASSUME NEW q \in Runners, NEW t \in sync'[q].seqs, Held(t.job)', Holds(t.job, q, t.epoch)'
               PROVE  t.seq <= ackedSeq'[t.job]
    BY DEF SeqsTaken
  <2>1. t = s \/ t \in sync[q].seqs
    BY <1>7, <1>8
  <2>2. CASE t = s
    BY <1>3, <1>6, <2>2
  <2>3. CASE t \in sync[q].seqs
    <3>1. t \in Seen
      BY <1>1, <2>3 DEF ExchangesTyped
    <3>2. t.job \in Jobs /\ t.seq \in Nat
      BY <3>1 DEF Seen
    <3>3. Held(t.job) /\ Holds(t.job, q, t.epoch)
      BY <1>4, <3>2 DEF Held, Holds
    <3>4. t.seq <= ackedSeq[t.job]
      BY <2>3, <3>3 DEF StepInv, JournalInv, SeqsTaken
    <3>5. CASE t.job = j
      BY <1>3, <1>6, <3>2, <3>4, <3>5
    <3>6. CASE t.job # j
      BY <1>6, <3>2, <3>4, <3>6
    <3> QED BY <3>5, <3>6
  <2> QED BY <2>1, <2>2, <2>3
<1>12. RowsReported'
  <2> SUFFICES ASSUME NEW q \in Runners, NEW w \in rows[q], Held(w.job)', Holds(w.job, q, w.epoch)'
               PROVE  Reported(w)'
    BY DEF RowsReported, machines
  <2>1. w \in Row /\ w.job \in Jobs /\ w.events \in Seq(JobStates) /\ Len(w.events) \in Nat
        /\ w.acked \in Nat
    BY <1>1 DEF MachinesTyped, Row
  <2>2. Held(w.job) /\ Holds(w.job, q, w.epoch)
    BY <1>4, <2>1 DEF Held, Holds
  <2>3. Reported(w)
    BY <2>2 DEF StepInv, JournalInv, RowsReported
  <2>4. CASE w.job # j
    <3>1. job'[w.job].state = job[w.job].state /\ ackedSeq'[w.job] = ackedSeq[w.job]
      BY <1>4, <1>6, <2>1, <2>4
    <3> QED BY <2>3, <3>1 DEF Reported
  <2>5. CASE w.job = j
    <3>1. q = r /\ w.epoch = p.epoch
      BY <1>5, <2>2, <2>5 DEF Holds
    <3>2. Quotes(p, w)
      BY <2>5, <3>1 DEF StepInv, JournalInv, ReportsQuote, SameLeaseAs
    <3>3. w.acked <= a /\ a <= Len(w.events) /\ job[j].state = After("ASSIGNED", SubSeq(w.events, 1, a))
      BY <2>3, <2>5 DEF Reported
    <3>4. \E n \in a..Len(w.events) : /\ n = a + Len(NewEvents(p))
                                     /\ NewEvents(p) = SubSeq(w.events, a + 1, n)
      BY <1>2, <1>3, <2>1, <3>2, <3>3, NewEventsContinue
    <3>5. seq \in a..Len(w.events) /\ new = SubSeq(w.events, a + 1, seq)
      BY <3>4
    <3>6. a \in 0..Len(w.events)
      BY <1>3, <2>1, <3>3
    <3>7. After(After("ASSIGNED", SubSeq(w.events, 1, a)), SubSeq(w.events, a + 1, seq))
            = After("ASSIGNED", SubSeq(w.events, 1, seq))
      <4>1. w.events \in Seq(JobStates) /\ a \in 0..Len(w.events) /\ seq \in a..Len(w.events)
        BY <2>1, <3>5, <3>6
      <4> QED BY <4>1, RowInTwo
    <3>8. job'[j].state = After("ASSIGNED", SubSeq(w.events, 1, seq))
      BY <1>4, <3>3, <3>5, <3>7
    <3>9. w.acked <= seq /\ seq <= Len(w.events)
      <4>. PICK N : N = Len(w.events)
        OBVIOUS
      <4>1. a \in Nat /\ N \in Nat /\ w.acked \in Nat /\ w.acked <= a /\ seq \in a..N
        BY <1>3, <2>1, <3>3, <3>5
      <4> QED BY <4>1
    <3> QED BY <1>6, <2>5, <3>8, <3>9 DEF Reported
  <2> QED BY <2>4, <2>5
<1>13. LeasesFresh'
  <2>1. AppliedGrows
    BY StepParts DEF machines
  <2>2. Given(r, j, p.epoch)'
    BY <1>1, <1>2, <2>1, GivenKept DEF StepInv
  <2>3. job'[j].runner = r /\ job'[j].epoch = p.epoch
    BY <1>3, <1>4, <1>5 DEF Holds
  <2>4. Given(job[j].runner, j, job[j].epoch)'
    BY <2>2, <2>3 DEF Given
  <2>5. \A k \in Jobs \ {j} : JobSettles(k)
    BY <1>4, <1>6 DEF JobSettles
  <2> QED BY <1>1, <2>1, <2>4, <2>5, LeasesStayFresh DEF StepInv, JournalInv
<1> QED BY <1>9, <1>10, <1>11, <1>12, <1>13 DEF JournalInv

\* A report that is taken or fenced keeps the invariant.
LEMMA ServerReportJournal ==
  ASSUME StepInv, NEW r \in Runners, ServerReport(r)
  PROVE  JournalInv'
<1>1. PICK p \in sync[r].reports : ReportTaken(r, p) \/ ReportFenced(r, p)
  BY DEF ServerReport
<1>2. UNCHANGED machines
  BY DEF ServerReport
<1>3. CASE ReportFenced(r, p)
  <2>. PICK P : P = sync[r].reports \ {p}
    OBVIOUS
  <2> DEFINE x == [sync[r] EXCEPT !.at = "jobs", !.reports = P]
  <2>1. sync' = Put(r, x) /\ UNCHANGED ackedSeq
    BY <1>3 DEF ReportFenced
  <2>2. SyncShape(sync[r]) /\ ExchangesTyped /\ RowInv
    BY StepParts DEF ExchangesTyped
  <2>3. x.reports = P /\ x.seqs = sync[r].seqs
    <3> DEFINE y == sync[r]
    <3>1. SyncShape(y)
      BY <2>2
    <3> HIDE DEF y
    <3>2. /\ [y EXCEPT !.at = "jobs", !.reports = P].reports = P
          /\ [y EXCEPT !.at = "jobs", !.reports = P].seqs = y.seqs
      BY <3>1 DEF SyncShape
    <3> QED BY <3>2 DEF y
  <2>4. SyncGoesOn
    BY <2>1, <2>2, <2>3, SyncShrinks
  <2>5. Quiet
    BY <1>3, <2>2, FencedQuiet DEF ReportFenced
  <2> QED BY <1>2, <2>1, <2>4, <2>5, QuietJobs, ServerStepJournal
<1> QED BY <1>1, <1>2, <1>3, ReportTakenJournal

\* The daemon takes a reply: its rows learn how much of their logs was taken.
LEMMA ReceiveReplyJournal ==
  ASSUME StepInv, NEW r \in Runners, ReceiveReply(r)
  PROVE  JournalInv'
<1>1. MachinesTyped /\ ExchangesTyped /\ \A q \in Runners : OneRow(q)
  BY StepParts
<1>2. rows' = [rows EXCEPT ![r] = {AckedThrough(r, w) : w \in @}]
      /\ UNCHANGED <<job, ackedSeq, applied>>
  BY DEF ReceiveReply, vars
<1>3. /\ rows' \in [Runners -> SUBSET Row] /\ \A q \in Runners \ {r} : rows'[q] = rows[q]
      /\ \A v \in rows'[r] : \E w \in rows[r] : v = AckedThrough(r, w)
  BY <1>1, <1>2, ReplyRows
<1>4. \A w \in rows[r] : w \in Row
  BY <1>1 DEF MachinesTyped
<1>5. ASSUME NEW v \in rows'[r], NEW w \in rows[r], v = AckedThrough(r, w)
      PROVE  v \in Row /\ SameLeaseAs(v, w) /\ GoesOn(r, w, v)
  <2>1. /\ v \in Row /\ SameLeaseAs(v, w) /\ v.events = w.events
        /\ v.acked = w.acked \/ \E q \in sync[r].seqs : SameLeaseAs(q, w) /\ v.acked = q.seq
    BY <1>1, <1>4, <1>5, AckedThroughFacts
  <2>2. Len(w.events) \in Nat
    BY <1>4 DEF Row
  <2> QED BY <2>1, <2>2 DEF GoesOn
<1>6. OneRow(r)'
  <2> SUFFICES ASSUME NEW v1 \in rows'[r], NEW v2 \in rows'[r], SameLeaseAs(v1, v2)
               PROVE  v1 = v2
    BY DEF OneRow, SameLeaseAs
  <2>1. PICK w1 \in rows[r] : v1 = AckedThrough(r, w1)
    BY <1>3
  <2>2. PICK w2 \in rows[r] : v2 = AckedThrough(r, w2)
    BY <1>3
  <2>3. SameLeaseAs(v1, w1) /\ SameLeaseAs(v2, w2)
    BY <1>5, <2>1, <2>2
  <2>4. w1 = w2
    BY <1>1, <2>3 DEF SameLeaseAs, OneRow
  <2> QED BY <2>1, <2>2, <2>4
<1>7. RowsGoOn
  <2>1. ASSUME NEW q \in Runners PROVE OneRow(q)'
    BY <1>1, <1>3, <1>6 DEF OneRow, SameLeaseAs
  <2>2. ASSUME NEW q \in Runners, NEW v \in rows'[q]
        PROVE  v \in Row /\ \E w \in rows[q] : GoesOn(q, w, v)
    <3>1. v \in Row
      BY <1>3
    <3>2. CASE q = r
      BY <1>3, <1>5, <3>2
    <3>3. CASE q # r
      <4>1. v \in rows[q]
        BY <1>3, <3>3
      <4>2. GoesOn(q, v, v)
        BY <3>1 DEF GoesOn, SameLeaseAs, Row
      <4> QED BY <3>1, <4>1, <4>2
    <3> QED BY <3>1, <3>2, <3>3
  <2> QED BY <2>1, <2>2 DEF RowsGoOn
<1> DEFINE x == [NoSync EXCEPT !.at = "handling", !.boot = boot[r], !.ids = sync[r].ids]
<1>8. SyncIs(x, "handling", boot[r], {}, {}, {}, sync[r].ids, {})
  BY NewSyncForms
<1>9. sync' = Put(r, x)
  BY DEF ReceiveReply
<1> HIDE DEF x
<1>10. SyncGoesOn
  <2>1. x.reports \subseteq sync[r].reports /\ x.seqs \subseteq sync[r].seqs
    BY <1>8 DEF SyncIs
  <2> QED BY <1>1, <1>9, <2>1, SyncShrinks
<1>11. AppliedGrows /\ \A k \in Jobs : JobSettles(k)
  BY <1>2, JobsUntouched, StepParts
<1> QED BY <1>7, <1>10, <1>11, JournalStep DEF StepInv

\* The exchanges keep the reports and the seqs they have in hand.
TrafficKept ==
  \A q \in Runners : sync'[q].reports = sync[q].reports /\ sync'[q].seqs = sync[q].seqs

\* The daemon starts the row of a lease it did not know: the server has taken
\* nothing of it yet.
LEMMA AddsRowJournal ==
  ASSUME StepInv, NEW r \in Runners, NEW j \in Jobs, NEW e \in Nat, AddsRow(r, j, e),
         ~Given(r, j, e), AppliedGrows, TrafficKept, UNCHANGED <<job, ackedSeq>>
  PROVE  JournalInv'
<1>1. /\ MachinesTyped /\ CommandsKnown /\ LeasesGiven /\ ExchangesTyped
      /\ \A q \in Runners : OneRow(q)
  BY StepParts
<1>. PICK n : n = R!NewRow(j, e)
  OBVIOUS
<1>2. /\ rows' \in [Runners -> SUBSET Row] /\ \A q \in Runners \ {r} : rows'[q] = rows[q]
      /\ n \in Row /\ n.job = j /\ n.epoch = e /\ n.events = << >> /\ n.acked = 0
      /\ rows'[r] = rows[r] \cup {n}
      /\ \A w \in rows[r] : ~SameLeaseAs(w, n)
  BY <1>1, AddedRow
<1>3. \A k \in Jobs : JobSettles(k)
  BY JobsUntouched
<1>4. \A q \in Runners : OneRow(q)'
  BY <1>1, <1>2 DEF OneRow, SameLeaseAs
<1>5. ASSUME NEW q \in Runners, NEW v \in rows'[q]
      PROVE  v \in rows[q] \/ (q = r /\ v = n)
  BY <1>2
<1>6. ReportsQuote'
  <2> SUFFICES ASSUME NEW q \in Runners, NEW p \in sync[q].reports, NEW v \in rows'[q],
                      SameLeaseAs(p, v)
               PROVE  Quotes(p, v)
    BY DEF TrafficKept, ReportsQuote, SameLeaseAs, Quotes
  <2>1. CASE v \in rows[q]
    BY <2>1 DEF StepInv, JournalInv, ReportsQuote
  <2>2. ~(q = r /\ v = n)
    BY <1>1, <1>2 DEF LeasesGiven, SameLeaseAs
  <2> QED BY <1>5, <2>1, <2>2
<1>7. SeqsTaken'
  BY DEF TrafficKept, StepInv, JournalInv, SeqsTaken, Held, Holds
<1>8. RowsReported'
  <2> SUFFICES ASSUME NEW q \in Runners, NEW v \in rows'[q], Held(v.job), Holds(v.job, q, v.epoch)
               PROVE  Reported(v)
    BY DEF RowsReported, Held, Holds, Reported
  <2>1. CASE v \in rows[q]
    BY <2>1 DEF StepInv, JournalInv, RowsReported
  <2>2. CASE q = r /\ v = n
    <3>1. Held(j) /\ job[j].runner = r /\ job[j].epoch = e
      BY <1>2, <2>2 DEF Holds
    <3>2. job[j].state = "ASSIGNED" /\ ackedSeq[j] = 0
      BY <3>1 DEF StepInv, JournalInv, LeasesFresh
    <3>3. Len(n.events) = 0 /\ Len(SubSeq(n.events, 1, 0)) = 0
      BY <1>2
    <3>4. After("ASSIGNED", SubSeq(n.events, 1, 0)) = "ASSIGNED"
      BY <3>3, AfterNothing
    <3> QED BY <1>2, <2>2, <3>2, <3>3, <3>4 DEF Reported
  <2> QED BY <1>5, <2>1, <2>2
<1>9. LeasesFresh'
  BY <1>1, <1>3, LeasesStayFresh DEF StepInv, JournalInv
<1> QED BY <1>4, <1>6, <1>7, <1>8, <1>9 DEF JournalInv

\* A handled command keeps it: the log of a new row is empty, as is what was taken.
LEMMA HandleCommandJournal ==
  ASSUME StepInv, NEW r \in Runners, HandleCommand(r)
  PROVE  JournalInv'
<1>1. MachinesTyped /\ ExchangesTyped /\ CommandsKnown /\ TypeOK /\ LeaseInv
      /\ \A q \in Runners : OneRow(q)
  BY StepParts DEF StepInv
<1>. PICK c : c = NextId(r)
  OBVIOUS
<1>. PICK type, j, e : type = cmds[c].type /\ j = cmds[c].job /\ e = cmds[c].epoch
  OBVIOUS
<1>2. c \in sync[r].ids /\ c \in DOMAIN cmds /\ cmds[c].runner = r /\ j \in Jobs /\ e \in Nat
  BY <1>1, NextIdKnown DEF HandleCommand
<1>3. R!Handle(r, c, type, j, e)
  BY DEF HandleCommand, NextId
<1>4. UNCHANGED <<acks, cmds, job, ackedSeq>>
  BY DEF HandleCommand, vars
<1>5. AppliedGrows
  BY <1>1, <1>2, <1>3, <1>4, HandledRecords DEF RecordsFit
<1>. PICK I, D : I = sync[r].ids \ {c} /\ D = sync[r].done \cup {c}
  OBVIOUS
<1> DEFINE x == [sync[r] EXCEPT !.ids = I, !.done = D]
<1>6. sync' = Put(r, x)
  BY DEF HandleCommand, NextId
<1>7. x.reports = sync[r].reports /\ x.seqs = sync[r].seqs
  BY <1>1, InHand
<1>8. /\ sync'[r] = x /\ \A q \in Runners \ {r} : sync'[q] = sync[q]
  BY <1>1, <1>6, PutFacts
<1> HIDE DEF x
<1>9. TrafficKept /\ SyncGoesOn
  BY <1>7, <1>8 DEF TrafficKept, SyncGoesOn
<1>10. CASE RowsGrow(r)
  <2>1. RowsGoOn
    BY <1>1, <1>10, RowsGrown
  <2>2. \A k \in Jobs : JobSettles(k)
    BY <1>4, JobsUntouched
  <2> QED BY <1>5, <1>9, <2>1, <2>2, JournalStep DEF StepInv
<1>11. CASE type = "ASSIGN" /\ c \notin DOMAIN applied[r] /\ AddsRow(r, j, e)
  <2>1. ~Given(r, j, e)
    <3> SUFFICES ASSUME NEW d \in DOMAIN applied[r],
                        cmds[d].type = "ASSIGN", cmds[d].job = j, cmds[d].epoch = e
                 PROVE  FALSE
      BY DEF Given
    <3>1. d \in DOMAIN cmds /\ d # c
      BY <1>1, <1>11 DEF CommandsKnown
    <3> QED BY <1>1, <1>2, <1>11, <3>1 DEF LeaseInv, LeaseUnique
  <2> QED BY <1>2, <1>4, <1>5, <1>9, <1>11, <2>1, AddsRowJournal
<1> QED BY <1>1, <1>3, <1>10, <1>11, HandleRows

\* A step of a machine alone, or a lost exchange: the logs grow, and nothing is
\* sent of them.
LEMMA MachineJournal ==
  ASSUME StepInv, NEW r \in Runners, Machine(r) \/ BeginAssigned(r)
  PROVE  JournalInv'
<1>1. MachinesTyped /\ ExchangesTyped /\ RowInv /\ \A q \in Runners : OneRow(q)
  BY StepParts
<1>2. UNCHANGED <<sync, ackedSeq, applied>>
  BY DEF Machine, BeginAssigned, RunStep, UploadBundle, ProcExits, Start, R!BeginAssigned, R!RunStep,
         R!RunEndsEarly, R!RunSpawn, R!RunRecords, R!RunFinishes, R!RunFails, R!RunUploads,
         R!ProcExits, R!Start
<1>3. AppliedGrows /\ SyncGoesOn
  BY <1>2, StepParts, SyncUntouched
<1>4. RowsGrow(r)
  <2>1. CASE RunStep(r)
    BY <1>1, <2>1, RunStepGrows DEF RunStep
  <2>2. CASE UploadBundle(r)
    <3>1. PICK x \in runs[r] : \E w \in R!RowsFor(r, x.job, x.epoch) :
            \E answer \in {"done", "stale", "conflict"} : R!RunUploads(r, x, w, answer)
      BY <2>2 DEF UploadBundle
    <3>2. PICK w \in R!RowsFor(r, x.job, x.epoch) :
            \E answer \in {"done", "stale", "conflict"} : R!RunUploads(r, x, w, answer)
      BY <3>1
    <3> QED BY <1>1, <3>2, RunUploadsGrows
  <2>3. CASE ProcExits(r) \/ Start(r)
    <3>1. UNCHANGED rows
      BY <2>3 DEF ProcExits, Start, R!ProcExits, R!Start
    <3> QED BY <1>1, <3>1, DroppedGrow
  <2>4. CASE BeginAssigned(r)
    <3>1. \E X : rows' = [rows EXCEPT ![r] = @ \ X]
      BY <2>4 DEF BeginAssigned, R!BeginAssigned
    <3> QED BY <1>1, <3>1, DroppedGrow
  <2> QED BY <2>1, <2>2, <2>3, <2>4 DEF Machine
<1>5. RowsGoOn
  BY <1>1, <1>4, RowsGrown
<1>6. \A k \in Jobs : JobSettles(k)
  <2>1. CASE UNCHANGED vars
    BY <1>2, <2>1, JobsUntouched DEF vars
  <2>2. ASSUME NEW l, Fenced(l) PROVE \A k \in Jobs : JobSettles(k)
    BY <1>1, <1>2, <2>2, FencedQuiet, QuietJobs
  <2>3. UNCHANGED vars \/ \E l : Fenced(l)
    BY DEF Machine, BeginAssigned, RunStep, UploadBundle, ProcExits, Start
  <2> QED BY <2>1, <2>2, <2>3
<1> QED BY <1>3, <1>5, <1>6, JournalStep DEF StepInv

\* The end of an exchange, a crash of the daemon, a lost message.
LEMMA DroppedJournal ==
  ASSUME StepInv, NEW r \in Runners, EndSync(r) \/ Faults(r)
  PROVE  JournalInv'
<1>1. MachinesTyped /\ ExchangesTyped /\ \A q \in Runners : OneRow(q)
  BY StepParts
<1>2. /\ UNCHANGED <<job, ackedSeq, applied, rows>>
      /\ sync' = sync \/ sync' = Put(r, NoSync)
  BY DEF EndSync, Faults, Crash, LoseMessage, R!Crash, vars, machines
<1>3. SyncGoesOn
  BY <1>1, <1>2, NoSyncShrinks, SyncShrinks, SyncUntouched
<1>4. RowsGoOn /\ AppliedGrows /\ \A k \in Jobs : JobSettles(k)
  BY <1>1, <1>2, RowsUntouched, StepParts, JobsUntouched
<1> QED BY <1>3, <1>4, JournalStep DEF StepInv

\* The server's other callers, and a restart of the API.
LEMMA ServerApiJournal ==
  ASSUME StepInv, ServerApi \/ ApiCrash
  PROVE  JournalInv'
<1>1. RowInv /\ LeaseInv
  BY StepParts DEF StepInv
<1>2. CASE ServerApi
  <2>1. UNCHANGED <<machines, sync>> /\ ackedSeq' = Renumbered
    BY <1>2 DEF ServerApi
  <2>2. Settles
    <3>1. CASE JobsApi
      BY <1>1, <3>1, JobsApiSettles
    <3>2. ASSUME NEW j \in Jobs, Sweep(j) PROVE Settles
      BY <1>1, <3>2, SweepSettles
    <3>3. ASSUME NEW r \in Runners, TimePasses(r) PROVE Settles
      BY <3>3, UnchangedQuiet, QuietSettles DEF TimePasses
    <3> QED BY <1>2, <3>1, <3>2, <3>3 DEF ServerApi
  <2>3. \A k \in Jobs : JobSettles(k)
    BY <1>1, <2>1, <2>2, RenumberedJobs
  <2> QED BY <2>1, <2>3, SyncUntouched, ServerStepJournal
<1>3. CASE ApiCrash
  <2>1. UNCHANGED <<machines, job, ackedSeq>> /\ \A q \in Runners : sync'[q] \in {sync[q], NoSync}
    BY <1>3 DEF ApiCrash
  <2>2. SyncGoesOn
    BY <2>1, NoSyncShrinks DEF SyncGoesOn
  <2> QED BY <2>1, <2>2, JobsUntouched, ServerStepJournal
<1> QED BY <1>2, <1>3

\* Every step keeps the journals and the server in agreement.
LEMMA JournalInvStep ==
  ASSUME DispatchTyped, LeaseInv, JournalInv, [DispatchNext]_dispatchVars
  PROVE  JournalInv'
<1>1. [Next]_vars
  BY DispatchIsNext
<1>2. StepInv
  BY <1>1, NextGrows, DispatchTypedStep, LeaseStep DEF StepInv
<1>3. CASE UNCHANGED dispatchVars
  <2>1. UNCHANGED <<machines, sync, job, ackedSeq>>
    BY <1>3 DEF dispatchVars, vars
  <2> QED BY <1>2, <2>1, SyncUntouched, JobsUntouched, ServerStepJournal
<1>4. ASSUME NEW r \in Runners, Exchange(r) \/ ServerFill(r) \/ Machine(r) \/ Faults(r)
      PROVE  JournalInv'
  BY <1>2, <1>4, SendSyncJournal, ServerExchangeJournal, ServerReportJournal, ReceiveReplyJournal,
     HandleCommandJournal, MachineJournal, DroppedJournal
  DEF Exchange
<1> QED BY <1>2, <1>3, <1>4, ServerApiJournal DEF DispatchNext

\* Nothing is journaled, sent or held at first.
LEMMA JournalInit == DispatchInit => JournalInv
<1> SUFFICES ASSUME DispatchInit PROVE JournalInv
  OBVIOUS
<1>1. \A r \in Runners : rows[r] = {} /\ sync[r] = NoSync
  BY DEF DispatchInit, R!RunnerInit
<1>2. NoSync.reports = {} /\ NoSync.seqs = {}
  BY NoSyncFacts DEF SyncIs
<1>3. \A j \in Jobs : ~Held(j)
  BY DEF DispatchInit, Init, Held, HeldStates, NotCreated
<1> QED BY <1>1, <1>2, <1>3
        DEF JournalInv, OneRow, ReportsQuote, SeqsTaken, RowsReported, LeasesFresh

\* Journals, what was sent of them and what the server has taken agree, for any number
\* of jobs, machines, boots, crashes, lost messages and repeated reports
\* (sync.service.ts applyContiguous, sync-loop.ts, journal.ts).
THEOREM JournalsAgree == DispatchSpec => []JournalInv
<1>1. DispatchInit => JournalInv
  BY JournalInit
<1>2. DispatchTyped /\ LeaseInv /\ JournalInv /\ [DispatchNext]_dispatchVars => JournalInv'
  BY JournalInvStep
<1> QED BY <1>1, <1>2, DispatchTypes, PTL DEF DispatchSpec

\* The state of a held lease is what its runner journaled, up to the acked event: no
\* event is applied twice, skipped, or applied to the job's next lease
\* (sync.service.ts handleReport, journal.ts).
THEOREM ServerBelievesTheJournal == DispatchSpec => []HeldStateIsReported
<1>1. JournalInv => HeldStateIsReported
  BY DEF JournalInv, RowsReported, Reported, HeldStateIsReported
<1> QED BY <1>1, JournalsAgree, PTL

\* The whole system, crashes and lost messages included, grants a job one lease at a
\* time (placement.service.ts, sync.service.ts).
THEOREM DispatchImplementsExclusiveLease == DispatchSpec => ImplementsExclusiveLease
  BY DispatchImplementsFleetJob, ServerImplementsExclusiveLease, PTL

-----------------------------------------------------------------------------
(* What a transaction of the server writes *)

\* A command the step issues: it comes last and waits for its ack.  An ASSIGN carries
\* a new epoch of a job it assigns, a CANCEL names a holder that answered its ASSIGN.
Issued(c) ==
  LET j == cmds'[c].job IN
  /\ c = Len(cmds) + 1
  /\ cmds'[c].ack = "none"
  /\ cmds'[c].type = "ASSIGN" => cmds'[c].epoch > job[j].epoch /\ job'[j].state = "ASSIGNED"
  /\ cmds'[c].type = "CANCEL" =>
       Held(j) /\ ~Unacked(j) /\ Holds(j, cmds'[c].runner, cmds'[c].epoch)

\* Commands are issued, those of X may be answered, and others withdrawn when
\* their job is let go of, but no ABANDON.
TableGrows(X) ==
  /\ CmdsGrow
  /\ \A c \in DOMAIN cmds : cmds'[c].ack = "none" => cmds[c].ack = "none"
  /\ \A c \in DOMAIN cmds \ X : cmds[c].ack = "none" /\ cmds'[c].ack # "none" =>
       cmds[c].type # "ABANDON" /\ job'[cmds[c].job].state \notin HeldStates
  /\ \A c \in DOMAIN cmds' \ DOMAIN cmds : Issued(c)

\* The command table after the commands of X were answered.
Answers(cs, X) == Answered(cs) /\ \A c \in DOMAIN cmds \ X : cs[c].ack = cmds[c].ack

\* Whoever holds job k held it before, or has a new lease.
Stays(k) ==
  job'[k].state \in HeldStates =>
    \/ /\ job[k].state \in HeldStates
       /\ job'[k].runner = job[k].runner /\ job'[k].epoch = job[k].epoch
    \/ Leased(k)

\* If job k is over, it was so before, or the server took it from everyone.
Closes(k) ==
  job'[k].state \in TerminalStates =>
    \/ /\ job'[k].state = job[k].state
       /\ job'[k].runner = job[k].runner /\ job'[k].epoch = job[k].epoch
    \/ job'[k].epoch > job[k].epoch
    \/ job'[k].runner = NoRunner

\* A transaction that answers the commands of X; a runner may end the jobs of K.
Turns(X, K) ==
  TableGrows(X) /\ (\A k \in Jobs : Stays(k)) /\ \A k \in Jobs \ K : Closes(k)

\* The table as it is, and with one command answered.
LEMMA AnswersForms ==
  ASSUME RowInv
  PROVE  /\ Answers(cmds, {})
         /\ \A c \in DOMAIN cmds, result \in {"ok", "rejected", "STALE"} :
              Answers(Answer(cmds, c, result), {c})
<1>1. Answered(cmds) /\ cmds \in Seq(Command)
  BY AnsweredTables DEF RowInv
<1>2. ASSUME NEW c \in DOMAIN cmds, NEW result \in {"ok", "rejected", "STALE"}
      PROVE  Answers(Answer(cmds, c, result), {c})
  <2>1. result \in AckResults \ {"none"}
    BY DEF AckResults
  <2>2. Answered(Answer(cmds, c, result))
    BY <1>1, <2>1, AnswerFacts DEF Answered
  <2>3. \A d \in DOMAIN cmds \ {c} : Answer(cmds, c, result)[d].ack = cmds[d].ack
    BY DEF Answer
  <2> QED BY <2>2, <2>3 DEF Answers
<1>3. Answers(cmds, {})
  BY <1>1 DEF Answers
<1> QED BY <1>2, <1>3

\* Answers alone.
LEMMA AnswersGrow ==
  ASSUME NEW X, Answers(cmds', X)
  PROVE  TableGrows(X)
<1>1. CmdsGrow
  BY AnsweredGrow DEF Answers
<1> QED BY <1>1 DEF Answers, Answered, TableGrows

\* Answers and a withdrawal.
LEMMA WithdrawnGrow ==
  ASSUME RowInv, NEW X, NEW cs, Answers(cs, X), NEW j, cmds' = Withdraw(cs, j),
         job'[j].state \notin HeldStates
  PROVE  TableGrows(X)
<1>1. Answered(cmds') /\ DOMAIN cs = DOMAIN cmds /\ DOMAIN cmds' = DOMAIN cmds
  BY WithdrawAnswered DEF RowInv, Answers, Answered
<1>2. CmdsGrow
  BY <1>1, AnsweredGrow
<1>3. ASSUME NEW c \in DOMAIN cmds \ X, cmds[c].ack = "none", cmds'[c].ack # "none"
      PROVE  cmds[c].type # "ABANDON" /\ cmds[c].job = j
  <2>1. cs[c].ack = "none" /\ cs[c].type = cmds[c].type /\ cs[c].job = cmds[c].job
    BY <1>3 DEF Answers, Answered
  <2>2. cmds'[c] = IF cs[c].job = j /\ cs[c].ack = "none" /\ cs[c].type # "ABANDON"
                   THEN [cs[c] EXCEPT !.ack = "WITHDRAWN"] ELSE cs[c]
    BY <1>1 DEF Withdraw
  <2>3. ~(cs[c].job = j /\ cs[c].ack = "none" /\ cs[c].type # "ABANDON") => cmds'[c] = cs[c]
    BY <2>2
  <2> QED BY <1>3, <2>1, <2>3
<1> QED BY <1>1, <1>2, <1>3 DEF Answered, TableGrows

\* Answers and a new command.
LEMMA IssuedGrows ==
  ASSUME NEW X, NEW cs, Answers(cs, X), NEW type, NEW r, NEW j, NEW e,
         cmds' = Issue(cs, type, r, j, e),
         type = "ASSIGN" => e > job[j].epoch /\ job'[j].state = "ASSIGNED",
         type = "CANCEL" => Held(j) /\ ~Unacked(j) /\ Holds(j, r, e)
  PROVE  TableGrows(X)
<1>1. /\ cs \in Seq(Command) /\ DOMAIN cs = 1..Len(cs) /\ Len(cs) \in Nat
      /\ DOMAIN cs = DOMAIN cmds
  BY CmdDomain DEF Answers, Answered
<1>2. CmdsGrow
  BY IssuedGrow DEF Answers
<1> DEFINE new == [type |-> type, runner |-> r, job |-> j, epoch |-> e, ack |-> "none"]
<1>3. cmds' = Append(cs, new)
  BY DEF Issue
<1>4. /\ new.type = type /\ new.runner = r /\ new.job = j /\ new.epoch = e /\ new.ack = "none"
  OBVIOUS
<1> HIDE DEF new
<1>. PICK n : n = Len(cs) + 1
  OBVIOUS
<1>5. /\ \A c \in DOMAIN cmds : cmds'[c] = cs[c]
      /\ \A c \in DOMAIN cmds' \ DOMAIN cmds : c = n
      /\ cmds'[n] = new
  BY <1>1, <1>3
<1>6. Issued(n)
  BY <1>4, <1>5 DEF Issued, Answers, Answered
<1> QED BY <1>2, <1>5, <1>6 DEF Answers, Answered, TableGrows

\* A transition that ends job j.
LEMMA ApplyTurns ==
  ASSUME RowInv, NEW j \in Jobs, NEW to \in TerminalStates, NEW by, NEW X,
         NEW cs, Answers(cs, X), Move(j, to, by, cs) \/ Apply(j, to, by, cs)
  PROVE  Turns(X, {j}) /\ (by = "server" => Turns(X, {}))
<1>1. job' = [job EXCEPT ![j] = Moved(job[j], to, by)] /\ cmds' = Withdraw(cs, j)
  BY DEF Apply, Move
<1>2. job[j] \in JobRecord /\ to \in JobStates
  BY DEF RowInv, JobStates
<1>3. job'[j] = Moved(job[j], to, by) /\ \A k \in Jobs \ {j} : job'[k] = job[k]
  BY <1>1 DEF RowInv
<1>4. /\ job'[j].state = to /\ job'[j].runner = job[j].runner
      /\ by = "server" /\ job[j].runner # NoRunner => job'[j].epoch = job[j].epoch + 1
  BY <1>2, <1>3, MovedFacts
<1>5. to \notin HeldStates
  BY DEF TerminalStates, HeldStates
<1>6. TableGrows(X)
  BY <1>1, <1>4, <1>5, WithdrawnGrow
<1>7. \A k \in Jobs : Stays(k)
  BY <1>3, <1>4, <1>5 DEF Stays
<1>8. \A k \in Jobs \ {j} : Closes(k)
  BY <1>3 DEF Closes
<1>9. by = "server" => Closes(j)
  BY <1>2, <1>4 DEF Closes, JobRecord
<1> QED BY <1>6, <1>7, <1>8, <1>9 DEF Turns

\* An assignment.
LEMMA AssignTurns ==
  ASSUME RowInv, NEW j \in Jobs, NEW r, Assign(j, r)
  PROVE  Turns({}, {})
<1>1. job[j] \in JobRecord /\ Answers(cmds, {})
  BY AnswersForms DEF RowInv
<1>2. job'[j] = Placed(job[j], r) /\ \A k \in Jobs \ {j} : job'[k] = job[k]
  BY DEF Assign, RowInv
<1>3. job'[j].state = "ASSIGNED" /\ job'[j].epoch = job[j].epoch + 1
  BY <1>2 DEF Placed
<1>. PICK e : e = job[j].epoch + 1
  OBVIOUS
<1>4. cmds' = Issue(cmds, "ASSIGN", r, j, e) /\ e > job[j].epoch
  BY <1>1 DEF Assign, JobRecord
<1>5. TableGrows({})
  BY <1>1, <1>3, <1>4, IssuedGrows
<1>6. Leased(j) /\ \A k \in Jobs : Stays(k)
  BY <1>2, <1>3 DEF Stays, Leased
<1>7. \A k \in Jobs : Closes(k)
  BY <1>2, <1>3 DEF Closes, TerminalStates
<1> QED BY <1>5, <1>6, <1>7 DEF Turns

\* Nothing of a job but its mark or its boot id is written.
LEMMA SameTurns ==
  ASSUME NEW X, TableGrows(X),
         \A k \in Jobs : /\ job'[k].state = job[k].state /\ job'[k].runner = job[k].runner
                         /\ job'[k].epoch = job[k].epoch
  PROVE  Turns(X, {})
  BY DEF Turns, Stays, Closes

\* A step that leaves jobs and commands alone.
LEMMA UnchangedTurns ==
  ASSUME UNCHANGED <<job, cmds>>
  PROVE  Turns({}, {})
  BY DEF Turns, Stays, Closes, TableGrows, CmdsGrow

\* Users' dispatches, requeues and cancels, and the budget's.
LEMMA JobsApiTurns ==
  ASSUME RowInv, JobsApi
  PROVE  Turns({}, {})
<1>1. Answers(cmds, {}) /\ job \in [Jobs -> JobRecord] /\ "CANCELLED" \in TerminalStates
  BY AnswersForms DEF RowInv, TerminalStates
<1>2. PICK j \in Jobs : \/ Dispatch(j) \/ PlaceJob(j) \/ Requeue(j)
                        \/ Cancel(j) \/ CancelForBudget(j) \/ CancelForProjectDelete(j)
  BY DEF JobsApi
<1>3. CASE Apply(j, "CANCELLED", "server", cmds)
  BY <1>1, <1>3, ApplyTurns
<1>4. CASE RequestCancel(j) /\ Held(j) /\ ~Unacked(j)
  <2>1. TableGrows({})
    <3>. PICK r, e : r = job[j].runner /\ e = job[j].epoch
      OBVIOUS
    <3>1. cmds' = Issue(cmds, "CANCEL", r, j, e) /\ Holds(j, r, e)
      BY <1>4 DEF RequestCancel, Holds
    <3> QED BY <1>1, <1>4, <3>1, IssuedGrows
  <2>2. \A k \in Jobs : /\ job'[k].state = job[k].state /\ job'[k].runner = job[k].runner
                        /\ job'[k].epoch = job[k].epoch
    BY <1>1, <1>4 DEF RequestCancel, JobRecord
  <2> QED BY <2>1, <2>2, SameTurns
<1>5. CASE Dispatch(j)
  <2>1. job'[j].state = "QUEUED" /\ \A k \in Jobs \ {j} : job'[k] = job[k]
    BY <1>1, <1>5 DEF Dispatch, JobRecord
  <2>2. TableGrows({})
    BY <1>5 DEF Dispatch, TableGrows, CmdsGrow
  <2> QED BY <2>1, <2>2 DEF Turns, Stays, Closes, HeldStates, TerminalStates
<1>6. CASE Requeue(j)
  <2>1. job'[j].state = "QUEUED" /\ \A k \in Jobs \ {j} : job'[k] = job[k]
    BY <1>1, <1>6 DEF Requeue
  <2>2. "QUEUED" \notin HeldStates /\ "QUEUED" \notin TerminalStates
    BY DEF HeldStates, TerminalStates
  <2>3. TableGrows({})
    BY <1>1, <1>6, <2>1, <2>2, WithdrawnGrow DEF Requeue
  <2> QED BY <2>1, <2>2, <2>3 DEF Turns, Stays, Closes
<1>7. CASE PlaceJob(j)
  <2>1. ASSUME NEW r \in Best(j), Assign(j, r)
        PROVE  Turns({}, {})
    BY <2>1, AssignTurns
  <2> QED BY <1>3, <1>7, <2>1, UnchangedTurns DEF PlaceJob
<1>8. \/ Dispatch(j) \/ PlaceJob(j) \/ Requeue(j) \/ Apply(j, "CANCELLED", "server", cmds)
      \/ RequestCancel(j) /\ Held(j) /\ ~Unacked(j)
  BY <1>2 DEF Cancel, CancelForBudget, CancelForProjectDelete, Held, HeldStates
<1> QED BY <1>3, <1>4, <1>5, <1>6, <1>7, <1>8

\* Filling a runner.
LEMMA FillTurns ==
  ASSUME RowInv, NEW r, NEW j \in Jobs, FillOne(r, j)
  PROVE  Turns({}, {})
<1>1. Answers(cmds, {}) /\ "CANCELLED" \in TerminalStates
  BY AnswersForms DEF TerminalStates
<1>2. Assign(j, r) \/ Apply(j, "CANCELLED", "server", cmds)
  BY DEF FillOne
<1> QED BY <1>1, <1>2, ApplyTurns, AssignTurns

\* The sweep of a silent runner.
LEMMA SweepTurns ==
  ASSUME RowInv, NEW j \in Jobs, Sweep(j)
  PROVE  Turns({}, {})
<1>1. Answers(cmds, {}) /\ "CRASHED" \in TerminalStates
  BY AnswersForms DEF TerminalStates
<1> QED BY <1>1, ApplyTurns DEF Sweep

\* An ack; a rejected ASSIGN or CANCEL ends the job of the lease it names.
LEMMA AckTurns ==
  ASSUME RowInv, NEW c \in DOMAIN cmds, NEW result \in {"ok", "rejected"}, NEW b,
         Ack(c, result, b)
  PROVE  \/ Turns({c}, {})
         \/ /\ cmds[c].type \in {"ASSIGN", "CANCEL"} /\ result = "rejected"
            /\ Turns({c}, {cmds[c].job})
            /\ job'[cmds[c].job].runner = cmds[c].runner
            /\ job'[cmds[c].job].epoch = cmds[c].epoch
<1> DEFINE j == cmds[c].job
           Same == \A k \in Jobs : /\ job'[k].state = job[k].state /\ job'[k].runner = job[k].runner
                                   /\ job'[k].epoch = job[k].epoch
<1>1. job \in [Jobs -> JobRecord] /\ cmds \in Seq(Command) /\ cmds[c] \in Command /\ j \in Jobs
  BY CmdDomain DEF RowInv, Command
<1>2. \A res \in {"ok", "rejected", "STALE"} : Answers(Answer(cmds, c, res), {c})
  BY AnswersForms
<1>3. ASSUME NEW res \in {"ok", "rejected", "STALE"}, cmds' = Answer(cmds, c, res), Same
      PROVE  Turns({c}, {})
  BY <1>2, <1>3, AnswersGrow, SameTurns
<1>4. CASE AckStale(c)
  <2>1. Same
    BY <1>4 DEF AckStale
  <2>2. CASE cmds' = Answer(cmds, c, "STALE")
    BY <1>3, <2>1, <2>2
  <2>3. CASE cmds' = Issue(Answer(cmds, c, "STALE"), "ABANDON", cmds[c].runner, j, cmds[c].epoch)
    <3>. PICK r, e : r = cmds[c].runner /\ e = cmds[c].epoch
      OBVIOUS
    <3>1. TableGrows({c})
      BY <1>2, <2>3, IssuedGrows
    <3> QED BY <2>1, <3>1, SameTurns
  <2> QED BY <1>4, <2>2, <2>3 DEF AckStale, Abandon
<1>5. CASE cmds' = Answer(cmds, c, result) /\ UNCHANGED job
  BY <1>3, <1>5
<1>6. CASE cmds' = Answer(cmds, c, result) /\ job' = [job EXCEPT ![j].boot = b]
  <2>1. Same
    BY <1>1, <1>6 DEF JobRecord
  <2> QED BY <1>3, <1>6, <2>1
<1>7. CASE Apply(j, "CRASHED", "server", Answer(cmds, c, result))
  BY <1>1, <1>2, <1>7, ApplyTurns DEF TerminalStates
<1>8. CASE /\ cmds[c].type \in {"ASSIGN", "CANCEL"} /\ result = "rejected"
           /\ Holds(j, cmds[c].runner, cmds[c].epoch)
           /\ \E to \in {"FAILED", "CANCELLED"} : Apply(j, to, "runner", Answer(cmds, c, result))
  <2>1. PICK to \in {"FAILED", "CANCELLED"} : Apply(j, to, "runner", Answer(cmds, c, result))
    BY <1>8
  <2>2. Turns({c}, {j})
    BY <1>1, <1>2, <2>1, ApplyTurns DEF TerminalStates
  <2>3. job'[j] = Moved(job[j], to, "runner")
    BY <1>1, <2>1 DEF Apply, Move
  <2>4. job'[j].runner = job[j].runner /\ job'[j].epoch = job[j].epoch
    BY <2>3 DEF Moved
  <2> QED BY <1>8, <2>2, <2>4 DEF Holds
<1> QED BY <1>4, <1>5, <1>6, <1>7, <1>8 DEF Ack, AckHeld, AckAbandon

\* A fenced request issues at most an ABANDON.
LEMMA FencedTurns ==
  ASSUME RowInv, NEW l, Fenced(l)
  PROVE  Turns({}, {})
<1>1. Answers(cmds, {}) /\ job' = job
  BY AnswersForms DEF Fenced
<1>2. CASE cmds' = cmds
  BY <1>1, <1>2, UnchangedTurns
<1>3. CASE cmds' = Issue(cmds, "ABANDON", l.runner, l.job, l.epoch)
  <2>. PICK r, j, e : r = l.runner /\ j = l.job /\ e = l.epoch
    OBVIOUS
  <2>1. cmds' = Issue(cmds, "ABANDON", r, j, e)
    BY <1>3
  <2>2. TableGrows({})
    BY <1>1, <2>1, IssuedGrows
  <2> QED BY <1>1, <2>2, SameTurns
<1> QED BY <1>2, <1>3 DEF Fenced, Abandon

\* A step of the boot reconciliation.
LEMMA ReconTurns ==
  ASSUME RowInv, NEW x, ReconCheck(x) \/ ReconWrite(x)
  PROVE  Turns({}, {})
<1>1. Answers(cmds, {})
  BY AnswersForms
<1>2. CASE UNCHANGED <<job, cmds>>
  BY <1>2, UnchangedTurns
<1>3. CASE job' = [job EXCEPT ![x.job].boot = x.boot] /\ UNCHANGED cmds
  <2>1. \A k \in Jobs : /\ job'[k].state = job[k].state /\ job'[k].runner = job[k].runner
                        /\ job'[k].epoch = job[k].epoch
    BY <1>3 DEF RowInv, JobRecord
  <2>2. TableGrows({})
    BY <1>3 DEF TableGrows, CmdsGrow
  <2> QED BY <2>1, <2>2, SameTurns
<1>4. CASE cmds' = Issue(cmds, "READOPT", x.runner, x.job, x.epoch) /\ UNCHANGED job
  <2>. PICK r, j, e : r = x.runner /\ j = x.job /\ e = x.epoch
    OBVIOUS
  <2>1. cmds' = Issue(cmds, "READOPT", r, j, e)
    BY <1>4
  <2>2. TableGrows({})
    BY <1>1, <2>1, IssuedGrows
  <2> QED BY <1>4, <2>2, SameTurns
<1> QED BY <1>2, <1>3, <1>4 DEF ReconCheck, ReconWrite

\* A report may end its own job only.
LEMMA ReportTurns ==
  ASSUME RowInv, NEW r \in Runners, NEW p \in Sent, ReportTaken(r, p)
  PROVE  Turns({}, {p.job})
<1>. PICK j, to : j = p.job /\ to = After(job[p.job].state, NewEvents(p))
  OBVIOUS
<1> DEFINE l == [job |-> j, runner |-> r, epoch |-> p.epoch]
<1>1. j \in Jobs /\ job \in [Jobs -> JobRecord] /\ Answers(cmds, {})
  BY AnswersForms DEF Sent, RowInv
<1>2. IF to = job[j].state THEN UNCHANGED vars ELSE Report(l, to)
  BY DEF ReportTaken
<1>3. CASE UNCHANGED vars
  BY <1>3, UnchangedTurns DEF vars, Turns
<1>4. CASE Report(l, to)
  <2>1. <<job[j].state, to>> \in ReportMoves /\ Move(j, to, "runner", cmds)
    BY <1>4 DEF Report
  <2>2. CASE to \in TerminalStates
    BY <1>1, <2>1, <2>2, ApplyTurns
  <2>3. CASE to \notin TerminalStates
    <3>1. job' = [job EXCEPT ![j] = Moved(job[j], to, "runner")] /\ cmds' = cmds
      BY <2>1, <2>3 DEF Move
    <3>2. job'[j] = Moved(job[j], to, "runner") /\ \A k \in Jobs \ {j} : job'[k] = job[k]
      BY <1>1, <3>1
    <3>3. job'[j].runner = job[j].runner /\ job'[j].epoch = job[j].epoch
      BY <3>2 DEF Moved
    <3>4. job[j].state \in HeldStates
      BY <2>1 DEF ReportMoves, RunnerMoves, HeldStates
    <3>5. TableGrows({})
      BY <3>1 DEF TableGrows, CmdsGrow
    <3> QED BY <3>2, <3>3, <3>4, <3>5 DEF Turns, Stays, Closes
  <2> QED BY <2>2, <2>3
<1> QED BY <1>1, <1>2, <1>3, <1>4

-----------------------------------------------------------------------------
(* Commands are handled in order, and an end is journaled before it is told *)

\* Every command of an earlier lease of a job comes before the ASSIGN of a later one.
AssignsRise ==
  \A c, d \in DOMAIN cmds :
    cmds[c].type = "ASSIGN" /\ d < c /\ cmds[d].job = cmds[c].job => cmds[d].epoch < cmds[c].epoch

\* The ASSIGN of the lease in force waits for its ack, or its runner has journaled it.
AssignsAwait ==
  \A c \in DOMAIN cmds :
    LET j == cmds[c].job  r == cmds[c].runner  e == cmds[c].epoch IN
    cmds[c].type = "ASSIGN" /\ Held(j) /\ Holds(j, r, e) => Pending(c) \/ Given(r, j, e)

\* Only a lease that its runner has journaled is told to stop.
CancelsGiven ==
  \A c \in DOMAIN cmds : cmds[c].type = "CANCEL" => Given(cmds[c].runner, cmds[c].job, cmds[c].epoch)

\* A lease that is over with its holder still named was ended by that holder.
EndsKnown ==
  \A c \in DOMAIN cmds :
    LET j == cmds[c].job  r == cmds[c].runner  e == cmds[c].epoch IN
    cmds[c].type = "ASSIGN" /\ job[j].state \in TerminalStates /\ Holds(j, r, e) => Given(r, j, e)

\* No row is left of a lease that was abandoned, or whose ASSIGN or CANCEL was rejected.
NoRow(r, j, e) == \A w \in rows[r] : ~(w.job = j /\ w.epoch = e)
RowsGone(r) ==
  \A c \in DOMAIN applied[r] :
    \/ cmds[c].type = "ABANDON"
    \/ cmds[c].type \in {"ASSIGN", "CANCEL"} /\ applied[r][c] = "rejected"
    => NoRow(r, cmds[c].job, cmds[c].epoch)

\* A machine handles its commands in the order they were issued: whatever is pending
\* and older than a handled or listed command is handled or listed, and it is handled
\* if the younger one is.
InOrder(r) ==
  /\ \A d \in DOMAIN applied[r] \cup sync[r].ids, c \in DOMAIN cmds :
       c < d /\ cmds[c].runner = r /\ Pending(c) => c \in DOMAIN applied[r] \cup sync[r].ids
  /\ \A d \in DOMAIN applied[r], c \in sync[r].ids : c < d => c \in DOMAIN applied[r]

\* The holder of a job that is over has the end in its journal, if it has the lease.
HasEnd(w) == \E i \in 1..Len(w.events) : w.events[i] \in TerminalStates
EndsJournaled(r) ==
  \A w \in rows[r] : job[w.job].state \in TerminalStates /\ Holds(w.job, r, w.epoch) => HasEnd(w)

TableInv   == AssignsRise /\ AssignsAwait /\ CancelsGiven /\ EndsKnown
HandledInv == TableInv /\ \A r \in Runners : RowsGone(r) /\ InOrder(r) /\ EndsJournaled(r)

\* A lease a machine was given is no newer than its job.
LEMMA GivenOld ==
  ASSUME CommandsKnown, LeaseInv, NEW r \in Runners, NEW j, NEW e, Given(r, j, e)
  PROVE  e <= job[j].epoch
  BY DEF Given, CommandsKnown, LeaseInv, IssuedEpochs

\* A lease has one ASSIGN, so a machine that has the lease has handled that one.
LEMMA GivenIsHandled ==
  ASSUME CommandsKnown, LeaseInv, NEW r \in Runners, NEW c \in DOMAIN cmds, cmds[c].type = "ASSIGN",
         Given(r, cmds[c].job, cmds[c].epoch)
  PROVE  c \in DOMAIN applied[r]
<1>1. PICK d \in DOMAIN applied[r] : /\ cmds[d].type = "ASSIGN" /\ cmds[d].job = cmds[c].job
                                     /\ cmds[d].epoch = cmds[c].epoch
  BY DEF Given
<1>2. d \in DOMAIN cmds
  BY DEF CommandsKnown
<1> QED BY <1>1, <1>2 DEF LeaseInv, LeaseUnique

\* A step's old commands, in the new table.
LEMMA OldCommand ==
  ASSUME CmdsGrow, NEW c \in DOMAIN cmds
  PROVE  /\ c \in DOMAIN cmds'
         /\ cmds'[c].type = cmds[c].type /\ cmds'[c].runner = cmds[c].runner
         /\ cmds'[c].job = cmds[c].job /\ cmds'[c].epoch = cmds[c].epoch
  BY DEF CmdsGrow

\* Runner q has ended job k, and journaled so.
EndedBy(k, q) ==
  /\ job'[k].runner = q /\ Given(q, k, job'[k].epoch)
  /\ \A w \in rows[q] : w.job = k /\ w.epoch = job'[k].epoch => HasEnd(w)

\* The commands a machine has in hand stay, are dropped, or are all that are pending.
IdsFit ==
  \A q \in Runners :
    \/ sync'[q].ids = sync[q].ids
    \/ sync'[q].ids = {}
    \/ sync'[q].ids = {c \in DOMAIN cmds' : cmds'[c].ack = "none" /\ cmds'[c].runner = q}

\* A transaction of the server keeps the order of the table.
LEMMA RiseKept ==
  ASSUME StepInv, AssignsRise, NEW X, TableGrows(X)
  PROVE  AssignsRise'
<1> SUFFICES ASSUME NEW c \in DOMAIN cmds', NEW d \in DOMAIN cmds', cmds'[c].type = "ASSIGN",
                    d < c, cmds'[d].job = cmds'[c].job
             PROVE  cmds'[d].epoch < cmds'[c].epoch
  BY DEF AssignsRise
<1>1. /\ cmds \in Seq(Command) /\ cmds' \in Seq(Command) /\ CmdsGrow
      /\ job \in [Jobs -> JobRecord]
  BY DEF StepInv, LeaseInv, TypeOK
<1>2. /\ \A i \in DOMAIN cmds' : i \in Nat /\ cmds'[i] \in Command
      /\ \A i \in DOMAIN cmds : i \in Nat /\ cmds[i] \in Command
      /\ DOMAIN cmds = 1..Len(cmds) /\ Len(cmds) \in Nat
  BY <1>1, CmdDomain
<1>3. \A i \in DOMAIN cmds' \ DOMAIN cmds : i = Len(cmds) + 1
  BY DEF TableGrows, Issued
<1>4. CASE c \in DOMAIN cmds
  <2>1. d \in DOMAIN cmds
    BY <1>2, <1>3, <1>4
  <2> QED BY <1>1, <1>4, <2>1, OldCommand DEF AssignsRise
<1>5. CASE c \notin DOMAIN cmds
  <2>1. cmds'[c].epoch > job[cmds'[c].job].epoch
    BY <1>5 DEF TableGrows, Issued
  <2>2. d \in DOMAIN cmds
    BY <1>2, <1>3, <1>5
  <2>3. cmds[d].epoch <= job[cmds[d].job].epoch /\ cmds'[d].epoch = cmds[d].epoch
        /\ cmds[d].job = cmds'[c].job
    BY <1>1, <2>2, OldCommand DEF StepInv, LeaseInv, IssuedEpochs
  <2>4. cmds'[c].epoch \in Nat /\ cmds[d].epoch \in Nat /\ job[cmds'[c].job].epoch \in Nat
    BY <1>1, <1>2, <2>2 DEF Command, JobRecord
  <2> QED BY <2>1, <2>3, <2>4
<1> QED BY <1>4, <1>5

\* Whoever answered a command of X has journaled it.
Journaled(X) == \A c \in DOMAIN cmds \cap X : c \in DOMAIN applied[cmds[c].runner]

\* The commands of the new table, typed and told apart by their place.
LEMMA NewTable ==
  ASSUME StepInv, NEW X, TableGrows(X)
  PROVE  /\ \A c \in DOMAIN cmds' : /\ c \in Nat /\ cmds'[c] \in Command
                                  /\ cmds'[c].job \in Jobs /\ cmds'[c].runner \in Runners
                                  /\ cmds'[c].epoch \in Nat
         /\ \A c \in DOMAIN cmds : c \in Nat /\ cmds[c].epoch \in Nat
         /\ \A c \in DOMAIN cmds' \ DOMAIN cmds, d \in DOMAIN cmds : d < c
         /\ \A k \in Jobs : job[k].epoch \in Nat /\ job'[k].epoch \in Nat
<1>1. /\ cmds \in Seq(Command) /\ cmds' \in Seq(Command)
      /\ job \in [Jobs -> JobRecord] /\ job' \in [Jobs -> JobRecord]
  BY DEF StepInv, LeaseInv, TypeOK
<1>2. /\ \A i \in DOMAIN cmds' : i \in Nat /\ cmds'[i] \in Command
      /\ \A i \in DOMAIN cmds : i \in Nat /\ cmds[i] \in Command
      /\ DOMAIN cmds = 1..Len(cmds) /\ Len(cmds) \in Nat
  BY <1>1, CmdDomain
<1>3. \A i \in DOMAIN cmds' \ DOMAIN cmds : i = Len(cmds) + 1
  BY DEF TableGrows, Issued
<1>4. \A c \in DOMAIN cmds' \ DOMAIN cmds, d \in DOMAIN cmds : d < c
  BY <1>2, <1>3
<1>5. \A k \in Jobs : job[k].epoch \in Nat /\ job'[k].epoch \in Nat
  BY <1>1 DEF JobRecord
<1>6. \A c \in DOMAIN cmds' : /\ cmds'[c].job \in Jobs /\ cmds'[c].runner \in Runners
                             /\ cmds'[c].epoch \in Nat
  BY <1>2 DEF Command
<1>7. \A c \in DOMAIN cmds : cmds[c].epoch \in Nat
  BY <1>2 DEF Command
<1> QED BY <1>2, <1>4, <1>5, <1>6, <1>7

\* An ASSIGN that waits in vain has been withdrawn from a job nobody holds.
LEMMA AwaitKept ==
  ASSUME StepInv, HandledInv, UNCHANGED applied, NEW X, NEW K, Turns(X, K), Journaled(X)
  PROVE  AssignsAwait'
<1>. PICK T : T = TableGrows(X)
  OBVIOUS
<1>1. TableGrows(X) /\ CmdsGrow /\ AppliedGrows /\ CommandsKnown /\ LeaseInv
  BY StepParts DEF StepInv, Turns, TableGrows
<1> SUFFICES ASSUME NEW c \in DOMAIN cmds', cmds'[c].type = "ASSIGN",
                    NEW j, j = cmds'[c].job, NEW r, r = cmds'[c].runner, NEW e, e = cmds'[c].epoch,
                    Held(j)', Holds(j, r, e)', cmds'[c].ack # "none"
             PROVE  Given(r, j, e)'
  BY DEF AssignsAwait, Pending, Held, Holds, Given
<1>2. j \in Jobs /\ r \in Runners /\ e \in Nat /\ job[j].epoch \in Nat
  BY <1>1, NewTable
<1>3. c \in DOMAIN cmds
  BY <1>1 DEF TableGrows, Issued
<1>4. cmds[c].type = "ASSIGN" /\ cmds[c].job = j /\ cmds[c].runner = r /\ cmds[c].epoch = e
  BY <1>1, <1>3, OldCommand
<1>5. job'[j].state \in HeldStates /\ job'[j].runner = r /\ job'[j].epoch = e
  BY DEF Held, Holds
<1>6. e <= job[j].epoch
  BY <1>1, <1>3, <1>4 DEF LeaseInv, IssuedEpochs
<1>7. Held(j) /\ Holds(j, r, e)
  BY <1>2, <1>5, <1>6 DEF Turns, Stays, Leased, Held, Holds
<1>8. Given(r, j, e)
  <2>1. CASE Pending(c)
    <3>1. c \in X
      BY <1>1, <1>3, <1>4, <1>5, <2>1 DEF TableGrows, Pending
    <3>2. c \in DOMAIN applied[r]
      BY <1>3, <1>4, <3>1 DEF Journaled
    <3> QED BY <1>4, <3>2 DEF Given
  <2>2. CASE ~Pending(c)
    BY <1>3, <1>4, <1>7, <2>2 DEF HandledInv, TableInv, AssignsAwait
  <2> QED BY <2>1, <2>2
<1> QED BY <1>1, <1>2, <1>8, GivenKept

\* A holder is told to stop once its ASSIGN is answered, that is journaled.
LEMMA CancelsKept ==
  ASSUME StepInv, HandledInv, UNCHANGED applied, NEW X, TableGrows(X)
  PROVE  CancelsGiven'
<1>1. CmdsGrow /\ AppliedGrows /\ CommandsKnown /\ LeaseInv
  BY StepParts DEF StepInv
<1> SUFFICES ASSUME NEW c \in DOMAIN cmds', cmds'[c].type = "CANCEL",
                    NEW j, j = cmds'[c].job, NEW r, r = cmds'[c].runner, NEW e, e = cmds'[c].epoch
             PROVE  Given(r, j, e)'
  BY DEF CancelsGiven, Given
<1>2. j \in Jobs /\ r \in Runners
  BY <1>1, NewTable
<1>3. Given(r, j, e)
  <2>1. CASE c \in DOMAIN cmds
    <3>1. cmds[c].type = "CANCEL" /\ cmds[c].job = j /\ cmds[c].runner = r /\ cmds[c].epoch = e
      BY <1>1, <2>1, OldCommand
    <3> QED BY <2>1, <3>1 DEF HandledInv, TableInv, CancelsGiven
  <2>2. CASE c \notin DOMAIN cmds
    <3>1. Held(j) /\ ~Unacked(j) /\ job[j].runner = r /\ job[j].epoch = e
      BY <2>2 DEF TableGrows, Issued, Holds
    <3>2. CASE job[j].state # "ASSIGNED"
      BY <1>2, <3>1, <3>2 DEF StepInv, JournalInv, LeasesFresh
    <3>3. CASE job[j].state = "ASSIGNED"
      <4>1. [job |-> j, runner |-> r, epoch |-> e] \in Leases
        BY <1>1, <1>2, <3>1 DEF LeaseInv, HolderWasAssigned
      <4>2. PICK d \in DOMAIN cmds : /\ cmds[d].type = "ASSIGN" /\ cmds[d].job = j
                                     /\ cmds[d].runner = r /\ cmds[d].epoch = e
        BY <4>1 DEF Leases
      <4>3. ~Pending(d)
        BY <3>1, <3>3, <4>2 DEF Unacked, PendingFor
      <4> QED BY <3>1, <4>2, <4>3 DEF HandledInv, TableInv, AssignsAwait, Holds
    <3> QED BY <3>2, <3>3
  <2> QED BY <2>1, <2>2
<1> QED BY <1>1, <1>2, <1>3, GivenKept

\* The server ends a lease by a new epoch; its holder, by what it journaled.
LEMMA EndsKept ==
  ASSUME StepInv, HandledInv, UNCHANGED <<rows, applied>>, NEW X, NEW K, Turns(X, K),
         \A k \in Jobs : Closes(k) \/ \E q \in Runners : EndedBy(k, q)
  PROVE  EndsKnown' /\ \A r \in Runners : EndsJournaled(r)'
<1>1. TableGrows(X) /\ CmdsGrow /\ AppliedGrows /\ CommandsKnown /\ LeaseInv /\ MachinesTyped /\ LeasesGiven
  BY StepParts DEF StepInv, Turns
<1>2. NoRunner \notin Runners
  BY RunnerAssumption
<1>3. ASSUME NEW c \in DOMAIN cmds', cmds'[c].type = "ASSIGN",
             NEW j, j = cmds'[c].job, NEW r, r = cmds'[c].runner, NEW e, e = cmds'[c].epoch,
             job'[j].state \in TerminalStates, Holds(j, r, e)'
      PROVE  Given(r, j, e)'
  <2>1. j \in Jobs /\ r \in Runners /\ e \in Nat /\ job[j].epoch \in Nat
    BY <1>1, <1>3, NewTable
  <2>2. c \in DOMAIN cmds
    BY <1>3 DEF Turns, TableGrows, Issued, TerminalStates
  <2>3. cmds[c].type = "ASSIGN" /\ cmds[c].job = j /\ cmds[c].runner = r /\ cmds[c].epoch = e
    BY <1>1, <1>3, <2>2, OldCommand
  <2>4. job'[j].state \in TerminalStates /\ job'[j].runner = r /\ job'[j].epoch = e
    BY <1>3 DEF Holds
  <2>5. e <= job[j].epoch
    BY <1>1, <2>2, <2>3 DEF LeaseInv, IssuedEpochs
  <2>6. CASE job[j].state \in TerminalStates /\ Holds(j, r, e)
    <3>1. Given(r, j, e)
      BY <2>2, <2>3, <2>6 DEF HandledInv, TableInv, EndsKnown
    <3> QED BY <1>1, <2>1, <3>1, GivenKept
  <2>7. CASE EndedBy(j, r)
    BY <1>1, <2>1, <2>4, <2>7, GivenKept DEF EndedBy
  <2> QED BY <1>2, <2>1, <2>4, <2>5, <2>6, <2>7 DEF Closes, EndedBy, Holds
<1>4. ASSUME NEW r \in Runners, NEW w \in rows[r], job'[w.job].state \in TerminalStates,
             Holds(w.job, r, w.epoch)'
      PROVE  HasEnd(w)
  <2>. PICK j, e : j = w.job /\ e = w.epoch
    OBVIOUS
  <2>1. j \in Jobs /\ e \in Nat /\ job[j].epoch \in Nat
    BY <1>1, NewTable DEF MachinesTyped, Row
  <2>2. e <= job[j].epoch
    BY <1>1, GivenOld DEF LeasesGiven
  <2>3. job'[j].state \in TerminalStates /\ job'[j].runner = r /\ job'[j].epoch = e
    BY <1>4 DEF Holds
  <2>4. CASE job[j].state \in TerminalStates /\ Holds(j, r, e)
    BY <2>4 DEF HandledInv, EndsJournaled
  <2>5. CASE EndedBy(j, r)
    BY <2>3, <2>5 DEF EndedBy
  <2> QED BY <1>2, <2>1, <2>2, <2>3, <2>4, <2>5 DEF Closes, EndedBy, Holds
<1>5. EndsKnown'
  BY <1>3 DEF EndsKnown, Holds, Given
<1>6. ASSUME NEW r \in Runners PROVE EndsJournaled(r)'
  BY <1>4 DEF EndsJournaled, Holds, HasEnd
<1> QED BY <1>5, <1>6

\* Whatever is pending and old enough was in the last batch.
LEMMA OrderKept ==
  ASSUME StepInv, NEW r \in Runners, InOrder(r), NEW X, TableGrows(X), UNCHANGED applied, IdsFit
  PROVE  InOrder(r)'
<1>1. CommandsKnown /\ CommandsKnown'
  BY DEF StepInv, DispatchTyped
<1>2. /\ \A c \in DOMAIN cmds' : c \in Nat
      /\ \A c \in DOMAIN cmds : c \in Nat
      /\ \A c \in DOMAIN cmds' \ DOMAIN cmds, d \in DOMAIN cmds : d < c
  BY NewTable
<1>. PICK D, I, J : D = DOMAIN applied[r] /\ I = sync[r].ids /\ J = sync'[r].ids
  OBVIOUS
<1>3. D \subseteq DOMAIN cmds /\ I \subseteq DOMAIN cmds /\ J \subseteq DOMAIN cmds'
  BY <1>1 DEF CommandsKnown
<1>4. \/ J = I \/ J = {} \/ J = {c \in DOMAIN cmds' : cmds'[c].ack = "none" /\ cmds'[c].runner = r}
  BY DEF IdsFit
<1>5. \A d \in D \cup I, c \in DOMAIN cmds :
        c < d /\ cmds[c].runner = r /\ cmds[c].ack = "none" => c \in D \cup I
  BY DEF InOrder, Pending
<1>6. \A d \in D, c \in I : c < d => c \in D
  BY DEF InOrder
<1>7. \A c \in DOMAIN cmds : cmds'[c].ack = "none" => cmds[c].ack = "none"
  BY DEF TableGrows
<1>8. \A c \in DOMAIN cmds : cmds'[c].runner = cmds[c].runner
  BY DEF TableGrows, CmdsGrow
<1>9. ASSUME NEW d \in D, NEW c \in DOMAIN cmds', c < d, cmds'[c].runner = r, cmds'[c].ack = "none"
      PROVE  c \in D
  <2>1. d \in DOMAIN cmds /\ c \in DOMAIN cmds
    BY <1>2, <1>3, <1>9
  <2> QED BY <1>5, <1>6, <1>7, <1>8, <1>9, <2>1
<1>10. ASSUME NEW d \in J, NEW c \in DOMAIN cmds', c < d, cmds'[c].runner = r, cmds'[c].ack = "none"
       PROVE  c \in D \cup J
  <2>1. CASE J = I
    <3>1. c \in DOMAIN cmds
      BY <1>2, <1>3, <1>10, <2>1
    <3> QED BY <1>5, <1>7, <1>8, <1>10, <2>1, <3>1
  <2> QED BY <1>4, <1>10, <2>1
<1>11. ASSUME NEW d \in D, NEW c \in J, c < d
       PROVE  c \in D
  BY <1>4, <1>6, <1>9, <1>11
<1>12. applied' = applied
  OBVIOUS
<1> QED BY <1>9, <1>10, <1>11, <1>12 DEF InOrder, Pending

\* A step of the server, the journals being as they were, keeps the invariant.
LEMMA ServerStepHandled ==
  ASSUME StepInv, HandledInv, UNCHANGED <<rows, applied>>, IdsFit, NEW X, NEW K, Turns(X, K),
         Journaled(X), \A k \in Jobs : Closes(k) \/ \E q \in Runners : EndedBy(k, q)
  PROVE  HandledInv'
<1>1. TableGrows(X) /\ CmdsGrow /\ CommandsKnown
  BY StepParts DEF StepInv, Turns
<1>2. TableInv'
  BY <1>1, RiseKept, AwaitKept, CancelsKept, EndsKept DEF HandledInv, TableInv
<1>3. ASSUME NEW r \in Runners PROVE RowsGone(r)'
  <2> SUFFICES ASSUME NEW c \in DOMAIN applied[r],
                      \/ cmds'[c].type = "ABANDON"
                      \/ cmds'[c].type \in {"ASSIGN", "CANCEL"} /\ applied[r][c] = "rejected"
               PROVE  NoRow(r, cmds'[c].job, cmds'[c].epoch)
    BY DEF RowsGone, NoRow
  <2>1. c \in DOMAIN cmds
    BY <1>1 DEF CommandsKnown
  <2>2. cmds'[c].type = cmds[c].type /\ cmds'[c].job = cmds[c].job /\ cmds'[c].epoch = cmds[c].epoch
    BY <1>1, <2>1, OldCommand
  <2> QED BY <2>2 DEF HandledInv, RowsGone
<1>4. \A r \in Runners : InOrder(r)' /\ EndsJournaled(r)'
  BY <1>1, OrderKept, EndsKept DEF HandledInv
<1> QED BY <1>2, <1>3, <1>4 DEF HandledInv

-----------------------------------------------------------------------------
(* A step of a machine keeps that order *)

\* Rows are kept or dropped, and a log that has an end keeps it.
LogsGoOn ==
  \A q \in Runners : \A v \in rows'[q] :
    \E w \in rows[q] : SameLeaseAs(v, w) /\ (HasEnd(w) => HasEnd(v))

\* Rows that grow keep their ends.
LEMMA GrownLogs ==
  ASSUME MachinesTyped, NEW r \in Runners, RowsGrow(r)
  PROVE  LogsGoOn
<1> SUFFICES ASSUME NEW q \in Runners, NEW v \in rows'[q]
             PROVE  \E w \in rows[q] : SameLeaseAs(v, w) /\ (HasEnd(w) => HasEnd(v))
  BY DEF LogsGoOn
<1>1. CASE q = r
  <2>1. PICK w \in rows[r] : Extends(w, v)
    BY <1>1 DEF RowsGrow
  <2>2. v \in Row /\ w \in Row
    BY <1>1 DEF MachinesTyped, RowsGrow
  <2>3. Len(v.events) \in Nat /\ Len(w.events) \in Nat
    BY <2>2 DEF Row
  <2>4. HasEnd(w) => HasEnd(v)
    BY <2>1, <2>3 DEF Extends, HasEnd
  <2> QED BY <1>1, <2>1, <2>4 DEF Extends
<1>2. CASE q # r
  BY <1>2 DEF RowsGrow, SameLeaseAs
<1> QED BY <1>1, <1>2

\* What the commands say holds as long as jobs and commands are not written.
LEMMA TableUntouched ==
  ASSUME CommandsKnown, TableInv, UNCHANGED <<job, cmds>>, AppliedGrows, TypeOK
  PROVE  TableInv'
<1>1. \A c \in DOMAIN cmds : cmds[c].runner \in Runners
  BY CmdDomain DEF TypeOK, Command
<1>2. CmdsGrow
  BY DEF CmdsGrow
<1>3. ASSUME NEW c \in DOMAIN cmds, NEW j, NEW r, NEW e, r = cmds[c].runner, Given(r, j, e)
      PROVE  Given(r, j, e)'
  BY <1>1, <1>2, <1>3, GivenKept
<1>4. AssignsRise'
  BY DEF TableInv, AssignsRise
<1>5. AssignsAwait'
  BY <1>3 DEF TableInv, AssignsAwait, Pending, Held, Holds
<1>6. CancelsGiven'
  BY <1>3 DEF TableInv, CancelsGiven
<1>7. EndsKnown'
  BY <1>3 DEF TableInv, EndsKnown, Holds
<1> QED BY <1>4, <1>5, <1>6, <1>7 DEF TableInv

\* A step of a machine that handles no command keeps the invariant.
LEMMA MachineStepHandled ==
  ASSUME StepInv, HandledInv, UNCHANGED <<job, cmds, applied>>, LogsGoOn, IdsFit
  PROVE  HandledInv'
<1>1. CommandsKnown /\ AppliedGrows /\ TypeOK /\ TableGrows({})
  BY StepParts, UnchangedTurns DEF Turns
<1>2. TableInv'
  BY <1>1, TableUntouched DEF HandledInv
<1>3. \A r \in Runners : InOrder(r)'
  BY <1>1, OrderKept DEF HandledInv
<1>4. ASSUME NEW r \in Runners PROVE RowsGone(r)'
  BY DEF HandledInv, RowsGone, NoRow, LogsGoOn, SameLeaseAs
<1>5. ASSUME NEW r \in Runners, NEW v \in rows'[r], job[v.job].state \in TerminalStates,
             Holds(v.job, r, v.epoch)
      PROVE  HasEnd(v)
  <2>1. PICK w \in rows[r] : SameLeaseAs(v, w) /\ (HasEnd(w) => HasEnd(v))
    BY DEF LogsGoOn
  <2> QED BY <1>5, <2>1 DEF SameLeaseAs, HandledInv, EndsJournaled
<1>6. \A r \in Runners : EndsJournaled(r)'
  BY <1>5 DEF EndsJournaled, Holds, HasEnd
<1> QED BY <1>2, <1>3, <1>4, <1>6 DEF HandledInv

\* A lease that is abandoned, or was never known, leaves no row.
LEMMA HandledLeavesNoRow ==
  ASSUME MachinesTyped, NEW r \in Runners, NEW id, NEW type, NEW j, NEW e,
         R!Handle(r, id, type, j, e), id \notin DOMAIN applied[r],
         \/ type = "ABANDON"
         \/ type = "ASSIGN" /\ NoRow(r, j, e) /\ applied'[r][id] = "rejected"
         \/ type = "CANCEL" /\ applied'[r][id] = "rejected"
  PROVE  NoRow(r, j, e)'
<1>1. rows \in [Runners -> SUBSET Row]
  BY DEF MachinesTyped
<1>2. CASE type = "ABANDON"
  <2>1. rows' = [rows EXCEPT ![r] = @ \ R!RowsFor(r, j, e)]
    BY <1>2 DEF R!Handle, R!Replay, R!Replayed, R!HandleAbandon
  <2> QED BY <1>1, <2>1 DEF NoRow, R!RowsFor
<1>3. CASE type = "ASSIGN" /\ NoRow(r, j, e) /\ applied'[r][id] = "rejected"
  <2>1. R!AcceptAssign(r, id, j, e) \/ R!RejectAssign(r, id)
    BY <1>3 DEF R!Handle, R!Replay, R!Replayed, R!HandleAssign
  <2>2. ~R!AcceptAssign(r, id, j, e)
    BY <1>3, RecordedFacts DEF R!AcceptAssign
  <2>3. UNCHANGED rows
    BY <2>1, <2>2 DEF R!RejectAssign
  <2> QED BY <1>3, <2>3 DEF NoRow
<1>4. CASE type = "CANCEL" /\ applied'[r][id] = "rejected"
  <2>1. R!HandleCancel(r, id, j, e)
    BY <1>4 DEF R!Handle, R!Replay, R!Replayed
  <2>2. R!RowsFor(r, j, e) = {}
    <3>1. CASE R!RowsFor(r, j, e) # {}
      <4>1. applied' = R!Recorded(r, id, "ok")
        BY <2>1, <3>1 DEF R!HandleCancel
      <4> QED BY <1>4, <4>1, RecordedFacts
    <3> QED BY <3>1
  <2>3. UNCHANGED rows
    BY <2>1, <2>2 DEF R!HandleCancel
  <2> QED BY <2>2, <2>3 DEF NoRow, R!RowsFor
<1> QED BY <1>2, <1>3, <1>4

\* A command is handled: its record, its rows and its order.
LEMMA HandleCommandHandled ==
  ASSUME StepInv, HandledInv, NEW r \in Runners, HandleCommand(r)
  PROVE  HandledInv'
<1>1. /\ MachinesTyped /\ ExchangesTyped /\ CommandsKnown /\ LeasesGiven /\ TypeOK /\ LeaseInv
  BY StepParts DEF StepInv
<1>. PICK c : c = NextId(r)
  OBVIOUS
<1>. PICK type, j, e : type = cmds[c].type /\ j = cmds[c].job /\ e = cmds[c].epoch
  OBVIOUS
<1>2. /\ c \in sync[r].ids /\ c \in DOMAIN cmds /\ cmds[c].runner = r /\ j \in Jobs /\ e \in Nat
      /\ \A d \in sync[r].ids : c <= d
  BY <1>1, NextIdKnown DEF HandleCommand
<1>3. R!Handle(r, c, type, j, e)
  BY DEF HandleCommand, NextId
<1>4. UNCHANGED <<acks, cmds, job>>
  BY DEF HandleCommand, vars
<1>5. /\ AppliedGrows /\ DOMAIN applied'[r] = DOMAIN applied[r] \cup {c}
      /\ \A q \in Runners \ {r} : applied'[q] = applied[q]
      /\ \A d \in DOMAIN applied[r] : applied'[r][d] = applied[r][d]
  <2>1. RecordsFit /\ DOMAIN applied'[r] = DOMAIN applied[r] \cup {c}
    BY <1>1, <1>2, <1>3, <1>4, HandledRecords
  <2>2. /\ \A q \in Runners \ {r} : applied'[q] = applied[q]
        /\ \A d \in DOMAIN applied[r] : applied'[r][d] = applied[r][d]
    BY <1>1, <1>3, HandleRecords, RecordedFacts
  <2> QED BY <2>1, <2>2 DEF RecordsFit
<1>. PICK I, D : I = sync[r].ids \ {c} /\ D = sync[r].done \cup {c}
  OBVIOUS
<1> DEFINE x == [sync[r] EXCEPT !.ids = I, !.done = D]
<1>6. sync' = Put(r, x)
  BY DEF HandleCommand, NextId
<1>7. x.ids = I
  <2> DEFINE y == sync[r]
  <2>1. SyncShape(y)
    BY <1>1 DEF ExchangesTyped
  <2> HIDE DEF y
  <2>2. [y EXCEPT !.ids = I, !.done = D].ids = I
    BY <2>1 DEF SyncShape
  <2> QED BY <2>2 DEF y
<1>8. /\ sync'[r].ids = I /\ \A q \in Runners \ {r} : sync'[q] = sync[q]
  BY <1>1, <1>6, <1>7, PutFacts
<1> HIDE DEF x
<1>9. TableInv'
  BY <1>1, <1>4, <1>5, TableUntouched DEF HandledInv
<1>10. \A d \in DOMAIN cmds : d \in Nat
  BY <1>1, CmdDomain DEF TypeOK
<1>11. InOrder(r)'
  <2>1. InOrder(r) /\ sync[r].ids \subseteq DOMAIN cmds
    BY <1>1 DEF HandledInv, CommandsKnown
  <2>2. \A d \in I : c < d
    BY <1>2, <1>10, <2>1
  <2>3. DOMAIN applied'[r] \cup I = DOMAIN applied[r] \cup sync[r].ids
    BY <1>2, <1>5
  <2>4. \A d \in DOMAIN applied'[r], b \in I : b < d => b \in DOMAIN applied'[r]
    <3> SUFFICES ASSUME NEW d \in DOMAIN applied'[r], NEW b \in I, b < d
                 PROVE  b \in DOMAIN applied[r]
      BY <1>5
    <3>1. d # c
      BY <1>2, <1>10, <2>1, <2>2
    <3> QED BY <1>5, <2>1, <3>1 DEF InOrder
  <2> QED BY <1>4, <1>8, <2>1, <2>3, <2>4 DEF InOrder, Pending
<1>12. type = "ASSIGN" /\ c \notin DOMAIN applied[r] => ~Given(r, j, e) /\ NoRow(r, j, e)
  <2>1. type = "ASSIGN" /\ c \notin DOMAIN applied[r] => ~Given(r, j, e)
    BY <1>1, <1>2, GivenIsHandled
  <2> QED BY <1>1, <2>1 DEF LeasesGiven, NoRow
<1>13. \/ LogsGoOn
       \/ /\ type = "ASSIGN" /\ c \notin DOMAIN applied[r] /\ AddsRow(r, j, e)
          /\ \A q \in Runners \ {r} : rows'[q] = rows[q]
  BY <1>1, <1>2, <1>3, HandleRows, GrownLogs, AddedRow
<1>14. ASSUME NEW d \in DOMAIN applied'[r],
              \/ cmds[d].type = "ABANDON"
              \/ cmds[d].type \in {"ASSIGN", "CANCEL"} /\ applied'[r][d] = "rejected"
       PROVE  NoRow(r, cmds[d].job, cmds[d].epoch)'
  <2>1. CASE d \notin DOMAIN applied[r]
    <3>1. d = c
      BY <1>5, <2>1
    <3>2. NoRow(r, j, e)'
      BY <1>1, <1>3, <1>12, <1>14, <2>1, <3>1, HandledLeavesNoRow
    <3> QED BY <1>4, <3>1, <3>2 DEF NoRow
  <2>2. CASE d \in DOMAIN applied[r]
    <3>1. NoRow(r, cmds[d].job, cmds[d].epoch) /\ d \in DOMAIN cmds
      BY <1>1, <1>5, <1>14, <2>2 DEF HandledInv, RowsGone, CommandsKnown
    <3>2. CASE LogsGoOn
      BY <1>4, <3>1, <3>2 DEF LogsGoOn, NoRow, SameLeaseAs
    <3>3. CASE type = "ASSIGN" /\ c \notin DOMAIN applied[r] /\ AddsRow(r, j, e)
      <4>1. c # d
        BY <2>2, <3>3
      <4>2. ~(cmds[d].job = j /\ cmds[d].epoch = e)
        <5> SUFFICES ASSUME cmds[d].job = j, cmds[d].epoch = e PROVE FALSE
          OBVIOUS
        <5>1. ~(d < c)
          <6>1. AssignsRise /\ cmds[c].type = "ASSIGN" /\ cmds[d].job = cmds[c].job
                /\ cmds[c].epoch = e
            BY <3>3 DEF HandledInv, TableInv
          <6>2. d < c => cmds[d].epoch < cmds[c].epoch
            BY <1>2, <3>1, <6>1 DEF AssignsRise
          <6>3. cmds[d].epoch = e /\ e \in Nat
            BY <1>2
          <6> QED BY <6>1, <6>2, <6>3
        <5>2. c < d
          BY <1>2, <1>10, <3>1, <4>1, <5>1
        <5> QED BY <1>2, <2>2, <3>3, <5>2 DEF HandledInv, InOrder
      <4>3. rows'[r] = rows[r] \cup {R!NewRow(j, e)} /\ R!NewRow(j, e).job = j /\ R!NewRow(j, e).epoch = e
        BY <1>1, <1>2, <3>3, AddedRow
      <4> QED BY <1>4, <3>1, <4>2, <4>3 DEF NoRow
    <3> QED BY <1>13, <3>2, <3>3
  <2> QED BY <2>1, <2>2
<1>15. RowsGone(r)'
  BY <1>4, <1>14 DEF RowsGone, NoRow
<1>16. EndsJournaled(r)'
  <2> SUFFICES ASSUME NEW v \in rows'[r], job[v.job].state \in TerminalStates, Holds(v.job, r, v.epoch)
               PROVE  HasEnd(v)
    BY <1>4 DEF EndsJournaled, Holds, HasEnd
  <2>1. CASE LogsGoOn
    <3>1. PICK w \in rows[r] : SameLeaseAs(v, w) /\ (HasEnd(w) => HasEnd(v))
      BY <2>1 DEF LogsGoOn
    <3> QED BY <3>1 DEF SameLeaseAs, HandledInv, EndsJournaled
  <2>2. CASE type = "ASSIGN" /\ c \notin DOMAIN applied[r] /\ AddsRow(r, j, e)
    <3>1. rows'[r] = rows[r] \cup {R!NewRow(j, e)} /\ R!NewRow(j, e).job = j /\ R!NewRow(j, e).epoch = e
      BY <1>1, <1>2, <2>2, AddedRow
    <3>2. ~(job[j].state \in TerminalStates /\ Holds(j, r, e))
      BY <1>2, <1>12, <2>2 DEF HandledInv, TableInv, EndsKnown
    <3> QED BY <3>1, <3>2 DEF HandledInv, EndsJournaled
  <2> QED BY <1>13, <2>1, <2>2
<1>17. ASSUME NEW q \in Runners, q # r PROVE RowsGone(q)' /\ InOrder(q)' /\ EndsJournaled(q)'
  <2>1. /\ applied'[q] = applied[q] /\ sync'[q] = sync[q]
        /\ \A v \in rows'[q] : \E w \in rows[q] : SameLeaseAs(v, w) /\ (HasEnd(w) => HasEnd(v))
    <3>1. \A v \in rows[q] : SameLeaseAs(v, v)
      BY DEF SameLeaseAs
    <3> QED BY <1>5, <1>8, <1>13, <1>17, <3>1 DEF LogsGoOn
  <2>2. RowsGone(q) /\ InOrder(q) /\ EndsJournaled(q)
    BY DEF HandledInv
  <2>3. RowsGone(q)'
    BY <1>4, <2>1, <2>2 DEF RowsGone, NoRow, SameLeaseAs
  <2>4. InOrder(q)'
    BY <1>4, <2>1, <2>2 DEF InOrder, Pending
  <2>5. EndsJournaled(q)'
    <3> SUFFICES ASSUME NEW v \in rows'[q], job[v.job].state \in TerminalStates, Holds(v.job, q, v.epoch)
                 PROVE  HasEnd(v)
      BY <1>4 DEF EndsJournaled, Holds, HasEnd
    <3>1. PICK w \in rows[q] : SameLeaseAs(v, w) /\ (HasEnd(w) => HasEnd(v))
      BY <2>1
    <3> QED BY <2>2, <3>1 DEF SameLeaseAs, EndsJournaled
  <2> QED BY <2>3, <2>4, <2>5
<1> QED BY <1>9, <1>11, <1>15, <1>16, <1>17 DEF HandledInv

-----------------------------------------------------------------------------
(* The steps of the server keep it *)

\* A step in which the server's transactions alone write, and what it answers or ends
\* was journaled before.
ServerStep ==
  /\ UNCHANGED <<rows, applied, runs, procs, up, boot>> /\ IdsFit
  /\ \E X, K : /\ Turns(X, K) /\ Journaled(X)
               /\ \A k \in Jobs : Closes(k) \/ \E q \in Runners : EndedBy(k, q)

\* A step whose transaction ends nothing in a runner's name.
LEMMA QuietServerStep ==
  ASSUME UNCHANGED machines, IdsFit, Turns({}, {})
  PROVE  ServerStep
<1>1. Journaled({}) /\ \A k \in Jobs : Closes(k)
  BY DEF Journaled, Turns
<1> QED BY <1>1 DEF ServerStep, machines

\* What the forms of an exchange's record leave in hand.
LEMMA IdsInHand ==
  ASSUME ExchangesTyped, NEW r \in Runners, NEW x, NEW a, NEW A, NEW n, NEW I, NEW D, NEW P, NEW Q
  PROVE  /\ x = [sync[r] EXCEPT !.at = a] => x.ids = sync[r].ids
         /\ x = [sync[r] EXCEPT !.acks = A] => x.ids = sync[r].ids
         /\ x = [sync[r] EXCEPT !.at = a, !.slots = n] => x.ids = sync[r].ids
         /\ x = [sync[r] EXCEPT !.at = a, !.slots = n, !.ids = I] => x.ids = I
         /\ x = [sync[r] EXCEPT !.at = a, !.reports = P] => x.ids = sync[r].ids
         /\ x = [sync[r] EXCEPT !.at = a, !.reports = P, !.seqs = Q] => x.ids = sync[r].ids
<1> DEFINE y == sync[r]
<1>1. SyncShape(y)
  BY DEF ExchangesTyped
<1> HIDE DEF y
<1>2. /\ x = [y EXCEPT !.at = a] => x.ids = y.ids
      /\ x = [y EXCEPT !.acks = A] => x.ids = y.ids
      /\ x = [y EXCEPT !.at = a, !.slots = n] => x.ids = y.ids
      /\ x = [y EXCEPT !.at = a, !.slots = n, !.ids = I] => x.ids = I
      /\ x = [y EXCEPT !.at = a, !.reports = P] => x.ids = y.ids
      /\ x = [y EXCEPT !.at = a, !.reports = P, !.seqs = Q] => x.ids = y.ids
  BY <1>1 DEF SyncShape
<1> QED BY <1>2 DEF y

\* What an exchange that is written lists to its runner.
LEMMA IdsWritten ==
  ASSUME ExchangesTyped, NEW r \in Runners, NEW x, sync' = Put(r, x),
         \/ x.ids = sync[r].ids
         \/ x.ids = {}
         \/ x.ids = {c \in DOMAIN cmds' : cmds'[c].ack = "none" /\ cmds'[c].runner = r}
  PROVE  IdsFit
<1>1. sync'[r] = x /\ \A q \in Runners \ {r} : sync'[q] = sync[q]
  BY PutFacts
<1>2. \A q \in Runners \ {r} : sync'[q].ids = sync[q].ids
  BY <1>1
<1>3. sync'[r].ids = x.ids
  BY <1>1
<1> QED BY <1>2, <1>3 DEF IdsFit

\* The server's steps within an exchange, acks and reports apart.
LEMMA ExchangeServes ==
  ASSUME StepInv, NEW r \in Runners,
         \/ SendSync(r) \/ SyncArrives(r) \/ ServerReconcile(r) \/ ServerReconciles(r)
         \/ ServerReplies(r) \/ Discard(r) \/ ServerFill(r)
  PROVE  ServerStep
<1>1. ExchangesTyped /\ RowInv
  BY StepParts
<1>2. NoSync.ids = {}
  BY NoSyncFacts DEF SyncIs
<1>3. CASE SendSync(r)
  <2> DEFINE x == [NoSync EXCEPT !.at = "sent", !.boot = boot[r], !.sent = acks[r],
                                 !.acks = acks[r], !.reports = Reports(r), !.slots = Slots(r)]
  <2>1. UNCHANGED <<machines, job, cmds>> /\ sync' = Put(r, x)
    BY <1>3 DEF SendSync, vars
  <2>2. SyncIs(x, "sent", boot[r], acks[r], Reports(r), {}, {}, {})
    BY NewSyncForms
  <2>3. x.ids = {}
    <3> HIDE DEF x
    <3> QED BY <2>2 DEF SyncIs
  <2> QED BY <1>1, <2>1, <2>3, IdsWritten, UnchangedTurns, QuietServerStep
<1>4. CASE SyncArrives(r)
  <2> DEFINE x == [sync[r] EXCEPT !.at = "acks"]
  <2>1. UNCHANGED <<machines, job, cmds>> /\ sync' = Put(r, x)
    BY <1>4 DEF SyncArrives, SyncSeen
  <2>2. x.ids = sync[r].ids
    BY <1>1, IdsInHand
  <2> QED BY <1>1, <2>1, <2>2, IdsWritten, UnchangedTurns, QuietServerStep
<1>5. CASE ServerReconcile(r)
  <2> DEFINE x == [sync[r] EXCEPT !.at = "boot"]
  <2>1. UNCHANGED <<machines, job, cmds>> /\ sync' = Put(r, x)
    BY <1>5 DEF ServerReconcile, ReconRead
  <2>2. x.ids = sync[r].ids
    BY <1>1, IdsInHand
  <2> QED BY <1>1, <2>1, <2>2, IdsWritten, UnchangedTurns, QuietServerStep
<1>6. CASE ServerReconciles(r)
  <2>1. UNCHANGED <<machines, sync>> /\ \E x \in recon : ReconCheck(x) \/ ReconWrite(x)
    BY <1>6 DEF ServerReconciles
  <2>2. Turns({}, {})
    BY <1>1, <2>1, ReconTurns
  <2> QED BY <2>1, <2>2, QuietServerStep DEF IdsFit
<1>7. CASE ServerReplies(r)
  <2>. PICK I : I = {c \in DOMAIN cmds : Pending(c) /\ cmds[c].runner = r}
    OBVIOUS
  <2> DEFINE x == [sync[r] EXCEPT !.at = "answered", !.slots = 0, !.ids = I]
  <2>1. UNCHANGED <<machines, job, cmds>> /\ sync' = Put(r, x)
    BY <1>7 DEF ServerReplies, vars
  <2>2. x.ids = I
    <3> DEFINE y == sync[r]
    <3>1. SyncShape(y)
      BY <1>1 DEF ExchangesTyped
    <3> HIDE DEF y
    <3>2. [y EXCEPT !.at = "answered", !.slots = 0, !.ids = I].ids = I
      BY <3>1 DEF SyncShape
    <3> QED BY <3>2 DEF y
  <2>3. I = {c \in DOMAIN cmds' : cmds'[c].ack = "none" /\ cmds'[c].runner = r}
    BY <2>1 DEF Pending
  <2> HIDE DEF x
  <2> QED BY <1>1, <2>1, <2>2, <2>3, IdsWritten, UnchangedTurns, QuietServerStep
<1>8. CASE Discard(r)
  <2>1. UNCHANGED <<machines, job, cmds>> /\ sync' = Put(r, NoSync)
    BY <1>8 DEF Discard, vars
  <2> QED BY <1>1, <1>2, <2>1, IdsWritten, UnchangedTurns, QuietServerStep
<1>9. CASE ServerFill(r)
  <2>. PICK n : n = IF HeldBy(r)' = HeldBy(r) THEN sync[r].slots ELSE sync[r].slots - 1
    OBVIOUS
  <2> DEFINE x == [sync[r] EXCEPT !.at = "fill", !.slots = n]
  <2>1. UNCHANGED machines /\ sync' = Put(r, x) /\ \E j \in Jobs : FillOne(r, j)
    BY <1>9 DEF ServerFill
  <2>2. x.ids = sync[r].ids
    BY <1>1, IdsInHand
  <2>3. Turns({}, {})
    BY <1>1, <2>1, FillTurns
  <2> QED BY <1>1, <2>1, <2>2, <2>3, IdsWritten, QuietServerStep
<1> QED BY <1>3, <1>4, <1>5, <1>6, <1>7, <1>8, <1>9

\* An ack says what the runner has journaled: a rejected ASSIGN or CANCEL has no row.
LEMMA AckServes ==
  ASSUME StepInv, HandledInv, NEW r \in Runners, ServerAck(r)
  PROVE  ServerStep
<1>1. ExchangesTyped /\ RowInv /\ CommandsKnown /\ TypeOK
  BY StepParts
<1>. PICK c : c = Min(sync[r].acks)
  OBVIOUS
<1>. PICK A, result, j, e : /\ A = sync[r].acks \ {c} /\ result = applied[r][c]
                            /\ j = cmds[c].job /\ e = cmds[c].epoch
  OBVIOUS
<1> DEFINE x == [sync[r] EXCEPT !.acks = A]
<1>2. UNCHANGED machines /\ sync' = Put(r, x)
  BY DEF ServerAck
<1>3. x.ids = sync[r].ids
  BY <1>1, IdsInHand
<1>4. IdsFit
  BY <1>1, <1>2, <1>3, IdsWritten
<1>5. c \in DOMAIN applied[r] /\ c \in DOMAIN cmds /\ cmds[c].runner = r /\ result \in {"ok", "rejected"}
  <2>1. DOMAIN cmds \subseteq Nat
    BY <1>1, CmdDomain DEF TypeOK
  <2>2. sync[r].acks \in SUBSET Nat /\ sync[r].acks # {} /\ sync[r].acks \subseteq DOMAIN applied[r]
    BY <1>1, <2>1 DEF CommandsKnown, ServerAck
  <2>3. c \in sync[r].acks
    BY <2>2, MinIsLeast
  <2> QED BY <1>1, <2>2, <2>3 DEF CommandsKnown
<1>6. Ack(c, result, sync[r].boot) \/ UNCHANGED vars
  BY DEF ServerAck
<1>7. CASE UNCHANGED vars
  BY <1>2, <1>4, <1>7, UnchangedTurns, QuietServerStep DEF vars
<1>8. Journaled({c})
  BY <1>5 DEF Journaled
<1>9. CASE Turns({c}, {})
  BY <1>2, <1>4, <1>8, <1>9 DEF ServerStep, machines, Turns
<1>10. CASE /\ cmds[c].type \in {"ASSIGN", "CANCEL"} /\ result = "rejected"
            /\ Turns({c}, {j}) /\ job'[j].runner = r /\ job'[j].epoch = e
  <2>1. Given(r, j, e)
    <3>1. CASE cmds[c].type = "ASSIGN"
      BY <1>5, <3>1 DEF Given
    <3>2. CASE cmds[c].type = "CANCEL"
      BY <1>5, <3>2 DEF HandledInv, TableInv, CancelsGiven
    <3> QED BY <1>10, <3>1, <3>2
  <2>2. NoRow(r, j, e)
    BY <1>5, <1>10 DEF HandledInv, RowsGone
  <2>3. EndedBy(j, r)
    BY <1>10, <2>1, <2>2 DEF EndedBy, NoRow
  <2>4. \A k \in Jobs \ {j} : Closes(k)
    BY <1>10 DEF Turns
  <2> QED BY <1>2, <1>4, <1>8, <1>10, <2>3, <2>4 DEF ServerStep, machines
<1> QED BY <1>1, <1>5, <1>6, <1>7, <1>9, <1>10, AckTurns

\* Where a row of events leads is where it began, or one of the events.
LEMMA AfterIsAnEvent ==
  ASSUME NEW state, NEW events, NEW N \in Nat, N = Len(events)
  PROVE  After(state, events) = state \/ \E i \in 1..N : After(state, events) = events[i]
<1>1. PICK at : Path(at, state, events, N) /\ After(state, events) = at[N]
  BY AfterIsPath
<1> DEFINE Bad == {n \in 0..N : ~(at[n] = state \/ \E i \in 1..N : at[n] = events[i])}
<1>2. Bad = {}
  <2> SUFFICES ASSUME Bad # {} PROVE FALSE
    OBVIOUS
  <2>1. Bad \in SUBSET Nat
    OBVIOUS
  <2>2. PICK n \in Bad : \A m \in Bad : n <= m
    BY <2>1, LeastNumber
  <2>3. n # 0
    BY <1>1 DEF Path
  <2>4. n - 1 \in 0..N /\ n \in 1..N /\ n - 1 \notin Bad
    BY <2>2, <2>3
  <2>5. at[n] = Taken(at[n - 1], events[n])
    BY <1>1, <2>4 DEF Path
  <2>6. at[n] = at[n - 1] \/ at[n] = events[n]
    BY <2>5 DEF Taken
  <2> QED BY <2>2, <2>4, <2>6
<1>3. at[N] = state \/ \E i \in 1..N : at[N] = events[i]
  BY <1>2
<1> QED BY <1>1, <1>3

\* The numbers of a report that begins at or before the next event the server awaits.
LEMMA Shifted ==
  ASSUME NEW f \in Nat, NEW n \in Nat, NEW L \in Nat, NEW h \in 1..n, f + n <= L
  PROVE  f + h \in 1..L
  OBVIOUS

\* A new event of a report is an event of the row it quotes.
LEMMA NewEventsQuoted ==
  ASSUME NEW p \in Sent, NEW w \in Row, Quotes(p, w), ackedSeq[p.job] \in Nat,
         NEW i \in 1..Len(NewEvents(p))
  PROVE  \E k \in 1..Len(w.events) : NewEvents(p)[i] = w.events[k]
<1>. PICK s, f, a : s = p.events /\ f = p.from /\ a = ackedSeq[p.job]
  OBVIOUS
<1>1. s \in Seq(JobStates) /\ f \in Nat /\ a \in Nat
  BY DEF Sent
<1>. PICK n, L : n = Len(s) /\ L = Len(w.events)
  OBVIOUS
<1>2. n \in Nat /\ L \in Nat
  <2>1. w.events \in Seq(JobStates)
    BY DEF Row
  <2> QED BY <1>1, <2>1
<1>3. NewEvents(p) = IF f > a THEN << >> ELSE SubSeq(s, a - f + 1, n)
  BY DEF NewEvents
<1>4. f <= a
  <2>1. CASE f > a
    <3>1. NewEvents(p) = << >>
      BY <1>3, <2>1
    <3>2. Len(NewEvents(p)) = 0
      BY <3>1
    <3> QED BY <3>2
  <2> QED BY <1>1, <2>1
<1>. PICK m : m = a - f + 1
  OBVIOUS
<1>5. m \in Nat /\ m >= 1
  BY <1>1, <1>4
<1>6. NewEvents(p) = SubSeq(s, m, n)
  <2>1. ~(f > a)
    BY <1>1, <1>4
  <2>2. NewEvents(p) = SubSeq(s, a - f + 1, n)
    BY <1>3, <2>1
  <2> QED BY <2>2
<1>7. /\ Len(SubSeq(s, m, n)) = IF m <= n THEN n - m + 1 ELSE 0
      /\ \A h \in 1..(n - m + 1) : SubSeq(s, m, n)[h] = s[m + h - 1]
  <2>1. n <= Len(s) /\ n \in Nat /\ s \in Seq(JobStates)
    BY <1>1, <1>2
  <2> QED BY <1>5, <2>1, SubSeqFacts
<1>. PICK h : h = m + i - 1
  OBVIOUS
<1>8. h \in 1..n /\ i \in 1..(n - m + 1)
  <2>1. i \in 1..Len(SubSeq(s, m, n))
    BY <1>6
  <2> QED BY <1>2, <1>5, <1>7, <2>1
<1>9. NewEvents(p)[i] = s[h]
  BY <1>6, <1>7, <1>8
<1>10. f + h \in 1..L /\ s[h] = w.events[f + h]
  <2>1. f + n <= L /\ \A k \in 1..n : s[k] = w.events[f + k]
    BY DEF Quotes
  <2>2. s[h] = w.events[f + h]
    BY <1>8, <2>1
  <2>3. f + n <= L
    BY <2>1
  <2>4. h \in 1..n
    BY <1>8
  <2>5. f + h \in 1..L
    BY <1>1, <1>2, <2>3, <2>4, Shifted
  <2> QED BY <2>2, <2>5
<1> QED BY <1>9, <1>10

\* A report that ends its job quotes the end from the journal.
LEMMA ReportTakenServes ==
  ASSUME StepInv, NEW r \in Runners, NEW p \in sync[r].reports, ReportTaken(r, p), UNCHANGED machines
  PROVE  ServerStep
<1>1. /\ MachinesTyped /\ ExchangesTyped /\ CommandsKnown /\ LeasesGiven /\ RowInv
  BY StepParts
<1>. PICK j : j = p.job
  OBVIOUS
<1>2. p \in Sent /\ Given(r, j, p.epoch) /\ ackedSeq[j] \in Nat /\ j \in Jobs
  BY <1>1, NewEventsTyped DEF ExchangesTyped, LeasesGiven
<1>3. Turns({}, {j}) /\ Journaled({})
  BY <1>1, <1>2, ReportTurns DEF Journaled
<1>4. /\ job'[j].runner = job[j].runner /\ job'[j].epoch = job[j].epoch
      /\ job'[j].state = After(job[j].state, NewEvents(p))
  BY <1>1, <1>2, TakenJobs
<1>5. job[j].runner = r /\ job[j].epoch = p.epoch
  BY DEF ReportTaken, Holds
<1>6. Closes(j) \/ EndedBy(j, r)
  <2>1. CASE job'[j].state = job[j].state \/ job'[j].state \notin TerminalStates
    BY <1>4, <2>1 DEF Closes
  <2>2. CASE job'[j].state # job[j].state /\ job'[j].state \in TerminalStates
    <3>. PICK N : N = Len(NewEvents(p))
      OBVIOUS
    <3>1. N \in Nat
      BY <1>1, NewEventsTyped
    <3>2. PICK i \in 1..N : job'[j].state = NewEvents(p)[i]
      BY <1>4, <2>2, <3>1, AfterIsAnEvent
    <3>3. ASSUME NEW w \in rows[r], w.job = j, w.epoch = p.epoch
          PROVE  HasEnd(w)
      <4>1. Quotes(p, w) /\ w \in Row
        BY <1>1, <3>3 DEF StepInv, JournalInv, ReportsQuote, SameLeaseAs, MachinesTyped
      <4>2. \E k \in 1..Len(w.events) : NewEvents(p)[i] = w.events[k]
        BY <1>2, <3>2, <4>1, NewEventsQuoted
      <4> QED BY <2>2, <3>2, <4>2 DEF HasEnd
    <3> QED BY <1>2, <1>4, <1>5, <3>3 DEF EndedBy
  <2> QED BY <2>1, <2>2
<1>7. \A k \in Jobs \ {j} : Closes(k)
  BY <1>3 DEF Turns
<1>. PICK s, P, Q : /\ s = [job |-> p.job, epoch |-> p.epoch,
                           seq |-> ackedSeq[p.job] + Len(NewEvents(p))]
                    /\ P = sync[r].reports \ {p} /\ Q = sync[r].seqs \cup {s}
  OBVIOUS
<1> DEFINE x == [sync[r] EXCEPT !.at = "jobs", !.reports = P, !.seqs = Q]
<1>8. sync' = Put(r, x)
  BY DEF ReportTaken
<1>9. x.ids = sync[r].ids
  BY <1>1, IdsInHand
<1>10. IdsFit
  BY <1>1, <1>8, <1>9, IdsWritten
<1> HIDE DEF x
<1> QED BY <1>3, <1>6, <1>7, <1>10 DEF ServerStep, machines

\* A report that is taken or fenced.
LEMMA ReportServes ==
  ASSUME StepInv, NEW r \in Runners, ServerReport(r)
  PROVE  ServerStep
<1>1. PICK p \in sync[r].reports : ReportTaken(r, p) \/ ReportFenced(r, p)
  BY DEF ServerReport
<1>2. UNCHANGED machines
  BY DEF ServerReport
<1>3. CASE ReportFenced(r, p)
  <2>. PICK P : P = sync[r].reports \ {p}
    OBVIOUS
  <2> DEFINE x == [sync[r] EXCEPT !.at = "jobs", !.reports = P]
  <2>1. sync' = Put(r, x) /\ ExchangesTyped /\ RowInv
    BY <1>3, StepParts DEF ReportFenced
  <2>2. x.ids = sync[r].ids
    BY <2>1, IdsInHand
  <2>3. Turns({}, {})
    BY <1>3, <2>1, FencedTurns DEF ReportFenced
  <2> QED BY <1>2, <2>1, <2>2, <2>3, IdsWritten, QuietServerStep
<1> QED BY <1>1, <1>2, <1>3, ReportTakenServes

\* The server's other callers, lost messages and a restart of the API.
LEMMA OthersServe ==
  ASSUME StepInv, ServerApi \/ ApiCrash \/ \E r \in Runners : LoseMessage(r)
  PROVE  ServerStep
<1>1. RowInv /\ ExchangesTyped /\ NoSync.ids = {}
  BY StepParts, NoSyncFacts DEF SyncIs
<1>2. CASE ServerApi
  <2>1. UNCHANGED <<machines, sync>>
    BY <1>2 DEF ServerApi
  <2>2. Turns({}, {})
    <3>1. CASE JobsApi
      BY <1>1, <3>1, JobsApiTurns
    <3>2. ASSUME NEW j \in Jobs, Sweep(j) PROVE Turns({}, {})
      BY <1>1, <3>2, SweepTurns
    <3>3. ASSUME NEW r \in Runners, TimePasses(r) PROVE Turns({}, {})
      BY <3>3, UnchangedTurns DEF TimePasses
    <3> QED BY <1>2, <3>1, <3>2, <3>3 DEF ServerApi
  <2> QED BY <2>1, <2>2, QuietServerStep DEF IdsFit
<1>3. CASE ApiCrash
  <2>1. UNCHANGED <<machines, job, cmds>> /\ \A q \in Runners : sync'[q] \in {sync[q], NoSync}
    BY <1>3 DEF ApiCrash
  <2>2. IdsFit
    BY <1>1, <2>1 DEF IdsFit
  <2> QED BY <2>1, <2>2, UnchangedTurns, QuietServerStep
<1>4. ASSUME NEW r \in Runners, LoseMessage(r) PROVE ServerStep
  <2>1. UNCHANGED <<machines, job, cmds>> /\ sync' = Put(r, NoSync)
    BY <1>4 DEF LoseMessage, vars
  <2> QED BY <1>1, <2>1, IdsWritten, UnchangedTurns, QuietServerStep
<1> QED BY <1>2, <1>3, <1>4

-----------------------------------------------------------------------------
(* The order is inductive *)

\* A step of a machine alone; an upload that is fenced may issue an ABANDON.
LEMMA MachineHandled ==
  ASSUME StepInv, HandledInv, NEW r \in Runners, Machine(r) \/ BeginAssigned(r)
  PROVE  HandledInv'
<1>1. MachinesTyped /\ RowInv
  BY StepParts
<1>2. UNCHANGED <<sync, applied>> /\ IdsFit
  BY DEF Machine, BeginAssigned, RunStep, UploadBundle, ProcExits, Start, R!BeginAssigned, R!RunStep,
         R!RunEndsEarly, R!RunSpawn, R!RunRecords, R!RunFinishes, R!RunFails, R!RunUploads,
         R!ProcExits, R!Start, IdsFit
<1>3. ASSUME RowsGrow(r), UNCHANGED vars PROVE HandledInv'
  BY <1>1, <1>2, <1>3, GrownLogs, MachineStepHandled DEF vars
<1>4. CASE RunStep(r)
  BY <1>1, <1>3, <1>4, RunStepGrows DEF RunStep
<1>5. CASE UploadBundle(r)
  <2>1. PICK x \in runs[r] : \E w \in R!RowsFor(r, x.job, x.epoch) :
          \/ \E answer : R!RunUploads(r, x, w, answer) /\ UNCHANGED vars
          \/ R!RunUploads(r, x, w, "stale") /\ \E l : Fenced(l)
    BY <1>5 DEF UploadBundle
  <2>2. PICK w \in R!RowsFor(r, x.job, x.epoch) :
          \/ \E answer : R!RunUploads(r, x, w, answer) /\ UNCHANGED vars
          \/ R!RunUploads(r, x, w, "stale") /\ \E l : Fenced(l)
    BY <2>1
  <2>3. ASSUME NEW answer, R!RunUploads(r, x, w, answer), UNCHANGED vars
        PROVE  HandledInv'
    BY <1>1, <1>3, <2>3, RunUploadsGrows
  <2>4. CASE R!RunUploads(r, x, w, "stale") /\ \E l : Fenced(l)
    <3>1. UNCHANGED rows
      BY <2>4 DEF R!RunUploads
    <3>2. Turns({}, {})
      BY <1>1, <2>4, FencedTurns
    <3>3. Journaled({}) /\ \A k \in Jobs : Closes(k)
      BY <3>2 DEF Journaled, Turns
    <3> QED BY <1>2, <3>1, <3>2, <3>3, ServerStepHandled
  <2> QED BY <2>2, <2>3, <2>4
<1>6. CASE ProcExits(r) \/ Start(r)
  <2>1. UNCHANGED <<rows, vars>>
    BY <1>6 DEF ProcExits, Start, R!ProcExits, R!Start
  <2> QED BY <1>1, <1>3, <2>1, DroppedGrow
<1>7. CASE BeginAssigned(r)
  <2>1. UNCHANGED vars /\ \E X : rows' = [rows EXCEPT ![r] = @ \ X]
    BY <1>7 DEF BeginAssigned, R!BeginAssigned
  <2> QED BY <1>1, <1>3, <2>1, DroppedGrow
<1> QED BY <1>4, <1>5, <1>6, <1>7 DEF Machine

\* A reply is taken: the logs are as they were, and its commands are in hand.
LEMMA ReceiveReplyHandled ==
  ASSUME StepInv, HandledInv, NEW r \in Runners, ReceiveReply(r)
  PROVE  HandledInv'
<1>1. MachinesTyped /\ ExchangesTyped
  BY StepParts
<1>2. rows' = [rows EXCEPT ![r] = {AckedThrough(r, w) : w \in @}]
      /\ UNCHANGED <<job, cmds, applied>>
  BY DEF ReceiveReply, vars
<1>3. /\ \A q \in Runners \ {r} : rows'[q] = rows[q]
      /\ \A v \in rows'[r] : \E w \in rows[r] : v = AckedThrough(r, w)
  BY <1>1, <1>2, ReplyRows
<1>4. ASSUME NEW v, NEW w \in rows[r], v = AckedThrough(r, w)
      PROVE  SameLeaseAs(v, w) /\ (HasEnd(w) => HasEnd(v))
  <2>1. w \in Row
    BY <1>1 DEF MachinesTyped
  <2>2. SameLeaseAs(v, w) /\ v.events = w.events
    BY <1>1, <1>4, <2>1, AckedThroughFacts
  <2> QED BY <2>2 DEF HasEnd
<1>5. LogsGoOn
  <2> SUFFICES ASSUME NEW q \in Runners, NEW v \in rows'[q]
               PROVE  \E w \in rows[q] : SameLeaseAs(v, w) /\ (HasEnd(w) => HasEnd(v))
    BY DEF LogsGoOn
  <2>1. CASE q = r
    BY <1>3, <1>4, <2>1
  <2>2. CASE q # r
    BY <1>3, <2>2 DEF SameLeaseAs
  <2> QED BY <2>1, <2>2
<1>. PICK I : I = sync[r].ids
  OBVIOUS
<1> DEFINE x == [NoSync EXCEPT !.at = "handling", !.boot = boot[r], !.ids = I]
<1>6. SyncIs(x, "handling", boot[r], {}, {}, {}, I, {})
  BY NewSyncForms
<1>7. sync' = Put(r, x)
  BY DEF ReceiveReply
<1> HIDE DEF x
<1>8. x.ids = sync[r].ids
  BY <1>6 DEF SyncIs
<1>9. IdsFit
  BY <1>1, <1>7, <1>8, IdsWritten
<1> QED BY <1>2, <1>5, <1>9, MachineStepHandled

\* The end of an exchange and a crash drop what was in hand.
LEMMA DroppedHandled ==
  ASSUME StepInv, HandledInv, NEW r \in Runners, EndSync(r) \/ Crash(r)
  PROVE  HandledInv'
<1>1. MachinesTyped /\ ExchangesTyped /\ NoSync.ids = {}
  BY StepParts, NoSyncFacts DEF SyncIs
<1>2. /\ UNCHANGED <<job, cmds, applied, rows>>
      /\ sync' = sync \/ sync' = Put(r, NoSync)
  BY DEF EndSync, Crash, R!Crash, vars
<1>3. IdsFit
  <2>1. CASE sync' = sync
    BY <2>1 DEF IdsFit
  <2>2. CASE sync' = Put(r, NoSync)
    BY <1>1, <2>2, IdsWritten
  <2> QED BY <1>2, <2>1, <2>2
<1>4. LogsGoOn
  BY <1>2 DEF LogsGoOn, SameLeaseAs
<1> QED BY <1>2, <1>3, <1>4, MachineStepHandled

\* Every step of the server keeps the order of commands and journals.
LEMMA ServerStepsHandled ==
  ASSUME StepInv, HandledInv, ServerStep
  PROVE  HandledInv'
  BY ServerStepHandled DEF ServerStep

\* Every step is one of the server's, or one of a machine's named below.
LEMMA StepSplit ==
  ASSUME StepInv, HandledInv, DispatchNext
  PROVE  \/ ServerStep
         \/ \E r \in Runners : \/ ReceiveReply(r) \/ HandleCommand(r) \/ BeginAssigned(r)
                               \/ EndSync(r) \/ Machine(r) \/ Crash(r)
<1>1. ASSUME NEW r \in Runners, Exchange(r) \/ ServerFill(r) \/ Machine(r) \/ Faults(r)
      PROVE  \/ ServerStep
             \/ ReceiveReply(r) \/ HandleCommand(r) \/ BeginAssigned(r)
             \/ EndSync(r) \/ Machine(r) \/ Crash(r)
  BY <1>1, ExchangeServes, AckServes, ReportServes, OthersServe DEF Exchange, Faults
<1> QED BY <1>1, OthersServe DEF DispatchNext

\* Every step keeps what commands and journals say of each other.
LEMMA HandledInvStep ==
  ASSUME DispatchTyped, LeaseInv, JournalInv, HandledInv, [DispatchNext]_dispatchVars
  PROVE  HandledInv'
<1>1. StepInv
  BY DispatchIsNext, NextGrows, DispatchTypedStep, LeaseStep DEF StepInv
<1>2. CASE UNCHANGED dispatchVars
  <2>1. UNCHANGED <<machines, sync, job, cmds>> /\ IdsFit
    BY <1>2 DEF dispatchVars, vars, IdsFit
  <2> QED BY <1>1, <2>1, UnchangedTurns, QuietServerStep, ServerStepsHandled
<1>3. CASE DispatchNext
  BY <1>1, <1>3, StepSplit, ServerStepsHandled, ReceiveReplyHandled, HandleCommandHandled,
     MachineHandled, DroppedHandled
<1> QED BY <1>2, <1>3

\* At first there are no commands and no rows.
LEMMA HandledInit == DispatchInit => HandledInv
<1> SUFFICES ASSUME DispatchInit PROVE HandledInv
  OBVIOUS
<1>1. DOMAIN cmds = {}
  BY DEF DispatchInit, Init
<1>2. NoSync.ids = {}
  BY NoSyncFacts DEF SyncIs
<1>3. \A r \in Runners : rows[r] = {} /\ sync[r] = NoSync /\ DOMAIN applied[r] = {}
  BY DEF DispatchInit, R!RunnerInit
<1>4. TableInv
  BY <1>1 DEF TableInv, AssignsRise, AssignsAwait, CancelsGiven, EndsKnown
<1>5. \A r \in Runners : RowsGone(r) /\ InOrder(r) /\ EndsJournaled(r)
  BY <1>1, <1>2, <1>3 DEF RowsGone, InOrder, EndsJournaled
<1> QED BY <1>4, <1>5 DEF HandledInv

\* A machine handles its commands in the order they were issued, keeps no row of a
\* lease it abandoned or turned down, and a job that its holder ended is ended in the
\* holder's journal, crashes and lost messages included (command-handler.ts handle,
\* sync.service.ts deliver, journal.ts).
THEOREM CommandsInOrder == DispatchSpec => []HandledInv
<1>1. DispatchInit => HandledInv
  BY HandledInit
<1>2. DispatchTyped /\ LeaseInv /\ JournalInv /\ HandledInv /\ [DispatchNext]_dispatchVars => HandledInv'
  BY HandledInvStep
<1> QED BY <1>1, <1>2, DispatchTypes, JournalsAgree, PTL DEF DispatchSpec

-----------------------------------------------------------------------------
(* What a machine holds before its daemon is restarted *)

\* The machine r is down and was never up, or runs its first daemon.
FirstDaemon(r) == boot[r] = IF r \in up THEN 1 ELSE 0

\* What the journal holds of a run tells how far the run is.
RunFits(x, w) ==
  /\ x.phase # "reprepare"
  /\ x.phase \in {"accepted", "prepare", "spawned"} => w.events = << >> /\ ~w.pid
  /\ x.phase = "watch" => w.events = <<"RUNNING">> /\ w.pid
  /\ x.phase \in {"finish", "upload"} => w.pid
RunsHaveRows(r)  == \A x \in runs[r] : \E w \in rows[r] : SameLeaseAs(x, w) /\ RunFits(x, w)
OneRun(r)        == \A x, y \in runs[r] : SameLeaseAs(x, y) => x = y
\* A process is watched once its pid is journaled, and belongs to a run from its spawn on.
Owns(x, p)       == SameLeaseAs(x, p) /\ x.phase = IF p.known THEN "watch" ELSE "spawned"
ProcsHaveRuns(r) == \A p \in procs[r] : \E x \in runs[r] : Owns(x, p)
\* An attempt that has left "accepted" has no older attempt of its job beside it.
NoElder(r) ==
  \A v, w \in rows[r] : w.job = v.job /\ w.epoch < v.epoch =>
    ~v.pid /\ \A x \in runs[r] : SameLeaseAs(x, v) => x.phase = "accepted"
\* A row that is not done and has no run was turned down by the fence, and an ABANDON is due.
Told(r, w) ==
  \E c \in DOMAIN cmds : /\ Pending(c) /\ cmds[c].type = "ABANDON" /\ cmds[c].runner = r
                         /\ cmds[c].job = w.job /\ cmds[c].epoch = w.epoch
HasRun(r, w) == \E x \in runs[r] : SameLeaseAs(x, w)
Parked(r)    == \A w \in rows[r] : ~w.done /\ ~HasRun(r, w) => w.pid /\ Told(r, w)

Tidy(r) == RunsHaveRows(r) /\ OneRun(r) /\ ProcsHaveRuns(r) /\ NoElder(r) /\ Parked(r)

\* No pending ABANDON of a journaled row is lost.
ToldStays == \A q \in Runners : \A w \in rows[q] : Told(q, w) => Told(q, w)'

\* The row v is w, acked further, cancelled or done.
Marks(w, v) ==
  SameLeaseAs(v, w) /\ v.events = w.events /\ v.pid = w.pid /\ (w.done => v.done)

\* A step that only marks rows and lets processes go.
Alike(r) ==
  /\ \A v \in rows'[r] : \E w \in rows[r] : Marks(w, v)
  /\ \A w \in rows[r] : \E v \in rows'[r] : Marks(w, v)
  /\ runs'[r] = runs[r] /\ procs'[r] \subseteq procs[r]

\* A step that only marks rows and lets processes go keeps a machine tidy.
LEMMA AlikeTidy ==
  ASSUME NEW r \in Runners, Tidy(r), Alike(r), ToldStays
  PROVE  Tidy(r)'
<1>1. RunsHaveRows(r)'
  <2> SUFFICES ASSUME NEW x \in runs[r] PROVE \E v \in rows'[r] : SameLeaseAs(x, v) /\ RunFits(x, v)
    BY DEF Alike, RunsHaveRows, SameLeaseAs, RunFits
  <2>1. PICK w \in rows[r] : SameLeaseAs(x, w) /\ RunFits(x, w)
    BY DEF Tidy, RunsHaveRows
  <2>2. PICK v \in rows'[r] : Marks(w, v)
    BY DEF Alike
  <2>3. SameLeaseAs(x, v) /\ RunFits(x, v)
    BY <2>1, <2>2 DEF Marks, SameLeaseAs, RunFits
  <2> QED BY <2>3
<1>2. OneRun(r)'
  BY DEF Alike, Tidy, OneRun, SameLeaseAs
<1>3. ProcsHaveRuns(r)'
  BY DEF Alike, Tidy, ProcsHaveRuns, Owns, SameLeaseAs
<1>4. NoElder(r)'
  <2> SUFFICES ASSUME NEW v \in rows'[r], NEW w \in rows'[r], w.job = v.job, w.epoch < v.epoch
               PROVE  ~v.pid /\ \A x \in runs[r] : SameLeaseAs(x, v) => x.phase = "accepted"
    BY DEF Alike, NoElder, SameLeaseAs
  <2>1. PICK v0 \in rows[r] : Marks(v0, v)
    BY DEF Alike
  <2>2. PICK w0 \in rows[r] : Marks(w0, w)
    BY DEF Alike
  <2>3. /\ v.job = v0.job /\ v.epoch = v0.epoch /\ v.pid = v0.pid
        /\ w.job = w0.job /\ w.epoch = w0.epoch
    BY <2>1, <2>2 DEF Marks, SameLeaseAs
  <2>4. w0.job = v0.job /\ w0.epoch < v0.epoch
    BY <2>3
  <2>5. ~v0.pid /\ \A x \in runs[r] : SameLeaseAs(x, v0) => x.phase = "accepted"
    BY <2>4 DEF Tidy, NoElder
  <2> QED BY <2>3, <2>5 DEF SameLeaseAs
<1>5. Parked(r)'
  <2> SUFFICES ASSUME NEW v \in rows'[r], ~v.done, ~HasRun(r, v)'
               PROVE  v.pid /\ Told(r, v)'
    BY DEF Parked, HasRun, Told
  <2>1. PICK w \in rows[r] : Marks(w, v)
    BY DEF Alike
  <2>2. ~w.done /\ ~HasRun(r, w)
    BY <2>1 DEF Marks, HasRun, SameLeaseAs, Alike
  <2>3. w.pid /\ Told(r, w)'
    BY <2>2 DEF Tidy, Parked, ToldStays
  <2> QED BY <2>1, <2>3 DEF Marks, SameLeaseAs, Told
<1> QED BY <1>1, <1>2, <1>3, <1>4, <1>5 DEF Tidy

\* A machine that is left alone.
LEMMA SameTidy ==
  ASSUME NEW r \in Runners, Tidy(r), ToldStays,
         rows'[r] = rows[r], runs'[r] = runs[r], procs'[r] = procs[r]
  PROVE  Tidy(r)'
<1>1. Alike(r)
  BY DEF Alike, Marks, SameLeaseAs
<1> QED BY <1>1, AlikeTidy

\* The run x of row w becomes the runs of Y, one at most, and the row becomes v.
RunMoves(r, x, w, v, Y) ==
  /\ x \in runs[r] /\ w \in rows[r] /\ SameLeaseAs(x, w) /\ x.phase # "accepted"
  /\ SameLeaseAs(v, w) /\ rows'[r] = (rows[r] \ {w}) \cup {v}
  /\ runs'[r] = (runs[r] \ {x}) \cup Y
  /\ \A y \in Y : SameLeaseAs(y, x) /\ y.phase # "accepted" /\ RunFits(y, v)
  /\ \A y, z \in Y : y = z
  /\ \A p \in procs'[r] : (p \in procs[r] /\ ~SameLeaseAs(p, x)) \/ \E y \in Y : Owns(y, p)
  /\ Y = {} => v.done \/ (v.pid /\ Told(r, v)')

\* So does a step that moves one run on, or ends it.
LEMMA RunMovesTidy ==
  ASSUME NEW r \in Runners, Tidy(r), OneRow(r), ToldStays, NEW x, NEW w, NEW v, NEW Y,
         RunMoves(r, x, w, v, Y)
  PROVE  Tidy(r)'
<1>1. /\ x \in runs[r] /\ w \in rows[r] /\ SameLeaseAs(x, w) /\ x.phase # "accepted"
      /\ SameLeaseAs(v, w) /\ rows'[r] = (rows[r] \ {w}) \cup {v}
      /\ runs'[r] = (runs[r] \ {x}) \cup Y
      /\ \A y \in Y : SameLeaseAs(y, x) /\ y.phase # "accepted" /\ RunFits(y, v)
  BY DEF RunMoves
<1>2. \A y \in runs[r] \ {x} : ~SameLeaseAs(y, x)
  BY <1>1 DEF Tidy, OneRun
<1>3. \A u \in rows[r] \ {w} : ~SameLeaseAs(u, x)
  BY <1>1 DEF OneRow, SameLeaseAs
<1>4. RunsHaveRows(r)'
  <2> SUFFICES ASSUME NEW y \in runs'[r] PROVE \E u \in rows'[r] : SameLeaseAs(y, u) /\ RunFits(y, u)
    BY DEF RunsHaveRows, SameLeaseAs, RunFits
  <2>1. CASE y \in Y
    <3>1. v \in rows'[r] /\ SameLeaseAs(y, v) /\ RunFits(y, v)
      BY <1>1, <2>1 DEF SameLeaseAs
    <3> QED BY <3>1
  <2>2. CASE y \in runs[r] \ {x}
    <3>1. PICK u \in rows[r] : SameLeaseAs(y, u) /\ RunFits(y, u)
      BY <2>2 DEF Tidy, RunsHaveRows
    <3>2. u # w
      BY <1>1, <1>2, <2>2, <3>1 DEF SameLeaseAs
    <3>3. u \in rows'[r]
      BY <1>1, <3>2
    <3> QED BY <3>1, <3>3
  <2> QED BY <1>1, <2>1, <2>2
<1>5. OneRun(r)'
  <2> SUFFICES ASSUME NEW y \in runs'[r], NEW z \in runs'[r], SameLeaseAs(y, z)
               PROVE  y = z
    BY DEF OneRun, SameLeaseAs
  <2>1. CASE y \in Y /\ z \in Y
    BY <2>1 DEF RunMoves
  <2>2. CASE y \in runs[r] \ {x} /\ z \in runs[r] \ {x}
    BY <2>2 DEF Tidy, OneRun
  <2>3. ~(y \in Y /\ z \in runs[r] \ {x})
    BY <1>1, <1>2 DEF SameLeaseAs
  <2>4. ~(z \in Y /\ y \in runs[r] \ {x})
    BY <1>1, <1>2 DEF SameLeaseAs
  <2> QED BY <1>1, <2>1, <2>2, <2>3, <2>4
<1>6. ProcsHaveRuns(r)'
  <2> SUFFICES ASSUME NEW p \in procs'[r] PROVE \E y \in runs'[r] : Owns(y, p)
    BY DEF ProcsHaveRuns, Owns, SameLeaseAs
  <2>1. CASE \E y \in Y : Owns(y, p)
    BY <1>1, <2>1
  <2>2. CASE p \in procs[r] /\ ~SameLeaseAs(p, x)
    <3>1. PICK y \in runs[r] : Owns(y, p)
      BY <2>2 DEF Tidy, ProcsHaveRuns
    <3>2. y # x
      BY <2>2, <3>1 DEF Owns, SameLeaseAs
    <3> QED BY <1>1, <3>1, <3>2
  <2> QED BY <2>1, <2>2 DEF RunMoves
<1>7. NoElder(r)'
  <2> SUFFICES ASSUME NEW a \in rows'[r], NEW b \in rows'[r], b.job = a.job, b.epoch < a.epoch
               PROVE  ~a.pid /\ \A y \in runs'[r] : SameLeaseAs(y, a) => y.phase = "accepted"
    BY DEF NoElder, SameLeaseAs
  <2>1. PICK b0 \in rows[r] : SameLeaseAs(b0, b)
    BY <1>1 DEF SameLeaseAs
  <2>2. \A a0 \in rows[r] : SameLeaseAs(a0, a) =>
          ~a0.pid /\ \A y \in runs[r] : SameLeaseAs(y, a0) => y.phase = "accepted"
    <3> SUFFICES ASSUME NEW a0 \in rows[r], SameLeaseAs(a0, a)
                 PROVE  ~a0.pid /\ \A y \in runs[r] : SameLeaseAs(y, a0) => y.phase = "accepted"
      OBVIOUS
    <3>1. b0.job = a0.job /\ b0.epoch < a0.epoch
      BY <2>1 DEF SameLeaseAs
    <3> QED BY <3>1 DEF Tidy, NoElder
  <2>3. a # v /\ ~SameLeaseAs(a, w)
    <3>1. ~SameLeaseAs(w, a)
      BY <1>1, <2>2
    <3> QED BY <1>1, <3>1 DEF SameLeaseAs
  <2>4. a \in rows[r] /\ SameLeaseAs(a, a)
    BY <1>1, <2>3 DEF SameLeaseAs
  <2>5. \A y \in Y : ~SameLeaseAs(y, a)
    BY <1>1, <2>3 DEF SameLeaseAs
  <2> QED BY <1>1, <2>2, <2>4, <2>5
<1>8. Parked(r)'
  <2> SUFFICES ASSUME NEW u \in rows'[r], ~u.done, ~HasRun(r, u)'
               PROVE  u.pid /\ Told(r, u)'
    BY DEF Parked, HasRun, Told
  <2>1. CASE u = v
    <3>1. Y = {}
      BY <1>1, <2>1 DEF HasRun, SameLeaseAs
    <3> QED BY <2>1, <3>1 DEF RunMoves
  <2>2. CASE u \in rows[r] \ {w}
    <3>1. ~HasRun(r, u)
      <4> SUFFICES ASSUME NEW y \in runs[r], SameLeaseAs(y, u) PROVE FALSE
        BY DEF HasRun
      <4>1. y # x
        BY <1>3, <2>2 DEF SameLeaseAs
      <4> QED BY <1>1, <4>1 DEF HasRun, SameLeaseAs
    <3>2. u.pid /\ Told(r, u)
      BY <2>2, <3>1 DEF Tidy, Parked
    <3> QED BY <2>2, <3>2 DEF ToldStays
  <2> QED BY <1>1, <2>1, <2>2
<1> QED BY <1>4, <1>5, <1>6, <1>7, <1>8 DEF Tidy

\* Only what was journaled is answered, and an abandoned lease has no row.
LEMMA ToldKept ==
  ASSUME CommandsKnown, HandledInv, NEW X, TableGrows(X), Journaled(X)
  PROVE  ToldStays
<1> SUFFICES ASSUME NEW q \in Runners, NEW w \in rows[q], Told(q, w)
             PROVE  Told(q, w)'
  BY DEF ToldStays
<1>1. PICK c \in DOMAIN cmds : /\ Pending(c) /\ cmds[c].type = "ABANDON" /\ cmds[c].runner = q
                               /\ cmds[c].job = w.job /\ cmds[c].epoch = w.epoch
  BY DEF Told
<1>2. c \notin X
  <2>1. c \in X => c \in DOMAIN applied[q]
    BY <1>1 DEF Journaled
  <2>2. c \in DOMAIN applied[q] => NoRow(q, w.job, w.epoch)
    BY <1>1 DEF HandledInv, RowsGone
  <2> QED BY <2>1, <2>2 DEF NoRow
<1>3. cmds'[c].ack = "none"
  <2>1. cmds[c].ack = "none"
    BY <1>1 DEF Pending
  <2>2. cmds[c].ack = "none" /\ cmds'[c].ack # "none" => cmds[c].type # "ABANDON"
    BY <1>2 DEF TableGrows
  <2> QED BY <1>1, <2>1, <2>2
<1>4. /\ c \in DOMAIN cmds' /\ cmds'[c].type = cmds[c].type /\ cmds'[c].runner = cmds[c].runner
      /\ cmds'[c].job = cmds[c].job /\ cmds'[c].epoch = cmds[c].epoch
  BY OldCommand DEF TableGrows
<1> QED BY <1>1, <1>3, <1>4 DEF Told, Pending

\* A step that writes no command loses none.
LEMMA ToldUnchanged == UNCHANGED cmds => ToldStays
  BY DEF ToldStays, Told, Pending

\* The server leaves machines as they are.
LEMMA ServerStepTidy ==
  ASSUME StepInv, HandledInv, ServerStep, NEW r \in Runners, FirstDaemon(r) => Tidy(r)
  PROVE  FirstDaemon(r)' => Tidy(r)'
<1>1. CommandsKnown
  BY StepParts
<1>2. UNCHANGED <<rows, runs, procs, up, boot>> /\ ToldStays
  BY <1>1, ToldKept DEF ServerStep, Turns
<1>3. FirstDaemon(r)' <=> FirstDaemon(r)
  BY <1>2 DEF FirstDaemon
<1> QED BY <1>2, <1>3, SameTidy

\* The steps of one machine leave the others alone.
OthersAlone(r) ==
  \A q \in Runners \ {r} :
    rows'[q] = rows[q] /\ runs'[q] = runs[q] /\ procs'[q] = procs[q]

\* One machine's entry is written, and the others stay.
LEMMA MachineEntry ==
  ASSUME NEW S, NEW f \in [Runners -> S], NEW r \in Runners, NEW X, NEW g, g = [f EXCEPT ![r] = X]
  PROVE  g[r] = X /\ \A q \in Runners \ {r} : g[q] = f[q]
  OBVIOUS

\* The rows that a run or a command writes.
LEMMA RowForms ==
  ASSUME NEW w \in Row, NEW v
  PROVE  /\ v = [w EXCEPT !.done = TRUE] => Marks(w, v) /\ v.done
         /\ v = [w EXCEPT !.cancel = TRUE] => Marks(w, v)
         /\ v = [w EXCEPT !.pid = TRUE] => SameLeaseAs(v, w) /\ v.events = w.events /\ v.pid
         /\ v = [w EXCEPT !.cancel = TRUE, !.done = TRUE] => SameLeaseAs(v, w) /\ v.done
<1>1. v = [w EXCEPT !.done = TRUE] => Marks(w, v) /\ v.done
  BY DEF Row, Marks, SameLeaseAs
<1>2. v = [w EXCEPT !.cancel = TRUE] => Marks(w, v)
  BY DEF Row, Marks, SameLeaseAs
<1>3. v = [w EXCEPT !.pid = TRUE] => SameLeaseAs(v, w) /\ v.events = w.events /\ v.pid
  BY DEF Row, SameLeaseAs
<1>4. v = [w EXCEPT !.cancel = TRUE, !.done = TRUE] => SameLeaseAs(v, w) /\ v.done
  BY DEF Row, SameLeaseAs
<1> QED BY <1>1, <1>2, <1>3, <1>4

\* A row with one more event is of the same lease, and its pid is as it was.
LEMMA EmittedRow ==
  ASSUME NEW w \in Row, NEW to \in JobStates
  PROVE  /\ R!Emit(w, to) \in Row /\ SameLeaseAs(R!Emit(w, to), w)
         /\ R!Emit(w, to).pid = w.pid /\ R!Emit(w, to).events = Append(w.events, to)
<1>. PICK es : es = Append(w.events, to)
  OBVIOUS
<1>1. R!Emit(w, to) = [w EXCEPT !.events = es]
  BY DEF R!Emit
<1>2. ASSUME NEW u, u = [w EXCEPT !.events = es]
      PROVE  SameLeaseAs(u, w) /\ u.pid = w.pid /\ u.events = es
  BY <1>2 DEF Row, SameLeaseAs
<1>3. R!Emit(w, to) \in Row
  BY EmitFacts
<1> QED BY <1>1, <1>2, <1>3

\* Only a run that spawned or watches has processes.
LEMMA NoProcs ==
  ASSUME NEW r \in Runners, Tidy(r), NEW x \in runs[r], x.phase \notin {"spawned", "watch"},
         NEW p \in procs[r]
  PROVE  ~SameLeaseAs(p, x)
<1> SUFFICES ASSUME SameLeaseAs(p, x) PROVE FALSE
  OBVIOUS
<1>1. PICK y \in runs[r] : Owns(y, p)
  BY DEF Tidy, ProcsHaveRuns
<1>2. y = x
  BY <1>1 DEF Tidy, OneRun, Owns, SameLeaseAs
<1> QED BY <1>1, <1>2 DEF Owns

\* A process whose run is in memory is killed with its row.
LEMMA KilledAll ==
  ASSUME NEW r, NEW w, NEW x \in runs[r], SameLeaseAs(x, w), NEW p \in procs[r], SameLeaseAs(p, w)
  PROVE  p \in R!Killed(r, w)
<1>1. R!LeaseOf(p) = R!LeaseOf(w)
  BY DEF SameLeaseAs, R!LeaseOf, R!Lease
<1>2. x \in R!RunsFor(r, w.job, w.epoch)
  BY DEF SameLeaseAs, R!RunsFor
<1> QED BY <1>1, <1>2 DEF R!Killed, R!Live

\* A run that ends, its row done or parked.
LEMMA EndedRun ==
  ASSUME MachinesTyped, NEW r \in Runners, Tidy(r), NEW x \in runs[r], NEW w \in rows[r],
         SameLeaseAs(x, w), x.phase # "accepted", NEW v, SameLeaseAs(v, w),
         v.done \/ (v.pid /\ Told(r, v)'),
         runs' = R!Ended(r, x), rows' = R!Changed(r, w, v) \/ (rows' = rows /\ v = w),
         NEW X, procs' = [procs EXCEPT ![r] = @ \ X] \/ procs' = procs,
         \A p \in procs'[r] : ~SameLeaseAs(p, x)
  PROVE  RunMoves(r, x, w, v, {}) /\ OthersAlone(r)
<1>1. /\ rows \in [Runners -> SUBSET Row] /\ runs \in [Runners -> SUBSET Run]
      /\ procs \in [Runners -> SUBSET Proc]
  BY DEF MachinesTyped
<1>2. rows'[r] = (rows[r] \ {w}) \cup {v} /\ \A q \in Runners \ {r} : rows'[q] = rows[q]
  <2>1. CASE rows' = R!Changed(r, w, v)
    BY <1>1, <2>1, MachineEntry DEF R!Changed
  <2>2. CASE rows' = rows /\ v = w
    BY <2>2
  <2> QED BY <2>1, <2>2
<1>3. runs'[r] = runs[r] \ {x} /\ \A q \in Runners \ {r} : runs'[q] = runs[q]
  BY <1>1, MachineEntry DEF R!Ended
<1>4. procs'[r] \subseteq procs[r] /\ \A q \in Runners \ {r} : procs'[q] = procs[q]
  <2>1. CASE procs' = [procs EXCEPT ![r] = @ \ X]
    BY <1>1, <2>1
  <2> QED BY <2>1
<1>5. OthersAlone(r)
  BY <1>2, <1>3, <1>4 DEF OthersAlone
<1>6. RunMoves(r, x, w, v, {})
  BY <1>2, <1>3, <1>4 DEF RunMoves
<1> QED BY <1>5, <1>6

-----------------------------------------------------------------------------
(* A run moves on *)

\* A run that goes on.
LEMMA SteppedRun ==
  ASSUME MachinesTyped, NEW r \in Runners, NEW x \in runs[r], NEW w \in rows[r],
         SameLeaseAs(x, w), x.phase # "accepted", NEW v, SameLeaseAs(v, w),
         NEW to, NEW y, y = [x EXCEPT !.phase = to], SameLeaseAs(y, x), y.phase # "accepted",
         RunFits(y, v), runs' = R!Step(r, x, to), rows' = R!Changed(r, w, v) \/ (rows' = rows /\ v = w),
         NEW P, procs' = [procs EXCEPT ![r] = P],
         \A p \in P : (p \in procs[r] /\ ~SameLeaseAs(p, x)) \/ Owns(y, p)
  PROVE  RunMoves(r, x, w, v, {y}) /\ OthersAlone(r)
<1>1. /\ rows \in [Runners -> SUBSET Row] /\ runs \in [Runners -> SUBSET Run]
      /\ procs \in [Runners -> SUBSET Proc]
  BY DEF MachinesTyped
<1>2. rows'[r] = (rows[r] \ {w}) \cup {v} /\ \A q \in Runners \ {r} : rows'[q] = rows[q]
  <2>1. CASE rows' = R!Changed(r, w, v)
    BY <1>1, <2>1, MachineEntry DEF R!Changed
  <2>2. CASE rows' = rows /\ v = w
    BY <2>2
  <2> QED BY <2>1, <2>2
<1>3. runs'[r] = (runs[r] \ {x}) \cup {y} /\ \A q \in Runners \ {r} : runs'[q] = runs[q]
  <2>1. runs' = [runs EXCEPT ![r] = (runs[r] \ {x}) \cup {y}]
    BY DEF R!Step
  <2> QED BY <1>1, <2>1, MachineEntry
<1>4. procs'[r] = P /\ \A q \in Runners \ {r} : procs'[q] = procs[q]
  BY <1>1, MachineEntry
<1>5. OthersAlone(r)
  BY <1>2, <1>3, <1>4 DEF OthersAlone
<1>6. RunMoves(r, x, w, v, {y})
  BY <1>2, <1>3, <1>4 DEF RunMoves
<1> QED BY <1>5, <1>6

\* The run moves on, and the machine's others are alone.
Moves(r) == OthersAlone(r) /\ \E x, w, v, Y : RunMoves(r, x, w, v, Y)

\* RunEndsEarly: a prepare that failed or was cancelled has no process yet.
LEMMA EndsEarlyMoves ==
  ASSUME MachinesTyped, NEW r \in Runners, Tidy(r), NEW x \in runs[r], NEW w \in rows[r],
         SameLeaseAs(x, w), R!RunEndsEarly(r, x, w)
  PROVE  Moves(r)
<1>1. PICK to \in {"CANCELLED", "FAILED"}, reaped \in BOOLEAN :
        /\ rows' = R!Changed(r, w, [R!Emit(w, to) EXCEPT !.done = TRUE])
        /\ procs' = IF reaped THEN [procs EXCEPT ![r] = @ \ R!Reaped(r, w)] ELSE procs
  BY DEF R!RunEndsEarly
<1>2. x.phase \in {"prepare", "reprepare"} /\ runs' = R!Ended(r, x)
  BY DEF R!RunEndsEarly
<1>3. w \in Row /\ to \in JobStates
  BY DEF MachinesTyped, JobStates, TerminalStates
<1>. PICK v : v = [R!Emit(w, to) EXCEPT !.done = TRUE]
  OBVIOUS
<1>4. SameLeaseAs(v, w) /\ v.done
  <2>1. R!Emit(w, to) \in Row /\ SameLeaseAs(R!Emit(w, to), w)
    BY <1>3, EmittedRow
  <2>2. Marks(R!Emit(w, to), v) /\ v.done
    BY <2>1, RowForms
  <2> QED BY <2>1, <2>2 DEF Marks, SameLeaseAs
<1>. PICK X : X = R!Reaped(r, w)
  OBVIOUS
<1>5. procs' = [procs EXCEPT ![r] = @ \ X] \/ procs' = procs
  BY <1>1
<1>6. procs'[r] \subseteq procs[r]
  BY <1>5 DEF MachinesTyped
<1>7. \A p \in procs'[r] : ~SameLeaseAs(p, x)
  BY <1>2, <1>6, NoProcs
<1>8. x.phase # "accepted" /\ rows' = R!Changed(r, w, v)
  BY <1>1, <1>2
<1>9. RunMoves(r, x, w, v, {}) /\ OthersAlone(r)
  BY <1>2, <1>4, <1>5, <1>7, <1>8, EndedRun
<1> QED BY <1>9 DEF Moves

\* RunSpawn: the process that starts belongs to the run.
LEMMA SpawnMoves ==
  ASSUME MachinesTyped, NEW r \in Runners, Tidy(r), NEW x \in runs[r], NEW w \in rows[r],
         SameLeaseAs(x, w), RunFits(x, w), R!RunSpawn(r, x, w)
  PROVE  Moves(r)
<1>1. x.phase = "prepare" /\ runs' = R!Step(r, x, "spawned") /\ rows' = rows
  BY DEF R!RunSpawn, RunFits
<1>. PICK n : n = [job |-> w.job, epoch |-> w.epoch, known |-> FALSE]
  OBVIOUS
<1>. PICK P : P = procs[r] \cup {n}
  OBVIOUS
<1>2. procs' = [procs EXCEPT ![r] = P]
  <2>1. procs' = [procs EXCEPT ![r] = (procs[r] \ {}) \cup {n}]
    BY <1>1 DEF R!RunSpawn
  <2> QED BY <2>1
<1>. PICK y : y = [x EXCEPT !.phase = "spawned"]
  OBVIOUS
<1>3. SameLeaseAs(y, x) /\ y.phase = "spawned"
  BY DEF MachinesTyped, Run, SameLeaseAs
<1>4. RunFits(y, w)
  BY <1>1, <1>3 DEF RunFits
<1>5. \A p \in procs[r] : ~SameLeaseAs(p, x)
  BY <1>1, NoProcs
<1>6. Owns(y, n)
  <2>1. n.job = w.job /\ n.epoch = w.epoch /\ n.known = FALSE
    OBVIOUS
  <2> QED BY <1>3, <2>1 DEF Owns, SameLeaseAs
<1>7. \A p \in P : (p \in procs[r] /\ ~SameLeaseAs(p, x)) \/ Owns(y, p)
  BY <1>5, <1>6
<1>8. x.phase # "accepted" /\ y.phase # "accepted" /\ SameLeaseAs(w, w)
  BY <1>1, <1>3 DEF SameLeaseAs
<1>9. RunMoves(r, x, w, w, {y}) /\ OthersAlone(r)
  BY <1>1, <1>2, <1>3, <1>4, <1>7, <1>8, SteppedRun
<1> QED BY <1>9 DEF Moves

\* RunRecords: the run watches the process whose pid it journaled.
LEMMA RecordsMoves ==
  ASSUME MachinesTyped, NEW r \in Runners, Tidy(r), NEW x \in runs[r], NEW w \in rows[r],
         SameLeaseAs(x, w), RunFits(x, w), R!RunRecords(r, x, w)
  PROVE  Moves(r)
<1>1. /\ x.phase = "spawned" /\ runs' = R!Step(r, x, "watch")
      /\ rows' = R!Changed(r, w, [R!Emit(w, "RUNNING") EXCEPT !.pid = TRUE])
  BY DEF R!RunRecords
<1>2. w \in Row /\ "RUNNING" \in JobStates /\ x \in Run /\ procs[r] \subseteq Proc
  BY DEF MachinesTyped, JobStates, ActiveStates
<1>. PICK v : v = [R!Emit(w, "RUNNING") EXCEPT !.pid = TRUE]
  OBVIOUS
<1>3. SameLeaseAs(v, w) /\ v.pid /\ v.events = <<"RUNNING">>
  <2>1. /\ R!Emit(w, "RUNNING") \in Row /\ SameLeaseAs(R!Emit(w, "RUNNING"), w)
        /\ R!Emit(w, "RUNNING").events = Append(w.events, "RUNNING")
    BY <1>2, EmittedRow
  <2>2. SameLeaseAs(v, R!Emit(w, "RUNNING")) /\ v.events = R!Emit(w, "RUNNING").events /\ v.pid
    BY <2>1, RowForms
  <2>3. w.events = << >>
    BY <1>1 DEF RunFits
  <2> QED BY <2>1, <2>2, <2>3 DEF SameLeaseAs
<1>. PICK y : y = [x EXCEPT !.phase = "watch"]
  OBVIOUS
<1>4. SameLeaseAs(y, x) /\ y.phase = "watch"
  BY <1>2 DEF Run, SameLeaseAs
<1>5. RunFits(y, v)
  BY <1>3, <1>4 DEF RunFits
<1>. PICK P : P = {IF R!LeaseOf(p) = R!LeaseOf(w) THEN [p EXCEPT !.known = TRUE] ELSE p : p \in procs[r]}
  OBVIOUS
<1>6. procs' = [procs EXCEPT ![r] = P]
  BY DEF R!RunRecords
<1>7. \A p \in P : (p \in procs[r] /\ ~SameLeaseAs(p, x)) \/ Owns(y, p)
  <2> SUFFICES ASSUME NEW p0 \in procs[r], NEW p,
                      p = IF R!LeaseOf(p0) = R!LeaseOf(w) THEN [p0 EXCEPT !.known = TRUE] ELSE p0
               PROVE  (p \in procs[r] /\ ~SameLeaseAs(p, x)) \/ Owns(y, p)
    OBVIOUS
  <2>1. R!LeaseOf(p0) = R!LeaseOf(w) <=> SameLeaseAs(p0, x)
    BY DEF R!LeaseOf, R!Lease, SameLeaseAs
  <2>2. CASE SameLeaseAs(p0, x)
    <3>1. p = [p0 EXCEPT !.known = TRUE] /\ p0 \in Proc
      BY <1>2, <2>1, <2>2
    <3>2. p.job = p0.job /\ p.epoch = p0.epoch /\ p.known = TRUE
      BY <3>1 DEF Proc
    <3> QED BY <1>4, <2>2, <3>2 DEF Owns, SameLeaseAs
  <2>3. CASE ~SameLeaseAs(p0, x)
    BY <2>1, <2>3
  <2> QED BY <2>2, <2>3
<1>8. x.phase # "accepted" /\ y.phase # "accepted"
  BY <1>1, <1>4
<1>9. rows' = R!Changed(r, w, v)
  BY <1>1
<1>10. RunMoves(r, x, w, v, {y}) /\ OthersAlone(r)
  BY <1>1, <1>3, <1>4, <1>5, <1>6, <1>7, <1>8, <1>9, SteppedRun
<1> QED BY <1>10 DEF Moves

\* RunFinishes: the run goes on to its upload when no process of it is left.
LEMMA FinishesMoves ==
  ASSUME MachinesTyped, NEW r \in Runners, Tidy(r), NEW x \in runs[r], NEW w \in rows[r],
         SameLeaseAs(x, w), RunFits(x, w), R!RunFinishes(r, x, w)
  PROVE  Moves(r)
<1>1. /\ x.phase \in {"watch", "finish"} /\ runs' = R!Step(r, x, "upload")
      /\ x.phase = "watch" => R!Live(r, w) = {}
  BY DEF R!RunFinishes
<1>2. w \in Row /\ "UPLOADING" \in JobStates /\ x \in Run
  BY DEF MachinesTyped, JobStates, ActiveStates
<1>. PICK v : v = IF R!LocalState(w) = "RUNNING" THEN R!Emit(w, "UPLOADING") ELSE w
  OBVIOUS
<1>3. rows' = R!Changed(r, w, v) \/ (rows' = rows /\ v = w)
  BY DEF R!RunFinishes
<1>4. w.pid
  BY <1>1 DEF RunFits
<1>5. SameLeaseAs(v, w) /\ v.pid
  <2>1. SameLeaseAs(R!Emit(w, "UPLOADING"), w) /\ R!Emit(w, "UPLOADING").pid = w.pid
    BY <1>2, EmittedRow
  <2> QED BY <1>4, <2>1 DEF SameLeaseAs
<1>. PICK y : y = [x EXCEPT !.phase = "upload"]
  OBVIOUS
<1>6. SameLeaseAs(y, x) /\ y.phase = "upload"
  BY <1>2 DEF Run, SameLeaseAs
<1>7. RunFits(y, v)
  BY <1>5, <1>6 DEF RunFits
<1>. PICK P : P = IF x.phase = "watch" THEN procs[r] \ R!Reaped(r, w) ELSE procs[r]
  OBVIOUS
<1>8. procs' = [procs EXCEPT ![r] = P] /\ P \subseteq procs[r]
  <2>1. procs' = IF x.phase = "watch" THEN [procs EXCEPT ![r] = procs[r] \ R!Reaped(r, w)] ELSE procs
    BY DEF R!RunFinishes
  <2>2. procs = [procs EXCEPT ![r] = procs[r]]
    BY DEF MachinesTyped
  <2> QED BY <2>1, <2>2
<1>9. \A p \in procs[r] : ~SameLeaseAs(p, x)
  <2>1. CASE x.phase = "watch"
    <3>1. \A p \in procs[r] : R!LeaseOf(p) # R!LeaseOf(w)
      BY <1>1, <2>1 DEF R!Live
    <3> QED BY <3>1 DEF R!LeaseOf, R!Lease, SameLeaseAs
  <2>2. CASE x.phase = "finish"
    BY <2>2, NoProcs
  <2> QED BY <1>1, <2>1, <2>2
<1>10. \A p \in P : (p \in procs[r] /\ ~SameLeaseAs(p, x)) \/ Owns(y, p)
  BY <1>8, <1>9
<1>11. x.phase # "accepted" /\ y.phase # "accepted"
  BY <1>1, <1>6
<1>12. procs' = [procs EXCEPT ![r] = P]
  BY <1>8
<1>13. RunMoves(r, x, w, v, {y}) /\ OthersAlone(r)
  BY <1>1, <1>3, <1>5, <1>6, <1>7, <1>10, <1>11, <1>12, SteppedRun
<1> QED BY <1>13 DEF Moves

\* RunFails: the run ends after its processes were killed.
LEMMA FailsMoves ==
  ASSUME MachinesTyped, NEW r \in Runners, Tidy(r), NEW x \in runs[r], NEW w \in rows[r],
         SameLeaseAs(x, w), R!RunFails(r, x, w)
  PROVE  Moves(r)
<1>1. /\ x.phase \in {"watch", "finish", "upload"} /\ runs' = R!Ended(r, x)
      /\ procs' = [procs EXCEPT ![r] = @ \ (R!Killed(r, w) \cup R!Reaped(r, w))]
  BY DEF R!RunFails
<1>. PICK u : u = IF R!LocalState(w) = "RUNNING" THEN R!Emit(w, "UPLOADING") ELSE w
  OBVIOUS
<1>. PICK v : v = [R!Emit(u, "FAILED") EXCEPT !.done = TRUE]
  OBVIOUS
<1>2. rows' = R!Changed(r, w, v)
  BY DEF R!RunFails
<1>3. w \in Row /\ "UPLOADING" \in JobStates /\ "FAILED" \in JobStates
  BY DEF MachinesTyped, JobStates, ActiveStates, TerminalStates
<1>4. u \in Row /\ SameLeaseAs(u, w)
  <2>1. R!Emit(w, "UPLOADING") \in Row /\ SameLeaseAs(R!Emit(w, "UPLOADING"), w)
    BY <1>3, EmittedRow
  <2> QED BY <1>3, <2>1 DEF SameLeaseAs
<1>5. SameLeaseAs(v, w) /\ v.done
  <2>1. R!Emit(u, "FAILED") \in Row /\ SameLeaseAs(R!Emit(u, "FAILED"), u)
    BY <1>3, <1>4, EmittedRow
  <2>2. Marks(R!Emit(u, "FAILED"), v) /\ v.done
    BY <2>1, RowForms
  <2> QED BY <1>4, <2>1, <2>2 DEF Marks, SameLeaseAs
<1>. PICK X : X = R!Killed(r, w) \cup R!Reaped(r, w)
  OBVIOUS
<1>6. procs' = [procs EXCEPT ![r] = @ \ X]
  BY <1>1
<1>7. procs'[r] = procs[r] \ X
  BY <1>6 DEF MachinesTyped
<1>8. \A p \in procs'[r] : ~SameLeaseAs(p, x)
  <2> SUFFICES ASSUME NEW p \in procs[r], p \notin X, SameLeaseAs(p, x) PROVE FALSE
    BY <1>7
  <2>1. SameLeaseAs(p, w)
    BY DEF SameLeaseAs
  <2>2. p \in R!Killed(r, w)
    BY <2>1, KilledAll
  <2> QED BY <2>2
<1>9. x.phase # "accepted"
  BY <1>1
<1>10. RunMoves(r, x, w, v, {}) /\ OthersAlone(r)
  BY <1>1, <1>2, <1>5, <1>6, <1>8, <1>9, EndedRun
<1> QED BY <1>10 DEF Moves

\* Whoever is turned down by the fence has an ABANDON pending.
LEMMA FencedTells ==
  ASSUME RowInv, NEW r, NEW w, NEW j, NEW e, w.job = j, w.epoch = e,
         Fenced([job |-> j, runner |-> r, epoch |-> e])
  PROVE  Told(r, w)'
<1> DEFINE Due(cs, c) == /\ cs[c].type = "ABANDON" /\ cs[c].ack = "none"
                         /\ cs[c].runner = r /\ cs[c].job = j /\ cs[c].epoch = e
<1>1. cmds' = IF \E c \in DOMAIN cmds : Due(cmds, c) THEN cmds ELSE Issue(cmds, "ABANDON", r, j, e)
  BY DEF Fenced, Abandon
<1>2. \E c \in DOMAIN cmds' : Due(cmds', c)
  <2>1. CASE \E c \in DOMAIN cmds : Due(cmds, c)
    BY <1>1, <2>1
  <2>2. CASE ~\E c \in DOMAIN cmds : Due(cmds, c)
    <3> DEFINE new == [type |-> "ABANDON", runner |-> r, job |-> j, epoch |-> e, ack |-> "none"]
    <3>1. cmds' = Append(cmds, new)
      BY <1>1, <2>2 DEF Issue
    <3>2. /\ new.type = "ABANDON" /\ new.runner = r /\ new.job = j /\ new.epoch = e
          /\ new.ack = "none"
      OBVIOUS
    <3> HIDE DEF new
    <3>3. cmds \in Seq(Command)
      BY DEF RowInv
    <3>4. Len(cmds) + 1 \in DOMAIN cmds' /\ cmds'[Len(cmds) + 1] = new
      BY <3>1, <3>3
    <3> QED BY <3>2, <3>4
  <2> QED BY <2>1, <2>2
<1>3. PICK c \in DOMAIN cmds' : Due(cmds', c)
  BY <1>2
<1> QED BY <1>3 DEF Told, Pending

\* UploadBundle: the run ends with its row done, or parked with an ABANDON due.
LEMMA UploadsMoves ==
  ASSUME MachinesTyped, RowInv, NEW r \in Runners, Tidy(r), OneRow(r), UploadBundle(r)
  PROVE  Moves(r)
<1>1. PICK x \in runs[r] : \E w \in R!RowsFor(r, x.job, x.epoch) :
        \/ \E answer \in {"done", "conflict"} : R!RunUploads(r, x, w, answer)
        \/ R!RunUploads(r, x, w, "stale") /\ Fenced([job |-> w.job, runner |-> r, epoch |-> w.epoch])
  BY DEF UploadBundle
<1>2. PICK w \in R!RowsFor(r, x.job, x.epoch) :
        \/ \E answer \in {"done", "conflict"} : R!RunUploads(r, x, w, answer)
        \/ R!RunUploads(r, x, w, "stale") /\ Fenced([job |-> w.job, runner |-> r, epoch |-> w.epoch])
  BY <1>1
<1>3. w \in rows[r] /\ SameLeaseAs(x, w) /\ w \in Row
  BY DEF R!RowsFor, SameLeaseAs, MachinesTyped
<1>4. x.phase = "upload" /\ runs' = R!Ended(r, x) /\ procs' = procs
  BY <1>2 DEF R!RunUploads
<1>5. \A p \in procs'[r] : ~SameLeaseAs(p, x)
  BY <1>4, NoProcs
<1>6. ASSUME NEW v, SameLeaseAs(v, w), v.done \/ (v.pid /\ Told(r, v)'),
             rows' = R!Changed(r, w, v) \/ (rows' = rows /\ v = w)
      PROVE  Moves(r)
  <2>1. x.phase # "accepted"
    BY <1>4
  <2>. PICK X : X = {}
    OBVIOUS
  <2>2. procs' = [procs EXCEPT ![r] = @ \ X] \/ procs' = procs
    BY <1>4
  <2>3. RunMoves(r, x, w, v, {}) /\ OthersAlone(r)
    BY <1>3, <1>4, <1>5, <1>6, <2>1, <2>2, EndedRun
  <2> QED BY <2>3 DEF Moves
<1>7. CASE R!RunUploads(r, x, w, "done")
  <2>1. PICK to \in Verdicts \cup {"CANCELLED"} :
          rows' = R!Changed(r, w, [R!Emit(w, to) EXCEPT !.done = TRUE])
    BY <1>7 DEF R!RunUploads
  <2>2. to \in JobStates
    BY VerdictAssumption DEF JobStates, TerminalStates
  <2>. PICK v : v = [R!Emit(w, to) EXCEPT !.done = TRUE]
    OBVIOUS
  <2>3. R!Emit(w, to) \in Row /\ SameLeaseAs(R!Emit(w, to), w)
    BY <1>3, <2>2, EmittedRow
  <2>4. Marks(R!Emit(w, to), v) /\ v.done
    BY <2>3, RowForms
  <2>5. SameLeaseAs(v, w) /\ v.done
    BY <2>3, <2>4 DEF Marks, SameLeaseAs
  <2> QED BY <1>6, <2>1, <2>5
<1>8. CASE R!RunUploads(r, x, w, "conflict")
  <2>. PICK v : v = [w EXCEPT !.done = TRUE]
    OBVIOUS
  <2>1. rows' = R!Changed(r, w, v)
    BY <1>8 DEF R!RunUploads
  <2>2. Marks(w, v) /\ v.done
    BY <1>3, RowForms
  <2> QED BY <1>6, <2>1, <2>2 DEF Marks
<1>9. CASE R!RunUploads(r, x, w, "stale") /\ Fenced([job |-> w.job, runner |-> r, epoch |-> w.epoch])
  <2>1. rows' = rows
    BY <1>9 DEF R!RunUploads
  <2>. PICK j, e : j = w.job /\ e = w.epoch
    OBVIOUS
  <2>2. Told(r, w)'
    BY <1>9, FencedTells
  <2>3. w.pid
    <3>1. PICK u \in rows[r] : SameLeaseAs(x, u) /\ RunFits(x, u)
      BY DEF Tidy, RunsHaveRows
    <3>2. u = w
      BY <1>3, <3>1 DEF OneRow, SameLeaseAs
    <3>3. w.pid
      BY <1>4, <3>1, <3>2 DEF RunFits
    <3> QED BY <3>3
  <2>4. SameLeaseAs(w, w)
    BY DEF SameLeaseAs
  <2> QED BY <1>6, <2>1, <2>2, <2>3, <2>4
<1> QED BY <1>2, <1>7, <1>8, <1>9

\* A step of a run.
LEMMA RunStepMoves ==
  ASSUME MachinesTyped, NEW r \in Runners, Tidy(r), OneRow(r), R!RunStep(r)
  PROVE  Moves(r)
<1>1. PICK x \in runs[r] : \E w \in R!RowsFor(r, x.job, x.epoch) :
        \/ R!RunEndsEarly(r, x, w) \/ R!RunSpawn(r, x, w) \/ R!RunRecords(r, x, w)
        \/ R!RunFinishes(r, x, w) \/ R!RunFails(r, x, w)
  BY DEF R!RunStep
<1>2. PICK w \in R!RowsFor(r, x.job, x.epoch) :
        \/ R!RunEndsEarly(r, x, w) \/ R!RunSpawn(r, x, w) \/ R!RunRecords(r, x, w)
        \/ R!RunFinishes(r, x, w) \/ R!RunFails(r, x, w)
  BY <1>1
<1>3. w \in rows[r] /\ SameLeaseAs(x, w)
  BY DEF R!RowsFor, SameLeaseAs
<1>4. RunFits(x, w)
  <2>1. PICK u \in rows[r] : SameLeaseAs(x, u) /\ RunFits(x, u)
    BY DEF Tidy, RunsHaveRows
  <2>2. u = w
    BY <1>3, <2>1 DEF OneRow, SameLeaseAs
  <2> QED BY <2>1, <2>2
<1> QED BY <1>2, <1>3, <1>4, EndsEarlyMoves, SpawnMoves, RecordsMoves, FinishesMoves, FailsMoves

\* Older attempts are removed with their runs and processes before a run begins.
LEMMA BeginTidy ==
  ASSUME MachinesTyped, NEW r \in Runners, Tidy(r), OneRow(r), BeginAssigned(r), ToldStays
  PROVE  Tidy(r)' /\ OthersAlone(r)
<1>1. PICK x \in runs[r] :
        LET older == {w \in rows[r] : w.job = x.job /\ w.epoch < x.epoch} IN
        /\ x.phase = "accepted"
        /\ rows' = [rows EXCEPT ![r] = @ \ older]
        /\ procs' = [procs EXCEPT ![r] = @ \ UNION {R!Killed(r, w) : w \in older}]
        /\ runs' = [runs EXCEPT ![r] = {y \in @ \ {x} : y.job = x.job => y.epoch > x.epoch}
                                       \cup {[x EXCEPT !.phase = "prepare"]}]
  BY DEF BeginAssigned, R!BeginAssigned
<1>. PICK older, gone, kept, z :
        /\ older = {w \in rows[r] : w.job = x.job /\ w.epoch < x.epoch}
        /\ gone = UNION {R!Killed(r, w) : w \in older}
        /\ kept = {y \in runs[r] \ {x} : y.job = x.job => y.epoch > x.epoch}
        /\ z = [x EXCEPT !.phase = "prepare"]
  OBVIOUS
<1>2. /\ rows \in [Runners -> SUBSET Row] /\ runs \in [Runners -> SUBSET Run]
      /\ procs \in [Runners -> SUBSET Proc]
  BY DEF MachinesTyped
<1>3. /\ rows'[r] = rows[r] \ older /\ procs'[r] = procs[r] \ gone /\ runs'[r] = kept \cup {z}
      /\ OthersAlone(r)
  <2>1. rows'[r] = rows[r] \ older /\ \A q \in Runners \ {r} : rows'[q] = rows[q]
    BY <1>1, <1>2
  <2>2. procs'[r] = procs[r] \ gone /\ \A q \in Runners \ {r} : procs'[q] = procs[q]
    BY <1>1, <1>2
  <2>3. runs' = [runs EXCEPT ![r] = kept \cup {z}]
    BY <1>1
  <2>4. runs'[r] = kept \cup {z} /\ \A q \in Runners \ {r} : runs'[q] = runs[q]
    BY <1>2, <2>3, MachineEntry
  <2> QED BY <2>1, <2>2, <2>4 DEF OthersAlone
<1>4. SameLeaseAs(z, x) /\ z.phase = "prepare" /\ x.phase = "accepted"
  BY <1>1, <1>2 DEF Run, SameLeaseAs
<1>5. PICK w \in rows[r] : SameLeaseAs(x, w) /\ RunFits(x, w)
  BY DEF Tidy, RunsHaveRows
<1>6. /\ \A u \in rows[r] : u.job \in Jobs /\ u.epoch \in Nat
      /\ \A y \in runs[r] : y.job \in Jobs /\ y.epoch \in Nat
  BY <1>2 DEF Row, Run
<1>7. w \in rows'[r] /\ RunFits(z, w) /\ SameLeaseAs(z, w)
  <2>1. ~(w.epoch < x.epoch)
    BY <1>5, <1>6 DEF SameLeaseAs
  <2>2. RunFits(z, w)
    BY <1>4, <1>5 DEF RunFits
  <2> QED BY <1>3, <1>4, <1>5, <2>1, <2>2 DEF SameLeaseAs
<1>8. \A y \in kept : y \in runs[r] /\ y # x /\ ~SameLeaseAs(y, x)
  BY DEF Tidy, OneRun
<1>9. ASSUME NEW y \in runs[r], y # x, y \notin kept
      PROVE  y.job = x.job /\ y.epoch < x.epoch
  <2>1. y.job = x.job /\ ~(y.epoch > x.epoch)
    BY <1>9
  <2>2. y.epoch # x.epoch
    BY <1>9, <2>1 DEF Tidy, OneRun, SameLeaseAs
  <2> QED BY <1>6, <2>1, <2>2
<1>10. RunsHaveRows(r)'
  <2> SUFFICES ASSUME NEW y \in runs'[r] PROVE \E u \in rows'[r] : SameLeaseAs(y, u) /\ RunFits(y, u)
    BY DEF RunsHaveRows, SameLeaseAs, RunFits
  <2>1. CASE y = z
    BY <1>7, <2>1
  <2>2. CASE y \in kept
    <3>1. PICK u \in rows[r] : SameLeaseAs(y, u) /\ RunFits(y, u)
      BY <2>2 DEF Tidy, RunsHaveRows
    <3>2. ~(u.job = x.job /\ u.epoch < x.epoch)
      <4>1. y.job = u.job /\ y.epoch = u.epoch /\ (y.job = x.job => y.epoch > x.epoch)
        BY <2>2, <3>1 DEF SameLeaseAs
      <4> QED BY <1>6, <4>1
    <3> QED BY <1>3, <3>1, <3>2
  <2> QED BY <1>3, <2>1, <2>2
<1>11. OneRun(r)'
  <2> SUFFICES ASSUME NEW y1 \in runs'[r], NEW y2 \in runs'[r], SameLeaseAs(y1, y2)
               PROVE  y1 = y2
    BY DEF OneRun, SameLeaseAs
  <2>1. CASE y1 \in kept /\ y2 \in kept
    BY <2>1 DEF Tidy, OneRun
  <2>2. CASE y1 = z /\ y2 \in kept
    BY <1>4, <1>8, <2>2 DEF SameLeaseAs
  <2>3. CASE y2 = z /\ y1 \in kept
    BY <1>4, <1>8, <2>3 DEF SameLeaseAs
  <2> QED BY <1>3, <2>1, <2>2, <2>3
<1>12. ProcsHaveRuns(r)'
  <2> SUFFICES ASSUME NEW p \in procs'[r] PROVE \E y \in runs'[r] : Owns(y, p)
    BY DEF ProcsHaveRuns, Owns, SameLeaseAs
  <2>1. p \in procs[r] /\ p \notin gone
    BY <1>3
  <2>2. PICK y \in runs[r] : Owns(y, p)
    BY <2>1 DEF Tidy, ProcsHaveRuns
  <2>3. y # x
    BY <1>4, <2>2 DEF Owns
  <2>4. CASE y \in kept
    BY <1>3, <2>2, <2>4
  <2>5. CASE y \notin kept
    <3>1. y.job = x.job /\ y.epoch < x.epoch
      BY <1>9, <2>3, <2>5
    <3>2. PICK u \in rows[r] : SameLeaseAs(y, u)
      BY DEF Tidy, RunsHaveRows
    <3>3. u \in older /\ SameLeaseAs(p, u)
      BY <2>2, <3>1, <3>2 DEF SameLeaseAs, Owns
    <3>4. p \in R!Killed(r, u)
      BY <2>1, <3>2, <3>3, KilledAll
    <3> QED BY <2>1, <3>3, <3>4
  <2> QED BY <2>4, <2>5
<1>13. NoElder(r)'
  <2> SUFFICES ASSUME NEW a \in rows'[r], NEW b \in rows'[r], b.job = a.job, b.epoch < a.epoch
               PROVE  ~a.pid /\ \A y \in runs'[r] : SameLeaseAs(y, a) => y.phase = "accepted"
    BY DEF NoElder, SameLeaseAs
  <2>1. a \in rows[r] /\ b \in rows[r] /\ b \notin older
    BY <1>3
  <2>2. ~a.pid /\ \A y \in runs[r] : SameLeaseAs(y, a) => y.phase = "accepted"
    BY <2>1 DEF Tidy, NoElder
  <2>3. ~SameLeaseAs(z, a)
    BY <1>4, <2>1 DEF SameLeaseAs
  <2> QED BY <1>3, <2>2, <2>3
<1>14. Parked(r)'
  <2> SUFFICES ASSUME NEW u \in rows'[r], ~u.done, ~HasRun(r, u)'
               PROVE  u.pid /\ Told(r, u)'
    BY DEF Parked, HasRun, Told
  <2>1. u \in rows[r] /\ u \notin older
    BY <1>3
  <2>2. \A y \in kept \cup {z} : ~SameLeaseAs(y, u)
    BY <1>3 DEF HasRun
  <2>3. ~HasRun(r, u)
    <3> SUFFICES ASSUME NEW y \in runs[r], SameLeaseAs(y, u) PROVE FALSE
      BY DEF HasRun
    <3>1. y # x
      BY <1>4, <2>2 DEF SameLeaseAs
    <3>2. y \notin kept
      BY <2>2
    <3>3. y.job = x.job /\ y.epoch < x.epoch
      BY <1>9, <3>1, <3>2
    <3> QED BY <2>1, <3>3 DEF SameLeaseAs
  <2> QED BY <2>1, <2>3 DEF Tidy, Parked, ToldStays
<1> QED BY <1>3, <1>10, <1>11, <1>12, <1>13, <1>14 DEF Tidy

-----------------------------------------------------------------------------
(* A command is handled *)

\* One row marked at most, and processes let go.
LEMMA MarkedAlike ==
  ASSUME MachinesTyped, NEW r \in Runners, UNCHANGED runs,
         UNCHANGED rows \/ \E w \in rows[r] : \E v : Marks(w, v) /\ rows' = R!Changed(r, w, v),
         UNCHANGED procs \/ \E X : procs' = [procs EXCEPT ![r] = @ \ X]
  PROVE  Alike(r) /\ OthersAlone(r)
<1>1. rows \in [Runners -> SUBSET Row] /\ procs \in [Runners -> SUBSET Proc]
  BY DEF MachinesTyped
<1>2. procs'[r] \subseteq procs[r] /\ \A q \in Runners \ {r} : procs'[q] = procs[q]
  BY <1>1
<1>3. \A w : Marks(w, w)
  BY DEF Marks, SameLeaseAs
<1>4. CASE UNCHANGED rows
  BY <1>2, <1>3, <1>4 DEF Alike, OthersAlone
<1>5. CASE \E w \in rows[r] : \E v : Marks(w, v) /\ rows' = R!Changed(r, w, v)
  <2>1. PICK w \in rows[r] : \E v : Marks(w, v) /\ rows' = R!Changed(r, w, v)
    BY <1>5
  <2>2. PICK v : Marks(w, v) /\ rows' = R!Changed(r, w, v)
    BY <2>1
  <2>3. rows'[r] = (rows[r] \ {w}) \cup {v} /\ \A q \in Runners \ {r} : rows'[q] = rows[q]
    BY <1>1, <2>2, MachineEntry DEF R!Changed
  <2>4. /\ \A u \in rows'[r] : \E u0 \in rows[r] : Marks(u0, u)
        /\ \A u0 \in rows[r] : \E u \in rows'[r] : Marks(u0, u)
    BY <1>3, <2>2, <2>3
  <2> QED BY <1>2, <2>3, <2>4 DEF Alike, OthersAlone
<1> QED BY <1>4, <1>5

\* A first daemon has lost no run, so there is none to resume.
LEMMA BegunSame ==
  ASSUME NEW r, Tidy(r), NEW w \in rows[r], R!Fresh(w), NEW p
  PROVE  R!Begun(r, w, p) = runs[r]
<1>1. CASE w.done \/ R!RunsFor(r, w.job, w.epoch) # {}
  BY <1>1 DEF R!Begun
<1>2. CASE ~w.done /\ R!RunsFor(r, w.job, w.epoch) = {}
  <2>1. ~HasRun(r, w)
    BY <1>2 DEF HasRun, SameLeaseAs, R!RunsFor
  <2>2. w.pid
    BY <1>2, <2>1 DEF Tidy, Parked
  <2> QED BY <2>2 DEF R!Fresh
<1> QED BY <1>1, <1>2

\* Nor does a replayed ASSIGN resume one.
LEMMA ResumedSame ==
  ASSUME NEW r, Tidy(r), NEW j, NEW e
  PROVE  R!Resumed(r, j, e) = runs[r]
<1>1. \A w \in {v \in R!RowsFor(r, j, e) : R!Fresh(v)} : R!Begun(r, w, "reprepare") = runs[r]
  BY BegunSame DEF R!RowsFor
<1> QED BY <1>1 DEF R!Resumed

\* A lease that is given is newer than the leases of the job in the journal.
LEMMA NewestGiven ==
  ASSUME StepInv, HandledInv, NEW r \in Runners, NEW c \in sync[r].ids, cmds[c].type = "ASSIGN",
         c \notin DOMAIN applied[r], NEW v \in rows[r], v.job = cmds[c].job
  PROVE  v.epoch < cmds[c].epoch
<1>1. CommandsKnown /\ LeasesGiven /\ TypeOK
  BY StepParts
<1>2. PICK d \in DOMAIN applied[r] : /\ cmds[d].type = "ASSIGN" /\ cmds[d].job = v.job
                                     /\ cmds[d].epoch = v.epoch
  BY <1>1 DEF LeasesGiven, Given
<1>3. c \in DOMAIN cmds /\ d \in DOMAIN cmds
  BY <1>1 DEF CommandsKnown
<1>4. c \in Nat /\ d \in Nat
  BY <1>1, <1>3, CmdDomain DEF TypeOK
<1>5. ~(c < d)
  BY DEF HandledInv, InOrder
<1>6. d < c
  BY <1>4, <1>5
<1> QED BY <1>2, <1>3, <1>6 DEF HandledInv, TableInv, AssignsRise

\* A lease the machine did not know: its row is the newest, and its run waits.
LEMMA AcceptTidy ==
  ASSUME MachinesTyped, NEW r \in Runners, Tidy(r), NEW j \in Jobs, NEW e \in Nat, AddsRow(r, j, e),
         \A v \in rows[r] : v.job = j => v.epoch < e,
         runs' = [runs EXCEPT ![r] = @ \cup {[job |-> j, epoch |-> e, phase |-> "accepted"]}],
         UNCHANGED procs, ToldStays
  PROVE  Tidy(r)' /\ OthersAlone(r)
<1>. PICK n, x : n = R!NewRow(j, e) /\ x = [job |-> j, epoch |-> e, phase |-> "accepted"]
  OBVIOUS
<1>1. /\ \A q \in Runners \ {r} : rows'[q] = rows[q]
      /\ n.job = j /\ n.epoch = e /\ n.events = << >>
      /\ rows'[r] = rows[r] \cup {n} /\ \A w \in rows[r] : ~SameLeaseAs(w, n)
  BY AddedRow
<1>2. n.pid = FALSE /\ x.job = j /\ x.epoch = e /\ x.phase = "accepted"
  BY DEF R!NewRow
<1>3. runs'[r] = runs[r] \cup {x} /\ \A q \in Runners \ {r} : runs'[q] = runs[q]
  <2>1. runs' = [runs EXCEPT ![r] = runs[r] \cup {x}]
    OBVIOUS
  <2> QED BY <2>1, MachineEntry DEF MachinesTyped
<1>4. \A u \in rows[r] : u.epoch \in Nat
  BY DEF MachinesTyped, Row
<1>5. \A y \in runs[r] : ~SameLeaseAs(y, n)
  <2> SUFFICES ASSUME NEW y \in runs[r], SameLeaseAs(y, n) PROVE FALSE
    OBVIOUS
  <2>1. PICK w \in rows[r] : SameLeaseAs(y, w)
    BY DEF Tidy, RunsHaveRows
  <2> QED BY <1>1, <2>1 DEF SameLeaseAs
<1>6. SameLeaseAs(x, n) /\ RunFits(x, n)
  BY <1>1, <1>2 DEF SameLeaseAs, RunFits
<1>7. RunsHaveRows(r)'
  <2> SUFFICES ASSUME NEW y \in runs'[r] PROVE \E u \in rows'[r] : SameLeaseAs(y, u) /\ RunFits(y, u)
    BY DEF RunsHaveRows, SameLeaseAs, RunFits
  <2>1. CASE y = x
    BY <1>1, <1>6, <2>1
  <2>2. CASE y \in runs[r]
    BY <1>1, <2>2 DEF Tidy, RunsHaveRows
  <2> QED BY <1>3, <2>1, <2>2
<1>8. OneRun(r)'
  <2> SUFFICES ASSUME NEW y \in runs'[r], NEW z \in runs'[r], SameLeaseAs(y, z)
               PROVE  y = z
    BY DEF OneRun, SameLeaseAs
  <2>1. CASE y \in runs[r] /\ z \in runs[r]
    BY <2>1 DEF Tidy, OneRun
  <2>2. ~(y = x /\ z \in runs[r]) /\ ~(z = x /\ y \in runs[r])
    BY <1>5, <1>6 DEF SameLeaseAs
  <2> QED BY <1>3, <2>1, <2>2
<1>9. ProcsHaveRuns(r)'
  <2> SUFFICES ASSUME NEW p \in procs[r] PROVE \E y \in runs'[r] : Owns(y, p)
    BY DEF ProcsHaveRuns, Owns, SameLeaseAs
  <2> QED BY <1>3 DEF Tidy, ProcsHaveRuns
<1>10. NoElder(r)'
  <2> SUFFICES ASSUME NEW a \in rows'[r], NEW b \in rows'[r], b.job = a.job, b.epoch < a.epoch
               PROVE  ~a.pid /\ \A y \in runs'[r] : SameLeaseAs(y, a) => y.phase = "accepted"
    BY DEF NoElder, SameLeaseAs
  <2>1. CASE a = n
    <3>1. \A y \in runs[r] : ~SameLeaseAs(y, a)
      BY <1>5, <2>1
    <3> QED BY <1>2, <1>3, <2>1, <3>1
  <2>2. CASE a \in rows[r]
    <3>1. b \in rows[r]
      <4> SUFFICES ASSUME b = n PROVE FALSE
        BY <1>1
      <4>1. a.epoch < e /\ a.epoch \in Nat /\ b.epoch = e
        BY <1>1, <1>4, <2>2
      <4> QED BY <4>1
    <3>2. ~a.pid /\ \A y \in runs[r] : SameLeaseAs(y, a) => y.phase = "accepted"
      BY <2>2, <3>1 DEF Tidy, NoElder
    <3> QED BY <1>2, <1>3, <3>2
  <2> QED BY <1>1, <2>1, <2>2
<1>11. Parked(r)'
  <2> SUFFICES ASSUME NEW u \in rows'[r], ~u.done, ~HasRun(r, u)'
               PROVE  u.pid /\ Told(r, u)'
    BY DEF Parked, HasRun, Told
  <2>1. u # n /\ ~HasRun(r, u)
    BY <1>3, <1>6 DEF HasRun
  <2> QED BY <1>1, <2>1 DEF Tidy, Parked, ToldStays
<1>12. OthersAlone(r)
  BY <1>1, <1>3 DEF OthersAlone
<1> QED BY <1>7, <1>8, <1>9, <1>10, <1>11, <1>12 DEF Tidy

\* An ABANDON takes the lease's row, run and processes away together.
LEMMA AbandonTidy ==
  ASSUME MachinesTyped, NEW r \in Runners, Tidy(r), NEW id, NEW j, NEW e,
         R!HandleAbandon(r, id, j, e), ToldStays
  PROVE  Tidy(r)' /\ OthersAlone(r)
<1>. PICK X, Y, Z :
        /\ X = R!RowsFor(r, j, e) /\ Y = R!RunsFor(r, j, e)
        /\ Z = UNION {R!Killed(r, w) \cup
                 (IF R!HigherEpochLive(r, w) THEN {} ELSE R!Reaped(r, w)) : w \in R!RowsFor(r, j, e)}
  OBVIOUS
<1>1. /\ rows' = [rows EXCEPT ![r] = @ \ X] /\ runs' = [runs EXCEPT ![r] = @ \ Y]
      /\ procs' = [procs EXCEPT ![r] = @ \ Z]
  BY DEF R!HandleAbandon
<1>2. /\ rows'[r] = rows[r] \ X /\ runs'[r] = runs[r] \ Y /\ procs'[r] = procs[r] \ Z
      /\ OthersAlone(r)
  <2>1. rows'[r] = rows[r] \ X /\ \A q \in Runners \ {r} : rows'[q] = rows[q]
    BY <1>1 DEF MachinesTyped
  <2>2. runs'[r] = runs[r] \ Y /\ \A q \in Runners \ {r} : runs'[q] = runs[q]
    BY <1>1 DEF MachinesTyped
  <2>3. procs'[r] = procs[r] \ Z /\ \A q \in Runners \ {r} : procs'[q] = procs[q]
    BY <1>1 DEF MachinesTyped
  <2> QED BY <2>1, <2>2, <2>3 DEF OthersAlone
<1>3. /\ \A w \in rows[r] : w \in X <=> w.job = j /\ w.epoch = e
      /\ \A x \in runs[r] : x \in Y <=> x.job = j /\ x.epoch = e
  BY DEF R!RowsFor, R!RunsFor
<1>4. RunsHaveRows(r)'
  <2> SUFFICES ASSUME NEW y \in runs'[r] PROVE \E u \in rows'[r] : SameLeaseAs(y, u) /\ RunFits(y, u)
    BY DEF RunsHaveRows, SameLeaseAs, RunFits
  <2>1. PICK u \in rows[r] : SameLeaseAs(y, u) /\ RunFits(y, u)
    BY <1>2 DEF Tidy, RunsHaveRows
  <2>2. u \notin X
    BY <1>2, <1>3, <2>1 DEF SameLeaseAs
  <2> QED BY <1>2, <2>1, <2>2
<1>5. OneRun(r)'
  BY <1>2 DEF Tidy, OneRun, SameLeaseAs
<1>6. ProcsHaveRuns(r)'
  <2> SUFFICES ASSUME NEW p \in procs'[r] PROVE \E y \in runs'[r] : Owns(y, p)
    BY DEF ProcsHaveRuns, Owns, SameLeaseAs
  <2>1. PICK y \in runs[r] : Owns(y, p)
    BY <1>2 DEF Tidy, ProcsHaveRuns
  <2>2. y \notin Y
    <3> SUFFICES ASSUME y \in Y PROVE FALSE
      OBVIOUS
    <3>1. PICK u \in rows[r] : SameLeaseAs(y, u)
      BY DEF Tidy, RunsHaveRows
    <3>2. u \in X /\ SameLeaseAs(p, u)
      BY <1>3, <2>1, <3>1 DEF SameLeaseAs, Owns
    <3>3. p \in procs[r] /\ p \notin Z
      BY <1>2
    <3>4. p \in R!Killed(r, u)
      BY <3>1, <3>2, <3>3, KilledAll
    <3> QED BY <3>2, <3>3, <3>4
  <2> QED BY <1>2, <2>1, <2>2
<1>7. NoElder(r)'
  BY <1>2 DEF Tidy, NoElder, SameLeaseAs
<1>8. Parked(r)'
  <2> SUFFICES ASSUME NEW u \in rows'[r], ~u.done, ~HasRun(r, u)'
               PROVE  u.pid /\ Told(r, u)'
    BY DEF Parked, HasRun, Told
  <2>1. u \in rows[r] /\ u \notin X
    BY <1>2
  <2>2. ~HasRun(r, u)
    BY <1>2, <1>3, <2>1 DEF HasRun, SameLeaseAs
  <2> QED BY <2>1, <2>2 DEF Tidy, Parked, ToldStays
<1> QED BY <1>2, <1>4, <1>5, <1>6, <1>7, <1>8 DEF Tidy

\* A parked row whose final status is readopted gets a run; it has no process left.
LEMMA FinishTidy ==
  ASSUME MachinesTyped, NEW r \in Runners, Tidy(r), NEW w \in rows[r], w.pid, ~HasRun(r, w),
         NEW x, SameLeaseAs(x, w), x.phase = "finish", runs' = [runs EXCEPT ![r] = @ \cup {x}],
         UNCHANGED <<rows, procs>>, ToldStays
  PROVE  Tidy(r)' /\ OthersAlone(r)
<1>1. runs'[r] = runs[r] \cup {x} /\ \A q \in Runners \ {r} : runs'[q] = runs[q]
  BY DEF MachinesTyped
<1>2. \A y \in runs[r] : ~SameLeaseAs(y, x)
  BY DEF HasRun, SameLeaseAs
<1>3. RunFits(x, w)
  BY DEF RunFits
<1>4. RunsHaveRows(r)'
  <2> SUFFICES ASSUME NEW y \in runs'[r] PROVE \E u \in rows[r] : SameLeaseAs(y, u) /\ RunFits(y, u)
    BY DEF RunsHaveRows, SameLeaseAs, RunFits
  <2> QED BY <1>1, <1>3 DEF Tidy, RunsHaveRows
<1>5. OneRun(r)'
  <2> SUFFICES ASSUME NEW y \in runs'[r], NEW z \in runs'[r], SameLeaseAs(y, z)
               PROVE  y = z
    BY DEF OneRun, SameLeaseAs
  <2>1. CASE y \in runs[r] /\ z \in runs[r]
    BY <2>1 DEF Tidy, OneRun
  <2>2. ~(y = x /\ z \in runs[r]) /\ ~(z = x /\ y \in runs[r])
    BY <1>2 DEF SameLeaseAs
  <2> QED BY <1>1, <2>1, <2>2
<1>6. ProcsHaveRuns(r)'
  <2> SUFFICES ASSUME NEW p \in procs[r] PROVE \E y \in runs'[r] : Owns(y, p)
    BY DEF ProcsHaveRuns, Owns, SameLeaseAs
  <2> QED BY <1>1 DEF Tidy, ProcsHaveRuns
<1>7. NoElder(r)'
  <2> SUFFICES ASSUME NEW a \in rows[r], NEW b \in rows[r], b.job = a.job, b.epoch < a.epoch
               PROVE  ~a.pid /\ \A y \in runs'[r] : SameLeaseAs(y, a) => y.phase = "accepted"
    BY DEF NoElder, SameLeaseAs
  <2>1. ~a.pid /\ \A y \in runs[r] : SameLeaseAs(y, a) => y.phase = "accepted"
    BY DEF Tidy, NoElder
  <2>2. ~SameLeaseAs(x, a)
    <3> SUFFICES ASSUME SameLeaseAs(x, a) PROVE FALSE
      OBVIOUS
    <3>1. b.job = w.job /\ b.epoch < w.epoch
      BY DEF SameLeaseAs
    <3> QED BY <3>1 DEF Tidy, NoElder
  <2> QED BY <1>1, <2>1, <2>2
<1>8. Parked(r)'
  <2> SUFFICES ASSUME NEW u \in rows[r], ~u.done, ~HasRun(r, u)'
               PROVE  u.pid /\ Told(r, u)'
    BY DEF Parked, HasRun, Told
  <2>1. ~HasRun(r, u)
    BY <1>1 DEF HasRun
  <2> QED BY <2>1 DEF Tidy, Parked, ToldStays
<1>9. OthersAlone(r)
  BY <1>1 DEF OthersAlone
<1> QED BY <1>4, <1>5, <1>6, <1>7, <1>8, <1>9 DEF Tidy

\* A step that marks one row at most and lets processes go keeps the machine tidy.
LEMMA MarkedTidy ==
  ASSUME MachinesTyped, NEW r \in Runners, Tidy(r), ToldStays, UNCHANGED runs,
         UNCHANGED rows \/ \E w \in rows[r] : \E v : Marks(w, v) /\ rows' = R!Changed(r, w, v),
         UNCHANGED procs \/ \E X : procs' = [procs EXCEPT ![r] = @ \ X]
  PROVE  Tidy(r)' /\ OthersAlone(r)
<1>1. Alike(r) /\ OthersAlone(r)
  BY MarkedAlike
<1> QED BY <1>1, AlikeTidy

\* A CANCEL ends the run that has not started, or marks the row.
LEMMA CancelTidy ==
  ASSUME MachinesTyped, NEW r \in Runners, Tidy(r), OneRow(r), ToldStays, NEW id, NEW j, NEW e,
         R!HandleCancel(r, id, j, e)
  PROVE  Tidy(r)' /\ OthersAlone(r)
<1>1. UNCHANGED procs
  BY DEF R!HandleCancel
<1>2. CASE UNCHANGED <<rows, runs>>
  BY <1>1, <1>2, MarkedTidy
<1>3. CASE \E w \in R!RowsFor(r, j, e), x \in R!RunsFor(r, j, e) :
             /\ x.phase \in {"prepare", "reprepare"}
             /\ rows' = R!Changed(r, w, [R!Emit(w, "CANCELLED") EXCEPT !.cancel = TRUE, !.done = TRUE])
             /\ runs' = R!Ended(r, x)
  <2>1. PICK w \in R!RowsFor(r, j, e), x \in R!RunsFor(r, j, e) :
             /\ x.phase \in {"prepare", "reprepare"}
             /\ rows' = R!Changed(r, w, [R!Emit(w, "CANCELLED") EXCEPT !.cancel = TRUE, !.done = TRUE])
             /\ runs' = R!Ended(r, x)
    BY <1>3
  <2>2. w \in rows[r] /\ x \in runs[r] /\ SameLeaseAs(x, w)
    BY DEF R!RowsFor, R!RunsFor, SameLeaseAs
  <2>. PICK u, v : u = R!Emit(w, "CANCELLED") /\ v = [u EXCEPT !.cancel = TRUE, !.done = TRUE]
    OBVIOUS
  <2>3. SameLeaseAs(v, w) /\ v.done
    <3>1. w \in Row /\ "CANCELLED" \in JobStates
      BY <2>2 DEF MachinesTyped, JobStates, TerminalStates
    <3>2. u \in Row /\ SameLeaseAs(u, w)
      BY <3>1, EmittedRow
    <3>3. SameLeaseAs(v, u) /\ v.done
      BY <3>2, RowForms
    <3> QED BY <3>2, <3>3 DEF SameLeaseAs
  <2>4. rows' = R!Changed(r, w, v)
    BY <2>1
  <2>5. \A p \in procs'[r] : ~SameLeaseAs(p, x)
    BY <1>1, <2>1, <2>2, NoProcs
  <2>6. x.phase # "accepted" /\ procs' = procs
    BY <1>1, <2>1
  <2>7. RunMoves(r, x, w, v, {}) /\ OthersAlone(r)
    BY <2>1, <2>2, <2>3, <2>4, <2>5, <2>6, EndedRun
  <2> QED BY <2>7, RunMovesTidy
<1>4. CASE UNCHANGED runs /\ \E w \in R!RowsFor(r, j, e) :
             rows' = rows \/ rows' = R!Changed(r, w, [w EXCEPT !.cancel = TRUE])
  <2>1. PICK w \in R!RowsFor(r, j, e) :
             rows' = rows \/ rows' = R!Changed(r, w, [w EXCEPT !.cancel = TRUE])
    BY <1>4
  <2>2. w \in rows[r] /\ w \in Row
    BY DEF R!RowsFor, MachinesTyped
  <2>. PICK v : v = [w EXCEPT !.cancel = TRUE]
    OBVIOUS
  <2>3. Marks(w, v)
    BY <2>2, RowForms
  <2>4. UNCHANGED rows \/ rows' = R!Changed(r, w, v)
    BY <2>1
  <2> QED BY <1>1, <1>4, <2>2, <2>3, <2>4, MarkedTidy
<1> QED BY <1>2, <1>3, <1>4 DEF R!HandleCancel

\* A READOPT marks a row done, or gives a parked row its last run.
LEMMA ReadoptTidy ==
  ASSUME MachinesTyped, NEW r \in Runners, Tidy(r), ToldStays, NEW id, NEW j, NEW e,
         R!HandleReadopt(r, id, j, e)
  PROVE  Tidy(r)' /\ OthersAlone(r)
<1>1. CASE UNCHANGED <<rows, runs, procs>>
  BY <1>1, MarkedTidy
<1>2. ASSUME NEW w \in R!RowsFor(r, j, e), R!ReadoptOk(r, w), UNCHANGED procs
      PROVE  Tidy(r)' /\ OthersAlone(r)
  <2>1. w \in rows[r] /\ w \in Row
    BY <1>2 DEF R!RowsFor, MachinesTyped
  <2>2. CASE UNCHANGED <<rows, runs>>
    BY <1>1, <1>2, <2>2
  <2>3. CASE rows' = R!Changed(r, w, [w EXCEPT !.done = TRUE]) /\ UNCHANGED runs
    <3>. PICK v : v = [w EXCEPT !.done = TRUE]
      OBVIOUS
    <3>1. Marks(w, v) /\ rows' = R!Changed(r, w, v)
      BY <2>1, <2>3, RowForms
    <3> QED BY <1>2, <2>1, <2>3, <3>1, MarkedTidy
  <2>4. CASE R!Fresh(w) /\ runs' = [runs EXCEPT ![r] = R!Begun(r, w, "reprepare")] /\ UNCHANGED rows
    <3>1. R!Begun(r, w, "reprepare") = runs[r]
      BY <2>1, <2>4, BegunSame
    <3>2. runs' = runs
      BY <2>4, <3>1 DEF MachinesTyped
    <3> QED BY <1>2, <2>2, <2>4, <3>2
  <2>5. CASE /\ w.pid /\ UNCHANGED rows
             /\ runs' = [runs EXCEPT ![r] = R!Begun(r, w, IF R!Live(r, w) # {} THEN "watch" ELSE "finish")]
    <3>. PICK ph : ph = IF R!Live(r, w) # {} THEN "watch" ELSE "finish"
      OBVIOUS
    <3>1. CASE R!RunsFor(r, w.job, w.epoch) # {} \/ w.done
      <4>1. R!Begun(r, w, ph) = runs[r]
        BY <3>1 DEF R!Begun
      <4>2. runs' = runs
        BY <2>5, <4>1 DEF MachinesTyped
      <4> QED BY <1>2, <2>2, <2>5, <4>2
    <3>2. CASE ~(R!RunsFor(r, w.job, w.epoch) # {} \/ w.done)
      <4>1. ~HasRun(r, w)
        BY <3>2 DEF HasRun, SameLeaseAs, R!RunsFor
      <4>2. R!Live(r, w) = {}
        <5> SUFFICES ASSUME NEW p \in R!Live(r, w) PROVE FALSE
          OBVIOUS
        <5>1. p \in procs[r] /\ SameLeaseAs(p, w)
          BY DEF R!Live, R!LeaseOf, R!Lease, SameLeaseAs
        <5>2. PICK y \in runs[r] : Owns(y, p)
          BY <5>1 DEF Tidy, ProcsHaveRuns
        <5> QED BY <4>1, <5>1, <5>2 DEF HasRun, Owns, SameLeaseAs
      <4>. PICK x : x = [job |-> w.job, epoch |-> w.epoch, phase |-> "finish"]
        OBVIOUS
      <4>3. SameLeaseAs(x, w) /\ x.phase = "finish"
        BY DEF SameLeaseAs
      <4>4. R!Begun(r, w, ph) = runs[r] \cup {x}
        <5>1. ph = "finish"
          BY <4>2
        <5> QED BY <3>2, <5>1 DEF R!Begun
      <4>5. runs' = [runs EXCEPT ![r] = @ \cup {x}]
        BY <2>5, <4>4
      <4> QED BY <1>2, <2>1, <2>5, <4>1, <4>3, <4>5, FinishTidy
    <3> QED BY <3>1, <3>2
  <2> QED BY <1>2, <2>2, <2>3, <2>4, <2>5 DEF R!ReadoptOk
<1>3. ASSUME NEW w \in R!RowsFor(r, j, e), R!ReadoptRejects(r, w)
      PROVE  Tidy(r)' /\ OthersAlone(r)
  <2>1. w \in rows[r] /\ w \in Row
    BY <1>3 DEF R!RowsFor, MachinesTyped
  <2>. PICK v : v = [w EXCEPT !.done = TRUE]
    OBVIOUS
  <2>2. Marks(w, v) /\ rows' = R!Changed(r, w, v) /\ UNCHANGED runs
    BY <1>3, <2>1, RowForms DEF R!ReadoptRejects
  <2>3. \E X : procs' = [procs EXCEPT ![r] = @ \ X]
    BY <1>3 DEF R!ReadoptRejects
  <2> QED BY <2>1, <2>2, <2>3, MarkedTidy
<1>4. \/ UNCHANGED <<rows, runs, procs>>
      \/ \E w \in R!RowsFor(r, j, e) :
           \/ R!ReadoptOk(r, w) /\ UNCHANGED procs
           \/ R!ReadoptRejects(r, w)
  BY DEF R!HandleReadopt
<1> QED BY <1>1, <1>2, <1>3, <1>4

\* A command is handled.
LEMMA HandleTidy ==
  ASSUME StepInv, HandledInv, NEW r \in Runners, Tidy(r), HandleCommand(r)
  PROVE  Tidy(r)' /\ OthersAlone(r)
<1>1. MachinesTyped /\ CommandsKnown /\ TypeOK /\ OneRow(r)
  BY StepParts
<1>. PICK c : c = NextId(r)
  OBVIOUS
<1>. PICK type, j, e : type = cmds[c].type /\ j = cmds[c].job /\ e = cmds[c].epoch
  OBVIOUS
<1>2. c \in sync[r].ids /\ j \in Jobs /\ e \in Nat
  BY <1>1, NextIdKnown DEF HandleCommand
<1>3. R!Handle(r, c, type, j, e)
  BY DEF HandleCommand, NextId
<1>4. ToldStays
  <2>1. UNCHANGED cmds
    BY DEF HandleCommand, vars
  <2> QED BY <2>1, ToldUnchanged
<1>5. runs = [runs EXCEPT ![r] = runs[r]]
  BY <1>1 DEF MachinesTyped
<1>6. R!Resumed(r, j, e) = runs[r]
  BY ResumedSame
<1>7. CASE R!Replay(r, c, type, j, e)
  <2>1. runs' = runs
    BY <1>5, <1>6, <1>7 DEF R!Replay
  <2>2. UNCHANGED <<rows, procs>>
    BY <1>7 DEF R!Replay
  <2> QED BY <1>1, <1>4, <2>1, <2>2, MarkedTidy
<1>8. CASE type = "ASSIGN" /\ R!HandleAssign(r, c, j, e)
  <2>1. CASE R!RejectAssign(r, c)
    BY <1>1, <1>4, <2>1, MarkedTidy DEF R!RejectAssign
  <2>2. CASE R!AcceptAssign(r, c, j, e)
    <3>1. CASE runs' = [runs EXCEPT ![r] = R!Resumed(r, j, e)] /\ UNCHANGED <<rows, procs>>
      <4>1. runs' = runs
        BY <1>5, <1>6, <3>1
      <4> QED BY <1>1, <1>4, <3>1, <4>1, MarkedTidy
    <3>2. CASE /\ R!RowsFor(r, j, e) = {}
               /\ rows' = [rows EXCEPT ![r] = @ \cup {R!NewRow(j, e)}]
               /\ runs' = [runs EXCEPT ![r] = @ \cup {[job |-> j, epoch |-> e, phase |-> "accepted"]}]
               /\ UNCHANGED procs
      <4>1. \A v \in rows[r] : v.job = j => v.epoch < e
        <5>1. c \notin DOMAIN applied[r] /\ cmds[c].type = "ASSIGN"
          BY <1>8 DEF R!HandleAssign, R!Replayed
        <5> QED BY <1>2, <5>1, NewestGiven
      <4>2. AddsRow(r, j, e)
        BY <3>2 DEF AddsRow
      <4> QED BY <1>1, <1>2, <1>4, <3>2, <4>1, <4>2, AcceptTidy
    <3> QED BY <2>2, <3>1, <3>2 DEF R!AcceptAssign
  <2> QED BY <1>8, <2>1, <2>2 DEF R!HandleAssign
<1>9. CASE R!HandleCancel(r, c, j, e)
  BY <1>1, <1>4, <1>9, CancelTidy
<1>10. CASE R!HandleAbandon(r, c, j, e)
  BY <1>1, <1>4, <1>10, AbandonTidy
<1>11. CASE R!HandleReadopt(r, c, j, e)
  BY <1>1, <1>4, <1>11, ReadoptTidy
<1> QED BY <1>3, <1>7, <1>8, <1>9, <1>10, <1>11 DEF R!Handle

-----------------------------------------------------------------------------
(* A step of one machine is tidy *)

\* An entry of one machine is written, whatever it was.
LEMMA OwnEntry ==
  ASSUME NEW S, NEW f \in [Runners -> S], NEW r \in Runners, NEW g,
         g = f \/ \E X : g = [f EXCEPT ![r] = X]
  PROVE  \A q \in Runners \ {r} : g[q] = f[q]
  OBVIOUS

\* A run's step writes the runs and processes of its machine.
LEMMA RunStepOwn ==
  ASSUME MachinesTyped, NEW r \in Runners, R!RunStep(r)
  PROVE  OthersAlone(r)
<1>1. PICK x \in runs[r] : \E w \in R!RowsFor(r, x.job, x.epoch) :
        \/ R!RunEndsEarly(r, x, w) \/ R!RunSpawn(r, x, w) \/ R!RunRecords(r, x, w)
        \/ R!RunFinishes(r, x, w) \/ R!RunFails(r, x, w)
  BY DEF R!RunStep
<1>2. PICK w \in R!RowsFor(r, x.job, x.epoch) :
        \/ R!RunEndsEarly(r, x, w) \/ R!RunSpawn(r, x, w) \/ R!RunRecords(r, x, w)
        \/ R!RunFinishes(r, x, w) \/ R!RunFails(r, x, w)
  BY <1>1
<1>3. \E X : runs' = [runs EXCEPT ![r] = X]
  BY <1>2 DEF R!RunEndsEarly, R!RunSpawn, R!RunRecords, R!RunFinishes, R!RunFails, R!Ended, R!Step
<1>4. procs' = procs \/ \E X : procs' = [procs EXCEPT ![r] = X]
  BY <1>2 DEF R!RunEndsEarly, R!RunSpawn, R!RunRecords, R!RunFinishes, R!RunFails
<1>5. \A q \in Runners \ {r} : rows'[q] = rows[q]
  BY RunStepGrows DEF RowsGrow
<1>6. \A q \in Runners \ {r} : runs'[q] = runs[q] /\ procs'[q] = procs[q]
  BY <1>3, <1>4, OwnEntry DEF MachinesTyped
<1> QED BY <1>5, <1>6 DEF OthersAlone

\* So does an upload.
LEMMA UploadOwn ==
  ASSUME MachinesTyped, NEW r \in Runners, UploadBundle(r)
  PROVE  OthersAlone(r)
<1>1. PICK x \in runs[r] : \E w \in R!RowsFor(r, x.job, x.epoch) :
        \E answer \in {"done", "stale", "conflict"} : R!RunUploads(r, x, w, answer)
  BY DEF UploadBundle
<1>2. PICK w \in R!RowsFor(r, x.job, x.epoch), answer \in {"done", "stale", "conflict"} :
        R!RunUploads(r, x, w, answer)
  BY <1>1
<1>3. procs' = procs /\ \E X : runs' = [runs EXCEPT ![r] = X]
  BY <1>2 DEF R!RunUploads, R!Ended
<1>4. \A q \in Runners \ {r} : rows'[q] = rows[q]
  BY <1>2, RunUploadsGrows DEF RowsGrow
<1>5. \A q \in Runners \ {r} : runs'[q] = runs[q] /\ procs'[q] = procs[q]
  BY <1>3, OwnEntry DEF MachinesTyped
<1> QED BY <1>4, <1>5 DEF OthersAlone

\* And a command.
LEMMA HandleOwn ==
  ASSUME StepInv, NEW r \in Runners, HandleCommand(r)
  PROVE  OthersAlone(r)
<1>1. MachinesTyped /\ CommandsKnown /\ TypeOK
  BY StepParts
<1>. PICK c : c = NextId(r)
  OBVIOUS
<1>. PICK type, j, e : type = cmds[c].type /\ j = cmds[c].job /\ e = cmds[c].epoch
  OBVIOUS
<1>2. j \in Jobs /\ e \in Nat
  BY <1>1, NextIdKnown DEF HandleCommand
<1>3. R!Handle(r, c, type, j, e)
  BY DEF HandleCommand, NextId
<1>4. \A q \in Runners \ {r} : rows'[q] = rows[q]
  BY <1>1, <1>2, <1>3, HandleRows, AddedRow DEF RowsGrow
<1>5. runs' = runs \/ \E X : runs' = [runs EXCEPT ![r] = X]
  BY <1>1, <1>2, <1>3, HandleRuns
<1>6. procs' = procs \/ \E X : procs' = [procs EXCEPT ![r] = X]
  BY <1>3, HandleProcs
<1>7. \A q \in Runners \ {r} : runs'[q] = runs[q] /\ procs'[q] = procs[q]
  BY <1>1, <1>5, <1>6, OwnEntry DEF MachinesTyped
<1> QED BY <1>4, <1>7 DEF OthersAlone

\* A machine's step is its own.
LEMMA MachineOwn ==
  ASSUME StepInv, NEW r \in Runners,
         \/ ReceiveReply(r) \/ HandleCommand(r) \/ BeginAssigned(r)
         \/ EndSync(r) \/ Machine(r) \/ Crash(r)
  PROVE  OthersAlone(r)
<1>1. MachinesTyped /\ ExchangesTyped
  BY StepParts
<1>2. CASE ReceiveReply(r) \/ EndSync(r)
  <2>1. UNCHANGED <<runs, procs>> /\ (rows' = rows \/ \E X : rows' = [rows EXCEPT ![r] = X])
    BY <1>2 DEF ReceiveReply, EndSync
  <2>2. \A q \in Runners \ {r} : rows'[q] = rows[q]
    BY <1>1, <2>1, OwnEntry DEF MachinesTyped
  <2> QED BY <2>1, <2>2 DEF OthersAlone
<1>3. CASE HandleCommand(r)
  BY <1>3, HandleOwn
<1>4. CASE BeginAssigned(r)
  <2>1. /\ \E X : rows' = [rows EXCEPT ![r] = X]
        /\ \E X : runs' = [runs EXCEPT ![r] = X]
        /\ \E X : procs' = [procs EXCEPT ![r] = X]
    BY <1>4 DEF BeginAssigned, R!BeginAssigned
  <2>2. \A q \in Runners \ {r} : rows'[q] = rows[q] /\ runs'[q] = runs[q] /\ procs'[q] = procs[q]
    BY <1>1, <2>1, OwnEntry DEF MachinesTyped
  <2> QED BY <2>2 DEF OthersAlone
<1>5. CASE RunStep(r)
  BY <1>1, <1>5, RunStepOwn DEF RunStep
<1>6. CASE UploadBundle(r)
  BY <1>1, <1>6, UploadOwn
<1>7. CASE ProcExits(r) \/ Start(r) \/ Crash(r)
  <2>1. /\ rows' = rows
        /\ runs' = runs \/ \E X : runs' = [runs EXCEPT ![r] = X]
        /\ procs' = procs \/ \E X : procs' = [procs EXCEPT ![r] = X]
    BY <1>7 DEF ProcExits, Start, Crash, R!ProcExits, R!Start, R!Crash
  <2>2. \A q \in Runners \ {r} : runs'[q] = runs[q] /\ procs'[q] = procs[q]
    BY <1>1, <2>1, OwnEntry DEF MachinesTyped
  <2> QED BY <2>1, <2>2 DEF OthersAlone
<1> QED BY <1>2, <1>3, <1>4, <1>5, <1>6, <1>7 DEF Machine

\* A reply marks rows acked further.
LEMMA AckedMarks ==
  ASSUME ExchangesTyped, NEW r \in Runners, NEW w \in Row
  PROVE  Marks(w, AckedThrough(r, w))
<1>. PICK v : v = AckedThrough(r, w)
  OBVIOUS
<1>1. SameLeaseAs(v, w) /\ v.events = w.events
  BY AckedThroughFacts
<1>2. \E m : v = [w EXCEPT !.acked = m]
  BY DEF AckedThrough
<1>3. v.pid = w.pid /\ v.done = w.done
  BY <1>2 DEF Row
<1> QED BY <1>1, <1>3 DEF Marks

\* A reply, and the end of an exchange.
LEMMA ReplyTidy ==
  ASSUME StepInv, NEW r \in Runners, Tidy(r), ReceiveReply(r) \/ EndSync(r)
  PROVE  Tidy(r)'
<1>1. MachinesTyped /\ ExchangesTyped
  BY StepParts
<1>2. ToldStays /\ UNCHANGED <<runs, procs>>
  <2>1. UNCHANGED <<cmds, runs, procs>>
    BY DEF ReceiveReply, EndSync, vars
  <2> QED BY <2>1, ToldUnchanged
<1>3. CASE EndSync(r)
  <2>1. UNCHANGED rows
    BY <1>3 DEF EndSync
  <2> QED BY <1>1, <1>2, <2>1, MarkedTidy
<1>4. CASE ReceiveReply(r)
  <2>1. rows' = [rows EXCEPT ![r] = {AckedThrough(r, w) : w \in @}]
    BY <1>4 DEF ReceiveReply
  <2>2. rows'[r] = {AckedThrough(r, w) : w \in rows[r]}
    BY <1>1, <2>1 DEF MachinesTyped
  <2>3. \A w \in rows[r] : Marks(w, AckedThrough(r, w))
    BY <1>1, AckedMarks DEF MachinesTyped
  <2>4. /\ \A v \in rows'[r] : \E w \in rows[r] : Marks(w, v)
        /\ \A w \in rows[r] : \E v \in rows'[r] : Marks(w, v)
    BY <2>2, <2>3
  <2>5. Alike(r)
    BY <1>2, <2>4 DEF Alike
  <2> QED BY <1>2, <2>5, AlikeTidy
<1> QED BY <1>3, <1>4

\* A run that moves leaves its machine tidy.
LEMMA MovedTidy ==
  ASSUME NEW r \in Runners, Tidy(r), OneRow(r), ToldStays, Moves(r)
  PROVE  Tidy(r)'
<1>1. PICK x, w, v, Y : RunMoves(r, x, w, v, Y)
  BY DEF Moves
<1> QED BY <1>1, RunMovesTidy

\* A run's step, an upload, an exit and a start.
LEMMA MachineTidy ==
  ASSUME StepInv, HandledInv, NEW r \in Runners, Tidy(r), Machine(r)
  PROVE  Tidy(r)'
<1>1. MachinesTyped /\ RowInv /\ CommandsKnown /\ OneRow(r)
  BY StepParts
<1>2. CASE RunStep(r)
  <2>1. ToldStays
    <3>1. UNCHANGED cmds
      BY <1>2 DEF RunStep, vars
    <3> QED BY <3>1, ToldUnchanged
  <2>2. Moves(r)
    BY <1>1, <1>2, RunStepMoves DEF RunStep
  <2> QED BY <1>1, <2>1, <2>2, MovedTidy
<1>3. CASE UploadBundle(r)
  <2>1. ToldStays
    <3>1. CASE UNCHANGED vars
      <4>1. UNCHANGED cmds
        BY <3>1 DEF vars
      <4> QED BY <4>1, ToldUnchanged
    <3>2. CASE \E l : Fenced(l)
      <4>1. TableGrows({})
        BY <1>1, <3>2, FencedTurns DEF Turns
      <4>2. Journaled({})
        BY DEF Journaled
      <4> QED BY <1>1, <4>1, <4>2, ToldKept
    <3> QED BY <1>3, <3>1, <3>2 DEF UploadBundle
  <2>2. Moves(r)
    BY <1>1, <1>3, UploadsMoves
  <2> QED BY <1>1, <2>1, <2>2, MovedTidy
<1>4. CASE ProcExits(r) \/ Start(r)
  <2>1. UNCHANGED cmds /\ UNCHANGED <<rows, runs>>
    BY <1>4 DEF ProcExits, Start, R!ProcExits, R!Start, vars
  <2>2. ToldStays
    BY <2>1, ToldUnchanged
  <2>3. UNCHANGED procs \/ \E X : procs' = [procs EXCEPT ![r] = @ \ X]
    BY <1>4 DEF ProcExits, Start, R!ProcExits, R!Start
  <2> QED BY <1>1, <2>1, <2>2, <2>3, MarkedTidy
<1> QED BY <1>2, <1>3, <1>4 DEF Machine

-----------------------------------------------------------------------------
(* Machines stay tidy *)

\* No step of a machine loses an ABANDON that is due.
LEMMA MachineTold ==
  ASSUME StepInv, HandledInv, NEW r \in Runners,
         \/ ReceiveReply(r) \/ HandleCommand(r) \/ BeginAssigned(r)
         \/ EndSync(r) \/ Machine(r) \/ Crash(r)
  PROVE  ToldStays
<1>1. RowInv /\ CommandsKnown
  BY StepParts
<1>2. CASE UNCHANGED vars
  <2>1. UNCHANGED cmds
    BY <1>2 DEF vars
  <2> QED BY <2>1, ToldUnchanged
<1>3. CASE \E l : Fenced(l)
  <2>1. TableGrows({})
    BY <1>1, <1>3, FencedTurns DEF Turns
  <2>2. Journaled({})
    BY DEF Journaled
  <2> QED BY <1>1, <2>1, <2>2, ToldKept
<1>4. UNCHANGED vars \/ \E l : Fenced(l)
  <2>1. Machine(r) => UNCHANGED vars \/ \E l : Fenced(l)
    BY DEF Machine, RunStep, UploadBundle, ProcExits, Start
  <2> QED BY <2>1 DEF ReceiveReply, HandleCommand, BeginAssigned, EndSync, Crash
<1> QED BY <1>2, <1>3, <1>4

\* Only a start and a crash touch what boots a machine.
LEMMA DaemonStep ==
  ASSUME MachinesTyped, NEW r \in Runners, NEW q \in Runners,
         \/ ReceiveReply(r) \/ HandleCommand(r) \/ BeginAssigned(r)
         \/ EndSync(r) \/ Machine(r) \/ Crash(r)
  PROVE  /\ FirstDaemon(q)' => FirstDaemon(q)
         /\ q = r /\ Crash(r) => ~FirstDaemon(q)'
         /\ MaxBoot = 1 /\ FirstDaemon(q) /\ FirstDaemon(r) => FirstDaemon(q)'
<1>1. CASE Start(r)
  <2>1. r \notin up /\ up' = up \cup {r} /\ boot' = [boot EXCEPT ![r] = @ + 1] /\ boot[r] < MaxBoot
    BY <1>1 DEF Start, R!Start
  <2>2. boot'[r] = boot[r] + 1 /\ boot[r] \in Nat /\ \A p \in Runners \ {r} : boot'[p] = boot[p]
    BY <2>1, BootAssumption DEF MachinesTyped
  <2>3. ~Crash(r)
    BY <2>1 DEF Crash, R!Crash
  <2>4. CASE q = r
    <3>1. q \in up' /\ q \notin up
      BY <2>1, <2>4
    <3>2. FirstDaemon(q)' <=> boot'[q] = 1
      BY <3>1 DEF FirstDaemon
    <3>3. FirstDaemon(q) <=> boot[q] = 0
      BY <3>1 DEF FirstDaemon
    <3>4. boot'[q] = 1 <=> boot[q] = 0
      BY <2>2, <2>4
    <3> QED BY <2>3, <3>2, <3>3, <3>4
  <2>5. CASE q # r
    <3>1. (q \in up' <=> q \in up) /\ boot'[q] = boot[q]
      BY <2>1, <2>2, <2>5
    <3>2. FirstDaemon(q)' <=> FirstDaemon(q)
      BY <3>1 DEF FirstDaemon
    <3> QED BY <2>5, <3>2
  <2> QED BY <2>4, <2>5
<1>2. CASE Crash(r)
  <2>1. r \in up /\ up' = up \ {r} /\ boot' = boot /\ boot[r] < MaxBoot
    BY <1>2 DEF Crash, R!Crash
  <2>2. boot[r] # 0 /\ boot[r] \in Nat
    BY <2>1, BootAssumption DEF MachinesTyped
  <2>3. CASE q = r
    <3>1. q \notin up'
      BY <2>1, <2>3
    <3>2. FirstDaemon(q)' <=> boot[q] = 0
      BY <2>1, <3>1 DEF FirstDaemon
    <3>3. ~FirstDaemon(q)'
      BY <2>2, <2>3, <3>2
    <3>4. FirstDaemon(r) => boot[r] = 1
      BY <2>1 DEF FirstDaemon
    <3>5. MaxBoot = 1 => ~FirstDaemon(r)
      BY <2>1, <2>2, <3>4
    <3> QED BY <3>3, <3>5
  <2>4. CASE q # r
    <3>1. (q \in up' <=> q \in up) /\ boot'[q] = boot[q]
      BY <2>1, <2>4
    <3>2. FirstDaemon(q)' <=> FirstDaemon(q)
      BY <3>1 DEF FirstDaemon
    <3> QED BY <2>4, <3>2
  <2> QED BY <2>3, <2>4
<1>3. CASE /\ ~Crash(r)
           /\ \/ ReceiveReply(r) \/ HandleCommand(r) \/ BeginAssigned(r) \/ EndSync(r)
              \/ RunStep(r) \/ UploadBundle(r) \/ ProcExits(r)
  <2>1. UNCHANGED <<up, boot>>
    BY <1>3 DEF ReceiveReply, HandleCommand, BeginAssigned, EndSync, RunStep, UploadBundle, ProcExits,
                R!Handle, R!BeginAssigned, R!RunStep, R!RunEndsEarly, R!RunSpawn, R!RunRecords,
                R!RunFinishes, R!RunFails, R!RunUploads, R!ProcExits
  <2>2. FirstDaemon(q)' <=> FirstDaemon(q)
    BY <2>1 DEF FirstDaemon
  <2> QED BY <1>3, <2>2
<1> QED BY <1>1, <1>2, <1>3 DEF Machine

\* A step of one machine keeps every machine tidy.
LEMMA MachineStepTidy ==
  ASSUME StepInv, HandledInv, NEW r \in Runners, NEW q \in Runners, FirstDaemon(q) => Tidy(q),
         \/ ReceiveReply(r) \/ HandleCommand(r) \/ BeginAssigned(r)
         \/ EndSync(r) \/ Machine(r) \/ Crash(r)
  PROVE  FirstDaemon(q)' => Tidy(q)'
<1> SUFFICES ASSUME FirstDaemon(q)' PROVE Tidy(q)'
  OBVIOUS
<1>1. MachinesTyped /\ OneRow(r)
  BY StepParts
<1>2. FirstDaemon(q) /\ ~(q = r /\ Crash(r))
  BY <1>1, DaemonStep
<1>3. Tidy(q) /\ ToldStays
  BY <1>2, MachineTold
<1>4. CASE q # r
  <2>1. OthersAlone(r)
    BY MachineOwn
  <2>2. rows'[q] = rows[q] /\ runs'[q] = runs[q] /\ procs'[q] = procs[q]
    BY <1>4, <2>1 DEF OthersAlone
  <2> QED BY <1>3, <2>2, SameTidy
<1>5. CASE q = r
  <2>1. Tidy(r)
    BY <1>3, <1>5
  <2>2. Tidy(r)'
    <3>1. CASE ReceiveReply(r) \/ EndSync(r)
      BY <2>1, <3>1, ReplyTidy
    <3>2. CASE HandleCommand(r)
      BY <2>1, <3>2, HandleTidy
    <3>3. CASE BeginAssigned(r)
      BY <1>1, <1>3, <2>1, <3>3, BeginTidy
    <3>4. CASE Machine(r)
      BY <2>1, <3>4, MachineTidy
    <3> QED BY <1>2, <1>5, <3>1, <3>2, <3>3, <3>4
  <2> QED BY <1>5, <2>2
<1> QED BY <1>4, <1>5

\* Every machine is tidy whose daemon was not restarted; no daemon was restarted.
AllTidy     == \A r \in Runners : FirstDaemon(r) => Tidy(r)
Unrestarted == \A r \in Runners : FirstDaemon(r)

\* Every step keeps them so, and a machine that may boot once stays unrestarted.
LEMMA AllTidyStep ==
  ASSUME DispatchTyped, LeaseInv, JournalInv, HandledInv, [DispatchNext]_dispatchVars
  PROVE  /\ AllTidy => AllTidy'
         /\ MaxBoot = 1 /\ Unrestarted => Unrestarted'
<1>1. StepInv /\ MachinesTyped
  BY DispatchIsNext, NextGrows, DispatchTypedStep, LeaseStep DEF StepInv, DispatchTyped
<1>2. CASE ServerStep
  <2>1. AllTidy => AllTidy'
    BY <1>1, <1>2, ServerStepTidy DEF AllTidy
  <2>2. UNCHANGED <<up, boot>>
    BY <1>2 DEF ServerStep
  <2>3. \A r \in Runners : FirstDaemon(r) => FirstDaemon(r)'
    BY <2>2 DEF FirstDaemon
  <2> QED BY <2>1, <2>3 DEF Unrestarted
<1>3. CASE UNCHANGED dispatchVars
  <2>1. UNCHANGED <<machines, sync, job, cmds>> /\ IdsFit
    BY <1>3 DEF dispatchVars, vars, IdsFit
  <2>2. ServerStep
    BY <1>1, <2>1, UnchangedTurns, QuietServerStep
  <2> QED BY <1>2, <2>2
<1>4. ASSUME NEW r \in Runners,
             \/ ReceiveReply(r) \/ HandleCommand(r) \/ BeginAssigned(r)
             \/ EndSync(r) \/ Machine(r) \/ Crash(r)
      PROVE  (AllTidy => AllTidy') /\ (MaxBoot = 1 /\ Unrestarted => Unrestarted')
  <2>1. AllTidy => AllTidy'
    BY <1>1, <1>4, MachineStepTidy DEF AllTidy
  <2>2. MaxBoot = 1 /\ Unrestarted => Unrestarted'
    BY <1>1, <1>4, DaemonStep DEF Unrestarted
  <2> QED BY <2>1, <2>2
<1> QED BY <1>1, <1>2, <1>3, <1>4, StepSplit

\* At first there is nothing on a machine.
LEMMA AllTidyInit == DispatchInit => AllTidy /\ Unrestarted
<1> SUFFICES ASSUME DispatchInit PROVE AllTidy /\ Unrestarted
  OBVIOUS
<1>1. /\ up = {} /\ boot = [r \in Runners |-> 0]
      /\ \A r \in Runners : rows[r] = {} /\ runs[r] = {} /\ procs[r] = {}
  BY DEF DispatchInit, R!RunnerInit
<1>2. \A r \in Runners : Tidy(r)
  BY <1>1 DEF Tidy, RunsHaveRows, OneRun, ProcsHaveRuns, NoElder, Parked
<1>3. Unrestarted
  BY <1>1 DEF Unrestarted, FirstDaemon
<1> QED BY <1>2, <1>3 DEF AllTidy

\* A machine whose daemon was not restarted has a row for every run, a run for every
\* process, no older attempt beside one that has begun, and no row that is left open
\* without a run unless the server will tell the runner to drop it (supervisor.ts
\* begin, job-run.ts, command-handler.ts).
THEOREM MachinesTidy == DispatchSpec => []AllTidy
<1>1. DispatchInit => AllTidy
  BY AllTidyInit
<1>2. DispatchTyped /\ LeaseInv /\ JournalInv /\ HandledInv /\ AllTidy /\ [DispatchNext]_dispatchVars
        => AllTidy'
  BY AllTidyStep
<1> QED BY <1>1, <1>2, DispatchTypes, JournalsAgree, CommandsInOrder, PTL DEF DispatchSpec

\* Two processes of one job would be two runs past "accepted".
LEMMA TidyOneProcess ==
  ASSUME MachinesTyped, AllTidy, Unrestarted
  PROVE  OneProcess
<1> SUFFICES ASSUME NEW r \in Runners, NEW p \in procs[r], NEW q \in procs[r], p.job = q.job
             PROVE  p = q
  BY DEF OneProcess
<1>1. Tidy(r)
  BY DEF AllTidy, Unrestarted
<1>2. p \in Proc /\ q \in Proc
  BY DEF MachinesTyped
<1>3. PICK x \in runs[r] : Owns(x, p)
  BY <1>1 DEF Tidy, ProcsHaveRuns
<1>4. PICK y \in runs[r] : Owns(y, q)
  BY <1>1 DEF Tidy, ProcsHaveRuns
<1>5. PICK v \in rows[r] : SameLeaseAs(x, v)
  BY <1>1 DEF Tidy, RunsHaveRows
<1>6. PICK w \in rows[r] : SameLeaseAs(y, w)
  BY <1>1 DEF Tidy, RunsHaveRows
<1>7. /\ v.job = p.job /\ v.epoch = p.epoch /\ w.job = q.job /\ w.epoch = q.epoch
      /\ x.phase # "accepted" /\ y.phase # "accepted"
  BY <1>3, <1>4, <1>5, <1>6 DEF Owns, SameLeaseAs
<1>8. ~(v.epoch < w.epoch)
  BY <1>1, <1>6, <1>7 DEF Tidy, NoElder
<1>9. ~(w.epoch < v.epoch)
  BY <1>1, <1>5, <1>7 DEF Tidy, NoElder
<1>10. p.epoch = q.epoch
  <2>1. p.epoch \in Nat /\ q.epoch \in Nat
    BY <1>2 DEF Proc
  <2> QED BY <1>7, <1>8, <1>9, <2>1
<1>11. x = y
  BY <1>1, <1>3, <1>4, <1>10 DEF Tidy, OneRun, Owns, SameLeaseAs
<1>12. p.known = q.known
  <2>1. p.known \in BOOLEAN /\ q.known \in BOOLEAN
    BY <1>2 DEF Proc
  <2> QED BY <1>3, <1>4, <1>11, <2>1 DEF Owns
<1> QED BY <1>2, <1>10, <1>12 DEF Proc

\* A process has a run whose row holds no end.
LEMMA TidyReported ==
  ASSUME HandledInv, AllTidy, Unrestarted
  PROVE  ReportedIsStopped
<1> SUFFICES ASSUME NEW r \in Runners, NEW p \in procs[r],
                    job[p.job].state \in TerminalStates, Holds(p.job, r, p.epoch)
             PROVE  FALSE
  BY DEF ReportedIsStopped
<1>1. Tidy(r)
  BY DEF AllTidy, Unrestarted
<1>2. PICK x \in runs[r] : Owns(x, p)
  BY <1>1 DEF Tidy, ProcsHaveRuns
<1>3. PICK w \in rows[r] : SameLeaseAs(x, w) /\ RunFits(x, w)
  BY <1>1 DEF Tidy, RunsHaveRows
<1>4. w.job = p.job /\ w.epoch = p.epoch
  BY <1>2, <1>3 DEF Owns, SameLeaseAs
<1>5. HasEnd(w)
  BY <1>4 DEF HandledInv, EndsJournaled
<1>6. w.events = << >> \/ w.events = <<"RUNNING">>
  BY <1>2, <1>3 DEF Owns, RunFits
<1> QED BY <1>5, <1>6 DEF HasEnd, TerminalStates

\* A row that is open without a run has its ABANDON due.
LEMMA TidyTold ==
  ASSUME AllTidy, Unrestarted
  PROVE  LateLeaseIsTold
<1> SUFFICES ASSUME NEW r \in Runners, NEW j \in Jobs, NEW e \in 1..MaxEpoch,
                    Lingers(r, j, e), R!RunsFor(r, j, e) = {}
             PROVE  \E c \in DOMAIN cmds : /\ Pending(c) /\ cmds[c].runner = r
                                           /\ cmds[c].job = j /\ cmds[c].epoch = e
  BY DEF LateLeaseIsTold
<1>1. PICK w \in R!RowsFor(r, j, e) : ~w.done
  BY DEF Lingers
<1>2. w \in rows[r] /\ w.job = j /\ w.epoch = e
  BY DEF R!RowsFor
<1>3. ~HasRun(r, w)
  BY <1>2 DEF HasRun, SameLeaseAs, R!RunsFor
<1>4. Told(r, w)
  BY <1>1, <1>2, <1>3 DEF AllTidy, Unrestarted, Tidy, Parked
<1> QED BY <1>2, <1>4 DEF Told

\* While no daemon was restarted, a machine runs one nax process of a job at a time,
\* whatever leases of the job it was given (command-handler.ts assign).
THEOREM OneProcessUnrestarted == DispatchSpec => [](Unrestarted => OneProcess)
<1>1. DispatchTyped /\ AllTidy => (Unrestarted => OneProcess)
  BY TidyOneProcess DEF DispatchTyped
<1> QED BY <1>1, DispatchTypes, MachinesTidy, PTL

\* While no daemon was restarted, nothing runs of a lease whose end its holder
\* reported (job-run.ts failSafe).
THEOREM ReportedIsStoppedUnrestarted == DispatchSpec => [](Unrestarted => ReportedIsStopped)
<1>1. HandledInv /\ AllTidy => (Unrestarted => ReportedIsStopped)
  BY TidyReported
<1> QED BY <1>1, CommandsInOrder, MachinesTidy, PTL

\* While no daemon was restarted, a row that is left open of a lease that is over has
\* a run, or the runner is told of it, lost messages included (sync.service.ts fence).
THEOREM LateLeaseIsToldUnrestarted == DispatchSpec => [](Unrestarted => LateLeaseIsTold)
<1>1. AllTidy => (Unrestarted => LateLeaseIsTold)
  BY TidyTold
<1> QED BY <1>1, MachinesTidy, PTL

\* With one boot for each machine, the bound of the run "dispatch", no daemon is
\* restarted and the three hold of every state.
THEOREM OneBootTidy ==
  ASSUME MaxBoot = 1
  PROVE  DispatchSpec => [](OneProcess /\ ReportedIsStopped /\ LateLeaseIsTold)
<1>1. DispatchInit => Unrestarted
  BY AllTidyInit
<1>2. DispatchTyped /\ LeaseInv /\ JournalInv /\ HandledInv /\ Unrestarted /\ [DispatchNext]_dispatchVars
        => Unrestarted'
  BY AllTidyStep
<1>3. DispatchSpec => []Unrestarted
  BY <1>1, <1>2, DispatchTypes, JournalsAgree, CommandsInOrder, PTL DEF DispatchSpec
<1> QED BY <1>3, OneProcessUnrestarted, ReportedIsStoppedUnrestarted, LateLeaseIsToldUnrestarted, PTL
=============================================================================
