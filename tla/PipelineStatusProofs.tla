------------------------ MODULE PipelineStatusProofs ------------------------
(***************************************************************************)
(* Proofs about the pipeline status, for every set of Collectors,          *)
(* producers and ingest requests, every window and every delay; and about  *)
(* the parts MCCollection runs beside it: the sink under every fault, and  *)
(* the dashboard, for every number of records and rows.                    *)
(***************************************************************************)
EXTENDS MCCollection, FiniteSetTheorems, WellFoundedInduction, TLAPS

\* Processes and ingest requests as values.
Processes == [instance : Nat, sequence : Nat, started : Nat, received : Nat,
              seen : [Producers -> Nat \cup {None}]]

Notes == [at : Nat, read : Nat, pc : {"new", "load", "swap", "done"}]

\* A report of some Collector, made by time t and after it heard each producer
\* it names.
ReportOK(r, t) ==
    /\ r.collector \in Collectors
    /\ r.instance \in Nat /\ r.sequence \in Nat /\ r.received \in Nat /\ r.sentAt \in Nat
    /\ r.sentAt > 0 /\ r.sentAt <= t
    /\ \A p \in DOMAIN r.ages : r.ages[p] \in Nat /\ r.ages[p] < r.sentAt

\* One of two reports of a process that was numbered first was made first and
\* counted no more.
InOrder(a, b) ==
    a.collector = b.collector /\ a.instance = b.instance /\ a.sequence <= b.sequence
        => a.received <= b.received /\ a.sentAt <= b.sentAt

\* The reports that may still be compared: under way, or held.
Live(r) == r \in net \/ \E c \in Collectors : held[c] # None /\ r = held[c].report

\* A report is not from the future of its process.
Past(r, P) ==
    /\ r.instance <= P.instance
    /\ r.instance = P.instance => r.sequence <= P.sequence /\ r.received <= P.received

TypeOK ==
    /\ now \in Nat \ {0}
    /\ process \in [Collectors -> Processes]
    /\ ingest \in [Ingests -> Notes]
    /\ lastIngest \in Nat
    /\ DOMAIN held = Collectors /\ DOMAIN changes = Collectors

ProcessInv ==
    \A c \in Collectors :
        /\ process[c].started <= now
        /\ \A p \in Producers : process[c].seen[p] # None =>
              process[c].seen[p] > 0 /\ process[c].seen[p] <= now

NetInv == \A r \in net : ReportOK(r, now) /\ now <= r.sentAt + MaxDelay

HeldOK(c, h) ==
    /\ h.receivedAt \in Nat /\ h.receivedAt <= now
    /\ ReportOK(h.report, h.receivedAt)
    /\ h.receivedAt <= h.report.sentAt + MaxDelay
    /\ h.report.collector = c

HeldInv == \A c \in Collectors : held[c] # None => HeldOK(c, held[c])

OrderInv ==
    /\ \A a, b : Live(a) /\ Live(b) => InOrder(a, b)
    /\ \A r : Live(r) => Past(r, process[r.collector])

\* A swap is tried only with a later time than was read; the time noted is that
\* of a request, and no earlier than that of a request that is done.
IngestInv ==
    /\ \A i \in Ingests : ingest[i].pc = "swap" => ingest[i].read < ingest[i].at
    /\ \A i \in Ingests : ingest[i].pc = "done" => lastIngest >= ingest[i].at
    /\ lastIngest # 0 => \E i \in Ingests : ingest[i].pc # "new" /\ ingest[i].at = lastIngest

\* Whoever reads when notified has seen the facts held.
ToldInv == \A c \in Collectors : held[c] # None => changes[c] = Facts(held[c].report)

\* The inductive invariant.
StatusInv ==
    TypeOK /\ ProcessInv /\ NetInv /\ HeldInv /\ OrderInv /\ IngestInv /\ ToldInv

-----------------------------------------------------------------------------
(* The registry. *)

\* What record makes of an entry: it stays, it is forgotten because it expired,
\* or it gives way to a report that is not older than one still held of the
\* same process.
LEMMA RecordCases ==
  ASSUME TypeOK, NEW r, r.collector \in Collectors
  PROVE  /\ DOMAIN record(r) = Collectors
         /\ \A c \in Collectors :
               \/ record(r)[c] = Unexpired[c]
               \/ /\ c = r.collector /\ record(r)[c] = Held(r)
                  /\ ~ /\ Unexpired[c] # None /\ Unexpired[c].report.instance = r.instance
                       /\ r.sequence <= Unexpired[c].report.sequence
  <1>1. DOMAIN Unexpired = Collectors
    BY DEF Unexpired
  <1> HIDE DEF Unexpired
  <1>. QED
    BY <1>1 DEF record

\* An entry held stays until it expires.
LEMMA UnexpiredCases ==
  ASSUME NEW c \in Collectors
  PROVE  \/ Unexpired[c] = held[c]
         \/ Unexpired[c] = None /\ held[c] # None /\ now > held[c].receivedAt + Expiry
  BY DEF Unexpired

\* The reports there are to compare only become fewer: they stay in order.
LEMMA FewerReports ==
  ASSUME OrderInv, \A r : Live(r)' => Live(r),
         \A r : Live(r) /\ Past(r, process[r.collector]) => Past(r, process'[r.collector])
  PROVE  OrderInv'
  BY DEF OrderInv

\* What a report that is recorded does to the registry.
LEMMA RecordedEntry ==
  ASSUME StatusInv, NEW r \in net, ReportCollectorStatus(r), NEW c \in Collectors, held'[c] # None
  PROVE  \/ held'[c] = held[c] /\ held[c] # None /\ changes'[c] = changes[c]
         \/ /\ c = r.collector /\ held'[c] = Held(r)
            /\ changes'[c] = Facts(r)
            /\ \/ held[c] = None
               \/ now > held[c].receivedAt + Expiry
               \/ held[c].report.instance # r.instance
               \/ ~(r.sequence <= held[c].report.sequence)
  <1>1. /\ TypeOK /\ r.collector \in Collectors /\ DOMAIN changes = Collectors
        /\ held[c] # None => changes[c] = Facts(held[c].report)
    BY DEF StatusInv, NetInv, ReportOK, TypeOK, ToldInv
  <1> DEFINE h == Unexpired[r.collector]
             n == record(r)[r.collector]
             changed == n # h /\ (h = None \/ ~sameFacts(h.report, r))
  <1>2. /\ held' = record(r)
        /\ changes' = IF changed THEN [changes EXCEPT ![r.collector] = Facts(r)] ELSE changes
    BY DEF ReportCollectorStatus
  <1>3. \/ Unexpired[c] = held[c]
        \/ Unexpired[c] = None /\ held[c] # None /\ now > held[c].receivedAt + Expiry
    BY UnexpiredCases
  <1>4. \/ record(r)[c] = Unexpired[c]
        \/ /\ c = r.collector /\ record(r)[c] = Held(r)
           /\ ~ /\ Unexpired[c] # None /\ Unexpired[c].report.instance = r.instance
                /\ r.sequence <= Unexpired[c].report.sequence
    BY <1>1, RecordCases
  <1>5. CASE c # r.collector
    BY <1>1, <1>2, <1>3, <1>4, <1>5
  <1>6. CASE c = r.collector /\ n = h
    BY <1>1, <1>2, <1>3, <1>6
  <1>7. CASE c = r.collector /\ n # h
    <2>1. changed => changes'[c] = Facts(r)
      BY <1>1, <1>2, <1>7
    <2>2. ~changed => h # None /\ Facts(h.report) = Facts(r) /\ changes' = changes
      BY <1>2, <1>7 DEF sameFacts
    <2>3. changes'[c] = Facts(r)
      BY <1>1, <1>3, <1>7, <2>1, <2>2
    <2>. QED
      BY <1>2, <1>3, <1>4, <1>7, <2>3
  <1>. QED
    BY <1>5, <1>6, <1>7
-----------------------------------------------------------------------------
(* Each kind of step keeps the invariant. *)

\* A Collector's process moves on while nothing else does: the reports it made
\* stay in its past.
LEMMA ProcessMoves ==
  ASSUME StatusInv, NEW c \in Collectors, UNCHANGED Others,
         NEW P \in Processes, process' = [process EXCEPT ![c] = P],
         P.started <= now,
         \A p \in Producers : P.seen[p] # None => P.seen[p] > 0 /\ P.seen[p] <= now,
         \/ P.instance > process[c].instance
         \/ /\ P.instance = process[c].instance /\ P.sequence = process[c].sequence
            /\ P.received >= process[c].received
  PROVE  StatusInv'
  <1>1. TypeOK /\ UNCHANGED <<net, held, ingest, lastIngest, now, changes>>
    BY DEF StatusInv, Others
  <1>2. TypeOK'
    BY <1>1 DEF TypeOK
  <1>3. ProcessInv'
    BY <1>1 DEF TypeOK, StatusInv, ProcessInv
  <1>4. NetInv' /\ HeldInv' /\ IngestInv' /\ ToldInv'
    BY <1>1 DEF StatusInv, NetInv, HeldInv, HeldOK, IngestInv, ToldInv
  <1>5. OrderInv'
    <2>1. \A r : Live(r)' => Live(r)
      BY <1>1 DEF Live
    <2>2. ASSUME NEW r, Live(r), Past(r, process[r.collector])
          PROVE  Past(r, process'[r.collector])
      <3>1. ReportOK(r, now) \/ \E t : ReportOK(r, t)
        BY <2>2 DEF Live, StatusInv, NetInv, HeldInv, HeldOK
      <3>2. /\ r.instance \in Nat /\ r.sequence \in Nat /\ r.received \in Nat
            /\ r.collector \in Collectors
        BY <3>1 DEF ReportOK
      <3>3. CASE r.collector = c
        <4>1. /\ process[c] \in Processes /\ process'[c] = P
          BY <1>1 DEF TypeOK
        <4>2. /\ process[c].instance \in Nat /\ process[c].received \in Nat
              /\ P.instance \in Nat /\ P.received \in Nat /\ process[c].sequence \in Nat
          BY <4>1 DEF Processes
        <4>3. Past(r, process[c])
          BY <2>2, <3>3
        <4>4. Past(r, P)
          BY <3>2, <4>2, <4>3 DEF Past
        <4>. QED
          BY <3>3, <4>1, <4>4
      <3>4. CASE r.collector # c
        BY <1>1, <2>2, <3>2, <3>4 DEF TypeOK
      <3>. QED
        BY <3>3, <3>4
    <2>. QED
      BY <2>1, <2>2, FewerReports DEF StatusInv
  <1>. QED
    BY <1>2, <1>3, <1>4, <1>5 DEF StatusInv

\* A span is counted.
LEMMA ConsumeStep ==
  ASSUME StatusInv, NEW c \in Collectors, NEW p \in Producers, ConsumeTraces(c, p)
  PROVE  StatusInv'
  <1> DEFINE Q == process[c]
             P == [[Q EXCEPT !.received = @ + 1] EXCEPT !.seen[p] = now]
  <1>1. /\ TypeOK /\ Q \in Processes /\ Q.started <= now /\ now \in Nat /\ now > 0
        /\ \A x \in Producers : Q.seen[x] # None => Q.seen[x] > 0 /\ Q.seen[x] <= now
    BY DEF StatusInv, TypeOK, ProcessInv
  <1>2. process' = [process EXCEPT ![c] = P] /\ UNCHANGED Others
    BY <1>1 DEF ConsumeTraces, TypeOK
  <1> HIDE DEF Q
  <1>3. /\ P \in Processes /\ P.started = Q.started /\ P.instance = Q.instance
        /\ P.sequence = Q.sequence /\ P.received = Q.received + 1 /\ Q.received \in Nat
        /\ P.seen = [Q.seen EXCEPT ![p] = now]
    <2> DEFINE R == [Q EXCEPT !.received = @ + 1]
               f == [Q.seen EXCEPT ![p] = now]
    <2>1. R \in Processes /\ R.seen = Q.seen /\ R.received = Q.received + 1 /\ Q.received \in Nat
          /\ R.started = Q.started /\ R.instance = Q.instance /\ R.sequence = Q.sequence
      BY <1>1 DEF Processes
    <2>2. Q.seen \in [Producers -> Nat \cup {None}]
      BY <1>1 DEF Processes
    <2>3. f \in [Producers -> Nat \cup {None}]
      BY <1>1, <2>2
    <2>4. P = [R EXCEPT !.seen = f]
      BY <2>1
    <2> HIDE DEF R, f, P
    <2>. QED
      BY <2>1, <2>3, <2>4 DEF Processes, f
  <1>4. \A x \in Producers : P.seen[x] = IF x = p THEN now ELSE Q.seen[x]
    BY <1>1, <1>3 DEF Processes
  <1> HIDE DEF P
  <1>5. /\ P.started <= now /\ P.received >= Q.received
        /\ \A x \in Producers : P.seen[x] # None => P.seen[x] > 0 /\ P.seen[x] <= now
    BY <1>1, <1>3, <1>4
  <1>. QED
    BY <1>2, <1>3, <1>5, ProcessMoves DEF Q

\* A Collector starts again.
LEMMA RestartStep == ASSUME StatusInv, NEW c \in Collectors, Restart(c) PROVE StatusInv'
  <1> DEFINE P == Started(process[c].instance + 1)
  <1>1. TypeOK /\ process[c] \in Processes /\ process[c].instance \in Nat /\ now \in Nat
    BY DEF StatusInv, TypeOK, Processes
  <1>2. process' = [process EXCEPT ![c] = P] /\ UNCHANGED Others
    BY DEF Restart
  <1>3. /\ P \in Processes /\ P.started = now /\ P.instance = process[c].instance + 1
        /\ \A x \in Producers : P.seen[x] = None
    BY <1>1 DEF Started, Processes
  <1> HIDE DEF P
  <1>4. P.started <= now /\ P.instance > process[c].instance
    BY <1>1, <1>3
  <1>. QED
    BY <1>2, <1>3, <1>4, ProcessMoves

\* A report is made of what was counted, and numbered after those before it.
LEMMA SendStep == ASSUME StatusInv, NEW c \in Collectors, send(c) PROVE StatusInv'
  <1> DEFINE Q == process[c]
             P == [Q EXCEPT !.sequence = @ + 1]
             n == Report(c)
  <1>1. /\ TypeOK /\ Q \in Processes /\ Q.started <= now /\ now \in Nat /\ now > 0
        /\ \A x \in Producers : Q.seen[x] # None => Q.seen[x] > 0 /\ Q.seen[x] <= now
    BY DEF StatusInv, TypeOK, ProcessInv
  <1>2. /\ net' = net \cup {n} /\ process' = [process EXCEPT ![c] = P]
        /\ UNCHANGED <<held, ingest, lastIngest, now, changes>>
    BY <1>1 DEF send, TypeOK
  <1>3. /\ n.collector = c /\ n.instance = Q.instance /\ n.sequence = Q.sequence + 1
        /\ n.received = Q.received /\ n.sentAt = now
        /\ n.ages = [p \in Known(c) |-> now - Q.seen[p]]
        /\ \A p \in Known(c) : p \in Producers /\ Q.seen[p] # None
    BY DEF Report, Known
  <1>4. /\ P \in Processes /\ P.started = Q.started /\ P.instance = Q.instance /\ P.seen = Q.seen
        /\ P.sequence = Q.sequence + 1 /\ P.received = Q.received
        /\ Q.sequence \in Nat /\ Q.received \in Nat /\ Q.instance \in Nat
    BY <1>1 DEF Processes
  <1>5. process'[c] = P /\ \A d \in Collectors \ {c} : process'[d] = process[d]
    BY <1>1, <1>2 DEF TypeOK
  <1> HIDE DEF P, n
  <1>6. ReportOK(n, now) /\ now <= n.sentAt + MaxDelay
    <2>1. ASSUME NEW p \in DOMAIN n.ages PROVE n.ages[p] \in Nat /\ n.ages[p] < n.sentAt
      <3>1. p \in Known(c) /\ n.ages[p] = now - Q.seen[p] /\ p \in Producers /\ Q.seen[p] # None
        BY <1>3, <2>1
      <3>2. Q.seen[p] \in Nat
        BY <1>1, <3>1 DEF Processes
      <3>. QED
        BY <1>1, <1>3, <3>1, <3>2
    <2>2. MaxDelay \in Nat
      BY BoundsAssumption
    <2>. QED
      BY <1>1, <1>3, <1>4, <2>1, <2>2 DEF ReportOK
  <1>7. TypeOK'
    BY <1>1, <1>2, <1>4 DEF TypeOK
  <1>8. ProcessInv'
    BY <1>1, <1>2, <1>4, <1>5 DEF StatusInv, ProcessInv
  <1>9. NetInv' /\ HeldInv' /\ IngestInv' /\ ToldInv'
    BY <1>2, <1>6 DEF StatusInv, NetInv, HeldInv, HeldOK, IngestInv, ToldInv
  <1>10. \A r : Live(r)' => Live(r) \/ r = n
    BY <1>2 DEF Live
  <1>11. ASSUME NEW r, Live(r)
         PROVE  /\ r.instance \in Nat /\ r.sequence \in Nat /\ r.received \in Nat
                /\ r.sentAt \in Nat /\ r.sentAt <= now /\ r.collector \in Collectors
                /\ Past(r, process[r.collector])
    <2>1. \E t \in Nat : ReportOK(r, t) /\ t <= now
      BY <1>1, <1>11 DEF Live, StatusInv, NetInv, HeldInv, HeldOK
    <2>. QED
      BY <1>1, <1>11, <2>1 DEF ReportOK, StatusInv, OrderInv
  <1>12. ASSUME NEW r, Live(r) PROVE InOrder(r, n) /\ InOrder(n, r)
    <2>1. CASE r.collector = c /\ r.instance = Q.instance
      <3>1. r.sequence <= Q.sequence /\ r.received <= Q.received
        BY <1>11, <1>12, <2>1 DEF Past
      <3>. QED
        BY <1>3, <1>4, <1>11, <1>12, <3>1 DEF InOrder
    <2>2. CASE ~(r.collector = c /\ r.instance = Q.instance)
      BY <1>3, <2>2 DEF InOrder
    <2>. QED
      BY <2>1, <2>2
  <1>13. InOrder(n, n)
    BY <1>1, <1>3, <1>4 DEF InOrder
  <1>14. ASSUME NEW r, Live(r)' PROVE Past(r, process'[r.collector])
    <2>1. CASE r = n
      BY <1>3, <1>4, <1>5, <2>1 DEF Past
    <2>2. CASE Live(r) /\ r.collector = c
      <3>1. Past(r, Q) /\ r.sequence \in Nat
        BY <1>11, <2>2
      <3>2. Past(r, P)
        BY <1>4, <3>1 DEF Past
      <3>. QED
        BY <1>5, <2>2, <3>2
    <2>3. CASE Live(r) /\ r.collector # c
      BY <1>5, <1>11, <2>3
    <2>. QED
      BY <1>10, <1>14, <2>1, <2>2, <2>3
  <1>15. ASSUME NEW a, NEW b, Live(a)', Live(b)' PROVE InOrder(a, b)
    <2>1. (Live(a) \/ a = n) /\ (Live(b) \/ b = n)
      BY <1>10, <1>15
    <2>2. Live(a) /\ Live(b) => InOrder(a, b)
      BY DEF StatusInv, OrderInv
    <2>. QED
      BY <1>12, <1>13, <2>1, <2>2
  <1>16. OrderInv'
    BY <1>14, <1>15 DEF OrderInv
  <1>. QED
    BY <1>7, <1>8, <1>9, <1>16 DEF StatusInv
\* A report is recorded: it may replace what is held, which stays in order.
LEMMA RecordStep ==
  ASSUME StatusInv, NEW r \in net, ReportCollectorStatus(r)
  PROVE  StatusInv'
  <1>1. /\ TypeOK /\ net' = net \ {r} /\ UNCHANGED <<process, ingest, lastIngest, now>>
        /\ held' = record(r) /\ now \in Nat
        /\ ReportOK(r, now) /\ now <= r.sentAt + MaxDelay /\ r.collector \in Collectors
    BY DEF ReportCollectorStatus, StatusInv, NetInv, TypeOK, ReportOK
  <1>2. ASSUME NEW c \in Collectors, held'[c] # None
        PROVE  \/ held'[c] = held[c] /\ held[c] # None /\ changes'[c] = changes[c]
               \/ c = r.collector /\ held'[c] = Held(r) /\ changes'[c] = Facts(r)
    BY <1>2, RecordedEntry
  <1>3. Held(r).report = r /\ Held(r).receivedAt = now
    BY DEF Held
  <1>4. TypeOK'
    <2>1. DOMAIN held' = Collectors
      BY <1>1, RecordCases
    <2>2. DOMAIN changes' = Collectors
      BY <1>1 DEF ReportCollectorStatus, TypeOK
    <2>. QED
      BY <1>1, <2>1, <2>2 DEF TypeOK
  <1>5. ProcessInv' /\ NetInv' /\ IngestInv'
    BY <1>1 DEF StatusInv, ProcessInv, NetInv, IngestInv
  <1>6. ASSUME NEW c \in Collectors, held'[c] # None
        PROVE  HeldOK(c, held'[c]) /\ changes'[c] = Facts(held'[c].report)
    <2>1. CASE held'[c] = held[c] /\ held[c] # None /\ changes'[c] = changes[c]
      BY <2>1 DEF StatusInv, HeldInv, ToldInv
    <2>2. CASE c = r.collector /\ held'[c] = Held(r) /\ changes'[c] = Facts(r)
      BY <1>1, <1>3, <2>2 DEF HeldOK
    <2>. QED
      BY <1>2, <1>6, <2>1, <2>2
  <1>7. HeldInv' /\ ToldInv'
    BY <1>1, <1>6 DEF HeldInv, HeldOK, ToldInv
  <1>8. OrderInv'
    <2>1. ASSUME NEW a, Live(a)' PROVE Live(a)
      <3>1. CASE a \in net'
        BY <1>1, <3>1 DEF Live
      <3>2. ASSUME NEW c \in Collectors, held'[c] # None, a = held'[c].report PROVE Live(a)
        BY <1>2, <1>3, <3>2 DEF Live
      <3>. QED
        BY <2>1, <3>1, <3>2 DEF Live
    <2>. QED
      BY <1>1, <2>1, FewerReports DEF StatusInv
  <1>. QED
    BY <1>4, <1>5, <1>7, <1>8 DEF StatusInv

\* A report is lost, or time passes and those under way for too long are.
LEMMA LossStep ==
  ASSUME StatusInv, Tick \/ \E r \in net : Lose(r)
  PROVE  StatusInv'
  <1>1. /\ TypeOK /\ UNCHANGED <<process, held, ingest, lastIngest, changes>>
        /\ now \in Nat /\ now > 0 /\ (now' = now \/ now' = now + 1)
        /\ net' \subseteq net /\ \A r \in net' : now' <= r.sentAt + MaxDelay
    BY DEF StatusInv, NetInv, TypeOK, Tick, Lose
  <1>2. TypeOK'
    BY <1>1 DEF TypeOK
  <1>3. ProcessInv'
    <2>1. ASSUME NEW c \in Collectors
          PROVE  /\ process[c].started <= now'
                 /\ \A p \in Producers : process[c].seen[p] # None =>
                       process[c].seen[p] > 0 /\ process[c].seen[p] <= now'
      <3>1. process[c] \in Processes
        BY <1>1 DEF TypeOK
      <3>2. process[c].started <= now'
        BY <1>1, <3>1 DEF StatusInv, ProcessInv, Processes
      <3>3. ASSUME NEW p \in Producers, process[c].seen[p] # None
            PROVE  process[c].seen[p] > 0 /\ process[c].seen[p] <= now'
        <4>1. /\ process[c].seen[p] \in Nat
              /\ process[c].seen[p] > 0 /\ process[c].seen[p] <= now
          BY <3>1, <3>3 DEF StatusInv, ProcessInv, Processes
        <4>. QED
          BY <1>1, <4>1
      <3>. QED
        BY <3>2, <3>3
    <2>. QED
      BY <1>1, <2>1 DEF ProcessInv
  <1>4. NetInv'
    BY <1>1 DEF StatusInv, NetInv, ReportOK
  <1>5. HeldInv'
    BY <1>1 DEF StatusInv, HeldInv, HeldOK
  <1>6. IngestInv' /\ ToldInv'
    BY <1>1 DEF StatusInv, IngestInv, ToldInv
  <1>7. OrderInv'
    <2>1. \A r : Live(r)' => Live(r)
      BY <1>1 DEF Live
    <2>. QED
      BY <1>1, <2>1, FewerReports DEF StatusInv
  <1>. QED
    BY <1>2, <1>3, <1>4, <1>5, <1>6, <1>7 DEF StatusInv

\* The time of the last ingest moves only forward, to that of a request.
LEMMA NoteStep ==
  ASSUME StatusInv, NEW i \in Ingests, Receive(i) \/ NoteLoad(i) \/ NoteSwap(i)
  PROVE  StatusInv' /\ lastIngest' >= lastIngest
  <1>1. /\ TypeOK /\ IngestInv /\ ingest[i] \in Notes /\ lastIngest \in Nat /\ now \in Nat
        /\ UNCHANGED <<process, net, held, now, changes>>
    BY DEF StatusInv, TypeOK, Receive, NoteLoad, NoteSwap
  <1>2. /\ ingest[i].at \in Nat /\ ingest[i].read \in Nat
    BY <1>1 DEF Notes
  <1>3. PICK n \in Notes :
          /\ ingest' = [ingest EXCEPT ![i] = n]
          /\ \/ /\ ingest[i].pc = "new" /\ n.pc = "load" /\ lastIngest' = lastIngest
             \/ /\ ingest[i].pc # "new" /\ n.at = ingest[i].at /\ lastIngest' = lastIngest
                /\ n.pc = "load"
             \/ /\ ingest[i].pc # "new" /\ n.at = ingest[i].at /\ lastIngest' = lastIngest
                /\ n.pc = "done" /\ lastIngest >= n.at
             \/ /\ ingest[i].pc # "new" /\ n.at = ingest[i].at /\ lastIngest' = lastIngest
                /\ n.pc = "swap" /\ n.read < n.at
             \/ /\ ingest[i].pc = "swap" /\ n.at = ingest[i].at
                /\ n.pc = "done" /\ lastIngest < n.at /\ lastIngest' = n.at
    <2>1. CASE Receive(i)
      <3> DEFINE n == [at |-> now, read |-> 0, pc |-> "load"]
      <3>1. n \in Notes /\ n.pc = "load"
        BY <1>1 DEF Notes
      <3>2. /\ ingest' = [ingest EXCEPT ![i] = n] /\ ingest[i].pc = "new"
            /\ lastIngest' = lastIngest
        BY <2>1 DEF Receive
      <3> HIDE DEF n
      <3>. QED
        BY <3>1, <3>2
    <2>2. CASE NoteLoad(i)
      <3> DEFINE n == [[ingest[i] EXCEPT !.read = lastIngest]
                          EXCEPT !.pc = IF lastIngest >= ingest[i].at THEN "done" ELSE "swap"]
      <3>1. /\ n \in Notes /\ n.at = ingest[i].at /\ n.read = lastIngest
            /\ n.pc = IF lastIngest >= ingest[i].at THEN "done" ELSE "swap"
        BY <1>1 DEF Notes
      <3>2. /\ ingest' = [ingest EXCEPT ![i] = n] /\ ingest[i].pc = "load"
            /\ lastIngest' = lastIngest
        BY <1>1, <2>2 DEF NoteLoad, TypeOK
      <3> HIDE DEF n
      <3>3. CASE lastIngest >= ingest[i].at
        BY <3>1, <3>2, <3>3
      <3>4. CASE ~(lastIngest >= ingest[i].at)
        <4>1. n.pc = "swap" /\ n.read < n.at
          BY <1>1, <1>2, <3>1, <3>4
        <4>. QED
          BY <3>1, <3>2, <4>1
      <3>. QED
        BY <3>3, <3>4
    <2>3. CASE NoteSwap(i)
      <3> DEFINE n == [ingest[i] EXCEPT
                          !.pc = IF lastIngest = ingest[i].read THEN "done" ELSE "load"]
      <3>1. /\ n \in Notes /\ n.at = ingest[i].at
            /\ n.pc = IF lastIngest = ingest[i].read THEN "done" ELSE "load"
        BY <1>1 DEF Notes
      <3>2. /\ ingest' = [ingest EXCEPT ![i] = n] /\ ingest[i].pc = "swap"
            /\ lastIngest' = IF lastIngest = ingest[i].read THEN ingest[i].at ELSE lastIngest
        BY <1>1, <2>3 DEF NoteSwap, TypeOK
      <3>3. ingest[i].read < ingest[i].at
        BY <1>1, <3>2 DEF IngestInv
      <3> HIDE DEF n
      <3>. QED
        BY <1>1, <1>2, <3>1, <3>2, <3>3
    <2>. QED
      BY <2>1, <2>2, <2>3
  <1>4. ingest'[i] = n /\ \A j \in Ingests \ {i} : ingest'[j] = ingest[j]
    BY <1>1, <1>3 DEF TypeOK
  <1>5. n.at \in Nat /\ lastIngest' \in Nat /\ lastIngest' >= lastIngest
    BY <1>1, <1>3 DEF Notes
  <1>6. TypeOK'
    BY <1>1, <1>3, <1>5 DEF TypeOK
  <1>7. IngestInv'
    <2>1. ASSUME NEW j \in Ingests
          PROVE  /\ ingest'[j].pc = "swap" => ingest'[j].read < ingest'[j].at
                 /\ ingest'[j].pc = "done" => lastIngest' >= ingest'[j].at
      <3>1. CASE j = i
        BY <1>3, <1>4, <1>5, <3>1
      <3>2. CASE j # i
        <4>1. ingest[j].at \in Nat
          BY <1>1 DEF TypeOK, Notes
        <4>. QED
          BY <1>1, <1>4, <1>5, <3>2, <4>1 DEF IngestInv
      <3>. QED
        BY <3>1, <3>2
    <2>2. ASSUME lastIngest' # 0
          PROVE  \E j \in Ingests : ingest'[j].pc # "new" /\ ingest'[j].at = lastIngest'
      <3>1. CASE lastIngest' = lastIngest
        <4>1. PICK j \in Ingests : ingest[j].pc # "new" /\ ingest[j].at = lastIngest
          BY <1>1, <2>2, <3>1 DEF IngestInv
        <4>2. CASE j = i
          BY <1>3, <1>4, <3>1, <4>1, <4>2
        <4>3. CASE j # i
          BY <1>4, <3>1, <4>1, <4>3
        <4>. QED
          BY <4>2, <4>3
      <3>2. CASE lastIngest' # lastIngest
        BY <1>3, <1>4, <3>2
      <3>. QED
        BY <3>1, <3>2
    <2>. QED
      BY <2>1, <2>2 DEF IngestInv
  <1>8. ProcessInv' /\ NetInv' /\ HeldInv' /\ ToldInv'
    BY <1>1 DEF StatusInv, ProcessInv, NetInv, HeldInv, HeldOK, ToldInv
  <1>9. OrderInv'
    <2>1. \A r : Live(r)' => Live(r)
      BY <1>1 DEF Live
    <2>. QED
      BY <1>1, <2>1, FewerReports DEF StatusInv
  <1>. QED
    BY <1>5, <1>6, <1>7, <1>8, <1>9 DEF StatusInv

-----------------------------------------------------------------------------
(* The theorems. *)

\* Nothing was counted, sent, recorded or noted.
LEMMA StatusInit == Init => StatusInv
  <1> SUFFICES ASSUME Init PROVE StatusInv
    OBVIOUS
  <1>1. \A c \in Collectors : /\ process[c] \in Processes /\ process[c].started <= now
                              /\ \A p \in Producers : process[c].seen[p] = None
    BY DEF Init, Started, Processes
  <1>2. \A i \in Ingests : ingest[i] \in Notes /\ ingest[i].pc = "new"
    BY DEF Init, Notes
  <1>3. TypeOK
    <2>1. process \in [Collectors -> Processes]
      BY <1>1 DEF Init
    <2>2. ingest \in [Ingests -> Notes]
      BY <1>2 DEF Init
    <2>. QED
      BY <2>1, <2>2 DEF Init, TypeOK
  <1>4. ProcessInv /\ IngestInv
    BY <1>1, <1>2 DEF ProcessInv, IngestInv, Init
  <1>5. \A r : ~Live(r)
    BY DEF Init, Live
  <1>6. NetInv /\ HeldInv /\ ToldInv
    BY DEF Init, NetInv, HeldInv, ToldInv
  <1>7. OrderInv
    BY <1>5 DEF OrderInv
  <1>. QED
    BY <1>3, <1>4, <1>6, <1>7 DEF StatusInv

\* Every step of a Collector, of the network, of the registry, of an ingest or
\* of the clock keeps it.
LEMMA StatusStep == StatusInv /\ [Next]_vars => StatusInv'
  <1> SUFFICES ASSUME StatusInv, [Next]_vars PROVE StatusInv'
    OBVIOUS
  <1>1. CASE Tick
    BY <1>1, LossStep
  <1>2. ASSUME NEW c \in Collectors, NEW p \in Producers, ConsumeTraces(c, p) PROVE StatusInv'
    BY <1>2, ConsumeStep
  <1>3. ASSUME NEW c \in Collectors, send(c) PROVE StatusInv'
    BY <1>3, SendStep
  <1>4. ASSUME NEW c \in Collectors, Restart(c) PROVE StatusInv'
    BY <1>4, RestartStep
  <1>5. ASSUME NEW r \in net, Lose(r) PROVE StatusInv'
    BY <1>5, LossStep
  <1>6. ASSUME NEW r \in net, ReportCollectorStatus(r) PROVE StatusInv'
    BY <1>6, RecordStep
  <1>7. ASSUME NEW i \in Ingests, Receive(i) \/ NoteLoad(i) \/ NoteSwap(i) PROVE StatusInv'
    BY <1>7, NoteStep
  <1>8. CASE UNCHANGED vars
    <2>1. UNCHANGED <<now, process, net, held, ingest, lastIngest, changes>>
      BY <1>8 DEF vars
    <2>2. TypeOK' /\ ProcessInv' /\ NetInv' /\ HeldInv' /\ IngestInv' /\ ToldInv'
      BY <2>1 DEF StatusInv, TypeOK, ProcessInv, NetInv, HeldInv, HeldOK, IngestInv, ToldInv
    <2>3. \A r : Live(r)' => Live(r)
      BY <2>1 DEF Live
    <2>4. OrderInv'
      BY <2>1, <2>3, FewerReports DEF StatusInv
    <2>. QED
      BY <2>2, <2>4 DEF StatusInv
  <1>. QED
    BY <1>1, <1>2, <1>3, <1>4, <1>5, <1>6, <1>7, <1>8 DEF Next

\* The inductive invariant holds in every reachable state.
THEOREM StatusInvariant == Spec => []StatusInv
  BY StatusInit, StatusStep, PTL DEF Spec

\* The status page tells the truth within the network's delay, and whoever reads
\* it when notified has seen the facts now held (platform/status.go, record,
\* snapshot and noteIngest; status_rules.go, landingFor and the rules).
THEOREM StatusTrue == Spec => []StatusIsTrue
  <1>1. ASSUME StatusInv PROVE StatusIsTrue
    <2> DEFINE Recent(t) == t # 0 /\ now <= t + FreshWindow + MaxDelay
    <2>1. TypeOK /\ now \in Nat /\ FreshWindow \in Nat /\ MaxDelay \in Nat /\ lastIngest \in Nat
      BY <1>1, BoundsAssumption DEF StatusInv, TypeOK
    <2>2. ASSUME NEW c \in Reporting
          PROVE  /\ c \in Collectors /\ now <= held[c].receivedAt + FreshWindow
                 /\ HeldOK(c, held[c])
      BY <1>1, <2>2 DEF Reporting, snapshot, StatusInv, HeldInv
    <2>3. ASSUME NEW c \in Reporting PROVE Recent(held[c].report.sentAt)
      <3>1. /\ held[c].receivedAt \in Nat /\ held[c].report.sentAt \in Nat
            /\ held[c].report.sentAt > 0
            /\ held[c].receivedAt <= held[c].report.sentAt + MaxDelay
            /\ now <= held[c].receivedAt + FreshWindow
        BY <2>2 DEF HeldOK, ReportOK
      <3>. QED
        BY <2>1, <3>1
    <2>4. ASSUME NEW c \in Reporting, NEW p \in DOMAIN held[c].report.ages
          PROVE  /\ held[c].receivedAt \in Nat /\ held[c].report.sentAt \in Nat
                 /\ held[c].report.ages[p] \in Nat
                 /\ held[c].report.ages[p] < held[c].report.sentAt
                 /\ held[c].report.sentAt <= held[c].receivedAt
                 /\ held[c].receivedAt <= held[c].report.sentAt + MaxDelay
      BY <2>2 DEF HeldOK, ReportOK
    <2>5. ASSUME landingFor = "live"
          PROVE  \/ \E i \in Ingests : ingest[i].pc # "new" /\ Recent(ingest[i].at)
                 \/ \E c \in Reporting : \E p \in DOMAIN held[c].report.ages :
                       Recent(SeenAt(held[c].report, p))
      <3>1. CASE ingestFresh
        <4>1. lastIngest # 0 /\ now <= lastIngest + FreshWindow
          BY <3>1 DEF ingestFresh
        <4>2. PICK i \in Ingests : ingest[i].pc # "new" /\ ingest[i].at = lastIngest
          BY <1>1, <4>1 DEF StatusInv, IngestInv
        <4>3. Recent(ingest[i].at)
          BY <2>1, <4>1, <4>2
        <4>. QED
          BY <4>2, <4>3
      <3>2. ASSUME NEW c \in Reporting, ActiveProducers(c) # {}
            PROVE  \E p \in DOMAIN held[c].report.ages : Recent(SeenAt(held[c].report, p))
        <4>1. PICK p \in DOMAIN held[c].report.ages : now <= LastSeen(c, p) + FreshWindow
          BY <3>2 DEF ActiveProducers
        <4>2. Recent(SeenAt(held[c].report, p))
          BY <2>1, <2>4, <4>1 DEF LastSeen, SeenAt
        <4>. QED
          BY <4>2
      <3>3. ingestFresh \/ \E c \in Reporting : ActiveProducers(c) # {}
        BY <2>5 DEF landingFor
      <3> HIDE DEF Recent
      <3>. QED
        BY <3>1, <3>2, <3>3, Zenon DEF ingestFresh
    <2>6. ASSUME ruleNoProducer, NEW c \in Reporting, NEW p \in DOMAIN held[c].report.ages
          PROVE  SeenAt(held[c].report, p) + FreshWindow < now
      <3>1. ~(now <= LastSeen(c, p) + FreshWindow)
        BY <2>6 DEF ruleNoProducer, ActiveProducers
      <3>. QED
        BY <2>1, <2>4, <2>6, <3>1 DEF LastSeen, SeenAt
    <2>7. \A i \in Ingests : ingest[i].pc = "done" => lastIngest >= ingest[i].at
      BY <1>1 DEF StatusInv, IngestInv
    <2>8. \A c \in Collectors : held[c] # None => changes[c] = Facts(held[c].report)
      BY <1>1 DEF StatusInv, ToldInv
    <2>. QED
      BY <2>3, <2>5, <2>6, <2>7, <2>8 DEF StatusIsTrue
  <1>. QED
    BY <1>1, StatusInvariant, PTL

\* Late reports and slow ingests roll nothing back, provided a request is lost
\* before its Collector could have been forgotten: the reporter abandons one
\* after 5 seconds at most, the registry a Collector after five minutes
\* (reporter.go, maxRequestTimeout; platform/status.go, StatusExpiry and record).
THEOREM NeverGoesBack ==
  ASSUME MaxDelay <= Expiry
  PROVE  Spec => StatusNeverGoesBack
  <1>1. ASSUME StatusInv, [Next]_vars PROVE [NothingGoesBack]_vars
    <2>1. lastIngest \in Nat /\ now \in Nat /\ MaxDelay \in Nat /\ Expiry \in Nat
      BY <1>1, BoundsAssumption DEF StatusInv, TypeOK
    <2>2. lastIngest' >= lastIngest
      <3>1. ASSUME NEW i \in Ingests, Receive(i) \/ NoteLoad(i) \/ NoteSwap(i)
            PROVE  lastIngest' >= lastIngest
        BY <1>1, <3>1, NoteStep
      <3>2. CASE UNCHANGED lastIngest
        BY <2>1, <3>2
      <3>. QED
        BY <1>1, <3>1, <3>2
        DEF Next, Tick, ConsumeTraces, send, Restart, Lose, ReportCollectorStatus, Others, vars
    <2>3. ASSUME NEW c \in Collectors, held[c] # None, held'[c] # None,
                 held[c].report.instance = held'[c].report.instance
          PROVE  /\ held'[c].report.sequence >= held[c].report.sequence
                 /\ held'[c].report.received >= held[c].report.received
      <3>1. /\ HeldOK(c, held[c])
            /\ held[c].report.sequence \in Nat /\ held[c].report.received \in Nat
            /\ held[c].report.sentAt \in Nat /\ held[c].receivedAt \in Nat
            /\ held[c].report.sentAt <= held[c].receivedAt
            /\ held[c].report.collector = c
        BY <1>1, <2>3 DEF StatusInv, HeldInv, HeldOK, ReportOK
      <3>2. CASE UNCHANGED held
        BY <3>1, <3>2
      <3>3. ASSUME NEW r \in net, ReportCollectorStatus(r)
            PROVE  /\ held'[c].report.sequence >= held[c].report.sequence
                   /\ held'[c].report.received >= held[c].report.received
        <4>1. CASE held'[c] = held[c]
          BY <3>1, <4>1
        <4>2. CASE held'[c] # held[c]
          <5>1. /\ c = r.collector /\ held'[c] = Held(r)
                /\ \/ now > held[c].receivedAt + Expiry
                   \/ held[c].report.instance # r.instance
                   \/ ~(r.sequence <= held[c].report.sequence)
            BY <1>1, <2>3, <3>3, <4>2, RecordedEntry
          <5>2. /\ r.sequence \in Nat /\ r.received \in Nat /\ r.sentAt \in Nat
                /\ now <= r.sentAt + MaxDelay
            BY <1>1 DEF StatusInv, NetInv, ReportOK
          <5>3. held'[c].report = r /\ r.instance = held[c].report.instance
            BY <2>3, <5>1 DEF Held
          <5>4. InOrder(r, held[c].report) /\ InOrder(held[c].report, r)
            BY <1>1, <2>3 DEF StatusInv, OrderInv, Live
          <5>5. ~(r.sequence <= held[c].report.sequence)
            <6>1. ASSUME now > held[c].receivedAt + Expiry, r.sequence <= held[c].report.sequence
                  PROVE  FALSE
              <7>1. r.sentAt <= held[c].report.sentAt
                BY <3>1, <5>1, <5>3, <5>4, <6>1 DEF InOrder
              <7>. QED
                BY <2>1, <3>1, <5>2, <6>1, <7>1
            <6>. QED
              BY <5>1, <5>3, <6>1
          <5>6. held[c].report.sequence <= r.sequence
            BY <3>1, <5>2, <5>5
          <5>7. held[c].report.received <= r.received
            BY <3>1, <5>1, <5>3, <5>4, <5>6 DEF InOrder
          <5>. QED
            BY <3>1, <5>2, <5>3, <5>6, <5>7
        <4>. QED
          BY <4>1, <4>2
      <3>. QED
        BY <1>1, <3>2, <3>3
        DEF Next, Tick, ConsumeTraces, send, Restart, Lose, Receive, NoteLoad, NoteSwap, Others, vars
    <2>. QED
      BY <2>2, <2>3 DEF NothingGoesBack
  <1>. QED
    BY <1>1, StatusInvariant, PTL DEF Spec, StatusNeverGoesBack

-----------------------------------------------------------------------------
(* The composition with the evaluation sink and the dashboard. *)

\* A behaviour of the composition is of one component throughout.
LEMMA PartStays == ASSUME [CollectionNext]_all PROVE part' = part
  BY DEF CollectionNext, all, EngineOnly, ReportingOnly, StatusOnly, SinkOnly, TuiOnly

\* With every fault on, requests that outlive their sender and a recovery that
\* fails after it removed its entry included, what the sink remembers of a record
\* agrees with what the run and the store hold of it (sink.go, pending.go).
THEOREM SinkUnderFaults == CollectionSpec => []SinkInvUnderFaults
  <1>1. CollectionInit => SinkInvUnderFaults
    BY SinkAssumption, Faulty!InitInv DEF CollectionInit, SinkInvUnderFaults
  <1>2. SinkInvUnderFaults /\ [CollectionNext]_all => SinkInvUnderFaults'
    <2> SUFFICES ASSUME part = "sink", Faulty!SinkInv, [CollectionNext]_all
                 PROVE  Faulty!SinkInv'
      BY PartStays DEF SinkInvUnderFaults
    <2>1. [Faulty!Next]_(Faulty!vars)
      BY DEF CollectionNext, all, sinkVars, Faulty!vars, Faulty!plane, Faulty!disk,
             Faulty!memory, Faulty!history
    <2>. QED
      BY <2>1, SinkAssumption, Faulty!SinkStep
  <1>. QED
    BY <1>1, <1>2, PTL DEF CollectionSpec

-----------------------------------------------------------------------------
(* The dashboard. *)

Frames == [record : Nat, status : Tui!RunStatuses \cup {"none", "ready"}]

Reads == [gen : Nat, at : {"run", "progress", "done"},
          status : Tui!RunStatuses \cup {"none"}, count : Nat]

\* A read of the dashboard's present generation.
OfGen(r) == r \in reads /\ r.gen = gen

TuiTypes ==
    /\ runStatus \in Tui!RunStatuses
    /\ records \in Nat
    /\ gen \in Tui!Generations
    /\ conn \in [Tui!Generations -> {"none", "opening", "registered", "open", "closed"}]
    /\ wire \in [Tui!Generations -> Seq(Frames)]
    /\ reads \subseteq Reads
    /\ live \in Seq(Nat) /\ buffered \in Seq(Frames)
    /\ shown \in [status : Tui!RunStatuses \cup {"none"}, count : Nat]

TuiBooleans == resyncing \in BOOLEAN /\ everLive \in BOOLEAN /\ quitting \in BOOLEAN

\* An event that is due is of a record, or of the status the run has now.
DueOK(e, s) ==
    /\ e \in Frames
    /\ IF e.record > 0 THEN e.status = "none" ELSE e.status = s

\* A frame on its way is of a record, or of a status; the last one a run goes
\* through is the one it stays in.
FrameOK(e, s) ==
    /\ e.record > 0 => e.status = "none"
    /\ e.record = 0 => e.status # "none"
    /\ Tui!IsTerminal(e.status) => e.status = s

FramesOK(q, s) == \A i \in 1..Len(q) : FrameOK(q[i], s)

\* Nothing is of a generation to come.
GenerationInv ==
    /\ \A g \in Tui!Generations : g > gen => conn[g] = "none" /\ wire[g] = <<>>
    /\ \A g \in cut : g \in Nat /\ g <= gen
    /\ \A r \in reads : r.gen <= gen

\* What the model believes of its connection, while the program runs.
ConnectionInv ==
    /\ conn[gen] \notin {"registered", "open"} => wire[gen] = <<>>
    /\ conn[gen] \in {"opening", "registered"} => shownState = "connecting"
    /\ shownState \in {"resyncing", "live"} => conn[gen] = "open"
    /\ shownState \notin {"resyncing", "live"} => live = <<>> /\ buffered = <<>>
    /\ shownState = "resyncing" => live = <<>>
    /\ shownState = "live" => buffered = <<>>

\* The one read of a generation, and the flag that stands for it.
ReadInv ==
    /\ \A r : OfGen(r) => shownState \in {"resyncing", "live"} /\ resyncing
    /\ \A r, t : OfGen(r) /\ OfGen(t) => r = t
    /\ shownState \in {"resyncing", "live"} /\ resyncing => \E r : OfGen(r)

\* The frames, the handshake first and only before the reads.
FrameInv ==
    /\ \A e \in due : DueOK(e, runStatus)
    /\ FramesOK(wire[gen], runStatus) /\ FramesOK(buffered, runStatus)
    /\ \A i \in 1..Len(wire[gen]) :
          wire[gen][i].status = "ready" => i = 1 /\ shownState \in {"connecting", "reconnecting"}
    /\ \A i \in 1..Len(buffered) : buffered[i].status # "ready"

\* The frames hold a change of status; the last one they hold is to s.
Changes(q) == \E i \in 1..Len(q) : q[i].record = 0
EndsAt(q, s) ==
    \A i \in 1..Len(q) :
        q[i].record = 0 /\ q[i].status # "ready" /\ (\A j \in 1..Len(q) : j > i => q[j].record > 0)
            => q[i].status = s

\* A status the dashboard shows or has read is the run's, or a later change is
\* still to be applied over it.
Follows(s) == Changes(wire[gen]) \/ Changes(buffered) \/ s = runStatus

CurrentInv ==
    (gen \notin cut /\ Tui!Lifecycle(runStatus) \notin due \cup skipped) =>
        /\ EndsAt(wire[gen], runStatus)
        /\ shownState \in {"resyncing", "live"} =>
              Changes(wire[gen]) \/ EndsAt(buffered, runStatus)
        /\ shownState = "live" => Follows(shown.status)
        /\ \A r : OfGen(r) /\ r.at # "run" => Follows(r.status)

\* What was read of a run that has ended is final; once the dashboard is live it
\* reads again only because the run has ended.
FinalInv ==
    /\ \A r \in reads :
          /\ r.at = "run" => r.status = "none"
          /\ Tui!IsTerminal(r.status) => r.status = runStatus /\ (r.at = "done" => r.count = records)
    /\ shownState = "live" =>
          /\ \A r : OfGen(r) => Tui!IsTerminal(runStatus) /\ (r.at # "run" => r.status = runStatus)
          /\ Tui!IsTerminal(shown.status) =>
                shown.status = runStatus /\ (shown.count = records \/ \E r : OfGen(r))

\* Every record is counted, shown, still to come, never announced, or has given
\* way to later rows.
Covered(n, c) ==
    \/ n <= c
    \/ \E i \in 1..Len(live) : live[i] = n
    \/ \E i \in 1..Len(buffered) : buffered[i] = Tui!Observation(n)
    \/ \E i \in 1..Len(wire[gen]) : wire[gen][i] = Tui!Observation(n)
    \/ Tui!Observation(n) \in due \cup skipped
    \/ Len(live) = tuiObservationCapacity

BetweenInv ==
    gen \notin cut =>
        \A n \in 1..records :
            /\ shownState = "live" => Covered(n, shown.count)
            /\ \A r : OfGen(r) /\ r.at = "done" => Covered(n, r.count)

\* The inductive invariant of the dashboard: once it is quitting nothing
\* happens any more.
RunningInv ==
    /\ GenerationInv /\ ConnectionInv /\ ReadInv /\ FrameInv
    /\ CurrentInv /\ FinalInv /\ BetweenInv

TuiInv == TuiTypes /\ TuiBooleans /\ (~quitting => RunningInv)

\* A set of naturals that is not empty has a least element.
LEMMA LeastNat ==
  ASSUME NEW T, T \subseteq Nat, T # {}
  PROVE  \E n \in T : \A k \in T : n <= k
  <1> DEFINE R == {ss \in Nat \X Nat : ss[1] < ss[2]}
  <1>1. IsWellFoundedOn(R, Nat)
    BY NatLessThanWellFounded DEF OpToRel
  <1>2. PICK n \in T : \A y \in T : <<y, n>> \notin R
    BY <1>1, WFMin
  <1>3. \A y \in T : ~(y < n)
    BY <1>2
  <1>. QED
    BY <1>3

\* A set that holds 0 and every successor of its elements holds every natural:
\* how the proofs below reason about functions that applyEvent's loop becomes.
LEMMA SetInduction ==
  ASSUME NEW S, S \subseteq Nat, 0 \in S, \A n \in S : n + 1 \in S
  PROVE  \A n \in Nat : n \in S
  <1> SUFFICES ASSUME Nat \ S # {} PROVE FALSE
    OBVIOUS
  <1>1. PICK n \in Nat \ S : \A k \in Nat \ S : n <= k
    BY LeastNat
  <1>2. n # 0
    OBVIOUS
  <1>3. n - 1 \in Nat /\ n - 1 \in S
    BY <1>1, <1>2
  <1>. QED
    BY <1>1, <1>3

\* A bounded set of naturals that is not empty has a greatest element.
LEMMA HasGreatest ==
  ASSUME NEW n \in Nat, NEW T, T \subseteq 1..n, T # {}
  PROVE  \E t \in T : \A i \in T : i <= t
  <1> DEFINE U == {n - i : i \in T}
  <1>1. \A i \in T : n - i \in Nat
    OBVIOUS
  <1>2. PICK u \in U : \A k \in U : u <= k
    <2>1. U \subseteq Nat
      BY <1>1
    <2>2. U # {}
      OBVIOUS
    <2>. QED
      BY <2>1, <2>2, LeastNat
  <1>3. PICK t \in T : u = n - t
    BY <1>2
  <1>. QED
    BY <1>2, <1>3

\* So the dashboard's greatest index is one.
LEMMA GreatestIndex ==
  ASSUME NEW n \in Nat, NEW T, T \subseteq 1..n, T # {}
  PROVE  Tui!Max(T) \in T /\ \A i \in T : i <= Tui!Max(T)
  <1>1. PICK t \in T : \A i \in T : t >= i
    BY HasGreatest
  <1>. QED
    BY <1>1 DEF Tui!Max

\* The rows before each event exist.
LEMMA RowsDefined ==
  ASSUME NEW q, NEW n \in Nat
  PROVE  \E f : f = [i \in 0..n |->
             IF i = 0 THEN live
             ELSE IF q[i].record > 0 THEN Tui!appendObservation(f[i - 1], q[i].record)
             ELSE f[i - 1]]
  <1> DEFINE G(f, i) == IF i = 0 THEN live
                        ELSE IF q[i].record > 0 THEN Tui!appendObservation(f[i - 1], q[i].record)
                        ELSE f[i - 1]
             S == {k \in Nat : \E f : f = [i \in 0..k |-> G(f, i)]}
  <1>1. 0 \in S
    <2>1. [i \in 0..0 |-> live] = [i \in 0..0 |-> G([j \in 0..0 |-> live], i)]
      OBVIOUS
    <2>. QED
      BY <2>1
  <1>2. ASSUME NEW k \in S PROVE k + 1 \in S
    <2>1. PICK f : f = [i \in 0..k |-> G(f, i)]
      BY <1>2
    <2> DEFINE g == [i \in 0..(k + 1) |-> IF i <= k THEN f[i] ELSE G(f, i)]
    <2>2. ASSUME NEW i \in 0..(k + 1) PROVE g[i] = G(g, i)
      <3>1. k \in Nat /\ i \in Nat
        BY <1>2
      <3>2. i = 0 \/ g[i - 1] = f[i - 1]
        BY <3>1
      <3>3. G(g, i) = G(f, i)
        BY <3>2
      <3>. QED
        BY <2>1, <3>1, <3>3
    <2>3. g = [i \in 0..(k + 1) |-> G(g, i)]
      BY <2>2
    <2> HIDE DEF g
    <2>4. \E h : h = [i \in 0..(k + 1) |-> G(h, i)]
      BY <2>3
    <2>5. k + 1 \in Nat
      BY <1>2
    <2>. QED
      BY <2>4, <2>5
  <1>3. S \subseteq Nat
    OBVIOUS
  <1>4. n \in S
    BY <1>1, <1>2, <1>3, SetInduction
  <1>. QED
    BY <1>4

\* A row is appended; what was there stays, unless there was no room for it.
LEMMA RowAppended ==
  ASSUME NEW s \in Seq(Nat), NEW n \in Nat
  PROVE  /\ Tui!appendObservation(s, n) \in Seq(Nat)
         /\ \/ Len(Tui!appendObservation(s, n)) = tuiObservationCapacity
            \/ /\ Len(s) # tuiObservationCapacity
               /\ Tui!appendObservation(s, n) = Append(s, n)
  <1>1. tuiObservationCapacity \in Nat \ {0}
    BY TuiAssumption DEF Tui!DashboardAssumption
  <1>2. CASE Len(s) = tuiObservationCapacity
    <2>1. s # <<>> /\ Tail(s) \in Seq(Nat) /\ Len(Tail(s)) = Len(s) - 1
      BY <1>1, <1>2
    <2>. QED
      BY <1>1, <1>2, <2>1 DEF Tui!appendObservation
  <1>3. CASE Len(s) # tuiObservationCapacity
    BY <1>3 DEF Tui!appendObservation
  <1>. QED
    BY <1>2, <1>3

\* Row n is among the rows s.
Has(s, n) == \E j \in 1..Len(s) : s[j] = n

\* A row appended is there, beside those that were.
LEMMA Grows ==
  ASSUME NEW s \in Seq(Nat), NEW n \in Nat
  PROVE  Has(Append(s, n), n) /\ \A k : Has(s, k) => Has(Append(s, n), k)
  <1>1. /\ Len(Append(s, n)) = Len(s) + 1 /\ Len(s) \in Nat
        /\ \A j \in 1..Len(s) : Append(s, n)[j] = s[j]
        /\ Append(s, n)[Len(s) + 1] = n
    OBVIOUS
  <1>. QED
    BY <1>1 DEF Has

\* Every row stays and every event about a record gets one, unless the rows are
\* all the dashboard has room for.
LEMMA RowsKeep ==
  ASSUME NEW q \in Seq(Frames), live \in Seq(Nat)
  PROVE  /\ Tui!Rows(q) \in Seq(Nat)
         /\ \/ Len(Tui!Rows(q)) = tuiObservationCapacity
            \/ /\ Len(live) # tuiObservationCapacity
               /\ \A i \in 1..Len(live) : Has(Tui!Rows(q), live[i])
               /\ \A i \in 1..Len(q) : q[i].record > 0 => Has(Tui!Rows(q), q[i].record)
  <1> DEFINE G(f, i) == IF i = 0 THEN live
                        ELSE IF q[i].record > 0 THEN Tui!appendObservation(f[i - 1], q[i].record)
                        ELSE f[i - 1]
             after == CHOOSE f : f = [i \in 0..Len(q) |-> G(f, i)]
             P(i) == /\ after[i] \in Seq(Nat)
                     /\ \/ Len(after[i]) = tuiObservationCapacity
                        \/ /\ Len(live) # tuiObservationCapacity
                           /\ \A j \in 1..Len(live) : Has(after[i], live[j])
                           /\ \A j \in 1..i : q[j].record > 0 => Has(after[i], q[j].record)
             S == {i \in Nat : i <= Len(q) => P(i)}
  <1>0. Len(q) \in Nat /\ \A i \in 1..Len(q) : q[i] \in Frames
    OBVIOUS
  <1>1. after = [i \in 0..Len(q) |-> G(after, i)]
    <2>1. \E f : f = [i \in 0..Len(q) |-> G(f, i)]
      BY <1>0, RowsDefined
    <2>. QED
      BY <2>1
  <1>2. Tui!Rows(q) = after[Len(q)]
    BY DEF Tui!Rows
  <1> HIDE DEF after
  <1>3. after[0] = live
    BY <1>0, <1>1
  <1>4. ASSUME NEW i \in Nat, i + 1 <= Len(q)
        PROVE  after[i + 1] = IF q[i + 1].record > 0
                              THEN Tui!appendObservation(after[i], q[i + 1].record)
                              ELSE after[i]
    <2>1. i + 1 \in 0..Len(q) /\ i + 1 # 0 /\ (i + 1) - 1 = i
      BY <1>0, <1>4
    <2>2. after[i + 1] = G(after, i + 1)
      BY <1>1, <2>1
    <2>. QED
      BY <2>1, <2>2
  <1>5. 0 \in S
    BY <1>3 DEF Has
  <1>6. ASSUME NEW i \in S PROVE i + 1 \in S
    <2> SUFFICES ASSUME i + 1 <= Len(q) PROVE P(i + 1)
      BY <1>6
    <2>1. i \in Nat /\ P(i) /\ i + 1 \in 1..Len(q)
      BY <1>0, <1>6
    <2>2. q[i + 1].record \in Nat
      BY <1>0, <2>1 DEF Frames
    <2> HIDE DEF S
    <2>3. CASE q[i + 1].record > 0
      <3>1. after[i + 1] = Tui!appendObservation(after[i], q[i + 1].record)
        BY <1>4, <2>1, <2>3
      <3>2. /\ after[i + 1] \in Seq(Nat)
            /\ \/ Len(after[i + 1]) = tuiObservationCapacity
               \/ /\ Len(after[i]) # tuiObservationCapacity
                  /\ after[i + 1] = Append(after[i], q[i + 1].record)
        BY <2>1, <2>2, <3>1, RowAppended
      <3>3. CASE Len(after[i + 1]) = tuiObservationCapacity
        BY <3>2, <3>3
      <3>4. CASE Len(after[i + 1]) # tuiObservationCapacity
        <4>1. /\ Has(after[i + 1], q[i + 1].record)
              /\ \A k : Has(after[i], k) => Has(after[i + 1], k)
          <5>1. after[i] \in Seq(Nat) /\ after[i + 1] = Append(after[i], q[i + 1].record)
            BY <2>1, <3>2, <3>4
          <5>2. /\ Has(Append(after[i], q[i + 1].record), q[i + 1].record)
                /\ \A k : Has(after[i], k) => Has(Append(after[i], q[i + 1].record), k)
            BY <2>2, <5>1, Grows
          <5>. QED
            BY <5>1, <5>2
        <4>2. /\ Len(live) # tuiObservationCapacity
              /\ \A j \in 1..Len(live) : Has(after[i], live[j])
              /\ \A j \in 1..i : q[j].record > 0 => Has(after[i], q[j].record)
          BY <2>1, <3>2, <3>4
        <4>3. \A j \in 1..(i + 1) : j \in 1..i \/ j = i + 1
          BY <2>1
        <4>. QED
          BY <3>2, <4>1, <4>2, <4>3
      <3>. QED
        BY <3>3, <3>4
    <2>4. CASE ~(q[i + 1].record > 0)
      <3>1. after[i + 1] = after[i]
        BY <1>4, <2>1, <2>4
      <3>2. \A j \in 1..(i + 1) : j \in 1..i \/ j = i + 1
        BY <2>1
      <3>. QED
        BY <2>1, <2>4, <3>1, <3>2
    <2>. QED
      BY <2>3, <2>4
  <1>7. Len(q) \in S
    BY <1>0, <1>5, <1>6, SetInduction
  <1>. QED
    BY <1>0, <1>2, <1>7

\* The status after some events is that of the last one about it.
LEMMA StatusFollows ==
  ASSUME NEW q \in Seq(Frames), NEW s
  PROVE  \/ ~Changes(q) /\ Tui!StatusAfter(q, s) = s
         \/ \E i \in 1..Len(q) :
               /\ q[i].record = 0 /\ (\A j \in 1..Len(q) : j > i => q[j].record > 0)
               /\ Tui!StatusAfter(q, s) = q[i].status
  <1> DEFINE T == {i \in DOMAIN q : q[i].record = 0}
  <1>0. \A i \in 1..Len(q) : q[i] \in Frames
    OBVIOUS
  <1>1. DOMAIN q = 1..Len(q) /\ Len(q) \in Nat /\ \A i \in 1..Len(q) : q[i].record \in Nat
    BY <1>0 DEF Frames
  <1>2. CASE T = {}
    BY <1>1, <1>2 DEF Changes, Tui!StatusAfter
  <1>3. CASE T # {}
    <2>1. Tui!Max(T) \in T /\ \A i \in T : i <= Tui!Max(T)
      BY <1>1, <1>3, GreatestIndex
    <2>2. Tui!StatusAfter(q, s) = q[Tui!Max(T)].status
      BY <1>3 DEF Tui!StatusAfter
    <2> HIDE DEF T
    <2> DEFINE m == Tui!Max(T)
    <2> HIDE DEF m
    <2>3. m \in T /\ (\A i \in T : i <= m) /\ Tui!StatusAfter(q, s) = q[m].status
      BY <2>1, <2>2 DEF m
    <2> USE DEF T
    <2>4. m \in 1..Len(q) /\ q[m].record = 0
      BY <1>1, <2>3
    <2>5. \A j \in 1..Len(q) : j > m => q[j].record > 0
      BY <1>1, <2>3, <2>4
    <2>. QED
      BY <2>3, <2>4, <2>5
  <1>. QED
    BY <1>2, <1>3

\* The generations there may be.
LEMMA GenerationsAre == Tui!Generations \subseteq Nat /\ 0 \in Tui!Generations
  <1>1. /\ tuiPendingEventCapacity \in Nat \ {0} /\ ShownRecords \in Nat
        /\ DropBound \in Nat /\ KeyBound \in Nat
    BY TuiAssumption DEF Tui!DashboardAssumption
  <1> DEFINE over == (ShownRecords + 2) \div (tuiPendingEventCapacity + 1)
             top  == 2 * (DropBound + over) + KeyBound
  <1>2. over \in Nat
    BY <1>1
  <1> HIDE DEF over
  <1>3. top \in Nat
    BY <1>1, <1>2
  <1>4. Tui!Generations = 0..top
    BY DEF Tui!Generations, over
  <1>. QED
    BY <1>3, <1>4

\* A dashboard that has just been opened.
LEMMA TuiInit == Tui!Init => TuiInv
  <1> SUFFICES ASSUME Tui!Init PROVE TuiInv
    OBVIOUS
  <1> USE GenerationsAre DEF Tui!Init
  <1>1. TuiTypes
    BY DEF TuiTypes, Tui!RunStatuses
  <1>2. TuiBooleans
    BY DEF TuiBooleans
  <1>3. /\ reads = {} /\ cut = {} /\ due = {} /\ gen = 0 /\ shownState = "connecting"
        /\ live = <<>> /\ buffered = <<>> /\ wire[0] = <<>> /\ conn[0] = "opening"
        /\ records = 0
    OBVIOUS
  <1>4. GenerationInv
    BY <1>3 DEF GenerationInv
  <1>5. ConnectionInv /\ ReadInv
    BY <1>3 DEF ConnectionInv, ReadInv, OfGen
  <1>6. FrameInv /\ CurrentInv
    BY <1>3 DEF FrameInv, FramesOK, CurrentInv, EndsAt, OfGen
  <1>7. FinalInv /\ BetweenInv
    BY <1>3 DEF FinalInv, BetweenInv, OfGen
  <1>. QED
    BY <1>1, <1>2, <1>4, <1>5, <1>6, <1>7 DEF TuiInv, RunningInv

\* A new generation begins with nothing of its own.
LEMMA NewGeneration ==
  ASSUME TuiInv, ~quitting, UNCHANGED <<runStatus, records, due, skipped, cut>>,
         gen' = gen + 1, gen' \in Tui!Generations, reads' \subseteq reads,
         shownState' \in {"connecting", "reconnecting"}, live' = <<>>, buffered' = <<>>,
         \A g \in Tui!Generations : g > gen => wire'[g] = wire[g],
         \A g \in Tui!Generations : g > gen' => conn'[g] = conn[g],
         conn'[gen'] = "none" \/ (conn'[gen'] = "opening" /\ shownState' = "connecting")
  PROVE  RunningInv'
  <1> USE GenerationsAre
  <1>0. RunningInv /\ TuiTypes
    BY DEF TuiInv
  <1>1. /\ gen \in Nat /\ gen' \in Nat /\ gen' > gen /\ wire'[gen'] = <<>>
        /\ \A r \in reads' : r \in reads /\ r.gen \in Nat /\ r.gen <= gen
    BY <1>0 DEF RunningInv, TuiTypes, GenerationInv, Reads
  <1>2. \A r : ~OfGen(r)'
    BY <1>1 DEF OfGen
  <1>3. GenerationInv'
    BY <1>0, <1>1 DEF RunningInv, GenerationInv
  <1>4. ConnectionInv'
    BY <1>1 DEF ConnectionInv
  <1>5. ReadInv'
    BY <1>2 DEF ReadInv
  <1>6. FrameInv'
    BY <1>0, <1>1 DEF RunningInv, FrameInv, FramesOK
  <1>7. CurrentInv'
    BY <1>1, <1>2 DEF CurrentInv, EndsAt
  <1>8. FinalInv'
    BY <1>0, <1>1, <1>2 DEF RunningInv, FinalInv
  <1>9. BetweenInv'
    BY <1>2 DEF BetweenInv
  <1>. QED
    BY <1>3, <1>4, <1>5, <1>6, <1>7, <1>8, <1>9 DEF RunningInv

\* A stream that ends is replaced, or the program is over.
LEMMA StreamEnded ==
  ASSUME TuiInv, ~quitting, Tui!HandleStreamEnd, reads' \subseteq reads,
         UNCHANGED <<runStatus, records, due, skipped, cut>>
  PROVE  TuiInv'
  <1> USE GenerationsAre
  <1>0. TuiTypes /\ TuiBooleans /\ gen \in Tui!Generations /\ gen \in Nat
    BY DEF TuiInv, TuiTypes
  <1>1. gen' \in Tui!Generations /\ live' \in Seq(Nat) /\ buffered' \in Seq(Frames)
    <2>1. \/ gen' = gen + 1 /\ gen + 1 \in Tui!Generations /\ live' = <<>> /\ buffered' = <<>>
          \/ UNCHANGED <<gen, live, buffered>>
      BY DEF Tui!HandleStreamEnd, Tui!ScheduleReconnect, Tui!Fatal
    <2>2. live \in Seq(Nat) /\ buffered \in Seq(Frames)
      BY <1>0 DEF TuiTypes
    <2>3. <<>> \in Seq(Nat) /\ <<>> \in Seq(Frames)
      OBVIOUS
    <2>4. CASE UNCHANGED <<gen, live, buffered>>
      BY <1>0, <2>2, <2>4
    <2>. QED
      BY <2>1, <2>3, <2>4
  <1>2. conn' \in [Tui!Generations -> {"none", "opening", "registered", "open", "closed"}]
    BY <1>0 DEF TuiTypes, Tui!HandleStreamEnd
  <1>3. wire' \in [Tui!Generations -> Seq(Frames)]
    BY <1>0 DEF TuiTypes, Tui!HandleStreamEnd
  <1>4. UNCHANGED <<shown, resyncing, everLive>>
    BY DEF Tui!HandleStreamEnd
  <1>5. TuiTypes'
    BY <1>0, <1>1, <1>2, <1>3, <1>4 DEF TuiTypes
  <1>6. TuiBooleans'
    BY <1>0, <1>4 DEF TuiBooleans, Tui!HandleStreamEnd, Tui!ScheduleReconnect, Tui!Fatal
  <1>7. CASE everLive
    <2>1. Tui!ScheduleReconnect(gen + 1)
      BY <1>7 DEF Tui!HandleStreamEnd
    <2>2. /\ gen' = gen + 1 /\ shownState' = "reconnecting"
          /\ live' = <<>> /\ buffered' = <<>>
      BY <2>1 DEF Tui!ScheduleReconnect
    <2>3. \A g \in Tui!Generations : g > gen => wire'[g] = wire[g] /\ conn'[g] = conn[g]
      BY <1>0 DEF TuiTypes, Tui!HandleStreamEnd
    <2>4. conn'[gen'] = "none"
      BY <1>0, <1>1, <2>2, <2>3 DEF TuiInv, RunningInv, GenerationInv
    <2>5. \A g \in Tui!Generations : g > gen' => conn'[g] = conn[g]
      <3>1. gen' = gen + 1 /\ gen \in Nat
        BY <1>0, <2>2
      <3>2. \A g \in Tui!Generations : g > gen' => g > gen
        BY <3>1
      <3>. QED
        BY <2>3, <3>2
    <2>6. /\ \A g \in Tui!Generations : g > gen => wire'[g] = wire[g]
          /\ shownState' \in {"connecting", "reconnecting"} /\ gen' \in Tui!Generations
      BY <1>1, <2>2, <2>3
    <2>7. RunningInv'
      BY <2>2, <2>4, <2>5, <2>6, NewGeneration
    <2>. QED
      BY <1>5, <1>6, <2>7 DEF TuiInv
  <1>8. CASE ~everLive
    BY <1>5, <1>6, <1>8 DEF TuiInv, Tui!HandleStreamEnd, Tui!Fatal
  <1>. QED
    BY <1>7, <1>8

\* The steps that end a stream.
LEMMA EndingStep ==
  ASSUME TuiInv, ~quitting,
         \/ Tui!OpenFails \/ Tui!StreamEnds \/ Tui!HandleOverflow \/ Tui!RejectFrame
         \/ \E r \in reads : Tui!ReadFails(r)
  PROVE  TuiInv'
  <1>1. /\ Tui!HandleStreamEnd /\ reads' \subseteq reads
        /\ UNCHANGED <<runStatus, records, due, skipped, cut>>
    BY DEF Tui!OpenFails, Tui!StreamEnds, Tui!HandleOverflow, Tui!RejectFrame, Tui!ReadFails,
           Tui!plane
  <1>. QED
    BY <1>1, StreamEnded

\* A reconnection.
LEMMA Reconnected ==
  ASSUME TuiInv, ~quitting, Tui!Reconnect,
         UNCHANGED <<runStatus, records, due, skipped, cut, reads>>
  PROVE  TuiInv'
  <1> USE GenerationsAre
  <1>0. TuiTypes /\ TuiBooleans /\ gen \in Tui!Generations /\ gen \in Nat
    BY DEF TuiInv, TuiTypes
  <1>1. /\ gen' = gen + 1 /\ gen' \in Tui!Generations /\ shownState' = "connecting"
        /\ live' = <<>> /\ buffered' = <<>> /\ UNCHANGED <<shown, everLive, quitting>>
        /\ resyncing' = FALSE
    BY DEF Tui!Reconnect
  <1>2. /\ conn' \in [Tui!Generations -> {"none", "opening", "registered", "open", "closed"}]
        /\ conn'[gen'] = "opening"
        /\ \A g \in Tui!Generations : g > gen' => conn'[g] = conn[g]
    BY <1>0, <1>1 DEF TuiTypes, Tui!Reconnect, Tui!Released
  <1>3. /\ wire' \in [Tui!Generations -> Seq(Frames)]
        /\ \A g \in Tui!Generations : g > gen => wire'[g] = wire[g]
    BY <1>0 DEF TuiTypes, Tui!Reconnect, Tui!Emptied
  <1>4. TuiTypes'
    BY <1>0, <1>1, <1>2, <1>3 DEF TuiTypes
  <1>5. TuiBooleans'
    BY <1>0, <1>1 DEF TuiBooleans
  <1>6. RunningInv'
    BY <1>1, <1>2, <1>3, NewGeneration
  <1>. QED
    BY <1>4, <1>5, <1>6 DEF TuiInv

\* The key r, and the timer of a reconnection.
LEMMA ReconnectStep ==
  ASSUME TuiInv, ~quitting, Tui!PressReconnect \/ \E g \in timers : Tui!Tick(g)
  PROVE  TuiInv'
  <1>1. CASE /\ Tui!Reconnect
             /\ UNCHANGED <<runStatus, records, due, skipped, cut, reads>>
    BY <1>1, Reconnected
  <1>2. CASE /\ UNCHANGED <<conn, wire, shownState, gen, shown, live, buffered, resyncing,
                            everLive, quitting>>
             /\ UNCHANGED <<runStatus, records, due, skipped, cut, reads>>
    BY <1>2
    DEF TuiInv, TuiTypes, TuiBooleans, RunningInv, GenerationInv, ConnectionInv, ReadInv, FrameInv,
        CurrentInv, FinalInv, BetweenInv, OfGen, Follows, Covered
  <1>. QED
    BY <1>1, <1>2 DEF Tui!PressReconnect, Tui!Tick, Tui!plane, Tui!cmds, Tui!model

\* The keys that end the program.
LEMMA QuitStep == ASSUME TuiInv, Tui!PressQuit PROVE TuiInv'
  <1>0. TuiTypes /\ TuiBooleans /\ gen \in Tui!Generations
    BY DEF TuiInv, TuiTypes
  <1>1. conn' \in [Tui!Generations -> {"none", "opening", "registered", "open", "closed"}]
    BY <1>0 DEF TuiTypes, Tui!PressQuit, Tui!Released
  <1>2. wire' \in [Tui!Generations -> Seq(Frames)]
    BY <1>0 DEF TuiTypes, Tui!PressQuit, Tui!Emptied
  <1>3. /\ quitting' = TRUE
        /\ UNCHANGED <<runStatus, records, reads, gen, shown, live, buffered, resyncing, everLive>>
    BY DEF Tui!PressQuit, Tui!plane, Tui!cmds
  <1>4. TuiTypes'
    BY <1>0, <1>1, <1>2, <1>3 DEF TuiTypes
  <1>5. TuiBooleans'
    BY <1>0, <1>3 DEF TuiBooleans
  <1>. QED
    BY <1>3, <1>4, <1>5 DEF TuiInv

\* A frame joins the end of others.
LEMMA FramesAppended ==
  ASSUME NEW q \in Seq(Frames), NEW e \in Frames, NEW s
  PROVE  /\ FramesOK(q, s) /\ FrameOK(e, s) => FramesOK(Append(q, e), s)
         /\ Changes(Append(q, e)) <=> Changes(q) \/ e.record = 0
         /\ e.record = 0 /\ e.status = s => EndsAt(Append(q, e), s)
         /\ e.record > 0 /\ EndsAt(q, s) => EndsAt(Append(q, e), s)
         /\ \A f : (\E i \in 1..Len(q) : q[i] = f) => \E i \in 1..Len(Append(q, e)) : Append(q, e)[i] = f
         /\ \E i \in 1..Len(Append(q, e)) : Append(q, e)[i] = e
  <1> DEFINE t == Append(q, e)
  <1>1. /\ Len(t) = Len(q) + 1 /\ Len(q) \in Nat /\ t[Len(q) + 1] = e
        /\ \A i \in 1..Len(q) : t[i] = q[i]
    OBVIOUS
  <1>2. e.record \in Nat
    BY DEF Frames
  <1> HIDE DEF t
  <1>3. FramesOK(q, s) /\ FrameOK(e, s) => FramesOK(t, s)
    <2>1. \A i \in 1..Len(t) : i \in 1..Len(q) \/ i = Len(q) + 1
      BY <1>1
    <2>. QED
      BY <1>1, <2>1 DEF FramesOK
  <1>4. Changes(t) <=> Changes(q) \/ e.record = 0
    BY <1>1 DEF Changes
  <1>5. e.record = 0 /\ e.status = s => EndsAt(t, s)
    BY <1>1 DEF EndsAt
  <1>6. e.record > 0 /\ EndsAt(q, s) => EndsAt(t, s)
    <2> SUFFICES ASSUME e.record > 0, EndsAt(q, s), NEW i \in 1..Len(t),
                        t[i].record = 0, t[i].status # "ready",
                        \A j \in 1..Len(t) : j > i => t[j].record > 0
                 PROVE  t[i].status = s
      BY DEF EndsAt
    <2>1. i \in 1..Len(q)
      BY <1>1, <1>2
    <2>2. \A j \in 1..Len(q) : j > i => q[j].record > 0
      BY <1>1, <2>1
    <2>. QED
      BY <1>1, <2>1, <2>2 DEF EndsAt
  <1>7. \A f : (\E i \in 1..Len(q) : q[i] = f) => \E i \in 1..Len(t) : t[i] = f
    BY <1>1
  <1>8. \E i \in 1..Len(t) : t[i] = e
    BY <1>1
  <1>. QED
    BY <1>3, <1>4, <1>5, <1>6, <1>7, <1>8 DEF t

\* The first frame is taken.
LEMMA FrameTaken ==
  ASSUME NEW q \in Seq(Frames), q # <<>>, NEW s
  PROVE  /\ Head(q) \in Frames /\ Tail(q) \in Seq(Frames) /\ Head(q) = q[1] /\ 1 \in 1..Len(q)
         /\ FramesOK(q, s) => FrameOK(Head(q), s) /\ FramesOK(Tail(q), s)
         /\ Changes(q) <=> Changes(Tail(q)) \/ Head(q).record = 0
         /\ EndsAt(q, s) => EndsAt(Tail(q), s)
         /\ EndsAt(q, s) /\ Head(q).record = 0 /\ Head(q).status # "ready" /\ ~Changes(Tail(q))
               => Head(q).status = s
         /\ \A f : (\E i \in 1..Len(q) : q[i] = f) =>
                      Head(q) = f \/ \E i \in 1..Len(Tail(q)) : Tail(q)[i] = f
         /\ \A i \in 1..Len(Tail(q)) : i + 1 \in 1..Len(q) /\ Tail(q)[i] = q[i + 1] /\ i + 1 # 1
  <1> DEFINE t == Tail(q)
             h == Head(q)
  <1>1. /\ t \in Seq(Frames) /\ h \in Frames /\ Len(q) = Len(t) + 1 /\ Len(t) \in Nat /\ h = q[1]
        /\ \A i \in 1..Len(t) : t[i] = q[i + 1]
    OBVIOUS
  <1> HIDE DEF t, h
  <1>2. \A i \in 1..Len(t) : t[i].record \in Nat
    <2>1. \A i \in 1..Len(t) : t[i] \in Frames
      BY <1>1
    <2>. QED
      BY <2>1 DEF Frames
  <1>3. \A i \in 1..Len(q) : i = 1 \/ (i - 1 \in 1..Len(t) /\ q[i] = t[i - 1])
    BY <1>1
  <1>4. \A i \in 1..Len(t) : i + 1 \in 1..Len(q) /\ t[i] = q[i + 1] /\ i + 1 # 1
    BY <1>1
  <1>5. FramesOK(q, s) => FrameOK(h, s) /\ FramesOK(t, s)
    BY <1>1, <1>4 DEF FramesOK
  <1>6. Changes(q) <=> Changes(t) \/ h.record = 0
    <2>1. ASSUME NEW i \in 1..Len(q), q[i].record = 0 PROVE Changes(t) \/ h.record = 0
      <3>1. CASE i = 1
        BY <1>1, <2>1, <3>1
      <3>2. CASE i - 1 \in 1..Len(t) /\ q[i] = t[i - 1]
        BY <2>1, <3>2 DEF Changes
      <3>. QED
        BY <1>3, <3>1, <3>2
    <2>2. ASSUME NEW i \in 1..Len(t), t[i].record = 0 PROVE Changes(q)
      BY <1>4, <2>2 DEF Changes
    <2>3. ASSUME h.record = 0 PROVE Changes(q)
      BY <1>1, <2>3 DEF Changes
    <2>. QED
      BY <2>1, <2>2, <2>3 DEF Changes
  <1>7. EndsAt(q, s) => EndsAt(t, s)
    <2> SUFFICES ASSUME EndsAt(q, s), NEW i \in 1..Len(t),
                        t[i].record = 0, t[i].status # "ready",
                        \A j \in 1..Len(t) : j > i => t[j].record > 0
                 PROVE  t[i].status = s
      BY DEF EndsAt
    <2>1. \A j \in 1..Len(q) : j > i + 1 => q[j].record > 0
      <3> SUFFICES ASSUME NEW j \in 1..Len(q), j > i + 1 PROVE q[j].record > 0
        OBVIOUS
      <3>1. j - 1 \in 1..Len(t) /\ q[j] = t[j - 1] /\ j - 1 > i
        BY <1>1, <1>3
      <3>. QED
        BY <3>1
    <2>. QED
      BY <1>4, <2>1 DEF EndsAt
  <1>8. EndsAt(q, s) /\ h.record = 0 /\ h.status # "ready" /\ ~Changes(t) => h.status = s
    <2> SUFFICES ASSUME EndsAt(q, s), h.record = 0, h.status # "ready", ~Changes(t)
                 PROVE  h.status = s
      OBVIOUS
    <2>1. \A j \in 1..Len(q) : j > 1 => q[j].record > 0
      BY <1>1, <1>2, <1>3 DEF Changes
    <2>. QED
      BY <1>1, <2>1 DEF EndsAt
  <1>9. \A f : (\E i \in 1..Len(q) : q[i] = f) => h = f \/ \E i \in 1..Len(t) : t[i] = f
    BY <1>1, <1>3
  <1>10. 1 \in 1..Len(q)
    BY <1>1
  <1>. QED
    BY <1>1, <1>4, <1>5, <1>6, <1>7, <1>8, <1>9, <1>10 DEF t, h

\* The parts of the invariant of a running dashboard.
LEMMA Running ==
  ASSUME TuiInv, ~quitting
  PROVE  /\ TuiTypes /\ TuiBooleans /\ GenerationInv /\ ConnectionInv /\ ReadInv /\ FrameInv
         /\ CurrentInv /\ FinalInv /\ BetweenInv
         /\ gen \in Nat /\ gen \in Tui!Generations
  BY GenerationsAre DEF TuiInv, RunningInv, TuiTypes

\* The run changes its status.
LEMMA TransitionStep ==
  ASSUME TuiInv, ~quitting, NEW to \in ShownStatuses, Tui!Transition(to)
  PROVE  TuiInv'
  <1> USE Running
  <1>1. /\ to \in Tui!RunStatuses /\ runStatus' = to
        /\ due' = due \cup {Tui!Lifecycle(to)} /\ (\A e \in due : e.record > 0)
        /\ ~Tui!IsTerminal(runStatus)
    BY TuiAssumption
    DEF Tui!DashboardAssumption, Tui!Transition, Tui!TransitionAllowed, Tui!IsTerminal
  <1>2. UNCHANGED <<records, skipped, conn, wire, cut, reads, timers, shownState, gen, shown,
                    live, buffered, resyncing, everLive, quitting>>
    BY DEF Tui!Transition, Tui!net, Tui!cmds, Tui!model
  <1>3. TuiTypes' /\ TuiBooleans'
    BY <1>1, <1>2 DEF TuiTypes, TuiBooleans
  <1>4. GenerationInv' /\ ConnectionInv' /\ ReadInv'
    BY <1>2 DEF GenerationInv, ConnectionInv, ReadInv, OfGen
  <1>5. FrameInv'
    <2>1. Tui!Lifecycle(to) \in Frames /\ DueOK(Tui!Lifecycle(to), to)
      BY <1>1 DEF Tui!Lifecycle, Frames, DueOK
    <2>2. \A e \in due : DueOK(e, to)
      BY <1>1 DEF FrameInv, DueOK
    <2>3. FramesOK(wire[gen], to) /\ FramesOK(buffered, to)
      BY <1>1 DEF FrameInv, FramesOK, FrameOK
    <2>. QED
      BY <1>1, <1>2, <2>1, <2>2, <2>3 DEF FrameInv
  <1>6. CurrentInv'
    BY <1>1 DEF CurrentInv
  <1>7. FinalInv'
    BY <1>1, <1>2 DEF FinalInv, OfGen
  <1>8. BetweenInv'
    BY <1>1, <1>2 DEF BetweenInv, Covered, OfGen
  <1>. QED
    BY <1>3, <1>4, <1>5, <1>6, <1>7, <1>8 DEF TuiInv, RunningInv

\* The run takes a record.
LEMMA IngestStep == ASSUME TuiInv, ~quitting, Tui!Ingest PROVE TuiInv'
  <1> USE Running
  <1>0. records \in Nat
    BY DEF TuiTypes
  <1>1. /\ runStatus = "running" /\ records' = records + 1
        /\ due' = due \cup {Tui!Observation(records + 1)} /\ ~Tui!IsTerminal(runStatus)
    BY DEF Tui!Ingest, Tui!IsTerminal
  <1>2. UNCHANGED <<runStatus, skipped, conn, wire, cut, reads, timers, shownState, gen, shown,
                    live, buffered, resyncing, everLive, quitting>>
    BY DEF Tui!Ingest, Tui!net, Tui!cmds, Tui!model
  <1>3. TuiTypes' /\ TuiBooleans'
    BY <1>0, <1>1, <1>2 DEF TuiTypes, TuiBooleans
  <1>4. GenerationInv' /\ ConnectionInv' /\ ReadInv'
    BY <1>2 DEF GenerationInv, ConnectionInv, ReadInv, OfGen
  <1>5. FrameInv'
    <2>1. DueOK(Tui!Observation(records + 1), runStatus)
      BY <1>0 DEF Tui!Observation, Frames, DueOK
    <2>. QED
      BY <1>1, <1>2, <2>1 DEF FrameInv
  <1>6. CurrentInv'
    BY <1>1, <1>2 DEF CurrentInv, Follows, OfGen
  <1>7. FinalInv'
    BY <1>1, <1>2 DEF FinalInv, OfGen
  <1>8. BetweenInv'
    <2> SUFFICES ASSUME gen \notin cut, NEW n \in 1..(records + 1)
                 PROVE  /\ shownState = "live" => Covered(n, shown.count)'
                        /\ \A r : OfGen(r) /\ r.at = "done" => Covered(n, r.count)'
      BY <1>1, <1>2 DEF BetweenInv, OfGen
    <2>1. CASE n = records + 1
      BY <1>1, <1>2, <2>1 DEF Covered
    <2>2. CASE n \in 1..records
      BY <1>1, <1>2, <2>2 DEF BetweenInv, Covered
    <2>. QED
      BY <1>0, <2>1, <2>2
  <1>. QED
    BY <1>3, <1>4, <1>5, <1>6, <1>7, <1>8 DEF TuiInv, RunningInv

\* An event that will never be published.
LEMMA SkipStep == ASSUME TuiInv, ~quitting, NEW e \in due, Tui!SkipPublication(e) PROVE TuiInv'
  <1> USE Running
  <1>1. due' = due \ {e} /\ skipped' = skipped \cup {e}
    BY DEF Tui!SkipPublication
  <1>2. UNCHANGED <<runStatus, records, conn, wire, cut, reads, timers, shownState, gen, shown,
                    live, buffered, resyncing, everLive, quitting>>
    BY DEF Tui!SkipPublication, Tui!net, Tui!cmds, Tui!model
  <1>3. TuiTypes' /\ TuiBooleans'
    BY <1>2 DEF TuiTypes, TuiBooleans
  <1>4. GenerationInv' /\ ConnectionInv' /\ ReadInv'
    BY <1>2 DEF GenerationInv, ConnectionInv, ReadInv, OfGen
  <1>5. FrameInv'
    BY <1>1, <1>2 DEF FrameInv
  <1>6. CurrentInv'
    BY <1>1, <1>2 DEF CurrentInv, Follows, OfGen
  <1>7. FinalInv'
    BY <1>2 DEF FinalInv, OfGen
  <1>8. BetweenInv'
    BY <1>1, <1>2 DEF BetweenInv, Covered, OfGen
  <1>. QED
    BY <1>3, <1>4, <1>5, <1>6, <1>7, <1>8 DEF TuiInv, RunningInv

\* An event reaches every stream that is registered.
LEMMA PublishStep == ASSUME TuiInv, ~quitting, NEW e \in due, Tui!Publish(e) PROVE TuiInv'
  <1> USE Running
  <1>1. /\ due' = due \ {e}
        /\ wire' = [g \in Tui!Generations |->
              IF conn[g] \in {"registered", "open"} /\ g \notin cut
              THEN Append(wire[g], e) ELSE wire[g]]
    BY DEF Tui!Publish
  <1>2. UNCHANGED <<runStatus, records, skipped, conn, cut, reads, timers, shownState, gen, shown,
                    live, buffered, resyncing, everLive, quitting>>
    BY DEF Tui!Publish, Tui!cmds, Tui!model
  <1>3. DueOK(e, runStatus) /\ e \in Frames /\ e.record \in Nat
    BY DEF FrameInv, DueOK, Frames
  <1>4. TuiTypes' /\ TuiBooleans'
    <2>1. wire \in [Tui!Generations -> Seq(Frames)]
      BY DEF TuiTypes
    <2>2. wire' \in [Tui!Generations -> Seq(Frames)]
      BY <1>1, <1>3, <2>1
    <2>. QED
      BY <1>2, <2>2 DEF TuiTypes, TuiBooleans
  <1>5. GenerationInv'
    BY <1>1, <1>2 DEF GenerationInv
  <1> DEFINE q == wire[gen]
  <1>6. q \in Seq(Frames)
    BY DEF TuiTypes
  <1>7. \/ conn[gen] \in {"registered", "open"} /\ gen \notin cut /\ wire'[gen] = Append(q, e)
        \/ ~(conn[gen] \in {"registered", "open"} /\ gen \notin cut) /\ wire'[gen] = q
    BY <1>1
  <1>8. ConnectionInv'
    BY <1>2, <1>7 DEF ConnectionInv
  <1>9. ReadInv'
    BY <1>2 DEF ReadInv, OfGen
  <1> HIDE DEF q
  <1>10. FrameOK(e, runStatus) /\ e.status # "ready"
    BY <1>3 DEF DueOK, FrameOK, TuiTypes, Tui!RunStatuses, Tui!IsTerminal
  <1>15. /\ FramesOK(q, runStatus) => FramesOK(Append(q, e), runStatus)
         /\ Changes(Append(q, e)) <=> Changes(q) \/ e.record = 0
         /\ e.record > 0 /\ EndsAt(q, runStatus) => EndsAt(Append(q, e), runStatus)
    BY <1>3, <1>6, <1>10, FramesAppended
  <1>11. FrameInv'
    <2>1. FramesOK(wire'[gen], runStatus)
      <3>1. FramesOK(q, runStatus)
        BY DEF FrameInv, q
      <3>. QED
        BY <1>7, <1>15, <3>1
    <2>2. \A i \in 1..Len(wire'[gen]) : wire'[gen][i].status = "ready" =>
              i = 1 /\ shownState \in {"connecting", "reconnecting"}
      <3>1. CASE wire'[gen] = q
        BY <3>1 DEF FrameInv, q
      <3>2. CASE wire'[gen] = Append(q, e)
        <4>1. \A i \in 1..Len(Append(q, e)) :
                 \/ i \in 1..Len(q) /\ Append(q, e)[i] = q[i]
                 \/ Append(q, e)[i] = e
          BY <1>3, <1>6
        <4>. QED
          BY <1>10, <3>2, <4>1 DEF FrameInv, q
      <3>. QED
        BY <1>7, <3>1, <3>2
    <2>. QED
      BY <1>1, <1>2, <2>1, <2>2 DEF FrameInv
  <1>12. CurrentInv'
    <2> SUFFICES ASSUME gen \notin cut, Tui!Lifecycle(runStatus) \notin due' \cup skipped
                 PROVE  /\ EndsAt(wire'[gen], runStatus)
                        /\ shownState \in {"resyncing", "live"} =>
                              Changes(wire'[gen]) \/ EndsAt(buffered, runStatus)
                        /\ shownState = "live" => Follows(shown.status)'
                        /\ \A r : OfGen(r) /\ r.at # "run" => Follows(r.status)'
      BY <1>2 DEF CurrentInv, OfGen
    <2>1. ~(conn[gen] \in {"registered", "open"}) => q = <<>>
      BY DEF ConnectionInv, q
    <2>2. shownState \in {"resyncing", "live"} => conn[gen] = "open"
      BY DEF ConnectionInv
    <2>3. \A r : OfGen(r) => shownState \in {"resyncing", "live"}
      BY DEF ReadInv
    <2>4. CASE e.record = 0
      <3>1. e.status = runStatus
        BY <1>3, <2>4 DEF DueOK
      <3>2. EndsAt(wire'[gen], runStatus)
        <4>1. CASE wire'[gen] = Append(q, e)
          BY <1>3, <1>6, <2>4, <3>1, <4>1, FramesAppended
        <4>2. CASE wire'[gen] = <<>>
          BY <4>2 DEF EndsAt
        <4>. QED
          BY <1>7, <2>1, <4>1, <4>2
      <3>3. conn[gen] = "open" => Changes(wire'[gen])
        BY <1>7, <1>15, <2>4
      <3>. QED
        BY <1>2, <2>2, <2>3, <3>2, <3>3 DEF Follows
    <2>5. CASE e.record # 0
      <3>1. Tui!Lifecycle(runStatus) \notin due \cup skipped
        BY <1>1, <2>5 DEF Tui!Lifecycle
      <3>2. EndsAt(q, runStatus)
        BY <3>1 DEF CurrentInv, q
      <3>3. EndsAt(wire'[gen], runStatus) /\ (Changes(wire'[gen]) <=> Changes(q))
        <4>1. e.record > 0
          BY <1>3, <2>5
        <4>. QED
          BY <1>7, <1>15, <2>5, <3>2, <4>1
      <3>4. \A s : Follows(s)' <=> Follows(s)
        BY <1>2, <3>3 DEF Follows, q
      <3>. QED
        BY <1>2, <3>1, <3>3, <3>4 DEF CurrentInv, q
    <2>. QED
      BY <2>4, <2>5
  <1>13. FinalInv'
    BY <1>2 DEF FinalInv, OfGen
  <1>14. BetweenInv'
    <2> SUFFICES ASSUME gen \notin cut, shownState \in {"resyncing", "live"}, NEW n \in 1..records,
                        NEW c, Covered(n, c)
                 PROVE  Covered(n, c)'
      BY <1>2 DEF BetweenInv, OfGen, ReadInv
    <2>1. wire'[gen] = Append(q, e)
      BY <1>7 DEF ConnectionInv
    <2>2. /\ (\E i \in 1..Len(q) : q[i] = Tui!Observation(n)) =>
                \E i \in 1..Len(wire'[gen]) : wire'[gen][i] = Tui!Observation(n)
          /\ \E i \in 1..Len(wire'[gen]) : wire'[gen][i] = e
      BY <1>3, <1>6, <2>1, FramesAppended
    <2>3. Tui!Observation(n) \in due => Tui!Observation(n) \in due' \/ e = Tui!Observation(n)
      BY <1>1
    <2>. QED
      BY <1>2, <2>2, <2>3 DEF Covered, q
  <1>. QED
    BY <1>4, <1>5, <1>8, <1>9, <1>11, <1>12, <1>13, <1>14 DEF TuiInv, RunningInv

\* The server registers the subscription of a generation.
LEMMA SubscribeStep ==
  ASSUME TuiInv, ~quitting, NEW g \in Tui!Generations, Tui!Subscribe(g)
  PROVE  TuiInv'
  <1> USE Running, GenerationsAre
  <1>1. /\ conn[g] = "opening" /\ conn' = [conn EXCEPT ![g] = "registered"]
        /\ wire' = [wire EXCEPT ![g] = <<Tui!StreamReady>>]
    BY DEF Tui!Subscribe
  <1>2. UNCHANGED <<runStatus, records, due, skipped, cut, reads, timers, shownState, gen, shown,
                    live, buffered, resyncing, everLive, quitting>>
    BY DEF Tui!Subscribe, Tui!plane, Tui!cmds, Tui!model
  <1>3. Tui!StreamReady \in Frames /\ Tui!StreamReady.status = "ready" /\ Tui!StreamReady.record = 0
    BY DEF Tui!StreamReady, Frames
  <1>4. /\ conn \in [Tui!Generations -> {"none", "opening", "registered", "open", "closed"}]
        /\ wire \in [Tui!Generations -> Seq(Frames)]
    BY DEF TuiTypes
  <1>5. TuiTypes' /\ TuiBooleans'
    <2>1. <<Tui!StreamReady>> \in Seq(Frames)
      BY <1>3
    <2>2. wire' \in [Tui!Generations -> Seq(Frames)]
      BY <1>1, <1>4, <2>1
    <2>3. conn' \in [Tui!Generations -> {"none", "opening", "registered", "open", "closed"}]
      BY <1>1, <1>4
    <2>. QED
      BY <1>2, <2>2, <2>3 DEF TuiTypes, TuiBooleans
  <1>6. g <= gen
    BY <1>1 DEF GenerationInv
  <1>7. GenerationInv'
    BY <1>1, <1>2, <1>4, <1>6 DEF GenerationInv
  <1>8. \/ g # gen /\ wire'[gen] = wire[gen] /\ conn'[gen] = conn[gen]
        \/ /\ g = gen /\ wire'[gen] = <<Tui!StreamReady>> /\ conn'[gen] = "registered"
           /\ shownState = "connecting"
    BY <1>1, <1>4 DEF ConnectionInv
  <1>9. CASE g # gen
    <2>1. UNCHANGED <<wire[gen], conn[gen]>>
      BY <1>2, <1>8, <1>9
    <2>2. ConnectionInv' /\ ReadInv' /\ FrameInv' /\ CurrentInv' /\ FinalInv' /\ BetweenInv'
      BY <1>2, <2>1
      DEF ConnectionInv, ReadInv, FrameInv, CurrentInv, FinalInv, BetweenInv, OfGen, Follows, Covered
    <2>. QED
      BY <1>5, <1>7, <2>2 DEF TuiInv, RunningInv
  <1>10. CASE g = gen
    <2>1. /\ wire'[gen'] = <<Tui!StreamReady>> /\ conn'[gen'] = "registered"
          /\ shownState = "connecting" /\ \A r : ~OfGen(r) /\ ~OfGen(r)'
      BY <1>2, <1>8, <1>10 DEF ReadInv, OfGen
    <2>2. ConnectionInv'
      BY <1>2, <2>1 DEF ConnectionInv
    <2>3. ReadInv'
      BY <1>2, <2>1 DEF ReadInv
    <2>4. Len(<<Tui!StreamReady>>) = 1 /\ <<Tui!StreamReady>>[1] = Tui!StreamReady
      OBVIOUS
    <2>5. FramesOK(<<Tui!StreamReady>>, runStatus)
      <3>1. FrameOK(Tui!StreamReady, runStatus)
        BY <1>3 DEF FrameOK, Tui!IsTerminal
      <3>. QED
        BY <2>4, <3>1 DEF FramesOK
    <2>6. FrameInv'
      BY <1>2, <2>1, <2>4, <2>5 DEF FrameInv
    <2>7. EndsAt(<<Tui!StreamReady>>, runStatus)
      BY <1>3, <2>4 DEF EndsAt
    <2>8. CurrentInv'
      BY <1>2, <2>1, <2>7 DEF CurrentInv
    <2>9. FinalInv' /\ BetweenInv'
      BY <1>2, <2>1 DEF FinalInv, BetweenInv
    <2>. QED
      BY <1>5, <1>7, <2>2, <2>3, <2>6, <2>8, <2>9 DEF TuiInv, RunningInv
  <1>. QED
    BY <1>9, <1>10

\* A connection is handed to the model, or closed because nobody waits for it.
LEMMA OpenedStep ==
  ASSUME TuiInv, ~quitting, NEW g \in Tui!Generations, Tui!StreamOpened(g)
  PROVE  TuiInv'
  <1> USE Running, GenerationsAre
  <1>1. /\ conn[g] = "registered"
        /\ \/ g = gen /\ conn' = [conn EXCEPT ![g] = "open"] /\ wire' = wire
           \/ g # gen /\ conn' = [conn EXCEPT ![g] = "closed"] /\ wire' = [wire EXCEPT ![g] = <<>>]
    BY DEF Tui!StreamOpened
  <1>2. UNCHANGED <<runStatus, records, due, skipped, cut, reads, timers, shownState, gen, shown,
                    live, buffered, resyncing, everLive, quitting>>
    BY DEF Tui!StreamOpened, Tui!plane, Tui!cmds, Tui!model
  <1>3. /\ conn \in [Tui!Generations -> {"none", "opening", "registered", "open", "closed"}]
        /\ wire \in [Tui!Generations -> Seq(Frames)]
    BY DEF TuiTypes
  <1>4. TuiTypes' /\ TuiBooleans'
    <2>1. conn' \in [Tui!Generations -> {"none", "opening", "registered", "open", "closed"}]
      BY <1>1, <1>3
    <2>2. wire' \in [Tui!Generations -> Seq(Frames)]
      <3>1. <<>> \in Seq(Frames)
        OBVIOUS
      <3>. QED
        BY <1>1, <1>3, <3>1
    <2>. QED
      BY <1>2, <2>1, <2>2 DEF TuiTypes, TuiBooleans
  <1>5. g <= gen
    BY <1>1 DEF GenerationInv
  <1>6. GenerationInv'
    BY <1>1, <1>2, <1>3, <1>5 DEF GenerationInv
  <1>7. wire'[gen'] = wire[gen]
    BY <1>1, <1>2, <1>3
  <1>8. conn'[gen'] = conn[gen] \/ (conn[gen] = "registered" /\ conn'[gen'] = "open")
    BY <1>1, <1>2, <1>3
  <1>9. ConnectionInv'
    BY <1>2, <1>7, <1>8 DEF ConnectionInv
  <1>10. ReadInv' /\ FrameInv' /\ CurrentInv' /\ FinalInv' /\ BetweenInv'
    BY <1>2, <1>7
    DEF ReadInv, FrameInv, CurrentInv, FinalInv, BetweenInv, OfGen, Follows, Covered
  <1>. QED
    BY <1>4, <1>6, <1>9, <1>10 DEF TuiInv, RunningInv

\* The connection ends and some of what was under way is lost.
LEMMA CutStep == ASSUME TuiInv, ~quitting, Tui!CutStream PROVE TuiInv'
  <1> USE Running, GenerationsAre
  <1>1. conn[gen] \in {"registered", "open"} /\ cut' = cut \cup {gen}
    BY DEF Tui!CutStream
  <1>2. PICK n \in 0..Len(wire[gen]) : wire' = [wire EXCEPT ![gen] = SubSeq(wire[gen], 1, n)]
    BY DEF Tui!CutStream
  <1>3. UNCHANGED <<runStatus, records, due, skipped, conn, reads, timers, shownState, gen, shown,
                    live, buffered, resyncing, everLive, quitting>>
    BY DEF Tui!CutStream, Tui!plane, Tui!cmds, Tui!model
  <1>4. wire \in [Tui!Generations -> Seq(Frames)] /\ wire[gen] \in Seq(Frames)
    BY DEF TuiTypes
  <1> DEFINE t == SubSeq(wire[gen], 1, n)
  <1>5. /\ t \in Seq(Frames) /\ Len(t) = n /\ n <= Len(wire[gen]) /\ n \in Nat
        /\ \A i \in 1..n : t[i] = wire[gen][i] /\ i \in 1..Len(wire[gen])
    BY <1>2, <1>4
  <1>6. wire' \in [Tui!Generations -> Seq(Frames)] /\ wire'[gen] = t
    BY <1>2, <1>4, <1>5
  <1> HIDE DEF t
  <1>7. TuiTypes' /\ TuiBooleans'
    BY <1>3, <1>6 DEF TuiTypes, TuiBooleans
  <1>8. GenerationInv'
    <2>1. \A g \in Tui!Generations : g > gen => wire'[g] = wire[g]
      BY <1>2, <1>4
    <2>. QED
      BY <1>1, <1>3, <2>1 DEF GenerationInv
  <1>9. ConnectionInv' /\ ReadInv'
    BY <1>1, <1>3 DEF ConnectionInv, ReadInv, OfGen
  <1>10. FrameInv'
    BY <1>3, <1>5, <1>6 DEF FrameInv, FramesOK
  <1>11. CurrentInv' /\ BetweenInv'
    BY <1>1, <1>3 DEF CurrentInv, BetweenInv
  <1>12. FinalInv'
    BY <1>3 DEF FinalInv, OfGen
  <1>. QED
    BY <1>7, <1>8, <1>9, <1>10, <1>11, <1>12 DEF TuiInv, RunningInv

\* The handshake: the reads begin.
LEMMA ReadyStep == ASSUME TuiInv, ~quitting, Tui!HandleReady PROVE TuiInv'
  <1> USE Running, GenerationsAre
  <1> DEFINE q == wire[gen]
             r0 == Tui!NewRead(gen)
  <1>1. /\ conn[gen] = "open" /\ q # <<>> /\ Head(q) = Tui!StreamReady
        /\ shownState \in {"connecting", "reconnecting"} /\ shownState' = "resyncing"
        /\ wire' = [wire EXCEPT ![gen] = Tail(q)] /\ resyncing' = TRUE /\ reads' = reads \cup {r0}
    BY DEF Tui!HandleReady, Tui!Arrived, Tui!NextFrame, Tui!Advance
  <1>2. UNCHANGED <<runStatus, records, due, skipped, conn, cut, timers, gen, shown, live, buffered,
                    everLive, quitting>>
    BY DEF Tui!HandleReady, Tui!plane
  <1>3. wire \in [Tui!Generations -> Seq(Frames)] /\ q \in Seq(Frames)
    BY DEF TuiTypes
  <1>4. r0 \in Reads /\ r0.gen = gen /\ r0.at = "run" /\ r0.status = "none"
    BY DEF Tui!NewRead, Reads
  <1>5. wire'[gen] = Tail(q) /\ Tail(q) \in Seq(Frames)
    BY <1>1, <1>3
  <1> HIDE DEF q, r0
  <1>6. TuiTypes'
    <2>1. wire' \in [Tui!Generations -> Seq(Frames)]
      BY <1>1, <1>3, <1>5
    <2>2. reads' \subseteq Reads
      BY <1>1, <1>4 DEF TuiTypes
    <2>. QED
      BY <1>2, <2>1, <2>2 DEF TuiTypes
  <1>7. TuiBooleans'
    BY <1>1, <1>2 DEF TuiBooleans
  <1>8. GenerationInv'
    <2>1. \A g \in Tui!Generations : g > gen => wire'[g] = wire[g]
      BY <1>1, <1>3
    <2>. QED
      BY <1>1, <1>2, <1>4, <2>1 DEF GenerationInv
  <1>9. ConnectionInv'
    BY <1>1, <1>2 DEF ConnectionInv
  <1>10. \A r : ~OfGen(r)
    BY <1>1 DEF ReadInv
  <1>11. \A r : OfGen(r)' <=> r = r0
    BY <1>1, <1>2, <1>4, <1>10 DEF OfGen
  <1>12. ReadInv'
    BY <1>1, <1>11 DEF ReadInv
  <1>13. FrameInv'
    <2>1. FramesOK(q, runStatus) /\ FramesOK(Tail(q), runStatus)
      BY <1>1, <1>3, FrameTaken DEF FrameInv, q
    <2>2. \A i \in 1..Len(Tail(q)) : Tail(q)[i].status # "ready"
      <3>1. \A i \in 1..Len(Tail(q)) : i + 1 \in 1..Len(q) /\ Tail(q)[i] = q[i + 1] /\ i + 1 # 1
        BY <1>1, <1>3, FrameTaken
      <3>. QED
        BY <3>1 DEF FrameInv, q
    <2>. QED
      BY <1>2, <1>5, <2>1, <2>2 DEF FrameInv
  <1>14. CurrentInv'
    <2> SUFFICES ASSUME gen \notin cut, Tui!Lifecycle(runStatus) \notin due \cup skipped
                 PROVE  EndsAt(Tail(q), runStatus) /\ EndsAt(buffered, runStatus)
      BY <1>1, <1>2, <1>4, <1>5, <1>11 DEF CurrentInv
    <2>1. EndsAt(q, runStatus)
      BY DEF CurrentInv, q
    <2>2. EndsAt(Tail(q), runStatus)
      BY <1>1, <1>3, <2>1, FrameTaken
    <2>3. buffered = <<>>
      BY <1>1 DEF ConnectionInv
    <2>4. EndsAt(<<>>, runStatus)
      BY DEF EndsAt
    <2>. QED
      BY <2>2, <2>3, <2>4
  <1>15. FinalInv'
    BY <1>1, <1>2, <1>4 DEF FinalInv, Tui!IsTerminal
  <1>16. BetweenInv'
    BY <1>1, <1>4, <1>11 DEF BetweenInv
  <1>. QED
    BY <1>6, <1>7, <1>8, <1>9, <1>12, <1>13, <1>14, <1>15, <1>16 DEF TuiInv, RunningInv

\* An event waits for the reads.
LEMMA BufferStep == ASSUME TuiInv, ~quitting, Tui!HandleWhileResyncing PROVE TuiInv'
  <1> USE Running, GenerationsAre
  <1> DEFINE q == wire[gen]
             e == Head(q)
  <1>1. /\ conn[gen] = "open" /\ q # <<>> /\ shownState = "resyncing"
        /\ wire' = [wire EXCEPT ![gen] = Tail(q)] /\ buffered' = Append(buffered, e)
    BY DEF Tui!HandleWhileResyncing, Tui!Arrived, Tui!NextFrame, Tui!Advance
  <1>2. UNCHANGED <<runStatus, records, due, skipped, conn, cut, reads, timers, shownState, gen,
                    shown, live, resyncing, everLive, quitting>>
    BY DEF Tui!HandleWhileResyncing, Tui!plane, Tui!cmds
  <1>3. wire \in [Tui!Generations -> Seq(Frames)] /\ q \in Seq(Frames) /\ buffered \in Seq(Frames)
    BY DEF TuiTypes
  <1> HIDE DEF q
  <1>4. /\ e \in Frames /\ Tail(q) \in Seq(Frames) /\ e = q[1] /\ 1 \in 1..Len(q)
        /\ FramesOK(q, runStatus) => FrameOK(e, runStatus) /\ FramesOK(Tail(q), runStatus)
        /\ Changes(q) <=> Changes(Tail(q)) \/ e.record = 0
        /\ EndsAt(q, runStatus) => EndsAt(Tail(q), runStatus)
        /\ EndsAt(q, runStatus) /\ e.record = 0 /\ e.status # "ready" /\ ~Changes(Tail(q))
              => e.status = runStatus
        /\ \A f : (\E i \in 1..Len(q) : q[i] = f) =>
                     e = f \/ \E i \in 1..Len(Tail(q)) : Tail(q)[i] = f
        /\ \A i \in 1..Len(Tail(q)) : i + 1 \in 1..Len(q) /\ Tail(q)[i] = q[i + 1] /\ i + 1 # 1
    BY <1>1, <1>3, FrameTaken
  <1> HIDE DEF e
  <1>5. wire'[gen] = Tail(q) /\ e.record \in Nat
    BY <1>1, <1>3, <1>4 DEF Frames
  <1>6. /\ FramesOK(buffered, runStatus) /\ FrameOK(e, runStatus) => FramesOK(buffered', runStatus)
        /\ Changes(buffered') <=> Changes(buffered) \/ e.record = 0
        /\ e.record = 0 /\ e.status = runStatus => EndsAt(buffered', runStatus)
        /\ e.record > 0 /\ EndsAt(buffered, runStatus) => EndsAt(buffered', runStatus)
        /\ \A f : (\E i \in 1..Len(buffered) : buffered[i] = f) =>
                     \E i \in 1..Len(buffered') : buffered'[i] = f
        /\ \E i \in 1..Len(buffered') : buffered'[i] = e
    <2>1. e \in Frames /\ buffered \in Seq(Frames) /\ buffered' = Append(buffered, e)
      BY <1>1, <1>3, <1>4
    <2>. QED
      BY <2>1, FramesAppended
  <1>7. \A i \in 1..Len(buffered') :
           buffered'[i] = e \/ (i \in 1..Len(buffered) /\ buffered'[i] = buffered[i])
    BY <1>1, <1>3, <1>4
  <1>8. TuiTypes'
    <2>1. wire' \in [Tui!Generations -> Seq(Frames)]
      BY <1>1, <1>3, <1>4
    <2>2. buffered' \in Seq(Frames)
      BY <1>1, <1>3, <1>4
    <2>. QED
      BY <1>2, <2>1, <2>2 DEF TuiTypes
  <1>9. TuiBooleans'
    BY <1>2 DEF TuiBooleans
  <1>10. GenerationInv'
    <2>1. \A g \in Tui!Generations : g > gen => wire'[g] = wire[g]
      BY <1>1, <1>3
    <2>. QED
      BY <1>2, <2>1 DEF GenerationInv
  <1>11. ConnectionInv' /\ ReadInv'
    BY <1>1, <1>2 DEF ConnectionInv, ReadInv, OfGen
  <1>12. e.status # "ready"
    BY <1>1, <1>4 DEF FrameInv, q
  <1>13. FrameInv'
    <2>1. FramesOK(q, runStatus) /\ FramesOK(buffered, runStatus)
      BY DEF FrameInv, q
    <2>2. FramesOK(Tail(q), runStatus) /\ FramesOK(buffered', runStatus)
      BY <1>4, <1>6, <2>1
    <2>3. \A i \in 1..Len(Tail(q)) : Tail(q)[i].status # "ready"
      BY <1>1, <1>4 DEF FrameInv, q
    <2>4. \A i \in 1..Len(buffered') : buffered'[i].status # "ready"
      BY <1>7, <1>12 DEF FrameInv
    <2>. QED
      BY <1>2, <1>5, <2>2, <2>3, <2>4 DEF FrameInv
  <1>14. CurrentInv'
    <2> SUFFICES ASSUME gen \notin cut, Tui!Lifecycle(runStatus) \notin due \cup skipped
                 PROVE  /\ EndsAt(Tail(q), runStatus)
                        /\ Changes(Tail(q)) \/ EndsAt(buffered', runStatus)
                        /\ \A r : OfGen(r) /\ r.at # "run" => Follows(r.status)'
      BY <1>1, <1>2, <1>5 DEF CurrentInv, OfGen
    <2>1. EndsAt(q, runStatus) /\ (Changes(q) \/ EndsAt(buffered, runStatus))
      BY <1>1 DEF CurrentInv, q
    <2>2. Changes(Tail(q)) \/ EndsAt(buffered', runStatus)
      <3>1. CASE e.record = 0
        BY <1>4, <1>6, <1>12, <2>1, <3>1
      <3>2. CASE e.record > 0
        BY <1>4, <1>5, <1>6, <2>1, <3>2
      <3>. QED
        BY <1>5, <3>1, <3>2
    <2>3. Changes(q) \/ Changes(buffered) => Changes(Tail(q)) \/ Changes(buffered')
      BY <1>4, <1>6
    <2>4. \A s : Follows(s) => Follows(s)'
      BY <1>2, <1>5, <2>3 DEF Follows, q
    <2>. QED
      BY <1>4, <2>1, <2>2, <2>4 DEF CurrentInv
  <1>15. FinalInv'
    BY <1>1, <1>2 DEF FinalInv, OfGen
  <1>16. BetweenInv'
    <2> SUFFICES ASSUME NEW n, NEW c, Covered(n, c) PROVE Covered(n, c)'
      BY <1>2 DEF BetweenInv, OfGen
    <2> DEFINE f == Tui!Observation(n)
    <2>1. (\E i \in 1..Len(q) : q[i] = f) =>
             (\E i \in 1..Len(buffered') : buffered'[i] = f)
             \/ \E i \in 1..Len(Tail(q)) : Tail(q)[i] = f
      BY <1>4, <1>6
    <2>2. (\E i \in 1..Len(buffered) : buffered[i] = f) =>
             \E i \in 1..Len(buffered') : buffered'[i] = f
      BY <1>6
    <2>. QED
      BY <1>2, <1>5, <2>1, <2>2 DEF Covered, q
  <1>. QED
    BY <1>8, <1>9, <1>10, <1>11, <1>13, <1>14, <1>15, <1>16 DEF TuiInv, RunningInv

\* A read makes progress, or is one that nobody waits for.
LEMMA ReadStep ==
  ASSUME TuiInv, ~quitting, NEW r \in reads,
         Tui!ReadRun(r) \/ Tui!ReadProgress(r) \/ Tui!IgnoreRead(r)
  PROVE  TuiInv'
  <1> USE Running, GenerationsAre
  <1>1. UNCHANGED <<runStatus, records, due, skipped, conn, wire, cut, timers, shownState, gen,
                    shown, live, buffered, resyncing, everLive, quitting>>
    BY DEF Tui!ReadRun, Tui!ReadProgress, Tui!IgnoreRead, Tui!plane, Tui!net, Tui!model
  <1>2. r \in Reads /\ runStatus \in Tui!RunStatuses /\ records \in Nat /\ reads \subseteq Reads
    BY DEF TuiTypes
  <1>3. ASSUME NEW t \in Reads, reads' = (reads \ {r}) \cup {t}, t.gen = r.gen, t.at # "run",
               \/ t.at = "progress" /\ t.status = runStatus
               \/ t.at = "done" /\ r.at = "progress" /\ t.status = r.status /\ t.count = records
        PROVE  TuiInv'
    <2>1. TuiTypes' /\ TuiBooleans'
      BY <1>1, <1>2, <1>3 DEF TuiTypes, TuiBooleans
    <2>2. GenerationInv' /\ ConnectionInv'
      BY <1>1, <1>3 DEF GenerationInv, ConnectionInv
    <2>3. \A u : OfGen(u)' => \/ OfGen(u) /\ u # r
                              \/ u = t /\ OfGen(r)
      BY <1>1, <1>3 DEF OfGen
    <2>4. OfGen(r) => OfGen(t)'
      BY <1>1, <1>3 DEF OfGen
    <2>5. \A u : OfGen(u) => u = r \/ OfGen(u)'
      BY <1>1, <1>3 DEF OfGen
    <2>6. ReadInv'
      BY <1>1, <2>3, <2>4, <2>5 DEF ReadInv
    <2>7. FrameInv'
      BY <1>1 DEF FrameInv
    <2>8. CurrentInv'
      BY <1>1, <1>3, <2>3 DEF CurrentInv, Follows
    <2>9. FinalInv'
      <3>1. \A u \in reads' : u \in reads \/ u = t
        BY <1>3
      <3>2. /\ t.at = "run" => t.status = "none"
            /\ Tui!IsTerminal(t.status) => t.status = runStatus /\ (t.at = "done" => t.count = records)
        BY <1>3 DEF FinalInv
      <3>3. shownState = "live" /\ OfGen(r) => Tui!IsTerminal(runStatus) /\ t.status = runStatus
        BY <1>3 DEF FinalInv
      <3>. QED
        BY <1>1, <2>3, <2>4, <2>5, <3>1, <3>2, <3>3 DEF FinalInv
    <2>10. BetweenInv'
      <3>1. \A n \in 1..records : Covered(n, records)
        BY <1>2 DEF Covered
      <3>. QED
        BY <1>1, <1>3, <2>3, <3>1 DEF BetweenInv, Covered
    <2>. QED
      BY <2>1, <2>2, <2>6, <2>7, <2>8, <2>9, <2>10 DEF TuiInv, RunningInv
  <1>4. CASE Tui!ReadRun(r)
    <2> DEFINE t == [r EXCEPT !.at = "progress", !.status = runStatus]
    <2>1. t \in Reads /\ t.gen = r.gen /\ t.at = "progress" /\ t.status = runStatus
      BY <1>2 DEF Reads
    <2>2. reads' = (reads \ {r}) \cup {t}
      BY <1>4 DEF Tui!ReadRun
    <2> HIDE DEF t
    <2>. QED
      BY <1>3, <2>1, <2>2
  <1>5. CASE Tui!ReadProgress(r)
    <2> DEFINE t == [r EXCEPT !.at = "done", !.count = records]
    <2>1. /\ t \in Reads /\ t.gen = r.gen /\ t.at = "done" /\ t.status = r.status
          /\ t.count = records
      BY <1>2 DEF Reads
    <2>2. reads' = (reads \ {r}) \cup {t} /\ r.at = "progress"
      BY <1>5 DEF Tui!ReadProgress
    <2> HIDE DEF t
    <2>. QED
      BY <1>3, <2>1, <2>2
  <1>6. CASE Tui!IgnoreRead(r)
    <2>1. r.gen # gen /\ reads' = reads \ {r}
      BY <1>6 DEF Tui!IgnoreRead
    <2>2. \A u : OfGen(u)' <=> OfGen(u)
      BY <1>1, <2>1 DEF OfGen
    <2>3. TuiTypes' /\ TuiBooleans'
      BY <1>1, <2>1 DEF TuiTypes, TuiBooleans
    <2>4. GenerationInv' /\ ConnectionInv' /\ ReadInv' /\ FrameInv'
      BY <1>1, <2>1, <2>2 DEF GenerationInv, ConnectionInv, ReadInv, FrameInv
    <2>5. CurrentInv' /\ FinalInv' /\ BetweenInv'
      BY <1>1, <2>1, <2>2 DEF CurrentInv, FinalInv, BetweenInv, Follows, Covered
    <2>. QED
      BY <2>3, <2>4, <2>5 DEF TuiInv, RunningInv
  <1>. QED
    BY <1>4, <1>5, <1>6

\* An event is applied at once.
LEMMA LiveStep == ASSUME TuiInv, ~quitting, Tui!HandleLive PROVE TuiInv'
  <1> USE Running, GenerationsAre
  <1> DEFINE q == wire[gen]
             e == Head(q)
             r0 == Tui!NewRead(gen)
             rereads == Tui!EndsRun(<<e>>) /\ ~resyncing
  <1>1. /\ conn[gen] = "open" /\ q # <<>> /\ shownState = "live"
        /\ wire' = [wire EXCEPT ![gen] = Tail(q)] /\ live' = Tui!Rows(<<e>>)
        /\ shown' = [shown EXCEPT !.status = Tui!StatusAfter(<<e>>, shown.status)]
    BY DEF Tui!HandleLive, Tui!Arrived, Tui!NextFrame, Tui!Advance
  <1>2. /\ resyncing' = (resyncing \/ rereads)
        /\ reads' = IF rereads THEN reads \cup {r0} ELSE reads
    BY DEF Tui!HandleLive, Tui!NextFrame
  <1>3. UNCHANGED <<runStatus, records, due, skipped, conn, cut, timers, shownState, gen,
                    buffered, everLive, quitting>>
    BY DEF Tui!HandleLive, Tui!plane
  <1>4. wire \in [Tui!Generations -> Seq(Frames)] /\ q \in Seq(Frames) /\ live \in Seq(Nat)
    BY DEF TuiTypes
  <1> HIDE DEF q
  <1>5. /\ e \in Frames /\ Tail(q) \in Seq(Frames) /\ e = q[1] /\ 1 \in 1..Len(q)
        /\ FramesOK(q, runStatus) => FrameOK(e, runStatus) /\ FramesOK(Tail(q), runStatus)
        /\ Changes(q) <=> Changes(Tail(q)) \/ e.record = 0
        /\ EndsAt(q, runStatus) => EndsAt(Tail(q), runStatus)
        /\ EndsAt(q, runStatus) /\ e.record = 0 /\ e.status # "ready" /\ ~Changes(Tail(q))
              => e.status = runStatus
        /\ \A f : (\E i \in 1..Len(q) : q[i] = f) =>
                     e = f \/ \E i \in 1..Len(Tail(q)) : Tail(q)[i] = f
        /\ \A i \in 1..Len(Tail(q)) : i + 1 \in 1..Len(q) /\ Tail(q)[i] = q[i + 1] /\ i + 1 # 1
    BY <1>1, <1>4, FrameTaken
  <1> HIDE DEF e, r0, rereads
  <1>6. <<e>> \in Seq(Frames) /\ Len(<<e>>) = 1 /\ <<e>>[1] = e /\ e.record \in Nat
    <2>1. <<e>> \in Seq(Frames) /\ Len(<<e>>) = 1 /\ <<e>>[1] = e
      BY <1>5
    <2>. QED
      BY <1>5, <2>1 DEF Frames
  <1>7. /\ live' \in Seq(Nat)
        /\ \/ Len(live') = tuiObservationCapacity
           \/ /\ Len(live) # tuiObservationCapacity
              /\ \A i \in 1..Len(live) : Has(live', live[i])
              /\ e.record > 0 => Has(live', e.record)
    <2>1. /\ Tui!Rows(<<e>>) \in Seq(Nat)
          /\ \/ Len(Tui!Rows(<<e>>)) = tuiObservationCapacity
             \/ /\ Len(live) # tuiObservationCapacity
                /\ \A i \in 1..Len(live) : Has(Tui!Rows(<<e>>), live[i])
                /\ \A i \in 1..Len(<<e>>) : <<e>>[i].record > 0 => Has(Tui!Rows(<<e>>), <<e>>[i].record)
      BY <1>4, <1>6, RowsKeep
    <2>2. 1 \in 1..Len(<<e>>)
      BY <1>6
    <2>. QED
      BY <1>1, <1>6, <2>1, <2>2
  <1>8. e.status # "ready"
    BY <1>1, <1>5 DEF FrameInv, q
  <1>9. shown'.count = shown.count /\ shown'.status = IF e.record = 0 THEN e.status ELSE shown.status
    <2>1. Tui!StatusAfter(<<e>>, shown.status) = IF e.record = 0 THEN e.status ELSE shown.status
      <3> DEFINE one == <<e>>
                 after == Tui!StatusAfter(one, shown.status)
      <3>1. one \in Seq(Frames) /\ Len(one) = 1 /\ one[1] = e
        BY <1>6
      <3> HIDE DEF one
      <3>2. \/ ~Changes(one) /\ after = shown.status
            \/ \E i \in 1..Len(one) : one[i].record = 0 /\ after = one[i].status
        BY <3>1, StatusFollows
      <3> HIDE DEF after
      <3>3. \/ e.record # 0 /\ after = shown.status
            \/ e.record = 0 /\ after = e.status
        BY <3>1, <3>2 DEF Changes
      <3>. QED
        BY <3>3 DEF one, after
    <2>. QED
      BY <1>1, <2>1 DEF TuiTypes
  <1>10. shown' \in [status : Tui!RunStatuses \cup {"none"}, count : Nat]
    <2>1. e.status \in Tui!RunStatuses \cup {"none"}
      BY <1>5, <1>8 DEF Frames
    <2>2. shown \in [status : Tui!RunStatuses \cup {"none"}, count : Nat]
      BY DEF TuiTypes
    <2>3. Tui!StatusAfter(<<e>>, shown.status) \in Tui!RunStatuses \cup {"none"}
      BY <1>1, <1>9, <2>1, <2>2
    <2>. QED
      BY <1>1, <2>2, <2>3
  <1>11. r0 \in Reads /\ r0.gen = gen /\ r0.at = "run" /\ r0.status = "none"
    BY DEF Tui!NewRead, Reads, r0
  <1>12. TuiTypes'
    <2>1. wire' \in [Tui!Generations -> Seq(Frames)]
      BY <1>1, <1>4, <1>5
    <2>2. reads' \subseteq Reads
      BY <1>2, <1>11 DEF TuiTypes
    <2>. QED
      BY <1>3, <1>7, <1>10, <2>1, <2>2 DEF TuiTypes
  <1>13. TuiBooleans'
    BY <1>2, <1>3 DEF TuiBooleans
  <1>14. GenerationInv' /\ ConnectionInv'
    <2>1. \A g \in Tui!Generations : g > gen => wire'[g] = wire[g]
      BY <1>1, <1>4
    <2>2. GenerationInv'
      BY <1>2, <1>3, <1>11, <2>1 DEF GenerationInv
    <2>3. ConnectionInv'
      BY <1>1, <1>3 DEF ConnectionInv
    <2>. QED
      BY <2>2, <2>3
  <1>15. wire'[gen] = Tail(q)
    BY <1>1, <1>4
  <1>16. \/ rereads /\ resyncing' /\ (\A u : ~OfGen(u)) /\ \A u : OfGen(u)' <=> u = r0
         \/ ~rereads /\ (resyncing' <=> resyncing) /\ \A u : OfGen(u)' <=> OfGen(u)
    <2>1. CASE rereads
      <3>1. \A u : ~OfGen(u)
        BY <2>1 DEF ReadInv, rereads
      <3>. QED
        BY <1>2, <1>3, <1>11, <2>1, <3>1 DEF OfGen
    <2>2. CASE ~rereads
      BY <1>2, <1>3, <2>2 DEF OfGen
    <2>. QED
      BY <2>1, <2>2
  <1>17. ReadInv'
    <2>1. shownState' = shownState /\ shownState \in {"resyncing", "live"}
      BY <1>1, <1>3
    <2>2. CASE rereads
      <3>1. resyncing' /\ \A u : OfGen(u)' <=> u = r0
        BY <1>16, <2>2
      <3>. QED
        BY <2>1, <3>1 DEF ReadInv
    <2>3. CASE ~rereads
      <3>1. (resyncing' <=> resyncing) /\ \A u : OfGen(u)' <=> OfGen(u)
        BY <1>16, <2>3
      <3>. QED
        BY <2>1, <3>1 DEF ReadInv
    <2>. QED
      BY <2>2, <2>3
  <1>18. FramesOK(q, runStatus) /\ FrameOK(e, runStatus)
    BY <1>5 DEF FrameInv, q
  <1>19. FrameInv'
    <2>1. \A i \in 1..Len(Tail(q)) : Tail(q)[i].status # "ready"
      BY <1>1, <1>5 DEF FrameInv, q
    <2>. QED
      BY <1>3, <1>5, <1>15, <1>18, <2>1 DEF FrameInv
  <1>20. Tui!EndsRun(<<e>>) <=> Tui!IsTerminal(e.status)
    BY <1>6 DEF Tui!EndsRun
  <1>21. rereads => Tui!IsTerminal(runStatus)
    BY <1>18, <1>20 DEF rereads, FrameOK
  <1>22. FinalInv'
    <2>1. \A u \in reads' : u \in reads \/ u = r0
      BY <1>2
    <2>2. \A u : OfGen(u)' => Tui!IsTerminal(runStatus) /\ (u.at # "run" => u.status = runStatus)
      BY <1>1, <1>11, <1>16, <1>21 DEF FinalInv
    <2>3. Tui!IsTerminal(e.status) => \E u : OfGen(u)'
      <3>1. CASE rereads
        BY <1>16, <3>1
      <3>2. CASE ~rereads /\ Tui!IsTerminal(e.status)
        BY <1>1, <1>16, <1>20, <3>2 DEF rereads, ReadInv
      <3>. QED
        BY <3>1, <3>2
    <2>4. Tui!IsTerminal(e.status) => e.status = runStatus
      BY <1>18 DEF FrameOK
    <2>5. (\E u : OfGen(u)) => \E u : OfGen(u)'
      BY <1>16
    <2>6. Tui!IsTerminal(shown'.status) =>
             shown'.status = runStatus /\ (shown'.count = records \/ \E u : OfGen(u)')
      BY <1>1, <1>9, <2>3, <2>4, <2>5 DEF FinalInv
    <2>7. r0.status = "none" /\ ~Tui!IsTerminal(r0.status)
      BY <1>11 DEF Tui!IsTerminal
    <2>. QED
      BY <1>3, <2>1, <2>2, <2>6, <2>7 DEF FinalInv
  <1>23. CurrentInv'
    <2> SUFFICES ASSUME gen \notin cut, Tui!Lifecycle(runStatus) \notin due \cup skipped
                 PROVE  /\ EndsAt(Tail(q), runStatus)
                        /\ Changes(Tail(q)) \/ EndsAt(buffered, runStatus)
                        /\ Changes(Tail(q)) \/ Changes(buffered) \/ shown'.status = runStatus
                        /\ \A u : OfGen(u)' /\ u.at # "run" => u.status = runStatus
      BY <1>1, <1>3, <1>15 DEF CurrentInv, Follows
    <2>1. EndsAt(q, runStatus)
      BY DEF CurrentInv, q
    <2>2. ~Changes(buffered) /\ EndsAt(buffered, runStatus)
      <3>1. buffered = <<>>
        BY <1>1 DEF ConnectionInv
      <3>2. ~Changes(<<>>) /\ EndsAt(<<>>, runStatus)
        BY DEF Changes, EndsAt
      <3>. QED
        BY <3>1, <3>2
    <2>3. Changes(q) \/ shown.status = runStatus
      BY <1>1, <2>2 DEF CurrentInv, Follows, q
    <2>4. Changes(Tail(q)) \/ shown'.status = runStatus
      BY <1>5, <1>8, <1>9, <2>1, <2>3
    <2>5. \A u : OfGen(u)' /\ u.at # "run" => u.status = runStatus
      BY <1>1, <1>3, <1>22 DEF FinalInv
    <2>. QED
      BY <1>5, <2>1, <2>2, <2>4, <2>5
  <1>24. BetweenInv'
    <2>1. ASSUME NEW n \in 1..records, NEW c, Covered(n, c) PROVE Covered(n, c)'
      <3> DEFINE f == Tui!Observation(n)
      <3>1. n > 0 /\ f.record = n
        BY DEF TuiTypes, Tui!Observation
      <3>2. (\E i \in 1..Len(q) : q[i] = f) =>
               e = f \/ \E i \in 1..Len(Tail(q)) : Tail(q)[i] = f
        BY <1>5
      <3>3. e = f => Len(live') = tuiObservationCapacity \/ Has(live', n)
        BY <1>7, <3>1
      <3>4. (\E i \in 1..Len(live) : live[i] = n) =>
               Len(live') = tuiObservationCapacity \/ Has(live', n)
        BY <1>7
      <3>5. Len(live) = tuiObservationCapacity => Len(live') = tuiObservationCapacity
        BY <1>7
      <3> HIDE DEF f
      <3>. QED
        BY <1>3, <1>15, <2>1, <3>2, <3>3, <3>4, <3>5 DEF Covered, Has, q, f
    <2>2. \A u : OfGen(u)' /\ u.at = "done" => OfGen(u)
      BY <1>11, <1>16
    <2>. QED
      BY <1>1, <1>3, <1>9, <2>1, <2>2 DEF BetweenInv
  <1>. QED
    BY <1>12, <1>13, <1>14, <1>17, <1>19, <1>22, <1>23, <1>24 DEF TuiInv, RunningInv

\* What was read is installed and what arrived meanwhile applied over it.
LEMMA ResyncStep ==
  ASSUME TuiInv, ~quitting, NEW r \in reads, Tui!ResyncDone(r)
  PROVE  TuiInv'
  <1> USE Running, GenerationsAre
  <1> DEFINE r0 == Tui!NewRead(gen)
             ends == Tui!EndsRun(buffered)
             after == Tui!StatusAfter(buffered, r.status)
  <1>1. /\ r.at = "done" /\ r.gen = gen /\ shownState' = "live"
        /\ shown' = [status |-> after, count |-> r.count]
        /\ live' = Tui!Rows(buffered) /\ buffered' = <<>>
        /\ everLive' = TRUE /\ resyncing' = ends
        /\ reads' = (reads \ {r}) \cup (IF ends THEN {r0} ELSE {})
    BY DEF Tui!ResyncDone
  <1>2. UNCHANGED <<runStatus, records, due, skipped, conn, wire, cut, timers, gen, quitting>>
    BY DEF Tui!ResyncDone, Tui!plane, Tui!net
  <1>3. r \in Reads /\ live \in Seq(Nat) /\ buffered \in Seq(Frames) /\ records \in Nat
    BY DEF TuiTypes
  <1>4. OfGen(r) /\ shownState \in {"resyncing", "live"}
    BY <1>1 DEF OfGen, ReadInv
  <1>5. r0 \in Reads /\ r0.gen = gen /\ r0.at = "run" /\ r0.status = "none"
    BY DEF Tui!NewRead, Reads
  <1>6. ends \in BOOLEAN
    BY DEF Tui!EndsRun
  <1>7. \/ ~Changes(buffered) /\ after = r.status
        \/ \E i \in 1..Len(buffered) :
              /\ buffered[i].record = 0
              /\ \A j \in 1..Len(buffered) : j > i => buffered[j].record > 0
              /\ after = buffered[i].status
    BY <1>3, StatusFollows
  <1>8. /\ live' \in Seq(Nat)
        /\ \/ Len(live') = tuiObservationCapacity
           \/ /\ Len(live) # tuiObservationCapacity
              /\ \A i \in 1..Len(live) : Has(live', live[i])
              /\ \A i \in 1..Len(buffered) :
                    buffered[i].record > 0 => Has(live', buffered[i].record)
    BY <1>1, <1>3, RowsKeep
  <1>9. \A i \in 1..Len(buffered) : Tui!IsTerminal(buffered[i].status) => ends
    BY DEF Tui!EndsRun
  <1>10. ends => Tui!IsTerminal(runStatus)
    BY DEF Tui!EndsRun, FrameInv, FramesOK, FrameOK
  <1> HIDE DEF r0, ends, after
  <1>11. after \in Tui!RunStatuses \cup {"none"}
    <2>1. \A i \in 1..Len(buffered) : buffered[i] \in Frames /\ buffered[i].status # "ready"
      BY <1>3 DEF FrameInv
    <2>2. \A i \in 1..Len(buffered) : buffered[i].status \in Tui!RunStatuses \cup {"none"}
      BY <2>1 DEF Frames
    <2>3. r.status \in Tui!RunStatuses \cup {"none"}
      BY <1>3 DEF Reads
    <2>. QED
      BY <1>7, <2>2, <2>3
  <1>12. TuiTypes'
    <2>1. shown' \in [status : Tui!RunStatuses \cup {"none"}, count : Nat]
      BY <1>1, <1>3, <1>11 DEF Reads
    <2>2. reads' \subseteq Reads
      BY <1>1, <1>5 DEF TuiTypes
    <2>3. buffered' \in Seq(Frames)
      <3>1. <<>> \in Seq(Frames)
        OBVIOUS
      <3>. QED
        BY <1>1, <3>1
    <2>. QED
      BY <1>2, <1>8, <2>1, <2>2, <2>3 DEF TuiTypes
  <1>13. TuiBooleans'
    BY <1>1, <1>2, <1>6 DEF TuiBooleans
  <1>14. GenerationInv'
    BY <1>1, <1>2, <1>5 DEF GenerationInv
  <1>15. ConnectionInv'
    BY <1>1, <1>2, <1>4 DEF ConnectionInv
  <1>16. \A u : OfGen(u)' <=> u = r0 /\ ends
    <2>1. \A u : OfGen(u) => u = r
      BY <1>4 DEF ReadInv
    <2>. QED
      BY <1>1, <1>2, <1>5, <2>1 DEF OfGen
  <1>17. ReadInv'
    BY <1>1, <1>16 DEF ReadInv
  <1>18. FrameInv'
    <2>1. FramesOK(<<>>, runStatus) /\ Len(<<>>) = 0
      BY DEF FramesOK
    <2>2. \A i \in 1..Len(wire[gen]) : wire[gen][i].status # "ready"
      BY <1>4 DEF FrameInv
    <2>. QED
      BY <1>1, <1>2, <2>1, <2>2 DEF FrameInv
  <1>19. ~Changes(buffered') /\ EndsAt(buffered', runStatus)
    <2>1. ~Changes(<<>>) /\ EndsAt(<<>>, runStatus)
      BY DEF Changes, EndsAt
    <2>. QED
      BY <1>1, <2>1
  <1>20. shown'.status = after /\ shown'.count = r.count
    BY <1>1
  <1>21. CurrentInv'
    <2> SUFFICES ASSUME gen \notin cut, Tui!Lifecycle(runStatus) \notin due \cup skipped
                 PROVE  EndsAt(wire[gen], runStatus) /\ (Changes(wire[gen]) \/ after = runStatus)
      BY <1>2, <1>5, <1>16, <1>19, <1>20 DEF CurrentInv, Follows
    <2>1. /\ EndsAt(wire[gen], runStatus)
          /\ Changes(wire[gen]) \/ EndsAt(buffered, runStatus)
          /\ Changes(wire[gen]) \/ Changes(buffered) \/ r.status = runStatus
      BY <1>1, <1>4 DEF CurrentInv, Follows
    <2>2. \A i \in 1..Len(buffered) : buffered[i].status # "ready"
      BY DEF FrameInv
    <2>. QED
      BY <1>7, <2>1, <2>2 DEF EndsAt
  <1>22. FinalInv'
    <2>1. ~Tui!IsTerminal(r0.status)
      BY <1>5 DEF Tui!IsTerminal
    <2>2. \A u \in reads' : u \in reads \/ u = r0
      BY <1>1
    <2>3. Tui!IsTerminal(after) => after = runStatus /\ (r.count = records \/ \E u : OfGen(u)')
      <3>1. CASE after = r.status
        BY <1>1, <3>1 DEF FinalInv
      <3>2. ASSUME NEW i \in 1..Len(buffered), after = buffered[i].status, Tui!IsTerminal(after)
            PROVE  after = runStatus /\ ends
        BY <1>9, <3>2 DEF FrameInv, FramesOK, FrameOK
      <3>. QED
        BY <1>7, <1>16, <3>1, <3>2
    <2>. QED
      BY <1>2, <1>5, <1>10, <1>16, <1>20, <2>1, <2>2, <2>3 DEF FinalInv
  <1>23. BetweenInv'
    <2> SUFFICES ASSUME gen \notin cut, NEW n \in 1..records PROVE Covered(n, r.count)'
      BY <1>2, <1>5, <1>16, <1>20 DEF BetweenInv
    <2> DEFINE f == Tui!Observation(n)
    <2>1. n > 0 /\ f.record = n
      BY <1>3 DEF Tui!Observation
    <2>2. Covered(n, r.count)
      BY <1>1, <1>4 DEF BetweenInv
    <2>3. (\E i \in 1..Len(live) : live[i] = n) =>
             Len(live') = tuiObservationCapacity \/ Has(live', n)
      BY <1>8
    <2>4. (\E i \in 1..Len(buffered) : buffered[i] = f) =>
             Len(live') = tuiObservationCapacity \/ Has(live', n)
      BY <1>8, <2>1
    <2>5. Len(live) = tuiObservationCapacity => Len(live') = tuiObservationCapacity
      BY <1>8
    <2> HIDE DEF f
    <2>. QED
      BY <1>2, <2>2, <2>3, <2>4, <2>5 DEF Covered, Has, f
  <1>. QED
    BY <1>12, <1>13, <1>14, <1>15, <1>17, <1>18, <1>21, <1>22, <1>23 DEF TuiInv, RunningInv

\* Every step of the dashboard and of the run it watches preserves the
\* invariant.
LEMMA TuiStep == ASSUME TuiInv, [Tui!Next]_(Tui!vars) PROVE TuiInv'
  <1>1. CASE UNCHANGED Tui!vars
    BY <1>1
    DEF TuiInv, TuiTypes, TuiBooleans, RunningInv, GenerationInv, ConnectionInv, ReadInv, FrameInv,
        CurrentInv, FinalInv, BetweenInv, OfGen, Follows, Covered,
        Tui!vars, Tui!plane, Tui!net, Tui!cmds, Tui!model
  <1>2. CASE Tui!Next
    <2>1. ~quitting
      BY <1>2 DEF Tui!Next
    <2>2. CASE Tui!Plane
      BY <2>1, <2>2, TransitionStep, IngestStep, PublishStep, SkipStep DEF Tui!Plane
    <2>3. CASE Tui!Work
      <3>1. CASE \E g \in Tui!Generations : Tui!Subscribe(g) \/ Tui!StreamOpened(g)
        BY <2>1, <3>1, SubscribeStep, OpenedStep
      <3>2. CASE Tui!HandleReady \/ Tui!HandleWhileResyncing \/ Tui!HandleLive
        BY <2>1, <3>2, ReadyStep, BufferStep, LiveStep
      <3>3. CASE Tui!HandleOverflow \/ Tui!StreamEnds
        BY <2>1, <3>3, EndingStep
      <3>4. CASE \E r \in reads : \/ Tui!ReadRun(r) \/ Tui!ReadProgress(r)
                                  \/ Tui!ResyncDone(r) \/ Tui!IgnoreRead(r)
        BY <2>1, <3>4, ReadStep, ResyncStep
      <3>5. CASE \E g \in timers : Tui!Tick(g)
        BY <2>1, <3>5, ReconnectStep
      <3>. QED
        BY <2>3, <3>1, <3>2, <3>3, <3>4, <3>5 DEF Tui!Work
    <2>4. CASE Tui!OpenFails \/ Tui!RejectFrame \/ \E r \in reads : Tui!ReadFails(r)
      BY <2>1, <2>4, EndingStep
    <2>5. CASE Tui!CutStream \/ Tui!PressReconnect \/ Tui!PressQuit
      BY <2>1, <2>5, CutStep, ReconnectStep, QuitStep
    <2>. QED
      BY <1>2, <2>2, <2>3, <2>4, <2>5 DEF Tui!Next
  <1>. QED
    BY <1>1, <1>2

\* What the invariant says of a dashboard that says LIVE.
LEMMA TuiShows ==
  ASSUME TuiInv
  PROVE  Tui!NothingFallsBetween /\ Tui!LiveIsCurrent /\ Tui!EndedShowsFinalCounts
  <1> SUFFICES ASSUME Tui!Live
               PROVE  Tui!NothingFallsBetween /\ Tui!LiveIsCurrent /\ Tui!EndedShowsFinalCounts
    BY DEF Tui!NothingFallsBetween, Tui!LiveIsCurrent, Tui!EndedShowsFinalCounts
  <1>1. shownState = "live" /\ ~quitting /\ gen \notin cut
    BY DEF Tui!Live
  <1> USE Running, <1>1
  <1> DEFINE q == wire[gen]
  <1>2. q \in Seq(Frames) /\ live \in Seq(Nat) /\ buffered = <<>>
    BY DEF TuiTypes, ConnectionInv
  <1>3. DOMAIN q = 1..Len(q) /\ DOMAIN live = 1..Len(live)
    BY <1>2
  <1> HIDE DEF q
  <1>4. \A i \in 1..Len(q) : q[i] \in Tui!ToSet(q) /\ q[i].record \in Nat
    <2>1. \A i \in 1..Len(q) : q[i] \in Frames
      BY <1>2
    <2>. QED
      BY <1>3, <2>1 DEF Tui!ToSet, Frames
  <1>5. \A i \in 1..Len(live) : live[i] \in Tui!ToSet(live)
    BY <1>3 DEF Tui!ToSet
  <1>6. Tui!Coming = due \cup Tui!ToSet(q)
    BY DEF Tui!Coming, q
  <1>7. Tui!Reading <=> \E r : OfGen(r)
    BY DEF Tui!Reading, OfGen
  <1>8. Tui!NothingFallsBetween
    <2> SUFFICES ASSUME NEW n \in 1..records
                 PROVE  \/ n <= shown.count
                        \/ n \in Tui!ToSet(live)
                        \/ Tui!Observation(n) \in Tui!Coming \cup skipped
                        \/ Len(live) = tuiObservationCapacity
      BY DEF Tui!NothingFallsBetween
    <2>1. Covered(n, shown.count)
      BY DEF BetweenInv
    <2>2. ~(\E i \in 1..Len(buffered) : buffered[i] = Tui!Observation(n))
      BY <1>2
    <2>. QED
      BY <1>4, <1>5, <1>6, <2>1, <2>2 DEF Covered, q
  <1>9. Tui!LiveIsCurrent
    <2> SUFFICES ASSUME \A e \in Tui!Coming : e.record > 0, Tui!Lifecycle(runStatus) \notin skipped
                 PROVE  shown.status = runStatus
      BY DEF Tui!LiveIsCurrent
    <2>1. Tui!Lifecycle(runStatus) \notin due
      BY <1>6 DEF Tui!Lifecycle
    <2>2. ~Changes(q)
      BY <1>4, <1>6 DEF Changes
    <2>3. ~Changes(buffered)
      BY <1>2 DEF Changes
    <2>. QED
      BY <2>1, <2>2, <2>3 DEF CurrentInv, Follows, q
  <1>10. Tui!EndedShowsFinalCounts
    BY <1>7 DEF Tui!EndedShowsFinalCounts, FinalInv
  <1>. QED
    BY <1>8, <1>9, <1>10

\* However its streams break and its reads interleave with what happens to the
\* run, a dashboard that says LIVE has lost no record between snapshot and
\* stream, shows the run's status, and of a run that ended its final count
\* (tui_model.go, handleFrame and applySnapshot).
THEOREM DashboardShowsTheRun == CollectionSpec => []ShowsTheRun
  <1> DEFINE PartInv == part = "dashboard" => TuiInv
  <1>1. CollectionInit => PartInv
    BY TuiInit DEF CollectionInit
  <1>2. PartInv /\ [CollectionNext]_all => PartInv'
    <2> SUFFICES ASSUME part = "dashboard", TuiInv, [CollectionNext]_all
                 PROVE  TuiInv'
      BY PartStays
    <2>1. [Tui!Next]_(Tui!vars)
      BY DEF CollectionNext, all, tuiVars, Tui!vars, Tui!plane, Tui!net, Tui!cmds, Tui!model
    <2>. QED
      BY <2>1, TuiStep
  <1>3. PartInv => ShowsTheRun
    BY TuiShows DEF ShowsTheRun
  <1>. QED
    BY <1>1, <1>2, <1>3, PTL DEF CollectionSpec
-----------------------------------------------------------------------------
(* What a Collector reports of itself. Its counters are the numbers of spans *)
(* that have come so far, its lists what those spans were.                   *)

SpanStages == {"waiting", "processed", "observed", "analyzed", "done"}
SpanType == [producer : ServiceNames, what : Reporter!Whats, stage : SpanStages]
SpanKinds == {"invalid", "error", "model", "http"}
AnalyzedKinds == {"model", "http"}

\* The spans that have come to one of some stages, of some kinds.
ComeOf(q, stages, kinds) == {i \in DOMAIN q : q[i].stage \in stages /\ q[i].what.kind \in kinds}
Come(stages, kinds) == ComeOf(spans, stages, kinds)
Arrived   == {"processed", "observed", "analyzed", "done"}
Observed  == {"observed", "analyzed", "done"}
Analyzed  == {"analyzed", "done"}
Done      == {"done"}

ReporterTypes ==
    /\ spans \in Seq(SpanType)
    /\ count \in [Reporter!Counters -> Nat]
    /\ tracker \in [producers : SUBSET ServiceNames, producersTruncated : BOOLEAN,
                    fidelity : Nat, models : SUBSET ServiceModels, modelsTruncated : BOOLEAN,
                    operations : SUBSET ServiceOperations, saturated : BOOLEAN,
                    targetSpans : Nat, learned : Nat, notLearned : Nat, observeErrors : Nat]
    /\ receiving \in BOOLEAN
    /\ stop \in {"no", "closing", "final", "returned"}

\* Only a span the engine analyzed is on its way past the analysis.
KindsRight ==
    \A i \in DOMAIN spans :
        spans[i].stage \in {"observed", "analyzed"} => spans[i].what.kind \in AnalyzedKinds

\* Each counter is a number of spans.
CountersInv ==
    /\ KindsRight
    /\ count["processed"] = Cardinality(Come(Arrived, SpanKinds))
    /\ count["analyzed"] = Cardinality(Come(Analyzed, AnalyzedKinds))
    /\ count["invalid"] = Cardinality(Come(Done, {"invalid"}))
    /\ count["analyzeErrors"] = Cardinality(Come(Done, {"error"}))
    /\ tracker.fidelity = Cardinality(Come(Observed, AnalyzedKinds))
    /\ tracker.targetSpans = Cardinality(Come(Observed, {"http"}))
    /\ tracker.learned + tracker.notLearned + tracker.observeErrors
         = Cardinality(Come(Done, AnalyzedKinds))

\* The lists are within their bounds, and complete unless marked.
ListsInv ==
    /\ IsFiniteSet(tracker.producers) /\ Cardinality(tracker.producers) <= ProducerRoom
    /\ IsFiniteSet(tracker.models) /\ Cardinality(tracker.models) <= ModelRoom
    /\ IsFiniteSet(tracker.operations) /\ Cardinality(tracker.operations) <= OperationRoom
    /\ Cardinality(tracker.operations) <= tracker.targetSpans
    /\ tracker.producersTruncated \/ \A i \in DOMAIN spans : spans[i].producer \in tracker.producers
    /\ tracker.modelsTruncated \/
         tracker.models = {spans[i].what.model : i \in Come(Observed, {"model"})}
    /\ tracker.saturated \/
         tracker.operations = {spans[i].what.operation : i \in Come(Observed, {"http"})}

\* The first n names statusSnapshot loads.
LoadedNames(n) == {Reporter!statusSnapshot[i] : i \in 1..n}

ListsType == [producers : SUBSET ServiceNames, producersTruncated : BOOLEAN,
              models : SUBSET ServiceModels, modelsTruncated : BOOLEAN,
              operations : Nat, saturated : BOOLEAN, targetSpans : Nat, before : Nat]
ReportType == [lists : ListsType, received : Nat, evaluated : Nat, invalid : Nat,
               analyzeErrors : Nat, fidelity : Nat, learning : Nat]

\* Lists of the tracker as it held them when it had heard of so many spans.
ListsRight(r) ==
    /\ r \in ListsType
    /\ IsFiniteSet(r.producers) /\ Cardinality(r.producers) <= ProducerRoom
    /\ IsFiniteSet(r.models) /\ Cardinality(r.models) <= ModelRoom
    /\ r.operations <= OperationRoom /\ r.operations <= r.targetSpans
    /\ r.before <= Len(spans)
    /\ r.producersTruncated \/ \A i \in 1..r.before : spans[i].producer \in r.producers

\* What is loaded was true when it was loaded, and counters only grow; what is
\* loaded after an outcome covers it.
LoadingInv ==
    LET l == reporter.loaded
        has(what) == what \in DOMAIN l
    IN /\ DOMAIN l = LoadedNames(reporter.next - 1)
       /\ has("tracker") => ListsRight(l["tracker"])
       /\ \A c \in Reporter!Counters : has(c) => l[c] \in Nat /\ l[c] <= count[c]
       /\ has("processed") => l["analyzed"] + l["invalid"] + l["analyzeErrors"] <= l["processed"]
       /\ has("fidelity") => l["fidelity"] \in Nat /\ l["analyzed"] <= l["fidelity"]
       /\ has("learning") => l["learning"] \in Nat

\* Where the reporter is, and that the last report is made of a process at rest.
PhaseInv ==
    /\ DOMAIN reporter = {"phase", "next", "loaded"}
    /\ reporter.phase \in {"idle", "loading", "final", "posting", "finalPosting", "ended"}
    /\ reporter.next \in 1..8
    /\ stop # "no" => ~receiving /\ \A i \in DOMAIN spans : spans[i].stage = "done"
    /\ reporter.phase \in {"final", "finalPosting", "ended"} => stop \in {"final", "returned"}
    /\ reporter.phase = "final" =>
         \A what \in DOMAIN reporter.loaded : reporter.loaded[what] = Reporter!ValueOf(what)

ConsistentReport(r) ==
    /\ Reporter!validate(r) /\ r.evaluated + r.invalid + r.analyzeErrors <= r.received
    /\ r.evaluated <= r.fidelity
    /\ r.lists.before <= Len(spans)
    /\ r.lists.producersTruncated \/ \A i \in 1..r.lists.before : spans[i].producer \in r.lists.producers

\* A report made of a process at rest, of everything it did.
CompleteReport(r) ==
    /\ r.received = Len(spans)
    /\ r.evaluated = Cardinality(Come(Analyzed, AnalyzedKinds))
    /\ r.fidelity = r.evaluated /\ r.learning = r.evaluated
    /\ r.lists.modelsTruncated \/
         r.lists.models = {spans[i].what.model : i \in Come(Observed, {"model"})}
    /\ r.lists.saturated \/
         r.lists.operations = Cardinality({spans[i].what.operation : i \in Come(Observed, {"http"})})

SentInv ==
    /\ sent \in Seq(ReportType)
    /\ \A n \in DOMAIN sent : ConsistentReport(sent[n])
    /\ reporter.phase \in {"finalPosting", "ended"} =>
         Len(sent) > 0 /\ CompleteReport(sent[Len(sent)])

ReporterInv ==
    ReporterTypes /\ CountersInv /\ ListsInv /\ PhaseInv
      /\ (reporter.phase \in {"loading", "final"} => LoadingInv) /\ SentInv

\* A span that moves on is counted where it has now come, once.
LEMMA SpanMoves ==
  ASSUME NEW q \in Seq(SpanType), NEW i \in DOMAIN q, NEW st \in SpanStages,
         NEW p, DOMAIN p = DOMAIN q, \A j \in DOMAIN q : j # i => p[j] = q[j],
         p[i].stage = st, p[i].what = q[i].what,
         NEW A, NEW K, q[i].stage \in A => st \in A
  PROVE  Cardinality(ComeOf(p, A, K)) =
              IF q[i].stage \notin A /\ st \in A /\ q[i].what.kind \in K
              THEN Cardinality(ComeOf(q, A, K)) + 1 ELSE Cardinality(ComeOf(q, A, K))
  <1>1. /\ DOMAIN q = 1..Len(q) /\ Len(q) \in Nat
        /\ \A j \in DOMAIN q : q[j] \in SpanType
    OBVIOUS
  <1>2. /\ DOMAIN p = DOMAIN q
        /\ \A j \in DOMAIN q : j # i => p[j] = q[j]
        /\ p[i].stage = st /\ p[i].what = q[i].what
    OBVIOUS
  <1>3. IsFiniteSet(ComeOf(q, A, K))
    <2>1. IsFiniteSet(1..Len(q))
      BY <1>1, FS_Interval
    <2>2. ComeOf(q, A, K) \in SUBSET (1..Len(q))
      BY <1>1 DEF ComeOf
    <2>. QED
      BY <2>1, <2>2, FS_Subset
  <1>4. CASE q[i].stage \notin A /\ st \in A /\ q[i].what.kind \in K
    <2>1. ComeOf(p, A, K) = ComeOf(q, A, K) \cup {i} /\ i \notin ComeOf(q, A, K)
      BY <1>2, <1>4 DEF ComeOf
    <2>. QED
      BY <1>3, <1>4, <2>1, FS_AddElement
  <1>5. CASE ~(q[i].stage \notin A /\ st \in A /\ q[i].what.kind \in K)
    <2>1. ComeOf(p, A, K) = ComeOf(q, A, K)
      BY <1>2, <1>5 DEF ComeOf
    <2>. QED
      BY <1>5, <2>1
  <1>. QED
    BY <1>4, <1>5

\* What the spans were and from whom does not change as they move on.
LEMMA SpanKeeps ==
  ASSUME ReporterTypes, NEW i \in DOMAIN spans, NEW st \in SpanStages,
         spans' = [spans EXCEPT ![i].stage = st]
  PROVE  /\ spans' \in Seq(SpanType) /\ Len(spans') = Len(spans)
         /\ DOMAIN spans' = DOMAIN spans
         /\ \A j \in DOMAIN spans : /\ spans'[j].what = spans[j].what
                                    /\ spans'[j].producer = spans[j].producer
                                    /\ j # i => spans'[j] = spans[j]
         /\ spans'[i].stage = st
  <1>1. /\ DOMAIN spans = 1..Len(spans) /\ Len(spans) \in Nat
        /\ \A j \in DOMAIN spans : spans[j] \in SpanType
    BY DEF ReporterTypes
  <1>2. /\ DOMAIN spans' = DOMAIN spans
        /\ \A j \in DOMAIN spans : /\ spans'[j].what = spans[j].what
                                   /\ spans'[j].producer = spans[j].producer
                                   /\ j # i => spans'[j] = spans[j]
        /\ spans'[i].stage = st
    BY <1>1 DEF SpanType
  <1>3. \A j \in DOMAIN spans : spans'[j] \in SpanType
    BY <1>1 DEF SpanType
  <1>4. spans' \in [1..Len(spans) -> SpanType]
    BY <1>1, <1>3
  <1>5. spans' \in Seq(SpanType) /\ Len(spans') = Len(spans)
    BY <1>1, <1>4
  <1>. QED
    BY <1>2, <1>5

\* A span taken in is counted nowhere yet.
LEMMA SpanComes ==
  ASSUME ReporterTypes, NEW s \in SpanType, s.stage = "waiting", spans' = Append(spans, s)
  PROVE  /\ spans' \in Seq(SpanType) /\ Len(spans') = Len(spans) + 1
         /\ DOMAIN spans' = DOMAIN spans \cup {Len(spans) + 1}
         /\ \A j \in DOMAIN spans : spans'[j] = spans[j]
         /\ spans'[Len(spans) + 1] = s
         /\ \A A, K : "waiting" \notin A => ComeOf(spans', A, K) = ComeOf(spans, A, K)
  <1>1. /\ DOMAIN spans = 1..Len(spans) /\ Len(spans) \in Nat
        /\ spans \in Seq(SpanType)
    BY DEF ReporterTypes
  <1>2. /\ spans' \in Seq(SpanType) /\ Len(spans') = Len(spans) + 1
        /\ DOMAIN spans' = 1..(Len(spans) + 1)
        /\ \A j \in 1..Len(spans) : spans'[j] = spans[j]
        /\ spans'[Len(spans) + 1] = s
    BY <1>1
  <1>3. DOMAIN spans' = DOMAIN spans \cup {Len(spans) + 1}
    BY <1>1, <1>2
  <1>4. ASSUME NEW A, NEW K, "waiting" \notin A PROVE ComeOf(spans', A, K) = ComeOf(spans, A, K)
    BY <1>1, <1>2, <1>3, <1>4 DEF ComeOf
  <1>. QED
    BY <1>1, <1>2, <1>3, <1>4

\* Sets of spans are finite.
LEMMA ComeFinite ==
  ASSUME ReporterTypes, NEW A, NEW K
  PROVE  IsFiniteSet(Come(A, K)) /\ Cardinality(Come(A, K)) \in Nat
  <1>1. DOMAIN spans = 1..Len(spans) /\ Len(spans) \in Nat
    BY DEF ReporterTypes
  <1>2. IsFiniteSet(1..Len(spans))
    BY <1>1, FS_Interval
  <1>3. Come(A, K) \in SUBSET (1..Len(spans))
    BY <1>1 DEF Come, ComeOf
  <1>. QED
    BY <1>2, <1>3, FS_Subset, FS_CardinalityType

\* No outcome is counted of a span that was not received, and no two of one span.
LEMMA OutcomesFit ==
  ASSUME ReporterTypes, CountersInv
  PROVE  /\ count["analyzed"] + count["invalid"] + count["analyzeErrors"] <= count["processed"]
         /\ count["analyzed"] <= tracker.fidelity
  <1> DEFINE E == Come(Analyzed, AnalyzedKinds)  V == Come(Done, {"invalid"})
             X == Come(Done, {"error"})  P == Come(Arrived, SpanKinds)
             F == Come(Observed, AnalyzedKinds)
  <1>1. /\ IsFiniteSet(E) /\ Cardinality(E) \in Nat /\ IsFiniteSet(V) /\ Cardinality(V) \in Nat
        /\ IsFiniteSet(X) /\ Cardinality(X) \in Nat /\ IsFiniteSet(P) /\ Cardinality(P) \in Nat
        /\ IsFiniteSet(F) /\ Cardinality(F) \in Nat
    BY ComeFinite
  <1>2. E \cap V = {} /\ (E \cup V) \cap X = {} /\ (E \cup V) \cup X \subseteq P /\ E \subseteq F
    BY DEF Come, ComeOf, Analyzed, AnalyzedKinds, Done, Arrived, SpanKinds, Observed
  <1> HIDE DEF E, V, X, P, F
  <1>3. IsFiniteSet(E \cup V) /\ Cardinality(E \cup V) = Cardinality(E) + Cardinality(V)
    <2>1. Cardinality(E \cap V) = 0
      BY <1>2, FS_EmptySet
    <2>. QED
      BY <1>1, <2>1, FS_Union
  <1>4. /\ IsFiniteSet((E \cup V) \cup X)
        /\ Cardinality((E \cup V) \cup X) = Cardinality(E) + Cardinality(V) + Cardinality(X)
    <2>1. Cardinality((E \cup V) \cap X) = 0
      BY <1>2, FS_EmptySet
    <2>2. /\ IsFiniteSet((E \cup V) \cup X)
          /\ Cardinality((E \cup V) \cup X) =
               Cardinality(E \cup V) + Cardinality(X) - Cardinality((E \cup V) \cap X)
      BY <1>1, <1>3, FS_Union
    <2>. QED
      BY <1>1, <1>3, <2>1, <2>2
  <1>5. Cardinality((E \cup V) \cup X) <= Cardinality(P) /\ Cardinality(E) <= Cardinality(F)
    BY <1>1, <1>2, FS_Subset
  <1>. QED
    BY <1>1, <1>4, <1>5 DEF CountersInv, E, V, X, P, F

\* The instance counts as this module does.
LEMMA SameCardinality == \A S : Reporter!Cardinality(S) = Cardinality(S)
  BY DEF Reporter!Cardinality, Cardinality, Reporter!IsFiniteSet, IsFiniteSet

\* A finite set has subsets of every size up to its own.
LEMMA SubsetOfSize ==
  ASSUME NEW S, IsFiniteSet(S), NEW n \in Nat, n <= Cardinality(S)
  PROVE  \E T \in SUBSET S : Cardinality(T) = n
  <1> DEFINE Q == {k \in Nat : k <= Cardinality(S) => \E T \in SUBSET S : Cardinality(T) = k}
  <1>1. 0 \in Q
    BY FS_EmptySet
  <1>2. ASSUME NEW k \in Q PROVE k + 1 \in Q
    <2> SUFFICES ASSUME k + 1 <= Cardinality(S)
                 PROVE  \E T \in SUBSET S : Cardinality(T) = k + 1
      BY <1>2
    <2>0. Cardinality(S) \in Nat /\ k \in Nat
      BY FS_CardinalityType, <1>2
    <2>1. PICK T \in SUBSET S : Cardinality(T) = k
      BY <1>2, <2>0
    <2>2. IsFiniteSet(T) /\ T # S
      BY <2>0, <2>1, FS_Subset
    <2>3. PICK x \in S : x \notin T
      BY <2>1, <2>2
    <2>4. Cardinality(T \cup {x}) = k + 1
      BY <2>1, <2>2, <2>3, FS_AddElement
    <2>. QED
      BY <2>3, <2>4
  <1>3. n \in Q
    <2>1. Q \subseteq Nat
      OBVIOUS
    <2> HIDE DEF Q
    <2>. QED
      BY <1>1, <1>2, <2>1, SetInduction
  <1>. QED
    BY <1>3

\* A list that is cut is one of its own subsets.
LEMMA CutIsPart ==
  ASSUME NEW list, IsFiniteSet(list), NEW others \in Nat
  PROVE  /\ Reporter!Cut(list, others) \in SUBSET list
         /\ IsFiniteSet(Reporter!Cut(list, others))
         /\ Cardinality(Reporter!Cut(list, others)) \in Nat
         /\ Cardinality(Reporter!Cut(list, others)) <= Cardinality(list)
  <1>0. BodyRoom \in Nat /\ Cardinality(list) \in Nat
    BY ReporterAssumption, FS_CardinalityType DEF Reporter!BoundsAssumption
  <1>1. Reporter!Cut(list, others) \in SUBSET list
    <2>1. CASE Cardinality(list) + others <= BodyRoom
      BY <2>1, SameCardinality DEF Reporter!Cut
    <2>2. CASE ~(Cardinality(list) + others <= BodyRoom)
      <3> DEFINE room == IF others <= BodyRoom THEN BodyRoom - others ELSE 0
      <3>1. room \in Nat /\ room <= Cardinality(list)
        BY <1>0, <2>2
      <3>2. \E S \in SUBSET list : Cardinality(S) = room
        <4> HIDE DEF room
        <4>. QED
          BY <3>1, SubsetOfSize
      <3>. QED
        BY <2>2, <3>2, SameCardinality DEF Reporter!Cut
    <2>. QED
      BY <2>1, <2>2
  <1>. QED
    BY <1>1, FS_Subset, FS_CardinalityType

\* What fitReport leaves of right lists is right, and marked where it cut.
LEMMA FitKeeps ==
  ASSUME NEW r \in ListsType, IsFiniteSet(r.producers), IsFiniteSet(r.models)
  PROVE  LET f == Reporter!fitReport(r) IN
         /\ f \in ListsType /\ f.producers \subseteq r.producers /\ f.models \subseteq r.models
         /\ Cardinality(f.producers) \in Nat /\ Cardinality(f.producers) <= Cardinality(r.producers)
         /\ Cardinality(f.models) \in Nat /\ Cardinality(f.models) <= Cardinality(r.models)
         /\ f.operations = r.operations /\ f.saturated = r.saturated
         /\ f.targetSpans = r.targetSpans /\ f.before = r.before
         /\ f.producersTruncated \/ (f.producers = r.producers /\ ~r.producersTruncated)
         /\ f.modelsTruncated \/ (f.models = r.models /\ ~r.modelsTruncated)
  <1> DEFINE P == Reporter!Cut(r.producers, Cardinality(r.models))
             M == Reporter!Cut(r.models, Cardinality(P))
  <1>1. Cardinality(r.models) \in Nat
    BY FS_CardinalityType
  <1>2. /\ P \in SUBSET r.producers /\ Cardinality(P) \in Nat
        /\ Cardinality(P) <= Cardinality(r.producers)
    BY <1>1, CutIsPart
  <1>3. /\ M \in SUBSET r.models /\ Cardinality(M) \in Nat
        /\ Cardinality(M) <= Cardinality(r.models)
    <2> HIDE DEF P
    <2>. QED
      BY <1>2, CutIsPart
  <1>4. Reporter!fitReport(r) =
          [r EXCEPT !.producers = P, !.models = M,
                    !.producersTruncated = r.producersTruncated \/ P # r.producers,
                    !.modelsTruncated = r.modelsTruncated \/ M # r.models]
    BY SameCardinality DEF Reporter!fitReport
  <1> HIDE DEF P, M
  <1> DEFINE f == Reporter!fitReport(r)
  <1>5. /\ f.producers = P /\ f.models = M
        /\ f.operations = r.operations /\ f.saturated = r.saturated
        /\ f.targetSpans = r.targetSpans /\ f.before = r.before
    BY <1>4 DEF ListsType
  <1>6. f.producersTruncated = (r.producersTruncated \/ P # r.producers)
    BY <1>4 DEF ListsType
  <1>7. f.modelsTruncated = (r.modelsTruncated \/ M # r.models)
    BY <1>4 DEF ListsType
  <1>11. f \in ListsType
    BY <1>2, <1>3, <1>4 DEF ListsType
  <1> HIDE DEF f
  <1>8. f.producersTruncated \/ (f.producers = r.producers /\ ~r.producersTruncated)
    BY <1>5, <1>6 DEF ListsType
  <1>9. f.modelsTruncated \/ (f.models = r.models /\ ~r.modelsTruncated)
    BY <1>5, <1>7
  <1>10. /\ f.producers \subseteq r.producers /\ f.models \subseteq r.models
         /\ Cardinality(f.producers) \in Nat /\ Cardinality(f.producers) <= Cardinality(r.producers)
         /\ Cardinality(f.models) \in Nat /\ Cardinality(f.models) <= Cardinality(r.models)
    BY <1>2, <1>3, <1>5
  <1>. QED
    BY <1>5, <1>8, <1>9, <1>10, <1>11 DEF f

\* One step on the way of a span.
Moves(i, st) ==
    \/ spans[i].stage = "waiting" /\ st = "processed"
    \/ spans[i].stage = "processed" /\ st = "observed" /\ spans[i].what.kind \in AnalyzedKinds
    \/ spans[i].stage = "processed" /\ st = "done" /\ spans[i].what.kind \in {"invalid", "error"}
    \/ spans[i].stage = "observed" /\ st = "analyzed" /\ spans[i].what.kind \in AnalyzedKinds
    \/ spans[i].stage = "analyzed" /\ st = "done" /\ spans[i].what.kind \in AnalyzedKinds

Plus(set, condition) == IF condition THEN Cardinality(set) + 1 ELSE Cardinality(set)

\* What a step of a span adds to the numbers of spans that are counted.
LEMMA CountsMove ==
  ASSUME ReporterTypes, NEW i \in DOMAIN spans, NEW st \in SpanStages, Moves(i, st),
         spans' = [spans EXCEPT ![i].stage = st]
  PROVE  /\ Cardinality(Come(Arrived, SpanKinds)') = Plus(Come(Arrived, SpanKinds), st = "processed")
         /\ Cardinality(Come(Analyzed, AnalyzedKinds)') = Plus(Come(Analyzed, AnalyzedKinds), st = "analyzed")
         /\ Cardinality(Come(Done, {"invalid"})') =
              Plus(Come(Done, {"invalid"}), st = "done" /\ spans[i].what.kind = "invalid")
         /\ Cardinality(Come(Done, {"error"})') =
              Plus(Come(Done, {"error"}), st = "done" /\ spans[i].what.kind = "error")
         /\ Cardinality(Come(Observed, AnalyzedKinds)') = Plus(Come(Observed, AnalyzedKinds), st = "observed")
         /\ Cardinality(Come(Observed, {"http"})') =
              Plus(Come(Observed, {"http"}), st = "observed" /\ spans[i].what.kind = "http")
         /\ Cardinality(Come(Done, AnalyzedKinds)') =
              Plus(Come(Done, AnalyzedKinds), st = "done" /\ spans[i].what.kind \in AnalyzedKinds)
  <1> DEFINE k == spans[i].what.kind  s == spans[i].stage
      Counted(A, K) == Cardinality(ComeOf(spans', A, K)) =
                         IF s \notin A /\ st \in A /\ k \in K
                         THEN Cardinality(ComeOf(spans, A, K)) + 1 ELSE Cardinality(ComeOf(spans, A, K))
  <1>1. s \in SpanStages /\ k \in SpanKinds
    <2>1. spans[i] \in SpanType
      BY DEF ReporterTypes
    <2>2. spans[i].stage \in SpanStages /\ spans[i].what \in Reporter!Whats
      BY <2>1 DEF SpanType
    <2>. QED
      BY <2>2 DEF SpanKinds, Reporter!Whats
  <1>2. ASSUME NEW A, NEW K, spans[i].stage \in A => st \in A PROVE Counted(A, K)
    <2>0. spans \in Seq(SpanType)
      BY DEF ReporterTypes
    <2>9. /\ DOMAIN spans' = DOMAIN spans /\ \A j \in DOMAIN spans : j # i => spans'[j] = spans[j]
          /\ spans'[i].stage = st /\ spans'[i].what = spans[i].what
      BY SpanKeeps
    <2> HIDE DEF Counted
    <2>1. Cardinality(ComeOf(spans', A, K)) =
              IF spans[i].stage \notin A /\ st \in A /\ spans[i].what.kind \in K
              THEN Cardinality(ComeOf(spans, A, K)) + 1 ELSE Cardinality(ComeOf(spans, A, K))
      BY ONLY <1>2, <2>0, <2>9, SpanMoves, i \in DOMAIN spans, st \in SpanStages
    <2>. QED
      BY <2>1 DEF Counted
  <1>3. Moves(i, st) = \/ s = "waiting" /\ st = "processed"
                       \/ s = "processed" /\ st = "observed" /\ k \in AnalyzedKinds
                       \/ s = "processed" /\ st = "done" /\ k \in {"invalid", "error"}
                       \/ s = "observed" /\ st = "analyzed" /\ k \in AnalyzedKinds
                       \/ s = "analyzed" /\ st = "done" /\ k \in AnalyzedKinds
    BY DEF Moves
  <1>4. /\ s \in Arrived => st \in Arrived
        /\ s \in Analyzed => st \in Analyzed
        /\ s \in Observed => st \in Observed
        /\ s \in Done => st \in Done
    BY <1>1, <1>3 DEF Arrived, Analyzed, Observed, Done, SpanStages
  <1>5. /\ Counted(Arrived, SpanKinds) /\ Counted(Analyzed, AnalyzedKinds)
        /\ Counted(Done, {"invalid"}) /\ Counted(Done, {"error"})
        /\ Counted(Observed, AnalyzedKinds) /\ Counted(Observed, {"http"})
        /\ Counted(Done, AnalyzedKinds)
    <2> HIDE DEF Counted
    <2>. QED
      BY <1>2, <1>4
  <1>6. /\ (s \notin Arrived /\ st \in Arrived /\ k \in SpanKinds) <=> st = "processed"
        /\ (s \notin Analyzed /\ st \in Analyzed /\ k \in AnalyzedKinds) <=> st = "analyzed"
        /\ (s \notin Done /\ st \in Done /\ k \in {"invalid"}) <=> (st = "done" /\ k = "invalid")
        /\ (s \notin Done /\ st \in Done /\ k \in {"error"}) <=> (st = "done" /\ k = "error")
        /\ (s \notin Observed /\ st \in Observed /\ k \in AnalyzedKinds) <=> st = "observed"
        /\ (s \notin Observed /\ st \in Observed /\ k \in {"http"}) <=> (st = "observed" /\ k = "http")
        /\ (s \notin Done /\ st \in Done /\ k \in AnalyzedKinds) <=> (st = "done" /\ k \in AnalyzedKinds)
    BY <1>1, <1>3 DEF Arrived, Analyzed, Observed, Done, SpanStages, SpanKinds, AnalyzedKinds
  <1>. QED
    BY <1>5, <1>6 DEF Plus, Come

\* While nobody stops the reporter, spans that come and move on leave right what
\* it has loaded and sent.
LEMMA SpansLeaveReports ==
  ASSUME ReporterInv, stop = "no", UNCHANGED <<reporter, stop, sent>>,
         Len(spans) \in Nat, Len(spans') \in Nat, Len(spans) <= Len(spans'),
         \A j \in 1..Len(spans) : spans'[j].producer = spans[j].producer,
         \A c \in Reporter!Counters : count'[c] \in Nat /\ count[c] <= count'[c]
  PROVE  PhaseInv' /\ (reporter.phase \in {"loading", "final"} => LoadingInv)' /\ SentInv'
  <1> USE DEF ReporterInv
  <1>1. reporter.phase \notin {"final", "finalPosting", "ended"}
    BY DEF PhaseInv
  <1>2. PhaseInv'
    BY <1>1 DEF PhaseInv
  <1>3. ASSUME reporter.phase \in {"loading", "final"} PROVE LoadingInv'
    <2>1. LoadingInv
      BY <1>3
    <2>2. /\ DOMAIN reporter'.loaded = LoadedNames(reporter'.next - 1)
          /\ "processed" \in DOMAIN reporter'.loaded =>
               reporter'.loaded["analyzed"] + reporter'.loaded["invalid"]
                 + reporter'.loaded["analyzeErrors"] <= reporter'.loaded["processed"]
          /\ "fidelity" \in DOMAIN reporter'.loaded =>
               /\ reporter'.loaded["fidelity"] \in Nat
               /\ reporter'.loaded["analyzed"] <= reporter'.loaded["fidelity"]
          /\ "learning" \in DOMAIN reporter'.loaded => reporter'.loaded["learning"] \in Nat
      BY <2>1 DEF LoadingInv
    <2>3. \A c \in Reporter!Counters : c \in DOMAIN reporter.loaded =>
            reporter.loaded[c] \in Nat /\ reporter.loaded[c] <= count'[c]
      <3> SUFFICES ASSUME NEW c \in Reporter!Counters, c \in DOMAIN reporter.loaded
                   PROVE  reporter.loaded[c] \in Nat /\ reporter.loaded[c] <= count'[c]
        OBVIOUS
      <3>1. reporter.loaded[c] \in Nat /\ reporter.loaded[c] <= count[c] /\ count[c] \in Nat
        BY <2>1 DEF LoadingInv, ReporterTypes
      <3>. QED
        BY <3>1
    <2>4. "tracker" \in DOMAIN reporter.loaded => ListsRight(reporter.loaded["tracker"])'
      <3> SUFFICES ASSUME "tracker" \in DOMAIN reporter.loaded
                   PROVE  ListsRight(reporter.loaded["tracker"])'
        OBVIOUS
      <3> DEFINE r == reporter.loaded["tracker"]
      <3>1. ListsRight(r) /\ reporter' = reporter
        BY <2>1 DEF LoadingInv
      <3>2. r.before \in Nat /\ r.before <= Len(spans)
        BY <3>1 DEF ListsRight, ListsType
      <3>3. r.before <= Len(spans') /\ \A j \in 1..r.before : spans'[j].producer = spans[j].producer
        BY <3>2
      <3>. QED
        BY <3>1, <3>3 DEF ListsRight
    <2>. QED
      BY <2>2, <2>3, <2>4 DEF LoadingInv
  <1>4. SentInv'
    <2>1. \A n \in DOMAIN sent : ConsistentReport(sent[n])'
      <3> SUFFICES ASSUME NEW n \in DOMAIN sent PROVE ConsistentReport(sent[n])'
        OBVIOUS
      <3>1. ConsistentReport(sent[n]) /\ sent[n] \in ReportType /\ sent' = sent
        BY DEF SentInv
      <3> DEFINE r == sent[n].lists
      <3>2. r.before \in Nat /\ r.before <= Len(spans)
        BY <3>1 DEF ConsistentReport, ReportType, ListsType
      <3>3. r.before <= Len(spans') /\ \A j \in 1..r.before : spans'[j].producer = spans[j].producer
        BY <3>2
      <3>4. Reporter!validate(sent[n])' = Reporter!validate(sent[n])
        BY <3>1 DEF Reporter!validate
      <3>. QED
        BY <3>1, <3>3, <3>4 DEF ConsistentReport
    <2>. QED
      BY <1>1, <2>1 DEF SentInv
  <1>. QED
    BY <1>2, <1>3, <1>4

\* ConsumeTraces keeps the invariant.
LEMMA ReporterConsumeStep ==
  ASSUME ReporterInv, NEW p \in ServiceNames, NEW w \in Reporter!Whats,
         Reporter!ConsumeTraces(p, w)
  PROVE  ReporterInv'
  <1> DEFINE s == [producer |-> p, what |-> w, stage |-> "waiting"]
  <1>0. ReporterTypes /\ CountersInv /\ ListsInv /\ PhaseInv
    BY DEF ReporterInv
  <1>1. /\ receiving /\ spans' = Append(spans, s) /\ tracker' = Reporter!ObserveScope(p)
        /\ UNCHANGED <<count, receiving, reporter, stop, sent>>
    BY DEF Reporter!ConsumeTraces
  <1>2. s \in SpanType /\ s.stage = "waiting" /\ s.producer = p
    BY DEF SpanType, SpanStages
  <1> HIDE DEF s
  <1>3. /\ spans' \in Seq(SpanType) /\ Len(spans') = Len(spans) + 1
        /\ DOMAIN spans' = DOMAIN spans \cup {Len(spans) + 1}
        /\ \A j \in DOMAIN spans : spans'[j] = spans[j]
        /\ spans'[Len(spans) + 1] = s
        /\ \A A, K : "waiting" \notin A => ComeOf(spans', A, K) = ComeOf(spans, A, K)
    BY <1>0, <1>1, <1>2, SpanComes
  <1>4. /\ Come(Arrived, SpanKinds)' = Come(Arrived, SpanKinds)
        /\ Come(Analyzed, AnalyzedKinds)' = Come(Analyzed, AnalyzedKinds)
        /\ Come(Done, {"invalid"})' = Come(Done, {"invalid"})
        /\ Come(Done, {"error"})' = Come(Done, {"error"})
        /\ Come(Observed, AnalyzedKinds)' = Come(Observed, AnalyzedKinds)
        /\ Come(Observed, {"http"})' = Come(Observed, {"http"})
        /\ Come(Observed, {"model"})' = Come(Observed, {"model"})
        /\ Come(Done, AnalyzedKinds)' = Come(Done, AnalyzedKinds)
    <2>1. "waiting" \notin Arrived /\ "waiting" \notin Analyzed /\ "waiting" \notin Done /\ "waiting" \notin Observed
      BY DEF Arrived, Analyzed, Done, Observed
    <2>. QED
      BY <1>3, <2>1 DEF Come
  <1>5. /\ tracker' = [tracker EXCEPT !.producers = tracker'.producers,
                                      !.producersTruncated = tracker'.producersTruncated]
        /\ \/ /\ p \in tracker.producers \/ Cardinality(tracker.producers) < ProducerRoom
              /\ tracker'.producers = tracker.producers \cup {p}
              /\ tracker'.producersTruncated = tracker.producersTruncated
           \/ tracker'.producers = tracker.producers /\ tracker'.producersTruncated = TRUE
    BY <1>0, <1>1, SameCardinality DEF Reporter!ObserveScope, ReporterTypes
  <1>6. /\ tracker'.producers \in SUBSET ServiceNames /\ tracker'.producersTruncated \in BOOLEAN
    BY <1>0, <1>5 DEF ReporterTypes
  <1>7. /\ tracker'.fidelity = tracker.fidelity /\ tracker'.models = tracker.models
        /\ tracker'.modelsTruncated = tracker.modelsTruncated
        /\ tracker'.operations = tracker.operations /\ tracker'.saturated = tracker.saturated
        /\ tracker'.targetSpans = tracker.targetSpans /\ tracker'.learned = tracker.learned
        /\ tracker'.notLearned = tracker.notLearned
        /\ tracker'.observeErrors = tracker.observeErrors
    BY <1>0, <1>5 DEF ReporterTypes
  <1>8. ReporterTypes'
    <2>1. tracker' \in [producers : SUBSET ServiceNames, producersTruncated : BOOLEAN,
                    fidelity : Nat, models : SUBSET ServiceModels, modelsTruncated : BOOLEAN,
                    operations : SUBSET ServiceOperations, saturated : BOOLEAN,
                    targetSpans : Nat, learned : Nat, notLearned : Nat, observeErrors : Nat]
      BY <1>0, <1>5, <1>6 DEF ReporterTypes
    <2>. QED
      BY <1>0, <1>1, <1>3, <2>1 DEF ReporterTypes
  <1>9. CountersInv'
    <2>1. KindsRight'
      BY <1>0, <1>2, <1>3 DEF CountersInv, KindsRight
    <2>. QED
      BY <1>0, <1>1, <1>4, <1>7, <2>1 DEF CountersInv
  <1>10. ListsInv'
    <2>1. IsFiniteSet(tracker'.producers) /\ Cardinality(tracker'.producers) <= ProducerRoom
      <3>1. ProducerRoom \in Nat /\ IsFiniteSet(tracker.producers)
            /\ Cardinality(tracker.producers) \in Nat /\ Cardinality(tracker.producers) <= ProducerRoom
        BY <1>0, ReporterAssumption, FS_CardinalityType DEF Reporter!BoundsAssumption, ListsInv
      <3>2. /\ IsFiniteSet(tracker.producers \cup {p})
            /\ Cardinality(tracker.producers \cup {p}) =
                 IF p \in tracker.producers THEN Cardinality(tracker.producers)
                 ELSE Cardinality(tracker.producers) + 1
        BY <3>1, FS_AddElement
      <3>3. \/ /\ p \in tracker.producers \/ Cardinality(tracker.producers) < ProducerRoom
               /\ tracker'.producers = tracker.producers \cup {p}
            \/ tracker'.producers = tracker.producers
        BY <1>5
      <3>4. (p \in tracker.producers \/ Cardinality(tracker.producers) < ProducerRoom) =>
              Cardinality(tracker.producers \cup {p}) <= ProducerRoom
        BY <3>1, <3>2
      <3>5. CASE tracker'.producers = tracker.producers
        BY <3>1, <3>5
      <3>6. CASE /\ tracker'.producers = tracker.producers \cup {p}
                 /\ Cardinality(tracker.producers \cup {p}) <= ProducerRoom
        BY <3>2, <3>6
      <3>. QED
        BY <3>3, <3>4, <3>5, <3>6
    <2>2. tracker'.producersTruncated \/ \A i \in DOMAIN spans' : spans'[i].producer \in tracker'.producers
      BY <1>0, <1>2, <1>3, <1>5 DEF ListsInv
    <2>3. tracker'.modelsTruncated \/
            tracker'.models = {spans'[i].what.model : i \in Come(Observed, {"model"})'}
      BY <1>0, <1>3, <1>4, <1>7 DEF ListsInv, Come, ComeOf
    <2>4. tracker'.saturated \/
            tracker'.operations = {spans'[i].what.operation : i \in Come(Observed, {"http"})'}
      BY <1>0, <1>3, <1>4, <1>7 DEF ListsInv, Come, ComeOf
    <2>. QED
      BY <1>0, <1>7, <2>1, <2>2, <2>3, <2>4 DEF ListsInv
  <1>11. PhaseInv' /\ (reporter.phase \in {"loading", "final"} => LoadingInv)' /\ SentInv'
    <2>1. stop = "no"
      BY <1>0, <1>1 DEF PhaseInv, ReporterTypes
    <2>2. Len(spans) \in Nat /\ DOMAIN spans = 1..Len(spans)
      BY <1>0 DEF ReporterTypes
    <2>3. \A c \in Reporter!Counters : count'[c] \in Nat /\ count[c] <= count'[c]
      BY <1>0, <1>1 DEF ReporterTypes
    <2>. QED
      BY <1>1, <1>3, <2>1, <2>2, <2>3, SpansLeaveReports
  <1>. QED
    BY <1>8, <1>9, <1>10, <1>11 DEF ReporterInv

\* A span whose move is counted in one counter of the processor.
LEMMA BumpStep ==
  ASSUME ReporterInv, NEW i \in DOMAIN spans, NEW c \in Reporter!Counters, NEW st \in SpanStages,
         Moves(i, st), st # "observed",
         st = "done" => spans[i].what.kind \in {"invalid", "error"},
         c = IF st = "processed" THEN "processed"
             ELSE IF st = "analyzed" THEN "analyzed"
             ELSE IF spans[i].what.kind = "invalid" THEN "invalid" ELSE "analyzeErrors",
         Reporter!Bump(i, c, st)
  PROVE  ReporterInv'
  <1>0. ReporterTypes /\ CountersInv /\ ListsInv /\ PhaseInv
    BY DEF ReporterInv
  <1>1. /\ spans' = [spans EXCEPT ![i].stage = st] /\ count' = [count EXCEPT ![c] = @ + 1]
        /\ UNCHANGED <<tracker, receiving, reporter, stop, sent>>
    BY DEF Reporter!Bump
  <1>2. /\ spans' \in Seq(SpanType) /\ Len(spans') = Len(spans)
        /\ DOMAIN spans' = DOMAIN spans
        /\ \A j \in DOMAIN spans : /\ spans'[j].what = spans[j].what
                                   /\ spans'[j].producer = spans[j].producer
                                   /\ j # i => spans'[j] = spans[j]
        /\ spans'[i].stage = st
    BY <1>0, <1>1, SpanKeeps
  <1>3. /\ Cardinality(Come(Arrived, SpanKinds)') = Plus(Come(Arrived, SpanKinds), st = "processed")
        /\ Cardinality(Come(Analyzed, AnalyzedKinds)') = Plus(Come(Analyzed, AnalyzedKinds), st = "analyzed")
        /\ Cardinality(Come(Done, {"invalid"})') =
              Plus(Come(Done, {"invalid"}), st = "done" /\ spans[i].what.kind = "invalid")
        /\ Cardinality(Come(Done, {"error"})') =
              Plus(Come(Done, {"error"}), st = "done" /\ spans[i].what.kind = "error")
        /\ Cardinality(Come(Observed, AnalyzedKinds)') = Plus(Come(Observed, AnalyzedKinds), st = "observed")
        /\ Cardinality(Come(Observed, {"http"})') =
              Plus(Come(Observed, {"http"}), st = "observed" /\ spans[i].what.kind = "http")
        /\ Cardinality(Come(Done, AnalyzedKinds)') =
              Plus(Come(Done, AnalyzedKinds), st = "done" /\ spans[i].what.kind \in AnalyzedKinds)
    BY <1>0, <1>1, CountsMove
  <1>4. /\ \A d \in Reporter!Counters : /\ count[d] \in Nat
                                        /\ count'[d] = IF d = c THEN count[d] + 1 ELSE count[d]
        /\ count' \in [Reporter!Counters -> Nat]
    BY <1>0, <1>1 DEF ReporterTypes
  <1>5. ReporterTypes'
    BY <1>0, <1>1, <1>2, <1>4 DEF ReporterTypes
  <1>6. CountersInv'
    <2>1. /\ st = "processed" \/ st = "analyzed" \/ st = "done"
          /\ st = "done" => spans[i].what.kind = "invalid" \/ spans[i].what.kind = "error"
      BY DEF Moves
    <2>2. /\ {"processed", "analyzed", "invalid", "analyzeErrors"} \subseteq Reporter!Counters
          /\ "invalid" \notin AnalyzedKinds /\ "error" \notin AnalyzedKinds
      BY DEF Reporter!Counters, AnalyzedKinds
    <2>7. KindsRight'
      <3>1. st \in {"observed", "analyzed"} => spans[i].what.kind \in AnalyzedKinds
        BY DEF Moves
      <3>2. KindsRight
        BY <1>0 DEF CountersInv
      <3>. QED
        BY <1>2, <3>1, <3>2 DEF KindsRight
    <2>3. CASE st = "processed"
      <3>1. c = "processed"
        BY <2>3
      <3>. QED
        BY <1>0, <1>1, <1>3, <1>4, <2>2, <2>3, <2>7, <3>1 DEF CountersInv, Plus
    <2>4. CASE st = "analyzed"
      <3>1. c = "analyzed"
        BY <2>4
      <3>. QED
        BY <1>0, <1>1, <1>3, <1>4, <2>2, <2>4, <2>7, <3>1 DEF CountersInv, Plus
    <2>5. CASE st = "done" /\ spans[i].what.kind = "invalid"
      <3>1. c = "invalid"
        BY <2>5
      <3>. QED
        BY <1>0, <1>1, <1>3, <1>4, <2>2, <2>5, <2>7, <3>1 DEF CountersInv, Plus
    <2>6. CASE st = "done" /\ spans[i].what.kind = "error"
      <3>1. c = "analyzeErrors"
        BY <2>6
      <3>. QED
        BY <1>0, <1>1, <1>3, <1>4, <2>2, <2>6, <2>7, <3>1 DEF CountersInv, Plus
    <2>. QED
      BY <2>1, <2>3, <2>4, <2>5, <2>6
  <1>7. ListsInv'
    <2>1. /\ Come(Observed, {"model"})' = Come(Observed, {"model"})
          /\ Come(Observed, {"http"})' = Come(Observed, {"http"})
      <3>1. /\ (spans[i].stage \in Observed <=> st \in Observed)
               \/ spans[i].what.kind \in {"invalid", "error"}
        BY DEF Moves, Observed
      <3>2. /\ \A j \in DOMAIN spans : spans[j].what.kind = spans'[j].what.kind
            /\ \A j \in DOMAIN spans : spans[j].what.kind \in {"model", "http"} =>
                  (spans[j].stage \in Observed <=> spans'[j].stage \in Observed)
        BY <1>2, <3>1
      <3>. QED
        BY <1>2, <3>2 DEF Come, ComeOf
    <2>2. \A j \in DOMAIN spans : spans'[j].what = spans[j].what /\ spans'[j].producer = spans[j].producer
      BY <1>2
    <2>3. Come(Observed, {"model"}) \subseteq DOMAIN spans /\ Come(Observed, {"http"}) \subseteq DOMAIN spans
      BY DEF Come, ComeOf
    <2>4. /\ {spans'[j].what.model : j \in Come(Observed, {"model"})'}
               = {spans[j].what.model : j \in Come(Observed, {"model"})}
          /\ {spans'[j].what.operation : j \in Come(Observed, {"http"})'}
               = {spans[j].what.operation : j \in Come(Observed, {"http"})}
      BY <2>1, <2>2, <2>3
    <2>. QED
      BY <1>0, <1>1, <1>2, <2>2, <2>4 DEF ListsInv
  <1>8. PhaseInv' /\ (reporter.phase \in {"loading", "final"} => LoadingInv)' /\ SentInv'
    <2>1. stop = "no"
      BY <1>0 DEF PhaseInv, Moves
    <2>2. Len(spans) \in Nat /\ DOMAIN spans = 1..Len(spans)
      BY <1>0 DEF ReporterTypes
    <2>3. \A d \in Reporter!Counters : count'[d] \in Nat /\ count[d] <= count'[d]
      BY <1>4
    <2>. QED
      BY <1>1, <1>2, <2>1, <2>2, <2>3, SpansLeaveReports
  <1>. QED
    BY <1>5, <1>6, <1>7, <1>8 DEF ReporterInv

\* The tracker hears of an evaluated span.
LEMMA ObserveEvaluatedStep ==
  ASSUME ReporterInv, NEW i \in DOMAIN spans, spans[i].stage = "processed",
         spans[i].what.kind \in AnalyzedKinds,
         Reporter!Track(i, Reporter!ObserveEvaluated(spans[i].what), "observed")
  PROVE  ReporterInv'
  <1> DEFINE w == spans[i].what
             list == tracker.models  ops == tracker.operations
  <1>0. ReporterTypes /\ CountersInv /\ ListsInv /\ PhaseInv
    BY DEF ReporterInv
  <1>1. /\ spans' = [spans EXCEPT ![i].stage = "observed"] /\ tracker' = Reporter!ObserveEvaluated(w)
        /\ UNCHANGED <<count, receiving, reporter, stop, sent>>
    BY DEF Reporter!Track
  <1>2. Moves(i, "observed") /\ "observed" \in SpanStages
    BY DEF Moves, SpanStages
  <1>3. /\ spans' \in Seq(SpanType) /\ Len(spans') = Len(spans)
        /\ DOMAIN spans' = DOMAIN spans
        /\ \A j \in DOMAIN spans : /\ spans'[j].what = spans[j].what
                                   /\ spans'[j].producer = spans[j].producer
                                   /\ j # i => spans'[j] = spans[j]
        /\ spans'[i].stage = "observed"
    BY <1>0, <1>1, <1>2, SpanKeeps
  <1>4. /\ Cardinality(Come(Arrived, SpanKinds)') = Cardinality(Come(Arrived, SpanKinds))
        /\ Cardinality(Come(Analyzed, AnalyzedKinds)') = Cardinality(Come(Analyzed, AnalyzedKinds))
        /\ Cardinality(Come(Done, {"invalid"})') = Cardinality(Come(Done, {"invalid"}))
        /\ Cardinality(Come(Done, {"error"})') = Cardinality(Come(Done, {"error"}))
        /\ Cardinality(Come(Observed, AnalyzedKinds)') = Cardinality(Come(Observed, AnalyzedKinds)) + 1
        /\ Cardinality(Come(Observed, {"http"})') = Plus(Come(Observed, {"http"}), w.kind = "http")
        /\ Cardinality(Come(Done, AnalyzedKinds)') = Cardinality(Come(Done, AnalyzedKinds))
    BY <1>0, <1>1, <1>2, CountsMove DEF Plus
  <1>5. /\ w.kind = "model" \/ w.kind = "http"
        /\ w.kind = "model" => w.model \in ServiceModels
        /\ w.kind = "http" => w.operation \in ServiceOperations
    <2>1. spans[i] \in SpanType
      BY <1>0 DEF ReporterTypes
    <2>2. w \in Reporter!Whats
      BY <2>1 DEF SpanType
    <2>. QED
      BY <2>2 DEF Reporter!Whats, AnalyzedKinds
  \* what the step does to the tracker's lists
  <1>6. /\ tracker'.producers = tracker.producers
        /\ tracker'.producersTruncated = tracker.producersTruncated
        /\ tracker'.fidelity = tracker.fidelity + 1
        /\ tracker'.learned = tracker.learned /\ tracker'.notLearned = tracker.notLearned
        /\ tracker'.observeErrors = tracker.observeErrors
        /\ DOMAIN tracker' = DOMAIN tracker
    BY <1>0, <1>1 DEF Reporter!ObserveEvaluated, ReporterTypes
  <1> DEFINE Right ==
        /\ ListsInv'
        /\ tracker'.models \in SUBSET ServiceModels /\ tracker'.modelsTruncated \in BOOLEAN
        /\ tracker'.operations \in SUBSET ServiceOperations /\ tracker'.saturated \in BOOLEAN
        /\ tracker'.targetSpans = Cardinality(Come(Observed, {"http"})')
        /\ tracker'.targetSpans \in Nat
  <1>7. ASSUME w.kind = "model" PROVE Right
    <2>1. /\ tracker'.operations = ops /\ tracker'.saturated = tracker.saturated
          /\ tracker'.targetSpans = tracker.targetSpans
          /\ \/ /\ w.model \in list \/ Cardinality(list) < ModelRoom
                /\ tracker'.models = list \cup {w.model}
                /\ tracker'.modelsTruncated = tracker.modelsTruncated
             \/ tracker'.models = list /\ tracker'.modelsTruncated = TRUE
      BY <1>0, <1>1, <1>7, SameCardinality DEF Reporter!ObserveEvaluated, ReporterTypes
    <2>2. IsFiniteSet(tracker'.models) /\ Cardinality(tracker'.models) <= ModelRoom
      <3>1. ModelRoom \in Nat /\ IsFiniteSet(list) /\ Cardinality(list) \in Nat /\ Cardinality(list) <= ModelRoom
        BY <1>0, ReporterAssumption, FS_CardinalityType DEF Reporter!BoundsAssumption, ListsInv
      <3>2. /\ IsFiniteSet(list \cup {w.model})
            /\ Cardinality(list \cup {w.model}) =
                 IF w.model \in list THEN Cardinality(list) ELSE Cardinality(list) + 1
        BY <3>1, FS_AddElement
      <3>4. (w.model \in list \/ Cardinality(list) < ModelRoom) =>
              Cardinality(list \cup {w.model}) <= ModelRoom
        BY <3>1, <3>2
      <3>5. CASE tracker'.models = list
        BY <3>1, <3>5
      <3>6. CASE tracker'.models = list \cup {w.model} /\ Cardinality(list \cup {w.model}) <= ModelRoom
        BY <3>2, <3>6
      <3>. QED
        BY <2>1, <3>4, <3>5, <3>6
    <2>3. Come(Observed, {"model"})' = Come(Observed, {"model"}) \cup {i}
      BY <1>3, <1>7 DEF Come, ComeOf, Observed
    <2>4. Come(Observed, {"http"})' = Come(Observed, {"http"})
      BY <1>3, <1>7 DEF Come, ComeOf, Observed
    <2>5. Come(Observed, {"model"}) \subseteq DOMAIN spans /\ Come(Observed, {"http"}) \subseteq DOMAIN spans
      BY DEF Come, ComeOf
    <2>6. \A j \in DOMAIN spans : spans'[j].what = spans[j].what
      BY <1>3
    <2>7. /\ {spans'[j].what.model : j \in Come(Observed, {"model"})'}
               = {spans[j].what.model : j \in Come(Observed, {"model"})} \cup {w.model}
          /\ {spans'[j].what.operation : j \in Come(Observed, {"http"})'}
               = {spans[j].what.operation : j \in Come(Observed, {"http"})}
      BY <2>3, <2>4, <2>5, <2>6
    <2>8. ListsInv'
      <3>1. tracker'.modelsTruncated \/
              tracker'.models = {spans'[j].what.model : j \in Come(Observed, {"model"})'}
        BY <1>0, <2>1, <2>7 DEF ListsInv
      <3>2. tracker'.saturated \/
              tracker'.operations = {spans'[j].what.operation : j \in Come(Observed, {"http"})'}
        BY <1>0, <2>1, <2>7 DEF ListsInv
      <3>3. tracker'.producersTruncated \/ \A j \in DOMAIN spans' : spans'[j].producer \in tracker'.producers
        BY <1>0, <1>3, <1>6 DEF ListsInv
      <3>. QED
        BY <1>0, <1>6, <2>1, <2>2, <3>1, <3>2, <3>3 DEF ListsInv
    <2>9. /\ tracker'.models \in SUBSET ServiceModels /\ tracker'.modelsTruncated \in BOOLEAN
          /\ tracker'.operations \in SUBSET ServiceOperations /\ tracker'.saturated \in BOOLEAN
          /\ tracker'.targetSpans = Cardinality(Come(Observed, {"http"})')
          /\ tracker'.targetSpans \in Nat
      <3>1. tracker'.targetSpans = Cardinality(Come(Observed, {"http"})')
        BY <1>0, <2>1, <2>4 DEF CountersInv
      <3>. QED
        BY <1>0, <1>5, <1>7, <2>1, <3>1 DEF ReporterTypes
    <2>. QED
      BY <2>8, <2>9
  <1>8. ASSUME w.kind = "http" PROVE Right
    <2>0. w.kind # "model"
      BY <1>8
    <2>1. /\ tracker'.models = list /\ tracker'.modelsTruncated = tracker.modelsTruncated
          /\ tracker'.targetSpans = tracker.targetSpans + 1
          /\ \/ /\ w.operation \in ops \/ Cardinality(ops) < OperationRoom
                /\ tracker'.operations = ops \cup {w.operation}
                /\ tracker'.saturated = tracker.saturated
             \/ tracker'.operations = ops /\ tracker'.saturated = TRUE
      BY <1>0, <1>1, <2>0, SameCardinality DEF Reporter!ObserveEvaluated, ReporterTypes
    <2>2. /\ IsFiniteSet(tracker'.operations) /\ Cardinality(tracker'.operations) <= OperationRoom
          /\ Cardinality(tracker'.operations) <= tracker'.targetSpans
      <3>1. /\ OperationRoom \in Nat /\ IsFiniteSet(ops) /\ Cardinality(ops) \in Nat
            /\ Cardinality(ops) <= OperationRoom
            /\ tracker.targetSpans \in Nat /\ Cardinality(ops) <= tracker.targetSpans
        BY <1>0, ReporterAssumption, FS_CardinalityType
           DEF Reporter!BoundsAssumption, ListsInv, ReporterTypes
      <3>2. /\ IsFiniteSet(ops \cup {w.operation})
            /\ Cardinality(ops \cup {w.operation}) =
                 IF w.operation \in ops THEN Cardinality(ops) ELSE Cardinality(ops) + 1
        BY <3>1, FS_AddElement
      <3>4. /\ (w.operation \in ops \/ Cardinality(ops) < OperationRoom) =>
                  Cardinality(ops \cup {w.operation}) <= OperationRoom
            /\ Cardinality(ops \cup {w.operation}) <= tracker.targetSpans + 1
            /\ Cardinality(ops) <= tracker.targetSpans + 1
        BY <3>1, <3>2
      <3>5. CASE tracker'.operations = ops
        BY <2>1, <3>1, <3>4, <3>5
      <3>6. CASE tracker'.operations = ops \cup {w.operation}
                 /\ Cardinality(ops \cup {w.operation}) <= OperationRoom
        BY <2>1, <3>2, <3>4, <3>6
      <3>. QED
        BY <2>1, <3>4, <3>5, <3>6
    <2>3. Come(Observed, {"http"})' = Come(Observed, {"http"}) \cup {i}
      BY <1>3, <1>8 DEF Come, ComeOf, Observed
    <2>4. Come(Observed, {"model"})' = Come(Observed, {"model"})
      BY <1>3, <2>0 DEF Come, ComeOf, Observed
    <2>5. Come(Observed, {"model"}) \subseteq DOMAIN spans /\ Come(Observed, {"http"}) \subseteq DOMAIN spans
      BY DEF Come, ComeOf
    <2>6. \A j \in DOMAIN spans : spans'[j].what = spans[j].what
      BY <1>3
    <2>7. /\ {spans'[j].what.operation : j \in Come(Observed, {"http"})'}
               = {spans[j].what.operation : j \in Come(Observed, {"http"})} \cup {w.operation}
          /\ {spans'[j].what.model : j \in Come(Observed, {"model"})'}
               = {spans[j].what.model : j \in Come(Observed, {"model"})}
      BY <2>3, <2>4, <2>5, <2>6
    <2>8. ListsInv'
      <3>1. tracker'.modelsTruncated \/
              tracker'.models = {spans'[j].what.model : j \in Come(Observed, {"model"})'}
        BY <1>0, <2>1, <2>7 DEF ListsInv
      <3>2. tracker'.saturated \/
              tracker'.operations = {spans'[j].what.operation : j \in Come(Observed, {"http"})'}
        BY <1>0, <2>1, <2>7 DEF ListsInv
      <3>3. tracker'.producersTruncated \/ \A j \in DOMAIN spans' : spans'[j].producer \in tracker'.producers
        BY <1>0, <1>3, <1>6 DEF ListsInv
      <3>. QED
        BY <1>0, <1>6, <2>1, <2>2, <3>1, <3>2, <3>3 DEF ListsInv
    <2>9. /\ tracker'.models \in SUBSET ServiceModels /\ tracker'.modelsTruncated \in BOOLEAN
          /\ tracker'.operations \in SUBSET ServiceOperations /\ tracker'.saturated \in BOOLEAN
          /\ tracker'.targetSpans = Cardinality(Come(Observed, {"http"})')
          /\ tracker'.targetSpans \in Nat
      <3>1. tracker'.targetSpans = Cardinality(Come(Observed, {"http"})')
        BY <1>0, <1>4, <1>8, <2>1 DEF CountersInv, Plus
      <3>2. tracker'.targetSpans \in Nat
        BY <1>0, <2>1 DEF ReporterTypes
      <3>. QED
        BY <1>0, <1>5, <1>8, <2>1, <3>1, <3>2 DEF ReporterTypes
    <2>. QED
      BY <2>8, <2>9
  <1>9. /\ ListsInv'
        /\ tracker'.models \in SUBSET ServiceModels /\ tracker'.modelsTruncated \in BOOLEAN
        /\ tracker'.operations \in SUBSET ServiceOperations /\ tracker'.saturated \in BOOLEAN
        /\ tracker'.targetSpans = Cardinality(Come(Observed, {"http"})')
        /\ tracker'.targetSpans \in Nat
    BY <1>5, <1>7, <1>8
  <1>10. ReporterTypes'
    <2>1. /\ DOMAIN tracker' = {"producers", "producersTruncated", "fidelity", "models",
               "modelsTruncated", "operations", "saturated", "targetSpans", "learned",
               "notLearned", "observeErrors"}
          /\ tracker' = [x \in DOMAIN tracker' |-> tracker'[x]]
      BY <1>0, <1>1, <1>6 DEF ReporterTypes, Reporter!ObserveEvaluated
    <2>2. /\ tracker'.producers \in SUBSET ServiceNames /\ tracker'.producersTruncated \in BOOLEAN
          /\ tracker'.fidelity \in Nat /\ tracker'.learned \in Nat /\ tracker'.notLearned \in Nat
          /\ tracker'.observeErrors \in Nat
      BY <1>0, <1>6 DEF ReporterTypes
    <2>3. tracker' \in [producers : SUBSET ServiceNames, producersTruncated : BOOLEAN,
                    fidelity : Nat, models : SUBSET ServiceModels, modelsTruncated : BOOLEAN,
                    operations : SUBSET ServiceOperations, saturated : BOOLEAN,
                    targetSpans : Nat, learned : Nat, notLearned : Nat, observeErrors : Nat]
      BY <1>9, <2>1, <2>2
    <2>. QED
      BY <1>0, <1>1, <1>3, <2>3 DEF ReporterTypes
  <1>11. CountersInv'
    <2>1. KindsRight'
      <3>1. KindsRight
        BY <1>0 DEF CountersInv
      <3>. QED
        BY <1>3, <3>1 DEF KindsRight
    <2>. QED
      BY <1>0, <1>1, <1>4, <1>6, <1>9, <2>1 DEF CountersInv
  <1>12. PhaseInv' /\ (reporter.phase \in {"loading", "final"} => LoadingInv)' /\ SentInv'
    <2>1. stop = "no"
      BY <1>0 DEF PhaseInv
    <2>2. Len(spans) \in Nat /\ DOMAIN spans = 1..Len(spans)
      BY <1>0 DEF ReporterTypes
    <2>3. \A d \in Reporter!Counters : count'[d] \in Nat /\ count[d] <= count'[d]
      BY <1>0, <1>1 DEF ReporterTypes
    <2>. QED
      BY <1>1, <1>3, <2>1, <2>2, <2>3, SpansLeaveReports
  <1>. QED
    BY <1>9, <1>10, <1>11, <1>12 DEF ReporterInv

\* What became of the learning is counted as the span is done.
LEMMA ObserveLearningStep ==
  ASSUME ReporterInv, NEW i \in DOMAIN spans, spans[i].stage = "analyzed",
         NEW outcome \in {"learned", "notLearned", "observeErrors"},
         Reporter!Track(i, [tracker EXCEPT ![outcome] = @ + 1], "done")
  PROVE  ReporterInv'
  <1>0. ReporterTypes /\ CountersInv /\ ListsInv /\ PhaseInv
    BY DEF ReporterInv
  <1>1. /\ spans' = [spans EXCEPT ![i].stage = "done"]
        /\ tracker' = [tracker EXCEPT ![outcome] = tracker[outcome] + 1]
        /\ UNCHANGED <<count, receiving, reporter, stop, sent>>
    BY DEF Reporter!Track
  <1>2. Moves(i, "done") /\ "done" \in SpanStages /\ spans[i].what.kind \in AnalyzedKinds
    BY <1>0 DEF Moves, SpanStages, CountersInv, KindsRight
  <1>3. /\ spans' \in Seq(SpanType) /\ Len(spans') = Len(spans)
        /\ DOMAIN spans' = DOMAIN spans
        /\ \A j \in DOMAIN spans : /\ spans'[j].what = spans[j].what
                                   /\ spans'[j].producer = spans[j].producer
                                   /\ j # i => spans'[j] = spans[j]
        /\ spans'[i].stage = "done"
    BY <1>0, <1>1, <1>2, SpanKeeps
  <1>4. /\ Cardinality(Come(Arrived, SpanKinds)') = Cardinality(Come(Arrived, SpanKinds))
        /\ Cardinality(Come(Analyzed, AnalyzedKinds)') = Cardinality(Come(Analyzed, AnalyzedKinds))
        /\ Cardinality(Come(Done, {"invalid"})') = Cardinality(Come(Done, {"invalid"}))
        /\ Cardinality(Come(Done, {"error"})') = Cardinality(Come(Done, {"error"}))
        /\ Cardinality(Come(Observed, AnalyzedKinds)') = Cardinality(Come(Observed, AnalyzedKinds))
        /\ Cardinality(Come(Observed, {"http"})') = Cardinality(Come(Observed, {"http"}))
        /\ Cardinality(Come(Done, AnalyzedKinds)') = Cardinality(Come(Done, AnalyzedKinds)) + 1
    <2>1. spans[i].what.kind # "invalid" /\ spans[i].what.kind # "error"
      BY <1>2 DEF AnalyzedKinds
    <2>. QED
      BY <1>0, <1>1, <1>2, <2>1, CountsMove DEF Plus
  <1>5. /\ tracker'.producers = tracker.producers
        /\ tracker'.producersTruncated = tracker.producersTruncated
        /\ tracker'.fidelity = tracker.fidelity /\ tracker'.models = tracker.models
        /\ tracker'.modelsTruncated = tracker.modelsTruncated
        /\ tracker'.operations = tracker.operations /\ tracker'.saturated = tracker.saturated
        /\ tracker'.targetSpans = tracker.targetSpans
    BY <1>0, <1>1 DEF ReporterTypes
  <1>6. /\ tracker'.learned + tracker'.notLearned + tracker'.observeErrors
             = tracker.learned + tracker.notLearned + tracker.observeErrors + 1
        /\ tracker'.learned \in Nat /\ tracker'.notLearned \in Nat /\ tracker'.observeErrors \in Nat
    <2>1. tracker.learned \in Nat /\ tracker.notLearned \in Nat /\ tracker.observeErrors \in Nat
      BY <1>0 DEF ReporterTypes
    <2>2. /\ {"learned", "notLearned", "observeErrors"} \subseteq DOMAIN tracker
      BY <1>0 DEF ReporterTypes
    <2>3. \A x \in DOMAIN tracker : tracker'[x] = IF x = outcome THEN tracker[x] + 1 ELSE tracker[x]
      BY <1>1
    <2>4. /\ tracker'.learned = IF outcome = "learned" THEN tracker.learned + 1 ELSE tracker.learned
          /\ tracker'.notLearned = IF outcome = "notLearned" THEN tracker.notLearned + 1 ELSE tracker.notLearned
          /\ tracker'.observeErrors = IF outcome = "observeErrors" THEN tracker.observeErrors + 1 ELSE tracker.observeErrors
      BY <2>2, <2>3
    <2>. QED
      BY <2>1, <2>4
  <1>7. ReporterTypes'
    <2>1. tracker' \in [producers : SUBSET ServiceNames, producersTruncated : BOOLEAN,
                    fidelity : Nat, models : SUBSET ServiceModels, modelsTruncated : BOOLEAN,
                    operations : SUBSET ServiceOperations, saturated : BOOLEAN,
                    targetSpans : Nat, learned : Nat, notLearned : Nat, observeErrors : Nat]
      <3>1. /\ DOMAIN tracker' = {"producers", "producersTruncated", "fidelity", "models",
                 "modelsTruncated", "operations", "saturated", "targetSpans", "learned",
                 "notLearned", "observeErrors"}
            /\ tracker' = [x \in DOMAIN tracker' |-> tracker'[x]]
        BY <1>0, <1>1 DEF ReporterTypes
      <3>. QED
        BY <1>0, <1>5, <1>6, <3>1 DEF ReporterTypes
    <2>. QED
      BY <1>0, <1>1, <1>3, <2>1 DEF ReporterTypes
  <1>8. CountersInv'
    <2>1. KindsRight'
      <3>1. KindsRight
        BY <1>0 DEF CountersInv
      <3>. QED
        BY <1>3, <3>1 DEF KindsRight
    <2>. QED
      BY <1>0, <1>1, <1>4, <1>5, <1>6, <2>1 DEF CountersInv
  <1>9. ListsInv'
    <2>1. /\ Come(Observed, {"model"})' = Come(Observed, {"model"})
          /\ Come(Observed, {"http"})' = Come(Observed, {"http"})
      BY <1>3 DEF Come, ComeOf, Observed
    <2>2. \A j \in DOMAIN spans : spans'[j].what = spans[j].what /\ spans'[j].producer = spans[j].producer
      BY <1>3
    <2>3. Come(Observed, {"model"}) \subseteq DOMAIN spans /\ Come(Observed, {"http"}) \subseteq DOMAIN spans
      BY DEF Come, ComeOf
    <2>4. /\ {spans'[j].what.model : j \in Come(Observed, {"model"})'}
               = {spans[j].what.model : j \in Come(Observed, {"model"})}
          /\ {spans'[j].what.operation : j \in Come(Observed, {"http"})'}
               = {spans[j].what.operation : j \in Come(Observed, {"http"})}
      BY <2>1, <2>2, <2>3
    <2>. QED
      BY <1>0, <1>3, <1>5, <2>2, <2>4 DEF ListsInv
  <1>10. PhaseInv' /\ (reporter.phase \in {"loading", "final"} => LoadingInv)' /\ SentInv'
    <2>1. stop = "no"
      BY <1>0 DEF PhaseInv
    <2>2. Len(spans) \in Nat /\ DOMAIN spans = 1..Len(spans)
      BY <1>0 DEF ReporterTypes
    <2>3. \A d \in Reporter!Counters : count'[d] \in Nat /\ count[d] <= count'[d]
      BY <1>0, <1>1 DEF ReporterTypes
    <2>. QED
      BY <1>1, <1>3, <2>1, <2>2, <2>3, SpansLeaveReports
  <1>. QED
    BY <1>7, <1>8, <1>9, <1>10 DEF ReporterInv

\* The names a report has been loaded with.
LEMMA NamesInOrder ==
  /\ Len(Reporter!statusSnapshot) = 7
  /\ LoadedNames(0) = {}
  /\ LoadedNames(7) = {"tracker", "analyzed", "invalid", "analyzeErrors", "processed",
                       "fidelity", "learning"}
  /\ \A n \in 1..7 :
       LET what == Reporter!statusSnapshot[n] IN
       /\ LoadedNames(n) = LoadedNames(n - 1) \cup {what}
       /\ what \notin LoadedNames(n - 1)
       /\ what \in {"tracker", "analyzed", "invalid", "analyzeErrors", "processed",
                    "fidelity", "learning"}
       /\ what \in {"processed", "fidelity"} => "analyzed" \in LoadedNames(n - 1)
       /\ what = "processed" => {"invalid", "analyzeErrors"} \subseteq LoadedNames(n - 1)
       /\ "processed" \in LoadedNames(n - 1) => {"analyzed", "invalid", "analyzeErrors"} \subseteq LoadedNames(n - 1)
       /\ "fidelity" \in LoadedNames(n - 1) => "analyzed" \in LoadedNames(n - 1)
  <1> DEFINE S == Reporter!statusSnapshot
  <1>1. /\ Len(S) = 7 /\ S[1] = "tracker" /\ S[2] = "analyzed" /\ S[3] = "invalid"
        /\ S[4] = "analyzeErrors" /\ S[5] = "processed" /\ S[6] = "fidelity" /\ S[7] = "learning"
    BY DEF Reporter!statusSnapshot
  <1> HIDE DEF S
  <1>2. /\ LoadedNames(0) = {}
        /\ \A n \in 1..7 : LoadedNames(n) = LoadedNames(n - 1) \cup {S[n]}
    <2>1. \A n \in 1..7 : 1..n = (1..(n - 1)) \cup {n}
      OBVIOUS
    <2>. QED
      BY <2>1 DEF LoadedNames, S
  <1>3. /\ LoadedNames(1) = {"tracker"} /\ LoadedNames(2) = {"tracker", "analyzed"}
        /\ LoadedNames(3) = {"tracker", "analyzed", "invalid"}
        /\ LoadedNames(4) = {"tracker", "analyzed", "invalid", "analyzeErrors"}
    BY <1>1, <1>2
  <1>4. /\ LoadedNames(5) = {"tracker", "analyzed", "invalid", "analyzeErrors", "processed"}
        /\ LoadedNames(6) = {"tracker", "analyzed", "invalid", "analyzeErrors", "processed", "fidelity"}
        /\ LoadedNames(7) = {"tracker", "analyzed", "invalid", "analyzeErrors", "processed",
                             "fidelity", "learning"}
    BY <1>1, <1>2, <1>3
  <1>5. ASSUME NEW n \in 1..7 PROVE
          /\ S[n] \notin LoadedNames(n - 1)
          /\ S[n] \in {"tracker", "analyzed", "invalid", "analyzeErrors", "processed",
                       "fidelity", "learning"}
          /\ S[n] \in {"processed", "fidelity"} => "analyzed" \in LoadedNames(n - 1)
          /\ S[n] = "processed" => {"invalid", "analyzeErrors"} \subseteq LoadedNames(n - 1)
          /\ "processed" \in LoadedNames(n - 1) => {"analyzed", "invalid", "analyzeErrors"} \subseteq LoadedNames(n - 1)
          /\ "fidelity" \in LoadedNames(n - 1) => "analyzed" \in LoadedNames(n - 1)
    <2>1. n = 1 \/ n = 2 \/ n = 3 \/ n = 4 \/ n = 5 \/ n = 6 \/ n = 7
      OBVIOUS
    <2>2. CASE n = 1 \/ n = 2 \/ n = 3 \/ n = 4
      BY <1>1, <1>2, <1>3, <2>2
    <2>3. CASE n = 5 \/ n = 6 \/ n = 7
      BY <1>1, <1>3, <1>4, <2>3
    <2>. QED
      BY <2>1, <2>2, <2>3
  <1>. QED
    BY <1>1, <1>2, <1>4, <1>5 DEF S

\* A step of the reporter or of Stop that leaves spans and counts alone.
LEMMA CountsStay ==
  ASSUME ReporterInv, UNCHANGED <<spans, count, tracker>>, receiving' \in BOOLEAN,
         stop' \in {"no", "closing", "final", "returned"}
  PROVE  ReporterTypes' /\ CountersInv' /\ ListsInv'
  <1>1. ReporterTypes'
    BY DEF ReporterInv, ReporterTypes
  <1>2. \A A, K : ComeOf(spans', A, K) = ComeOf(spans, A, K)
    OBVIOUS
  <1>3. CountersInv'
    BY DEF ReporterInv, CountersInv, KindsRight, Come, ComeOf
  <1>4. ListsInv'
    BY DEF ReporterInv, ListsInv, Come, ComeOf
  <1>. QED
    BY <1>1, <1>3, <1>4

\* Reports stay right as long as the spans stay.
LEMMA SentStays ==
  ASSUME ReporterInv, UNCHANGED <<spans, sent>>,
         reporter'.phase \in {"finalPosting", "ended"} => reporter.phase \in {"finalPosting", "ended"}
  PROVE  SentInv'
  <1>1. \A r : ConsistentReport(r)' = ConsistentReport(r)
    BY DEF ConsistentReport, Reporter!validate
  <1>2. \A r : CompleteReport(r)' = CompleteReport(r)
    BY DEF CompleteReport, Come, ComeOf
  <1>. QED
    BY <1>1, <1>2 DEF ReporterInv, SentInv, ConsistentReport, CompleteReport, Reporter!validate, Come, ComeOf

\* A report begins with nothing loaded.
LEMMA BeginStep ==
  ASSUME ReporterInv, UNCHANGED <<spans, count, tracker, receiving, sent>>,
         NEW ph \in {"loading", "final"}, reporter' = [Reporter!Idle EXCEPT !.phase = ph],
         \/ ph = "loading" /\ stop = "no" /\ stop' = stop
         \/ ph = "final" /\ stop = "closing" /\ stop' = "final"
  PROVE  ReporterInv'
  <1>1. /\ DOMAIN reporter' = {"phase", "next", "loaded"}
        /\ reporter'.phase = ph /\ reporter'.next = 1 /\ DOMAIN reporter'.loaded = {}
    BY DEF Reporter!Idle
  <1>2. ReporterTypes' /\ CountersInv' /\ ListsInv'
    BY CountsStay DEF ReporterInv, ReporterTypes
  <1>3. SentInv'
    BY <1>1, SentStays
  <1>4. PhaseInv'
    BY <1>1 DEF ReporterInv, PhaseInv
  <1>5. LoadingInv'
    <2>1. LoadedNames(reporter'.next - 1) = {}
      BY <1>1, NamesInOrder
    <2>2. DOMAIN reporter'.loaded = {} /\ DOMAIN reporter'.loaded = LoadedNames(reporter'.next - 1)
      BY <1>1, <2>1
    <2>. QED
      BY <2>2 DEF LoadingInv
  <1>. QED
    BY <1>2, <1>3, <1>4, <1>5 DEF ReporterInv

\* Nothing is being loaded.
LEMMA RestStep ==
  ASSUME ReporterInv, UNCHANGED <<spans, count, tracker, sent>>,
         receiving' \in BOOLEAN, receiving' => receiving,
         stop' \in {"no", "closing", "final", "returned"},
         \/ stop' = stop
         \/ /\ stop = "no" /\ stop' = "closing" /\ ~receiving
            /\ \A i \in DOMAIN spans : spans[i].stage = "done"
         \/ stop \in {"final", "closing"} /\ stop' = "returned",
         \/ reporter' = reporter
         \/ /\ reporter.phase = "posting" /\ reporter' = [Reporter!Idle EXCEPT !.phase = "idle"]
         \/ /\ reporter.phase = "finalPosting" /\ reporter' = [Reporter!Idle EXCEPT !.phase = "ended"]
  PROVE  ReporterInv'
  <1>1. ReporterTypes' /\ CountersInv' /\ ListsInv'
    BY CountsStay
  <1>2. CASE reporter' = reporter
    <2>1. SentInv'
      BY <1>2, SentStays
    <2>2. PhaseInv'
      <3>1. \A what : Reporter!ValueOf(what)' = Reporter!ValueOf(what)
        BY DEF Reporter!ValueOf, Reporter!Lists
      <3>2. \A what \in DOMAIN reporter.loaded :
               reporter.phase = "final" => reporter'.loaded[what] = Reporter!ValueOf(what)'
        BY <1>2 DEF ReporterInv, PhaseInv, Reporter!ValueOf, Reporter!Lists
      <3>. QED
        BY <1>2, <3>2 DEF ReporterInv, PhaseInv, ReporterTypes
    <2>3. (reporter.phase \in {"loading", "final"} => LoadingInv)'
      BY <1>2 DEF ReporterInv, LoadingInv, ListsRight
    <2>. QED
      BY <1>1, <2>1, <2>2, <2>3 DEF ReporterInv
  <1>3. CASE /\ reporter.phase \in {"posting", "finalPosting"}
             /\ reporter' = [Reporter!Idle EXCEPT !.phase =
                               IF reporter.phase = "finalPosting" THEN "ended" ELSE "idle"]
    <2>1. /\ DOMAIN reporter' = {"phase", "next", "loaded"} /\ reporter'.next = 1
          /\ reporter'.phase = IF reporter.phase = "finalPosting" THEN "ended" ELSE "idle"
      BY <1>3 DEF Reporter!Idle
    <2>2. SentInv'
      BY <1>3, <2>1, SentStays
    <2>3. PhaseInv'
      BY <1>3, <2>1 DEF ReporterInv, PhaseInv, ReporterTypes
    <2>. QED
      BY <1>1, <2>1, <2>2, <2>3 DEF ReporterInv
  <1>. QED
    BY <1>2, <1>3

\* One more part of a report is loaded.
LEMMA LoadStep ==
  ASSUME ReporterInv, Reporter!Load
  PROVE  ReporterInv'
  <1> DEFINE what == Reporter!statusSnapshot[reporter.next]
             l == reporter.loaded  m == reporter'.loaded
  <1>0. ReporterTypes /\ CountersInv /\ ListsInv /\ PhaseInv /\ LoadingInv
    BY DEF ReporterInv, Reporter!Load
  <1>1. /\ reporter.phase \in {"loading", "final"} /\ reporter.next \in 1..7
        /\ UNCHANGED <<spans, count, tracker, receiving, stop, sent>>
        /\ reporter' = [reporter EXCEPT !.next = reporter.next + 1,
              !.loaded = [w \in DOMAIN l \cup {what} |-> IF w = what THEN Reporter!ValueOf(what) ELSE l[w]]]
    BY <1>0, NamesInOrder DEF Reporter!Load, PhaseInv
  <1>2. /\ DOMAIN reporter' = {"phase", "next", "loaded"}
        /\ reporter'.phase = reporter.phase /\ reporter'.next = reporter.next + 1
        /\ m = [w \in DOMAIN l \cup {what} |-> IF w = what THEN Reporter!ValueOf(what) ELSE l[w]]
    BY <1>0, <1>1 DEF PhaseInv
  <1> HIDE DEF what, l, m
  <1>3. /\ DOMAIN l = LoadedNames(reporter.next - 1)
        /\ DOMAIN m = LoadedNames(reporter.next) /\ DOMAIN m = DOMAIN l \cup {what}
        /\ what \notin DOMAIN l
        /\ m[what] = Reporter!ValueOf(what) /\ \A w \in DOMAIN l : m[w] = l[w]
    BY <1>0, <1>1, <1>2, NamesInOrder DEF LoadingInv, l, what
  <1>4. ReporterTypes' /\ CountersInv' /\ ListsInv'
    BY <1>0, <1>1, CountsStay DEF ReporterTypes
  <1>5. SentInv'
    BY <1>1, <1>2, SentStays
  <1>6. PhaseInv'
    <2>1. reporter.phase = "final" => \A w \in DOMAIN m : m[w] = Reporter!ValueOf(w)
      BY <1>0, <1>3 DEF PhaseInv, l
    <2>2. reporter'.phase = "final" => \A w \in DOMAIN m : m[w] = Reporter!ValueOf(w)'
      BY <1>1, <1>2, <2>1 DEF Reporter!ValueOf, Reporter!Lists
    <2>. QED
      BY <1>0, <1>1, <1>2, <2>2 DEF PhaseInv, m
  <1>7. LoadingInv'
    <2>0. /\ what \in {"tracker", "analyzed", "invalid", "analyzeErrors", "processed",
                       "fidelity", "learning"}
          /\ what \in {"processed", "fidelity"} => "analyzed" \in DOMAIN l
          /\ what = "processed" => {"invalid", "analyzeErrors"} \subseteq DOMAIN l
          /\ "processed" \in DOMAIN l => {"analyzed", "invalid", "analyzeErrors"} \subseteq DOMAIN l
          /\ "fidelity" \in DOMAIN l => "analyzed" \in DOMAIN l
      BY <1>1, <1>3, NamesInOrder DEF what
    <2>1. /\ "tracker" \in DOMAIN l => ListsRight(l["tracker"])
          /\ \A c \in Reporter!Counters : c \in DOMAIN l => l[c] \in Nat /\ l[c] <= count[c]
          /\ "processed" \in DOMAIN l => l["analyzed"] + l["invalid"] + l["analyzeErrors"] <= l["processed"]
          /\ "fidelity" \in DOMAIN l => l["fidelity"] \in Nat /\ l["analyzed"] <= l["fidelity"]
          /\ "learning" \in DOMAIN l => l["learning"] \in Nat
      BY <1>0 DEF LoadingInv, l
    <2>2. /\ "analyzed" \in Reporter!Counters /\ "invalid" \in Reporter!Counters
          /\ "analyzeErrors" \in Reporter!Counters /\ "processed" \in Reporter!Counters
          /\ \A c \in Reporter!Counters : count[c] \in Nat /\ c # "tracker" /\ c # "fidelity" /\ c # "learning"
      BY <1>0 DEF Reporter!Counters, ReporterTypes
    <2>3. "tracker" \in DOMAIN m => ListsRight(reporter.loaded["tracker"])'
      <3> SUFFICES ASSUME "tracker" \in DOMAIN m PROVE ListsRight(reporter.loaded["tracker"])'
        OBVIOUS
      <3>1. CASE what # "tracker"
        <4>1. m["tracker"] = l["tracker"] /\ ListsRight(l["tracker"])
          BY <1>3, <2>1, <3>1
        <4>. QED
          BY <1>1, <4>1 DEF ListsRight, m
      <3>2. CASE what = "tracker"
        <4>1. m["tracker"] = Reporter!Lists
          BY <1>3, <3>2 DEF Reporter!ValueOf
        <4>2. Cardinality(tracker.operations) \in Nat /\ Len(spans) \in Nat
          BY <1>0, FS_CardinalityType DEF ListsInv, ReporterTypes
        <4>3. Reporter!Lists \in ListsType
          BY <1>0, <4>2, SameCardinality DEF ReporterTypes, Reporter!Lists, ListsType
        <4>4. ListsRight(Reporter!Lists)
          <5>1. DOMAIN spans = 1..Len(spans)
            BY <1>0 DEF ReporterTypes
          <5>. QED
            BY <1>0, <4>2, <4>3, <5>1, SameCardinality DEF ListsInv, ListsRight, Reporter!Lists
        <4>. QED
          BY <1>1, <4>1, <4>4 DEF ListsRight, m
      <3>. QED
        BY <3>1, <3>2
    <2>4. \A c \in Reporter!Counters : c \in DOMAIN m => m[c] \in Nat /\ m[c] <= count[c]
      BY <1>3, <2>1, <2>2 DEF Reporter!ValueOf
    <2>5. "processed" \in DOMAIN m => m["analyzed"] + m["invalid"] + m["analyzeErrors"] <= m["processed"]
      <3>1. CASE what # "processed"
        BY <1>3, <2>0, <2>1, <3>1
      <3>2. CASE what = "processed"
        <4>1. /\ m["processed"] = count["processed"] /\ m["analyzed"] = l["analyzed"]
              /\ m["invalid"] = l["invalid"] /\ m["analyzeErrors"] = l["analyzeErrors"]
          BY <1>3, <2>0, <3>2 DEF Reporter!ValueOf
        <4>2. /\ l["analyzed"] \in Nat /\ l["analyzed"] <= count["analyzed"]
              /\ l["invalid"] \in Nat /\ l["invalid"] <= count["invalid"]
              /\ l["analyzeErrors"] \in Nat /\ l["analyzeErrors"] <= count["analyzeErrors"]
          BY <2>0, <2>1, <2>2, <3>2
        <4>3. count["analyzed"] + count["invalid"] + count["analyzeErrors"] <= count["processed"]
          BY <1>0, OutcomesFit
        <4>. QED
          BY <2>2, <4>1, <4>2, <4>3
      <3>. QED
        BY <3>1, <3>2
    <2>6. "fidelity" \in DOMAIN m => m["fidelity"] \in Nat /\ m["analyzed"] <= m["fidelity"]
      <3>1. CASE what # "fidelity"
        BY <1>3, <2>0, <2>1, <3>1
      <3>2. CASE what = "fidelity"
        <4>1. m["fidelity"] = tracker.fidelity /\ m["analyzed"] = l["analyzed"]
          BY <1>3, <2>0, <3>2 DEF Reporter!ValueOf
        <4>2. l["analyzed"] \in Nat /\ l["analyzed"] <= count["analyzed"]
          BY <2>0, <2>1, <2>2, <3>2
        <4>3. count["analyzed"] <= tracker.fidelity /\ tracker.fidelity \in Nat
          BY <1>0, OutcomesFit DEF ReporterTypes
        <4>. QED
          BY <2>2, <4>1, <4>2, <4>3
      <3>. QED
        BY <3>1, <3>2
    <2>7. "learning" \in DOMAIN m => m["learning"] \in Nat
      <3>1. tracker.learned + tracker.notLearned + tracker.observeErrors \in Nat
        BY <1>0 DEF ReporterTypes
      <3>. QED
        BY <1>3, <2>1, <3>1 DEF Reporter!ValueOf
    <2>8. DOMAIN m = LoadedNames(reporter'.next - 1)
      <3>1. reporter'.next - 1 = reporter.next
        BY <1>1, <1>2
      <3>. QED
        BY <1>3, <3>1
    <2>. QED
      BY <1>1, <2>3, <2>4, <2>5, <2>6, <2>7, <2>8 DEF LoadingInv, m
  <1>. QED
    BY <1>4, <1>5, <1>6, <1>7 DEF ReporterInv

\* What is posted is consistent, and complete when it is the last.
LEMMA PostStep ==
  ASSUME ReporterInv, Reporter!post
  PROVE  ReporterInv'
  <1> DEFINE l == reporter.loaded  t == l["tracker"]  f == Reporter!fitReport(t)
             r == Reporter!Report
  <1>0. ReporterTypes /\ CountersInv /\ ListsInv /\ PhaseInv /\ LoadingInv /\ SentInv
    BY DEF ReporterInv, Reporter!post
  <1>1. /\ reporter.phase \in {"loading", "final"} /\ reporter.next = 8
        /\ UNCHANGED <<spans, count, tracker, receiving, stop>>
        /\ sent' = Append(sent, r)
        /\ reporter' = [Reporter!Idle EXCEPT !.phase =
                          IF reporter.phase = "final" THEN "finalPosting" ELSE "posting"]
    BY <1>0, NamesInOrder DEF Reporter!post, PhaseInv
  <1>2. /\ DOMAIN reporter' = {"phase", "next", "loaded"} /\ reporter'.next = 1
        /\ reporter'.phase = IF reporter.phase = "final" THEN "finalPosting" ELSE "posting"
    BY <1>1 DEF Reporter!Idle
  <1>3. ReporterTypes' /\ CountersInv' /\ ListsInv'
    BY <1>0, <1>1, CountsStay DEF ReporterTypes
  <1>4. PhaseInv'
    BY <1>0, <1>1, <1>2 DEF PhaseInv
  <1>5. DOMAIN l = {"tracker", "analyzed", "invalid", "analyzeErrors", "processed",
                    "fidelity", "learning"}
    <2>1. reporter.next - 1 = 7
      BY <1>1
    <2>. QED
      BY <1>0, <2>1, NamesInOrder DEF LoadingInv
  <1>6. /\ ListsRight(t)
        /\ \A c \in Reporter!Counters : l[c] \in Nat
        /\ l["analyzed"] + l["invalid"] + l["analyzeErrors"] <= l["processed"]
        /\ l["fidelity"] \in Nat /\ l["analyzed"] <= l["fidelity"] /\ l["learning"] \in Nat
    BY <1>0, <1>5 DEF LoadingInv, Reporter!Counters
  <1>7. /\ l["analyzed"] \in Nat /\ l["invalid"] \in Nat /\ l["analyzeErrors"] \in Nat
        /\ l["processed"] \in Nat
    BY <1>6 DEF Reporter!Counters
  <1>8. r = [lists |-> f, received |-> l["processed"], evaluated |-> l["analyzed"],
             invalid |-> l["invalid"], analyzeErrors |-> l["analyzeErrors"],
             fidelity |-> l["fidelity"], learning |-> l["learning"]]
    BY DEF Reporter!Report, Reporter!Loaded
  <1> HIDE DEF l, t, f, r
  <1>9. /\ t \in ListsType /\ IsFiniteSet(t.producers) /\ IsFiniteSet(t.models)
    BY <1>6 DEF ListsRight
  <1>10. /\ f \in ListsType /\ f.producers \subseteq t.producers /\ f.models \subseteq t.models
         /\ Cardinality(f.producers) \in Nat /\ Cardinality(f.producers) <= Cardinality(t.producers)
         /\ Cardinality(f.models) \in Nat /\ Cardinality(f.models) <= Cardinality(t.models)
         /\ f.operations = t.operations /\ f.saturated = t.saturated
         /\ f.targetSpans = t.targetSpans /\ f.before = t.before
         /\ f.producersTruncated \/ (f.producers = t.producers /\ ~t.producersTruncated)
         /\ f.modelsTruncated \/ (f.models = t.models /\ ~t.modelsTruncated)
    BY <1>9, FitKeeps DEF f
  <1>11. /\ r \in ReportType /\ r.lists = f /\ r.received = l["processed"]
         /\ r.evaluated = l["analyzed"] /\ r.invalid = l["invalid"]
         /\ r.analyzeErrors = l["analyzeErrors"] /\ r.fidelity = l["fidelity"]
         /\ r.learning = l["learning"]
    BY <1>6, <1>7, <1>8, <1>10 DEF ReportType
  <1>12. ConsistentReport(r)
    <2>1. /\ Cardinality(f.producers) <= ProducerRoom /\ Cardinality(f.models) <= ModelRoom
      <3>1. /\ Cardinality(t.producers) \in Nat /\ Cardinality(t.models) \in Nat
            /\ ProducerRoom \in Nat /\ ModelRoom \in Nat
        BY <1>9, FS_CardinalityType, ReporterAssumption DEF Reporter!BoundsAssumption
      <3>2. Cardinality(t.producers) <= ProducerRoom /\ Cardinality(t.models) <= ModelRoom
        BY <1>6 DEF ListsRight
      <3>. QED
        BY <1>10, <3>1, <3>2
    <2>2. f.operations <= OperationRoom /\ f.operations <= f.targetSpans /\ f.before <= Len(spans)
      BY <1>6, <1>10 DEF ListsRight
    <2>3. f.producersTruncated \/ \A i \in 1..f.before : spans[i].producer \in f.producers
      BY <1>6, <1>10 DEF ListsRight
    <2>4. r.evaluated + r.invalid + r.analyzeErrors <= r.received /\ r.evaluated <= r.fidelity
      BY <1>6, <1>11
    <2>5. r.evaluated <= r.received /\ r.invalid <= r.received /\ r.analyzeErrors <= r.received
      BY <1>6, <1>7, <1>11
    <2>6. Reporter!validate(r)
      BY <1>11, <2>1, <2>2, <2>5, SameCardinality DEF Reporter!validate
    <2>. QED
      BY <1>11, <2>2, <2>3, <2>4, <2>6 DEF ConsistentReport
  <1>13. ASSUME reporter.phase = "final" PROVE CompleteReport(r)
    <2>1. \A w \in DOMAIN l : l[w] = Reporter!ValueOf(w)
      BY <1>0, <1>13 DEF PhaseInv, l
    <2>2. /\ l["processed"] = count["processed"] /\ l["analyzed"] = count["analyzed"]
          /\ l["fidelity"] = tracker.fidelity
          /\ l["learning"] = tracker.learned + tracker.notLearned + tracker.observeErrors
          /\ t = Reporter!Lists
      BY <1>5, <2>1 DEF Reporter!ValueOf, t
    <2>3. \A i \in DOMAIN spans : spans[i].stage = "done"
      BY <1>0, <1>13 DEF PhaseInv
    <2>4. \A i \in DOMAIN spans : spans[i].what.kind \in SpanKinds
      <3> SUFFICES ASSUME NEW i \in DOMAIN spans PROVE spans[i].what.kind \in SpanKinds
        OBVIOUS
      <3>1. spans[i] \in SpanType
        BY <1>0 DEF ReporterTypes
      <3>2. spans[i].what \in Reporter!Whats
        BY <3>1 DEF SpanType
      <3>. QED
        BY <3>2 DEF SpanKinds, Reporter!Whats
    <2>5. /\ Come(Arrived, SpanKinds) = DOMAIN spans
          /\ Come(Observed, AnalyzedKinds) = Come(Analyzed, AnalyzedKinds)
          /\ Come(Done, AnalyzedKinds) = Come(Analyzed, AnalyzedKinds)
      BY <2>3, <2>4 DEF Come, ComeOf, Arrived, Observed, Analyzed, Done
    <2>6. count["processed"] = Len(spans)
      <3>1. DOMAIN spans = 1..Len(spans) /\ Len(spans) \in Nat
        BY <1>0 DEF ReporterTypes
      <3>2. Cardinality(1..Len(spans)) = Len(spans)
        <4>1. \A n \in Nat : Cardinality(1..n) = IF 1 > n THEN 0 ELSE n - 1 + 1
          BY FS_Interval
        <4>2. \A n \in Nat : Cardinality(1..n) = n
          BY <4>1
        <4>. QED
          BY <3>1, <4>2
      <3>. QED
        BY <1>0, <2>5, <3>1, <3>2 DEF CountersInv
    <2>7. /\ l["analyzed"] = Cardinality(Come(Analyzed, AnalyzedKinds))
          /\ l["fidelity"] = l["analyzed"] /\ l["learning"] = l["analyzed"]
      BY <1>0, <2>2, <2>5 DEF CountersInv
    <2>8. /\ t.models = tracker.models /\ t.modelsTruncated = tracker.modelsTruncated
          /\ t.operations = Cardinality(tracker.operations) /\ t.saturated = tracker.saturated
      BY <2>2, SameCardinality DEF Reporter!Lists
    <2>9. f.modelsTruncated \/ f.models = {spans[i].what.model : i \in Come(Observed, {"model"})}
      BY <1>0, <1>10, <2>8 DEF ListsInv
    <2>10. f.saturated \/
             f.operations = Cardinality({spans[i].what.operation : i \in Come(Observed, {"http"})})
      BY <1>0, <1>10, <2>8 DEF ListsInv
    <2>. QED
      BY <1>11, <2>2, <2>6, <2>7, <2>9, <2>10 DEF CompleteReport
  <1>14. SentInv'
    <2>1. /\ sent' \in Seq(ReportType) /\ Len(sent') = Len(sent) + 1 /\ Len(sent) \in Nat
          /\ DOMAIN sent' = 1..(Len(sent) + 1) /\ DOMAIN sent = 1..Len(sent)
          /\ sent'[Len(sent) + 1] = r
          /\ \A n \in 1..Len(sent) : sent'[n] = sent[n]
      BY <1>0, <1>1, <1>11 DEF SentInv
    <2>2. \A n \in DOMAIN sent' : ConsistentReport(sent'[n])
      BY <1>0, <1>12, <2>1 DEF SentInv
    <2>3. reporter'.phase \in {"finalPosting", "ended"} => CompleteReport(sent'[Len(sent')])
      BY <1>1, <1>2, <1>13, <2>1
    <2>4. \A n \in DOMAIN sent' : ConsistentReport(sent[n])'
      BY <1>1, <2>2 DEF ConsistentReport, Reporter!validate
    <2>5. reporter'.phase \in {"finalPosting", "ended"} => CompleteReport(sent[Len(sent)])'
      BY <1>1, <2>3 DEF CompleteReport, Come, ComeOf
    <2>. QED
      BY <2>1, <2>4, <2>5 DEF SentInv
  <1>15. (reporter.phase \in {"loading", "final"} => LoadingInv)'
    BY <1>2
  <1>. QED
    BY <1>3, <1>4, <1>14, <1>15 DEF ReporterInv

\* Every step of a Collector that reports keeps the invariant.
LEMMA ReporterStep ==
  ASSUME ReporterInv, [Reporter!Next]_(Reporter!vars)
  PROVE  ReporterInv'
  <1>0. ReporterTypes /\ PhaseInv
    BY DEF ReporterInv
  <1>1. CASE UNCHANGED Reporter!vars
    BY <1>0, <1>1, RestStep DEF Reporter!vars, ReporterTypes
  <1>2. ASSUME NEW p \in ServiceNames, NEW w \in Reporter!Whats, Reporter!ConsumeTraces(p, w)
        PROVE  ReporterInv'
    BY <1>2, ReporterConsumeStep
  <1>3. ASSUME NEW i \in DOMAIN spans, Reporter!Arrive(i) PROVE ReporterInv'
    <2>1. /\ spans[i].stage = "waiting" /\ Reporter!Bump(i, "processed", "processed")
          /\ Moves(i, "processed") /\ "processed" \in SpanStages /\ "processed" \in Reporter!Counters
      BY <1>3 DEF Reporter!Arrive, Reporter!At, Moves, SpanStages, Reporter!Counters
    <2>. QED
      BY <2>1, BumpStep
  <1>4. ASSUME NEW i \in DOMAIN spans, Reporter!Fail(i) PROVE ReporterInv'
    <2>1. CASE spans[i].what.kind = "invalid" /\ Reporter!Bump(i, "invalid", "done")
      <3>1. Moves(i, "done") /\ "done" \in SpanStages /\ "invalid" \in Reporter!Counters
        BY <1>4, <2>1 DEF Reporter!Fail, Reporter!At, Moves, SpanStages, Reporter!Counters
      <3>. QED
        BY <2>1, <3>1, BumpStep
    <2>2. CASE spans[i].what.kind = "error" /\ Reporter!Bump(i, "analyzeErrors", "done")
      <3>1. Moves(i, "done") /\ "done" \in SpanStages /\ "analyzeErrors" \in Reporter!Counters
        BY <1>4, <2>2 DEF Reporter!Fail, Reporter!At, Moves, SpanStages, Reporter!Counters
      <3>. QED
        BY <2>2, <3>1, BumpStep
    <2>. QED
      BY <1>4, <2>1, <2>2 DEF Reporter!Fail
  <1>5. ASSUME NEW i \in DOMAIN spans, Reporter!Evaluate(i) PROVE ReporterInv'
    <2>1. CASE /\ Reporter!At(i, "processed") /\ spans[i].what.kind \in {"model", "http"}
               /\ Reporter!Track(i, Reporter!ObserveEvaluated(spans[i].what), "observed")
      BY <2>1, ObserveEvaluatedStep DEF Reporter!At, AnalyzedKinds
    <2>2. CASE Reporter!At(i, "observed") /\ Reporter!Bump(i, "analyzed", "analyzed")
      <3>1. spans[i].stage = "observed" /\ spans[i].what.kind \in AnalyzedKinds
        BY <2>2 DEF Reporter!At, ReporterInv, CountersInv, KindsRight
      <3>2. Moves(i, "analyzed") /\ "analyzed" \in SpanStages /\ "analyzed" \in Reporter!Counters
        BY <3>1 DEF Moves, SpanStages, Reporter!Counters
      <3>. QED
        BY <2>2, <3>2, BumpStep
    <2>. QED
      BY <1>5, <2>1, <2>2 DEF Reporter!Evaluate
  <1>6. ASSUME NEW i \in DOMAIN spans, Reporter!ObserveLearning(i) PROVE ReporterInv'
    BY <1>6, ObserveLearningStep DEF Reporter!ObserveLearning, Reporter!At
  <1>7. CASE Reporter!StopReceiving
    BY <1>0, <1>7, RestStep DEF Reporter!StopReceiving, ReporterTypes
  <1>8. CASE Reporter!Tick
    BY <1>0, <1>8, BeginStep DEF Reporter!Tick
  <1>9. CASE Reporter!Load
    BY <1>9, LoadStep
  <1>10. CASE Reporter!post
    BY <1>10, PostStep
  <1>11. CASE Reporter!PostReturns
    BY <1>0, <1>11, RestStep DEF Reporter!PostReturns, ReporterTypes
  <1>12. CASE Reporter!Stop
    BY <1>0, <1>12, RestStep DEF Reporter!Stop, ReporterTypes
  <1>13. CASE Reporter!FinalReport
    BY <1>0, <1>13, BeginStep DEF Reporter!FinalReport
  <1>14. CASE Reporter!Return
    BY <1>0, <1>14, RestStep DEF Reporter!Return, ReporterTypes
  <1>. QED
    BY <1>1, <1>2, <1>3, <1>4, <1>5, <1>6, <1>7, <1>8, <1>9, <1>10, <1>11, <1>12, <1>13, <1>14
       DEF Reporter!Next

\* A Collector starts with nothing counted.
LEMMA ReporterStarts ==
  ASSUME Reporter!Init
  PROVE  ReporterInv
  <1>1. /\ spans = << >> /\ count = [f \in Reporter!Counters |-> 0] /\ receiving = TRUE
        /\ reporter = Reporter!Idle /\ stop = "no" /\ sent = << >>
        /\ tracker = [producers |-> {}, producersTruncated |-> FALSE, fidelity |-> 0,
                  models |-> {}, modelsTruncated |-> FALSE,
                  operations |-> {}, saturated |-> FALSE, targetSpans |-> 0,
                  learned |-> 0, notLearned |-> 0, observeErrors |-> 0]
    BY DEF Reporter!Init
  <1>2. spans \in Seq(SpanType) /\ DOMAIN spans = {} /\ Len(spans) = 0
    BY <1>1
  <1>3. sent \in Seq(ReportType) /\ DOMAIN sent = {}
    BY <1>1
  <1>4. ReporterTypes
    BY <1>1, <1>2 DEF ReporterTypes
  <1>5. \A A, K : ComeOf(spans, A, K) = {}
    BY <1>2 DEF ComeOf
  <1>6. CountersInv
    <2>1. KindsRight
      BY <1>2 DEF KindsRight
    <2>2. \A A, K : Cardinality(ComeOf(spans, A, K)) = 0
      BY <1>5, FS_EmptySet
    <2>3. /\ count["processed"] = 0 /\ count["analyzed"] = 0 /\ count["invalid"] = 0
          /\ count["analyzeErrors"] = 0
      BY <1>1 DEF Reporter!Counters
    <2>4. /\ tracker.fidelity = 0 /\ tracker.targetSpans = 0 /\ tracker.learned = 0
          /\ tracker.notLearned = 0 /\ tracker.observeErrors = 0
      BY <1>1
    <2>. QED
      BY <2>1, <2>2, <2>3, <2>4 DEF CountersInv, Come
  <1>7. ListsInv
    <2>1. ProducerRoom \in Nat /\ ModelRoom \in Nat /\ OperationRoom \in Nat
      BY ReporterAssumption DEF Reporter!BoundsAssumption
    <2>2. Come(Observed, {"model"}) = {} /\ Come(Observed, {"http"}) = {}
      BY <1>5 DEF Come
    <2>3. /\ tracker.producers = {} /\ tracker.models = {} /\ tracker.operations = {}
          /\ tracker.targetSpans = 0
      BY <1>1
    <2>. QED
      BY <1>2, <2>1, <2>2, <2>3, FS_EmptySet DEF ListsInv
  <1>8. PhaseInv
    BY <1>1 DEF PhaseInv, Reporter!Idle
  <1>9. reporter.phase = "idle"
    BY <1>1 DEF Reporter!Idle
  <1>10. SentInv
    BY <1>3, <1>9 DEF SentInv
  <1>. QED
    BY <1>4, <1>6, <1>7, <1>8, <1>9, <1>10 DEF ReporterInv

\* The invariant says that reports are consistent and the last one is complete.
LEMMA ReporterSound ==
  ASSUME ReporterInv
  PROVE  Reporter!ReportsAreConsistent /\ Reporter!LastReportIsComplete
  <1>0. /\ spans \in Seq(SpanType) /\ DOMAIN spans = 1..Len(spans) /\ SentInv
    BY DEF ReporterInv, ReporterTypes
  <1>1. Reporter!ReportsAreConsistent
    <2> SUFFICES ASSUME NEW n \in DOMAIN sent
                 PROVE  LET r == sent[n] IN
                        /\ Reporter!validate(r) /\ r.evaluated + r.invalid + r.analyzeErrors <= r.received
                        /\ r.evaluated <= r.fidelity
                        /\ \/ r.lists.producersTruncated
                           \/ {s.producer : s \in Reporter!Taken(r)} \subseteq r.lists.producers
      BY DEF Reporter!ReportsAreConsistent
    <2>1. ConsistentReport(sent[n])
      BY <1>0 DEF SentInv
    <2>. QED
      BY <2>1 DEF ConsistentReport, Reporter!Taken
  <1>2. Reporter!LastReportIsComplete
    <2> SUFFICES ASSUME reporter.phase = "ended"
                 PROVE  Reporter!LastReportIsComplete
      BY DEF Reporter!LastReportIsComplete
    <2> DEFINE r == sent[Len(sent)]
    <2>1. CompleteReport(r) /\ Len(sent) > 0
      BY <1>0 DEF SentInv
    <2>2. sent # << >>
      BY <2>1
    <2>3. Reporter!Evaluated = Come(Analyzed, AnalyzedKinds)
      BY DEF Reporter!Evaluated, Come, ComeOf, Analyzed, AnalyzedKinds
    <2>4. \A i \in DOMAIN spans : spans[i].stage = "done"
      BY DEF ReporterInv, PhaseInv
    <2>5. /\ {j \in Reporter!Evaluated : spans[j].what.kind = "model"} = Come(Observed, {"model"})
          /\ {j \in Reporter!Evaluated : spans[j].what.kind = "http"} = Come(Observed, {"http"})
      BY <2>4 DEF Reporter!Evaluated, Come, ComeOf, Observed
    <2>6. /\ r.received = Len(spans) /\ r.evaluated = Cardinality(Reporter!Evaluated)
          /\ r.fidelity = r.evaluated /\ r.learning = r.evaluated
      BY <2>1, <2>3 DEF CompleteReport
    <2>7. r.lists.modelsTruncated \/
            r.lists.models = {spans[i].what.model : i \in {j \in Reporter!Evaluated : spans[j].what.kind = "model"}}
      BY <2>1, <2>5 DEF CompleteReport
    <2>8. r.lists.saturated \/ r.lists.operations =
            Cardinality({spans[i].what.operation :
                            i \in {j \in Reporter!Evaluated : spans[j].what.kind = "http"}})
      BY <2>1, <2>5 DEF CompleteReport
    <2> HIDE DEF r
    <2>. QED
      BY <2>2, <2>6, <2>7, <2>8, SameCardinality DEF Reporter!LastReportIsComplete, r
  <1>. QED
    BY <1>1, <1>2
-----------------------------------------------------------------------------
\* The engine: what a history says, as a function of the history, so that one
\* history can be compared with the next.

FirstOf(h) == {i \in DOMAIN h : \A j \in 1..(i - 1) : h[j].fp # h[i].fp}
EarlyOf(h, k) == {j \in FirstOf(h) : j <= k}
RoomOf(h) == {h[k].fp : k \in {k \in FirstOf(h) : Cardinality(EarlyOf(h, k)) <= maxFingerprints}}
AdmittedOf(h) == {i \in DOMAIN h : h[i].fp \in RoomOf(h)}
AheadOf(h) == {i \in DOMAIN h : \A j \in AdmittedOf(h) : j < i => h[j].at < h[i].at}
PlacesOf(h, i) == {j \in AdmittedOf(h) \cap AheadOf(h) : j < i}
GreatestOf(S) == CHOOSE j \in S : \A k \in S : k <= j
AfterOf(h, i) == IF PlacesOf(h, i) = {} THEN 0 ELSE GreatestOf(PlacesOf(h, i))
FpAt(h, i) == IF i = 0 THEN NoFingerprint ELSE h[i].fp
FollowersOf(h, p) == {i \in AheadOf(h) : FpAt(h, AfterOf(h, i)) = p}
FollowersOfBoth(h, g, p) == {i \in FollowersOf(h, p) : FpAt(h, AfterOf(h, AfterOf(h, i))) = g}
IndexesOf(h, f) == {i \in DOMAIN h : h[i].fp = f}
DelegatedBy(h, d) == {i \in DOMAIN h : h[i].vol.delegator = d}

\* The first behaviours seen are the ones that have room: all of them until the
\* table is full, and none more after that.
RoomOK(h) ==
    LET room == RoomOf(h)
    IN /\ IsFiniteSet(room) /\ IsFiniteSet(FirstOf(h))
       /\ room \subseteq {h[i].fp : i \in DOMAIN h}
       /\ \/ /\ Cardinality(room) = Cardinality(FirstOf(h))
             /\ Cardinality(room) <= maxFingerprints
             /\ \A i \in DOMAIN h : h[i].fp \in room
          \/ /\ Cardinality(room) = maxFingerprints
             /\ Cardinality(FirstOf(h)) > maxFingerprints

\* The actor's sequence ends with what the baseline calls last, the latest of
\* what was admitted, and its predecessor with what it calls previous.
TailOK(bl, h) ==
    LET t == AfterOf(h, Len(h) + 1)
    IN /\ t = 0 => AdmittedOf(h) = {} /\ bl.last = NoFingerprint /\ bl.previous = NoFingerprint
       /\ t # 0 => /\ t \in AdmittedOf(h) \cap AheadOf(h)
                   /\ bl.last = h[t].fp /\ bl.lastTime = h[t].at
                   /\ \A j \in AdmittedOf(h) : h[j].at <= h[t].at
                   /\ bl.previous = FpAt(h, AfterOf(h, t))

\* A bounded counter, and one that agrees with what happened.
Counter(c, bound) ==
    /\ IsFiniteSet(DOMAIN c) /\ c \in [DOMAIN c -> Nat] /\ Cardinality(DOMAIN c) <= bound
AgreesWith(c, k, events, bound) ==
    IF k \in DOMAIN c THEN c[k] = Cardinality(events)
    ELSE events = {} \/ Cardinality(DOMAIN c) = bound

StatsFields == {"count", "first", "last", "intervals", "latencies", "errors", "hours",
                "predecessors", "outgoing", "trigrams", "continuations"}

\* What is known of one behaviour is what the history says of it.
StatsOK(s, h, f) ==
    /\ DOMAIN s = StatsFields
    /\ s.count = Cardinality(IndexesOf(h, f))
    /\ s.last \in Nat /\ \A i \in IndexesOf(h, f) : h[i].at <= s.last
    /\ s.outgoing = Cardinality(FollowersOf(h, f))
    /\ Counter(s.predecessors, maxPredecessors)
    /\ Counter(s.continuations, maxTrigramPredecessors)
    /\ Counter(s.trigrams, maxTrigramPredecessors)
    /\ \A p \in Fingerprints :
         /\ AgreesWith(s.predecessors, p, IndexesOf(h, f) \cap FollowersOf(h, p), maxPredecessors)
         /\ AgreesWith(s.continuations, p, FollowersOfBoth(h, p, f), maxTrigramPredecessors)
    /\ \A p, g \in Fingerprints :
         AgreesWith(s.trigrams, <<g, p>>, IndexesOf(h, f) \cap FollowersOfBoth(h, g, p),
                    maxTrigramPredecessors)

BaselineFields == {"stats", "lastObserved", "last", "lastTime", "previous", "delegators"}

\* The baseline is what its history says.
EngineInv(bl, h) ==
    /\ h \in Seq(Engine!Events)
    /\ RoomOK(h) /\ TailOK(bl, h)
    /\ DOMAIN bl = BaselineFields
    /\ DOMAIN bl.stats = RoomOf(h)
    /\ \A f \in RoomOf(h) : StatsOK(bl.stats[f], h, f)
    /\ Counter(bl.delegators, maxDelegators)
    /\ \A v \in Volatiles :
         v.delegator # NoDelegator =>
            AgreesWith(bl.delegators, v.delegator, DelegatedBy(h, v.delegator), maxDelegators)

\* The engine counts as everyone does.
LEMMA EngineCardinality == \A S : Engine!Cardinality(S) = Cardinality(S)
  BY DEF Engine!Cardinality, Cardinality, Engine!IsFiniteSet, IsFiniteSet

\* A history with one more event.
LEMMA HistoryGrows ==
  ASSUME NEW h \in Seq(Engine!Events), NEW e \in Engine!Events
  PROVE  LET g == Append(h, e)
         IN /\ Len(h) \in Nat /\ DOMAIN h = 1..Len(h)
            /\ g \in Seq(Engine!Events) /\ Len(g) = Len(h) + 1 /\ DOMAIN g = 1..(Len(h) + 1)
            /\ g[Len(h) + 1] = e /\ \A i \in 1..Len(h) : g[i] = h[i]
            /\ DOMAIN g = DOMAIN h \cup {Len(h) + 1} /\ Len(h) + 1 \notin DOMAIN h
  OBVIOUS

\* Which behaviours have room after one more event.
LEMMA RoomGrows ==
  ASSUME NEW h \in Seq(Engine!Events), NEW e \in Engine!Events, RoomOK(h)
  PROVE  LET g == Append(h, e)
         IN /\ RoomOK(g)
            /\ RoomOf(g) = IF e.fp \in RoomOf(h) \/ Cardinality(RoomOf(h)) < maxFingerprints
                           THEN RoomOf(h) \cup {e.fp} ELSE RoomOf(h)
            /\ e.fp \notin RoomOf(h) /\ Cardinality(RoomOf(h)) < maxFingerprints
                 => \A i \in DOMAIN h : h[i].fp # e.fp
  <1> DEFINE g == Append(h, e)  n == Len(h)  m == n + 1  new == \A i \in DOMAIN h : h[i].fp # e.fp
  <1>1. /\ n \in Nat /\ DOMAIN h = 1..n /\ Len(g) = m /\ DOMAIN g = 1..m /\ g[m] = e
        /\ \A i \in 1..n : g[i] = h[i]
    BY HistoryGrows
  <1>m. maxFingerprints \in Nat
    BY EngineAssumption DEF Engine!EngineAssumption
  <1>f. IsFiniteSet(FirstOf(h)) /\ IsFiniteSet(RoomOf(h))
    BY DEF RoomOK
  <1>c. /\ Cardinality(FirstOf(h)) \in Nat /\ Cardinality(RoomOf(h)) \in Nat
    BY <1>f, FS_CardinalityType
  <1> HIDE DEF g, n
  <1>2. FirstOf(g) = IF new THEN FirstOf(h) \cup {m} ELSE FirstOf(h)
    <2>1. \A i \in 1..n : i \in FirstOf(g) <=> i \in FirstOf(h)
      <3>1. \A i \in 1..n : \A j \in 1..(i - 1) : j \in 1..n
        BY <1>1
      <3>. QED
        BY <1>1, <3>1 DEF FirstOf
    <2>2. m \in FirstOf(g) <=> new
      <3>1. 1..(m - 1) = DOMAIN h /\ m \in DOMAIN g
        BY <1>1
      <3>. QED
        BY <1>1, <3>1 DEF FirstOf
    <2>3. FirstOf(g) \subseteq 1..m /\ FirstOf(h) \subseteq 1..n
      BY <1>1 DEF FirstOf
    <2>4. \A i \in 1..m : i \in 1..n \/ i = m
      BY <1>1
    <2>5. m \notin 1..n
      BY <1>1
    <2>6. \A i : i \in FirstOf(g) <=> (i \in FirstOf(h) \/ (i = m /\ new))
      <3> HIDE DEF new, m
      <3>. QED
        BY <2>1, <2>2, <2>3, <2>4, <2>5
    <2>. QED
      BY <2>6
  <1>3. FirstOf(h) \subseteq 1..n
    BY <1>1 DEF FirstOf
  <1>4. \A k \in FirstOf(h) : EarlyOf(g, k) = EarlyOf(h, k)
    <2>1. \A k \in 1..n : ~(m <= k)
      BY <1>1
    <2>. QED
      BY <1>2, <1>3, <2>1 DEF EarlyOf
  <1>5. new => EarlyOf(g, m) = FirstOf(g)
    <2>1. \A k \in 1..n : k <= m
      BY <1>1
    <2>2. m <= m
      BY <1>1
    <2>. QED
      BY <1>2, <1>3, <2>1, <2>2 DEF EarlyOf
  <1>6. new => IsFiniteSet(FirstOf(g)) /\ Cardinality(FirstOf(g)) = Cardinality(FirstOf(h)) + 1
    <2>1. m \notin FirstOf(h)
      BY <1>1, <1>3
    <2>. QED
      BY <1>2, <1>f, <2>1, FS_AddElement
  <1>7. CASE ~new
    <2>1. FirstOf(g) = FirstOf(h)
      BY <1>2, <1>7
    <2>2. RoomOf(g) = RoomOf(h)
      <3>1. \A k \in FirstOf(h) : g[k] = h[k]
        BY <1>1, <1>3
      <3>. QED
        BY <1>4, <2>1, <3>1 DEF RoomOf
    <2>3. PICK i \in DOMAIN h : h[i].fp = e.fp
      BY <1>7
    <2>4. {h[j].fp : j \in DOMAIN h} \subseteq {g[j].fp : j \in DOMAIN g}
      BY <1>1
    <2>5. (\A j \in DOMAIN h : h[j].fp \in RoomOf(h)) => (\A j \in DOMAIN g : g[j].fp \in RoomOf(h))
      <3>1. \A j \in DOMAIN g : j \in DOMAIN h \/ j = m
        BY <1>1
      <3>. QED
        BY <1>1, <2>3, <3>1
    <2>6. RoomOK(g)
      BY <2>1, <2>2, <2>4, <2>5 DEF RoomOK
    <2>7. e.fp \in RoomOf(h) \/ Cardinality(RoomOf(h)) = maxFingerprints
      BY <2>3 DEF RoomOK
    <2>. QED
      BY <1>c, <1>m, <2>2, <2>6, <2>7 DEF g
  <1>8. CASE new
    <2>1. e.fp \notin RoomOf(h)
      BY <1>8 DEF RoomOK
    <2>2. RoomOf(g) = IF Cardinality(FirstOf(g)) <= maxFingerprints THEN RoomOf(h) \cup {e.fp} ELSE RoomOf(h)
      <3>1. \A k \in FirstOf(h) : g[k] = h[k]
        BY <1>1, <1>3
      <3>2. FirstOf(g) = FirstOf(h) \cup {m}
        BY <1>2, <1>8
      <3>3. RoomOf(h) \subseteq RoomOf(g)
        BY <1>4, <3>1, <3>2 DEF RoomOf
      <3>4. ASSUME Cardinality(FirstOf(g)) <= maxFingerprints PROVE e.fp \in RoomOf(g)
        BY <1>1, <1>5, <1>8, <3>2, <3>4 DEF RoomOf
      <3>5. ASSUME NEW x \in RoomOf(g) PROVE x \in RoomOf(h) \/ (x = e.fp /\ Cardinality(FirstOf(g)) <= maxFingerprints)
        <4>1. PICK k \in FirstOf(g) : x = g[k].fp /\ Cardinality(EarlyOf(g, k)) <= maxFingerprints
          BY <3>5 DEF RoomOf
        <4>2. CASE k = m
          BY <1>1, <1>5, <1>8, <4>1, <4>2
        <4>3. CASE k \in FirstOf(h)
          BY <1>4, <3>1, <4>1, <4>3 DEF RoomOf
        <4>. QED
          BY <3>2, <4>2, <4>3
      <3>. QED
        BY <3>3, <3>4, <3>5
    <2>3. Cardinality(RoomOf(h)) < maxFingerprints <=> Cardinality(FirstOf(g)) <= maxFingerprints
      BY <1>6, <1>8, <1>c, <1>m DEF RoomOK
    <2>4. RoomOf(g) \subseteq {g[j].fp : j \in DOMAIN g}
      <3>1. RoomOf(h) \subseteq {g[j].fp : j \in DOMAIN g}
        BY <1>1 DEF RoomOK
      <3>2. e.fp \in {g[j].fp : j \in DOMAIN g}
        BY <1>1
      <3>. QED
        BY <2>2, <3>1, <3>2
    <2>5. IsFiniteSet(RoomOf(h) \cup {e.fp}) /\ Cardinality(RoomOf(h) \cup {e.fp}) = Cardinality(RoomOf(h)) + 1
      BY <1>f, <2>1, FS_AddElement
    <2>6. RoomOK(g)
      <3>1. CASE Cardinality(RoomOf(h)) < maxFingerprints
        <4>1. /\ Cardinality(RoomOf(h)) = Cardinality(FirstOf(h))
              /\ \A j \in DOMAIN h : h[j].fp \in RoomOf(h)
          BY <1>c, <1>m, <3>1 DEF RoomOK
        <4>2. RoomOf(g) = RoomOf(h) \cup {e.fp}
          BY <2>2, <2>3, <3>1
        <4>3. \A j \in DOMAIN g : g[j].fp \in RoomOf(g)
          <5>1. \A j \in DOMAIN g : j \in DOMAIN h \/ j = m
            BY <1>1
          <5>. QED
            BY <1>1, <4>1, <4>2, <5>1
        <4>. QED
          BY <1>6, <1>8, <1>c, <1>m, <2>4, <2>5, <3>1, <4>1, <4>2, <4>3 DEF RoomOK
      <3>2. CASE ~(Cardinality(RoomOf(h)) < maxFingerprints)
        <4>1. RoomOf(g) = RoomOf(h)
          BY <2>2, <2>3, <3>2
        <4>2. Cardinality(RoomOf(h)) = maxFingerprints /\ Cardinality(FirstOf(g)) > maxFingerprints
          BY <1>6, <1>8, <1>c, <1>m, <2>3, <3>2 DEF RoomOK
        <4>. QED
          BY <1>6, <1>8, <1>f, <2>4, <4>1, <4>2 DEF RoomOK
      <3>. QED
        BY <3>1, <3>2
    <2>. QED
      BY <1>8, <2>1, <2>2, <2>3, <2>6 DEF g
  <1>. QED
    BY <1>7, <1>8

\* The place an observation has is the greatest before it, or there is none.
LEMMA AfterIs ==
  ASSUME NEW h \in Seq(Engine!Events), NEW i
  PROVE  /\ PlacesOf(h, i) = {} => AfterOf(h, i) = 0
         /\ PlacesOf(h, i) # {} =>
              /\ AfterOf(h, i) \in PlacesOf(h, i) /\ AfterOf(h, i) \in 1..Len(h)
              /\ \A k \in PlacesOf(h, i) : k <= AfterOf(h, i)
         /\ AfterOf(h, i) \in 0..Len(h)
  <1>1. Len(h) \in Nat /\ PlacesOf(h, i) \subseteq 1..Len(h)
    BY DEF PlacesOf, AdmittedOf
  <1>2. ASSUME PlacesOf(h, i) # {}
        PROVE  /\ GreatestOf(PlacesOf(h, i)) \in PlacesOf(h, i)
               /\ \A k \in PlacesOf(h, i) : k <= GreatestOf(PlacesOf(h, i))
    <2> DEFINE T == PlacesOf(h, i)
    <2>1. \E j \in T : \A k \in T : k <= j
      BY <1>1, <1>2, HasGreatest
    <2> HIDE DEF T
    <2>2. GreatestOf(T) \in T /\ \A k \in T : k <= GreatestOf(T)
      BY <2>1 DEF GreatestOf
    <2>. QED
      BY <2>2 DEF T
  <1>. QED
    BY <1>1, <1>2 DEF AfterOf

\* What was admitted, what was ahead and each one's place, after one more event.
LEMMA PlacesGrow ==
  ASSUME NEW h \in Seq(Engine!Events), NEW e \in Engine!Events, RoomOK(h)
  PROVE  LET g == Append(h, e)  m == Len(h) + 1
             fits == e.fp \in RoomOf(h) \/ Cardinality(RoomOf(h)) < maxFingerprints
             late == \E j \in AdmittedOf(h) : h[j].at >= e.at
         IN /\ AdmittedOf(g) = IF fits THEN AdmittedOf(h) \cup {m} ELSE AdmittedOf(h)
            /\ AheadOf(g) = IF late THEN AheadOf(h) ELSE AheadOf(h) \cup {m}
            /\ \A i \in 1..m : PlacesOf(g, i) = PlacesOf(h, i) /\ AfterOf(g, i) = AfterOf(h, i)
            /\ PlacesOf(g, m + 1) = IF fits /\ ~late THEN PlacesOf(h, m) \cup {m} ELSE PlacesOf(h, m)
            /\ AfterOf(g, m + 1) = IF fits /\ ~late THEN m ELSE AfterOf(h, m)
  <1> DEFINE g == Append(h, e)  n == Len(h)  m == n + 1
             fits == e.fp \in RoomOf(h) \/ Cardinality(RoomOf(h)) < maxFingerprints
             late == \E j \in AdmittedOf(h) : h[j].at >= e.at
  <1>1. /\ n \in Nat /\ DOMAIN h = 1..n /\ Len(g) = m /\ DOMAIN g = 1..m /\ g[m] = e
        /\ \A i \in 1..n : g[i] = h[i]
    BY HistoryGrows
  <1>g. g \in Seq(Engine!Events)
    BY HistoryGrows
  <1>r. /\ RoomOf(g) = IF fits THEN RoomOf(h) \cup {e.fp} ELSE RoomOf(h)
        /\ e.fp \notin RoomOf(h) /\ fits => \A i \in DOMAIN h : h[i].fp # e.fp
    BY RoomGrows
  <1>t. e.at \in Nat /\ \A i \in 1..n : h[i].at \in Nat
    <2>1. Engine!Events = [fp : Fingerprints, at : Times, vol : Volatiles] /\ Times \subseteq Nat
      BY EngineAssumption DEF Engine!Events, Engine!EngineAssumption
    <2>2. \A i \in 1..n : h[i] \in Engine!Events
      BY <1>1
    <2>. QED
      BY <2>1, <2>2
  <1>d. /\ m \in DOMAIN g /\ m \notin 1..n
        /\ \A i : i \in DOMAIN g <=> (i \in 1..n \/ i = m)
        /\ \A i \in 1..n : i < m /\ ~(m < i)
        /\ ~(m < m) /\ m \in Nat
    BY <1>1
  <1> HIDE DEF g, n, m
  <1>2. \A i : i \in AdmittedOf(g) <=> (i \in AdmittedOf(h) \/ (i = m /\ fits))
    <2>1. \A i \in 1..n : i \in AdmittedOf(g) <=> i \in AdmittedOf(h)
      <3> SUFFICES ASSUME NEW i \in 1..n PROVE g[i].fp \in RoomOf(g) <=> h[i].fp \in RoomOf(h)
        BY <1>1, <1>d DEF AdmittedOf
      <3>. QED
        BY <1>1, <1>r
    <2>2. m \in AdmittedOf(g) <=> fits
      BY <1>1, <1>d, <1>r DEF AdmittedOf
    <2>3. AdmittedOf(h) \subseteq 1..n /\ AdmittedOf(g) \subseteq DOMAIN g
      BY <1>1 DEF AdmittedOf
    <2> HIDE DEF fits
    <2>. QED
      BY <1>d, <2>1, <2>2, <2>3
  <1>a. AdmittedOf(h) \subseteq 1..n
    BY <1>1 DEF AdmittedOf
  <1>3. \A i : i \in AheadOf(g) <=> (i \in AheadOf(h) \/ (i = m /\ ~late))
    <2>1. \A i \in 1..n : i \in AheadOf(g) <=> i \in AheadOf(h)
      <3> HIDE DEF fits
      <3> SUFFICES ASSUME NEW i \in 1..n
                   PROVE  (\A j \in AdmittedOf(g) : j < i => g[j].at < g[i].at)
                            <=> (\A j \in AdmittedOf(h) : j < i => h[j].at < h[i].at)
        BY <1>1, <1>d DEF AheadOf
      <3>1. \A j \in AdmittedOf(h) : g[j] = h[j]
        BY <1>1, <1>a
      <3>2. g[i] = h[i] /\ ~(m < i)
        BY <1>1, <1>d
      <3>. QED
        BY <1>2, <3>1, <3>2
    <2>2. m \in AheadOf(g) <=> ~late
      <3>1. \A j \in AdmittedOf(h) : g[j] = h[j] /\ j < m /\ (h[j].at < e.at <=> ~(h[j].at >= e.at))
        BY <1>1, <1>a, <1>d, <1>t
      <3>2. m \in AheadOf(g) <=> \A j \in AdmittedOf(h) : h[j].at < e.at
        <4> HIDE DEF fits
        <4>1. m \in AheadOf(g) <=> \A j \in AdmittedOf(g) : j < m => g[j].at < g[m].at
          BY <1>d DEF AheadOf
        <4>. QED
          BY <1>1, <1>2, <1>d, <3>1, <4>1
      <3>. QED
        BY <3>1, <3>2
    <2>3. AheadOf(h) \subseteq 1..n /\ AheadOf(g) \subseteq DOMAIN g
      BY <1>1 DEF AheadOf
    <2> HIDE DEF late
    <2>. QED
      BY <1>d, <2>1, <2>2, <2>3
  <1> HIDE DEF late, fits
  <1>4. ASSUME NEW i \in 1..m PROVE PlacesOf(g, i) = PlacesOf(h, i) /\ AfterOf(g, i) = AfterOf(h, i)
    <2>1. ~(m < i)
      BY <1>1, <1>d DEF m
    <2>2. PlacesOf(g, i) = PlacesOf(h, i)
      BY <1>2, <1>3, <2>1 DEF PlacesOf
    <2>. QED
      BY <2>2 DEF AfterOf
  <1>5. \A i : i \in PlacesOf(g, m + 1) <=> (i \in PlacesOf(h, m) \/ (i = m /\ fits /\ ~late))
    <2>1. \A i \in 1..n : i < m + 1 /\ i < m
      BY <1>1, <1>d
    <2>2. m < m + 1 /\ m \notin AdmittedOf(h)
      BY <1>d, <1>a
    <2>3. AheadOf(h) \subseteq 1..n
      BY <1>1 DEF AheadOf
    <2>. QED
      BY <1>2, <1>3, <1>a, <1>d, <2>1, <2>2, <2>3 DEF PlacesOf
  <1>6. AfterOf(g, m + 1) = IF fits /\ ~late THEN m ELSE AfterOf(h, m)
    <2>1. CASE fits /\ ~late
      <3>1. m \in PlacesOf(g, m + 1)
        BY <1>5, <2>1
      <3>2. \A k \in PlacesOf(g, m + 1) : k \in 1..m
        BY <1>g, <1>1 DEF PlacesOf, AdmittedOf
      <3>3. AfterOf(g, m + 1) \in PlacesOf(g, m + 1) /\ m <= AfterOf(g, m + 1)
        BY <1>g, <3>1, AfterIs
      <3>4. AfterOf(g, m + 1) \in 1..m
        BY <3>2, <3>3
      <3>5. AfterOf(g, m + 1) = m
        BY <1>d, <3>3, <3>4
      <3>. QED
        BY <2>1, <3>5
    <2>2. CASE ~(fits /\ ~late)
      <3>1. PlacesOf(g, m + 1) = PlacesOf(h, m)
        BY <1>5, <2>2
      <3>2. AfterOf(g, m + 1) = AfterOf(h, m)
        BY <3>1 DEF AfterOf
      <3>. QED
        BY <2>2, <3>2
    <2>. QED
      BY <2>1, <2>2
  <1>7. PlacesOf(g, m + 1) = IF fits /\ ~late THEN PlacesOf(h, m) \cup {m} ELSE PlacesOf(h, m)
    BY <1>5
  <1>8. /\ AdmittedOf(g) = IF fits THEN AdmittedOf(h) \cup {m} ELSE AdmittedOf(h)
        /\ AheadOf(g) = IF late THEN AheadOf(h) ELSE AheadOf(h) \cup {m}
    BY <1>2, <1>3
  <1>. QED
    BY <1>4, <1>6, <1>7, <1>8 DEF g, m, n, fits, late

\* The events of a history.
LEMMA EventTypes ==
  ASSUME NEW h \in Seq(Engine!Events), NEW e \in Engine!Events
  PROVE  /\ e.fp \in Fingerprints /\ e.at \in Nat /\ e.vol \in Volatiles
         /\ \A i \in 1..Len(h) : h[i].fp \in Fingerprints /\ h[i].at \in Nat /\ h[i].vol \in Volatiles
         /\ NoFingerprint \notin Fingerprints
  <1>1. Engine!Events = [fp : Fingerprints, at : Times, vol : Volatiles] /\ Times \subseteq Nat
    BY EngineAssumption DEF Engine!Events, Engine!EngineAssumption
  <1>2. \A i \in 1..Len(h) : h[i] \in Engine!Events
    OBVIOUS
  <1>. QED
    BY <1>1, <1>2, EngineAssumption DEF Engine!EngineAssumption

\* How the end of the actor's sequence decides what an event is to the baseline.
LEMMA TailSays ==
  ASSUME NEW bl, NEW h, EngineInv(bl, h), NEW e \in Engine!Events
  PROVE  LET t == AfterOf(h, Len(h) + 1)
             late == \E j \in AdmittedOf(h) : h[j].at >= e.at
         IN /\ t \in 0..Len(h)
            /\ Engine!admit(bl, e) <=> (e.fp \in RoomOf(h) \/ Cardinality(RoomOf(h)) < maxFingerprints)
            /\ Engine!advances(bl, e) <=> ~late
            /\ Engine!validTransition(bl, e) <=> (t # 0 /\ ~late)
            /\ Engine!validTransition(bl, e) <=> (t # 0 /\ h[t].at < e.at)
            /\ t # 0 => bl.last = h[t].fp /\ bl.last \in Fingerprints /\ bl.last \in RoomOf(h)
            /\ bl.last = FpAt(h, t)
            /\ t # 0 => bl.previous = FpAt(h, AfterOf(h, t)) /\ AfterOf(h, t) \in 0..Len(h)
  <1> DEFINE n == Len(h)  t == AfterOf(h, n + 1)  late == \E j \in AdmittedOf(h) : h[j].at >= e.at
  <1>1. /\ h \in Seq(Engine!Events) /\ n \in Nat /\ DOMAIN h = 1..n /\ TailOK(bl, h)
        /\ DOMAIN bl.stats = RoomOf(h)
    BY DEF EngineInv
  <1>2. /\ e.at \in Nat /\ \A i \in 1..n : h[i].fp \in Fingerprints /\ h[i].at \in Nat
        /\ NoFingerprint \notin Fingerprints
    BY <1>1, EventTypes
  <1>3. t \in 0..n
    BY <1>1, AfterIs
  <1>4. Engine!admit(bl, e) <=> (e.fp \in RoomOf(h) \/ Cardinality(RoomOf(h)) < maxFingerprints)
    BY <1>1, EngineCardinality DEF Engine!admit
  <1>5. AdmittedOf(h) \subseteq 1..n /\ \A i \in AdmittedOf(h) : h[i].fp \in RoomOf(h)
    BY <1>1 DEF AdmittedOf
  <1>6. /\ t = 0 => AdmittedOf(h) = {} /\ bl.last = NoFingerprint
        /\ t # 0 => /\ t \in AdmittedOf(h) /\ bl.last = h[t].fp /\ bl.lastTime = h[t].at
                    /\ \A j \in AdmittedOf(h) : h[j].at <= h[t].at
                    /\ bl.previous = FpAt(h, AfterOf(h, t))
    BY <1>1 DEF TailOK
  <1>7. AfterOf(h, t) \in 0..n
    BY <1>1, AfterIs
  <1> HIDE DEF n, t
  <1>8. t # 0 => t \in 1..n /\ h[t].fp \in Fingerprints /\ h[t].at \in Nat
    BY <1>2, <1>5, <1>6
  <1>9. late <=> (t # 0 /\ h[t].at >= e.at)
    <2>1. ASSUME t # 0, NEW j \in AdmittedOf(h), h[j].at >= e.at PROVE h[t].at >= e.at
      <3>1. h[j].at \in Nat /\ h[j].at <= h[t].at
        BY <1>2, <1>5, <1>6, <2>1
      <3>. QED
        BY <1>2, <1>8, <2>1, <3>1
    <2>. QED
      BY <1>6, <2>1
  <1>10. bl.last = FpAt(h, t)
    BY <1>6 DEF FpAt
  <1>11. Engine!validTransition(bl, e) <=> (t # 0 /\ h[t].at < e.at)
    BY <1>2, <1>6, <1>8 DEF Engine!validTransition
  <1>12. Engine!advances(bl, e) <=> (t = 0 \/ h[t].at < e.at)
    BY <1>2, <1>6, <1>8 DEF Engine!advances
  <1>13. t # 0 => (h[t].at < e.at <=> ~(h[t].at >= e.at))
    BY <1>2, <1>8
  <1> HIDE DEF late
  <1>14. /\ Engine!advances(bl, e) <=> ~late
         /\ Engine!validTransition(bl, e) <=> (t # 0 /\ ~late)
    BY <1>9, <1>11, <1>12, <1>13
  <1>. QED
    BY <1>3, <1>4, <1>5, <1>6, <1>7, <1>8, <1>10, <1>11, <1>14 DEF n, t, late

\* What the baseline is after an event, but for the behaviours themselves.
LEMMA BaselineAfter ==
  ASSUME NEW bl, NEW e
  PROVE  LET nb == Engine!BaselineObserve(bl, e)
             moved == Engine!advances(bl, e) /\ Engine!admit(bl, e)
         IN /\ DOMAIN nb = BaselineFields
            /\ nb.last = IF moved THEN e.fp ELSE bl.last
            /\ nb.lastTime = IF moved THEN e.at ELSE bl.lastTime
            /\ nb.previous = IF moved THEN bl.last ELSE bl.previous
            /\ nb.delegators = Engine!recordDelegator(bl.delegators, e.vol.delegator)
  BY DEF Engine!BaselineObserve, BaselineFields

\* The end of the sequence moves with the baseline.
LEMMA TailStep ==
  ASSUME NEW bl, NEW h, EngineInv(bl, h), NEW e \in Engine!Events
  PROVE  TailOK(Engine!BaselineObserve(bl, e), Append(h, e))
  <1> DEFINE n == Len(h)  m == n + 1  g == Append(h, e)  nb == Engine!BaselineObserve(bl, e)
             t == AfterOf(h, m)
             fits == e.fp \in RoomOf(h) \/ Cardinality(RoomOf(h)) < maxFingerprints
             late == \E j \in AdmittedOf(h) : h[j].at >= e.at
  <1>1. h \in Seq(Engine!Events) /\ RoomOK(h) /\ TailOK(bl, h)
    BY DEF EngineInv
  <1>2. /\ n \in Nat /\ DOMAIN h = 1..n /\ Len(g) = m /\ DOMAIN g = 1..m /\ g[m] = e
        /\ \A i \in 1..n : g[i] = h[i]
    BY <1>1, HistoryGrows
  <1>3. /\ AdmittedOf(g) = IF fits THEN AdmittedOf(h) \cup {m} ELSE AdmittedOf(h)
        /\ AheadOf(g) = IF late THEN AheadOf(h) ELSE AheadOf(h) \cup {m}
        /\ \A i \in 1..m : AfterOf(g, i) = AfterOf(h, i)
        /\ AfterOf(g, m + 1) = IF fits /\ ~late THEN m ELSE AfterOf(h, m)
    BY <1>1, PlacesGrow
  <1>4. /\ t \in 0..n /\ (Engine!admit(bl, e) <=> fits) /\ (Engine!advances(bl, e) <=> ~late)
        /\ bl.last = FpAt(h, t)
        /\ t # 0 => AfterOf(h, t) \in 0..n /\ bl.previous = FpAt(h, AfterOf(h, t))
    BY TailSays
  <1>5. /\ nb.last = IF fits /\ ~late THEN e.fp ELSE bl.last
        /\ nb.lastTime = IF fits /\ ~late THEN e.at ELSE bl.lastTime
        /\ nb.previous = IF fits /\ ~late THEN bl.last ELSE bl.previous
    <2>1. (Engine!advances(bl, e) /\ Engine!admit(bl, e)) <=> (fits /\ ~late)
      BY <1>4
    <2>. QED
      BY <2>1, BaselineAfter
  <1>6. /\ e.at \in Nat /\ \A i \in 1..n : h[i].at \in Nat
    BY <1>1, EventTypes
  <1>7. /\ t = 0 => AdmittedOf(h) = {} /\ bl.last = NoFingerprint /\ bl.previous = NoFingerprint
        /\ t # 0 => /\ t \in AdmittedOf(h) \cap AheadOf(h)
                    /\ bl.last = h[t].fp /\ bl.lastTime = h[t].at
                    /\ \A j \in AdmittedOf(h) : h[j].at <= h[t].at
                    /\ bl.previous = FpAt(h, AfterOf(h, t))
    BY <1>1 DEF TailOK
  <1>8. AdmittedOf(h) \subseteq 1..n
    BY <1>2 DEF AdmittedOf
  <1>9. /\ \A i \in 0..n : FpAt(g, i) = FpAt(h, i)
    BY <1>2 DEF FpAt
  <1>10. m # 0 /\ m \in 1..m /\ m \in Nat /\ t \in 0..n
    BY <1>2, <1>4
  <1> HIDE DEF n, m, g, nb, t, fits
  <1>11. CASE fits /\ ~late
    <2>1. AfterOf(g, m + 1) = m
      BY <1>3, <1>11
    <2>2. m \in AdmittedOf(g) \cap AheadOf(g)
      BY <1>3, <1>11
    <2>3. \A j \in AdmittedOf(g) : g[j].at <= g[m].at
      <3>1. \A j \in AdmittedOf(h) : h[j].at < e.at
        BY <1>6, <1>8, <1>11
      <3>. QED
        BY <1>2, <1>3, <1>6, <1>8, <1>11, <3>1
    <2>4. nb.previous = FpAt(g, AfterOf(g, m))
      <3>1. AfterOf(g, m) = t
        BY <1>3, <1>10 DEF t
      <3>2. FpAt(g, t) = FpAt(h, t)
        BY <1>9, <1>10
      <3>. QED
        BY <1>4, <1>5, <1>11, <3>1, <3>2
    <2>5. nb.last = g[m].fp /\ nb.lastTime = g[m].at
      BY <1>2, <1>5, <1>11
    <2>6. AfterOf(g, Len(g) + 1) = m
      BY <1>2, <2>1
    <2>. QED
      BY <1>10, <2>2, <2>3, <2>4, <2>5, <2>6 DEF TailOK, g, nb
  <1>12. CASE ~(fits /\ ~late)
    <2>1. AfterOf(g, Len(g) + 1) = t
      BY <1>2, <1>3, <1>12 DEF t
    <2>2. nb.last = bl.last /\ nb.lastTime = bl.lastTime /\ nb.previous = bl.previous
      BY <1>5, <1>12
    <2>3. CASE t = 0
      <3>1. AdmittedOf(h) = {} /\ ~late
        BY <1>7, <2>3
      <3>2. AdmittedOf(g) = {}
        BY <1>3, <1>12, <3>1
      <3>. QED
        BY <1>7, <2>1, <2>2, <2>3, <3>2 DEF TailOK, g, nb
    <2>4. CASE t # 0
      <3>1. t \in 1..n /\ g[t] = h[t] /\ t \in AdmittedOf(g) \cap AheadOf(g)
        BY <1>2, <1>3, <1>7, <1>8, <2>4
      <3>2. \A j \in AdmittedOf(g) : g[j].at <= g[t].at
        <4>1. \A j \in AdmittedOf(h) : g[j].at <= g[t].at
          BY <1>2, <1>7, <1>8, <2>4, <3>1
        <4>2. ASSUME fits PROVE g[m].at <= g[t].at
          <5>1. PICK j \in AdmittedOf(h) : h[j].at >= e.at
            BY <1>12, <4>2
          <5>2. h[j].at \in Nat /\ h[t].at \in Nat /\ h[j].at <= h[t].at
            BY <1>6, <1>7, <1>8, <2>4, <3>1
          <5>. QED
            BY <1>2, <1>6, <3>1, <5>1, <5>2
        <4>. QED
          BY <1>3, <4>1, <4>2
      <3>3. nb.previous = FpAt(g, AfterOf(g, t))
        <4>1. t \in 1..m
          BY <1>2, <3>1 DEF m
        <4>2. AfterOf(g, t) = AfterOf(h, t) /\ AfterOf(h, t) \in 0..n
          BY <1>3, <1>4, <2>4, <4>1
        <4>3. FpAt(g, AfterOf(g, t)) = FpAt(h, AfterOf(h, t))
          BY <1>9, <4>2
        <4>. QED
          BY <1>7, <2>2, <2>4, <4>3
      <3>4. nb.last = g[t].fp /\ nb.lastTime = g[t].at
        BY <1>7, <2>2, <2>4, <3>1
      <3>. QED
        BY <2>1, <2>4, <3>1, <3>2, <3>3, <3>4 DEF TailOK, g, nb
    <2>. QED
      BY <2>3, <2>4
  <1>. QED
    BY <1>11, <1>12

\* A bounded counter that agreed with the events of a key agrees with them and
\* with one more of the key it counts.
LEMMA BumpAgrees ==
  ASSUME NEW c, NEW key, NEW bound \in Nat, Counter(c, bound)
  PROVE  LET d == Engine!Bump(c, key, bound)
         IN /\ Counter(d, bound)
            /\ \A E, x : IsFiniteSet(E) /\ x \notin E /\ AgreesWith(c, key, E, bound)
                 => AgreesWith(d, key, E \cup {x}, bound)
            /\ \A k, E : k # key /\ AgreesWith(c, k, E, bound) => AgreesWith(d, k, E, bound)
  <1> DEFINE d == Engine!Bump(c, key, bound)
  <1>1. /\ IsFiniteSet(DOMAIN c) /\ c \in [DOMAIN c -> Nat]
        /\ Cardinality(DOMAIN c) <= bound /\ Cardinality(DOMAIN c) \in Nat
    BY FS_CardinalityType DEF Counter
  <1>2. \A E, x : IsFiniteSet(E) /\ x \notin E =>
          IsFiniteSet(E \cup {x}) /\ Cardinality(E \cup {x}) = Cardinality(E) + 1 /\ Cardinality(E) \in Nat
    BY FS_AddElement, FS_CardinalityType
  <1>3. CASE key \in DOMAIN c
    <2>1. d = [c EXCEPT ![key] = @ + 1]
      BY <1>3 DEF Engine!Bump
    <2> HIDE DEF d
    <2>2. /\ DOMAIN d = DOMAIN c /\ d[key] = c[key] + 1 /\ d \in [DOMAIN d -> Nat]
          /\ \A k \in DOMAIN c : k # key => d[k] = c[k]
      BY <1>1, <1>3, <2>1
    <2>3. Counter(d, bound)
      BY <1>1, <2>2 DEF Counter
    <2>4. ASSUME NEW E, NEW x, IsFiniteSet(E), x \notin E, AgreesWith(c, key, E, bound)
          PROVE  AgreesWith(d, key, E \cup {x}, bound)
      BY <1>2, <1>3, <2>2, <2>4 DEF AgreesWith
    <2>5. ASSUME NEW k, NEW E, k # key, AgreesWith(c, k, E, bound) PROVE AgreesWith(d, k, E, bound)
      BY <2>2, <2>5 DEF AgreesWith
    <2>. QED
      BY <2>3, <2>4, <2>5 DEF d
  <1>4. CASE key \notin DOMAIN c /\ Cardinality(DOMAIN c) >= bound
    <2>1. d = c /\ Cardinality(DOMAIN c) = bound
      BY <1>1, <1>4, EngineCardinality DEF Engine!Bump
    <2> HIDE DEF d
    <2>. QED
      BY <1>4, <2>1 DEF AgreesWith, d
  <1>5. CASE key \notin DOMAIN c /\ ~(Cardinality(DOMAIN c) >= bound)
    <2>1. d = [k \in DOMAIN c \cup {key} |-> IF k = key THEN 1 ELSE c[k]]
      BY <1>5, EngineCardinality DEF Engine!Bump
    <2> HIDE DEF d
    <2>2. /\ DOMAIN d = DOMAIN c \cup {key} /\ d[key] = 1 /\ d \in [DOMAIN d -> Nat]
          /\ \A k \in DOMAIN c : d[k] = c[k]
      BY <1>1, <1>5, <2>1
    <2>3. Counter(d, bound)
      BY <1>1, <1>2, <1>5, <2>2 DEF Counter
    <2>4. ASSUME NEW E, NEW x, IsFiniteSet(E), x \notin E, AgreesWith(c, key, E, bound)
          PROVE  AgreesWith(d, key, E \cup {x}, bound)
      <3>1. E = {}
        BY <1>1, <1>5, <2>4 DEF AgreesWith
      <3>2. Cardinality(E \cup {x}) = 1
        BY <1>2, <2>4, <3>1, FS_EmptySet
      <3>. QED
        BY <2>2, <3>2 DEF AgreesWith
    <2>5. ASSUME NEW k, NEW E, k # key, AgreesWith(c, k, E, bound) PROVE AgreesWith(d, k, E, bound)
      <3>1. k \in DOMAIN d <=> k \in DOMAIN c
        BY <2>2, <2>5
      <3>2. k \notin DOMAIN c => E = {}
        BY <1>1, <1>5, <2>5 DEF AgreesWith
      <3>. QED
        BY <2>2, <2>5, <3>1, <3>2 DEF AgreesWith
    <2>. QED
      BY <2>3, <2>4, <2>5 DEF d
  <1>. QED
    BY <1>3, <1>4, <1>5

\* What an event is preceded by, as the baseline sees it.
Predecessor(bl, e) == IF Engine!validTransition(bl, e) THEN bl.last ELSE NoFingerprint
Grandparent(bl, e) == IF Engine!validTransition(bl, e) THEN bl.previous ELSE NoFingerprint

\* The events of a behaviour, a transition, a sequence of three and a
\* delegation, after one more event.
LEMMA EventsGrow ==
  ASSUME NEW bl, NEW h, EngineInv(bl, h), NEW e \in Engine!Events
  PROVE  LET g == Append(h, e)  m == Len(h) + 1
         IN /\ \A f : IndexesOf(g, f) = IF f = e.fp THEN IndexesOf(h, f) \cup {m} ELSE IndexesOf(h, f)
            /\ \A p \in Fingerprints : FollowersOf(g, p) =
                 IF p = Predecessor(bl, e) THEN FollowersOf(h, p) \cup {m} ELSE FollowersOf(h, p)
            /\ \A p, a \in Fingerprints : FollowersOfBoth(g, a, p) =
                 IF p = Predecessor(bl, e) /\ a = Grandparent(bl, e)
                 THEN FollowersOfBoth(h, a, p) \cup {m} ELSE FollowersOfBoth(h, a, p)
            /\ \A d : DelegatedBy(g, d) =
                 IF d = e.vol.delegator THEN DelegatedBy(h, d) \cup {m} ELSE DelegatedBy(h, d)
  <1> DEFINE n == Len(h)  m == n + 1  g == Append(h, e)  t == AfterOf(h, m)
             late == \E j \in AdmittedOf(h) : h[j].at >= e.at
  <1>1. h \in Seq(Engine!Events) /\ RoomOK(h)
    BY DEF EngineInv
  <1>2. /\ n \in Nat /\ DOMAIN h = 1..n /\ Len(g) = m /\ DOMAIN g = 1..m /\ g[m] = e
        /\ \A i \in 1..n : g[i] = h[i]
        /\ DOMAIN g = DOMAIN h \cup {m} /\ m \notin DOMAIN h
    BY <1>1, HistoryGrows
  <1>3. /\ AheadOf(g) = IF late THEN AheadOf(h) ELSE AheadOf(h) \cup {m}
        /\ \A i \in 1..m : AfterOf(g, i) = AfterOf(h, i)
    BY <1>1, PlacesGrow
  <1>4. /\ t \in 0..n
        /\ (Engine!validTransition(bl, e) <=> (t # 0 /\ ~late))
        /\ bl.last = FpAt(h, t)
        /\ t # 0 => bl.previous = FpAt(h, AfterOf(h, t)) /\ AfterOf(h, t) \in 0..n
    BY TailSays
  <1>5. AheadOf(h) \subseteq 1..n
    BY <1>2 DEF AheadOf
  <1>6. \A i \in 1..n : AfterOf(h, i) \in 0..n /\ AfterOf(g, i) = AfterOf(h, i)
    <2>1. \A i : AfterOf(h, i) \in 0..n
      BY <1>1, AfterIs
    <2>2. \A i \in 1..n : i \in 1..m
      BY <1>2
    <2>. QED
      BY <1>3, <2>1, <2>2
  <1>7. \A i \in 0..n : FpAt(g, i) = FpAt(h, i)
    BY <1>2 DEF FpAt
  <1>8. NoFingerprint \notin Fingerprints
    BY <1>1, EventTypes
  <1>9. AfterOf(g, m) = t
    <2>1. m \in 1..m
      BY <1>2
    <2>. QED
      BY <1>3, <2>1
  <1> HIDE DEF n, m, g, t, late
  <1>10. \A f : IndexesOf(g, f) = IF f = e.fp THEN IndexesOf(h, f) \cup {m} ELSE IndexesOf(h, f)
    BY <1>2 DEF IndexesOf
  <1>11. \A d : DelegatedBy(g, d) =
                 IF d = e.vol.delegator THEN DelegatedBy(h, d) \cup {m} ELSE DelegatedBy(h, d)
    BY <1>2 DEF DelegatedBy
  <1>12. ASSUME NEW p \in Fingerprints
         PROVE  \A i : i \in FollowersOf(g, p) <=>
                   (i \in FollowersOf(h, p) \/ (i = m /\ p = Predecessor(bl, e)))
    <2>1. \A i \in 1..n : i \in FollowersOf(g, p) <=> i \in FollowersOf(h, p)
      <3>1. \A i \in 1..n : i \in AheadOf(g) <=> i \in AheadOf(h)
        BY <1>2, <1>3
      <3>2. \A i \in 1..n : FpAt(g, AfterOf(g, i)) = FpAt(h, AfterOf(h, i))
        BY <1>6, <1>7
      <3>. QED
        BY <3>1, <3>2 DEF FollowersOf
    <2>2. m \in FollowersOf(g, p) <=> (~late /\ FpAt(h, t) = p)
      <3>1. m \in AheadOf(g) <=> ~late
        BY <1>2, <1>3, <1>5
      <3>2. FpAt(g, AfterOf(g, m)) = FpAt(h, t)
        BY <1>4, <1>7, <1>9
      <3>. QED
        BY <3>1, <3>2 DEF FollowersOf
    <2>3. (~late /\ FpAt(h, t) = p) <=> p = Predecessor(bl, e)
      <3>1. t = 0 => FpAt(h, t) # p
        BY <1>8 DEF FpAt
      <3>. QED
        BY <1>4, <1>8, <3>1 DEF Predecessor
    <2>4. FollowersOf(g, p) \subseteq DOMAIN g /\ FollowersOf(h, p) \subseteq 1..n
      BY <1>2, <1>5 DEF FollowersOf, AheadOf
    <2>. QED
      BY <1>2, <2>1, <2>2, <2>3, <2>4
  <1>13. ASSUME NEW p \in Fingerprints, NEW a \in Fingerprints
         PROVE  \A i : i \in FollowersOfBoth(g, a, p) <=>
                   (i \in FollowersOfBoth(h, a, p)
                      \/ (i = m /\ p = Predecessor(bl, e) /\ a = Grandparent(bl, e)))
    <2>1. \A i \in FollowersOf(h, p) :
             FpAt(g, AfterOf(g, AfterOf(g, i))) = FpAt(h, AfterOf(h, AfterOf(h, i)))
      <3> SUFFICES ASSUME NEW i \in FollowersOf(h, p)
                   PROVE  FpAt(g, AfterOf(g, AfterOf(g, i))) = FpAt(h, AfterOf(h, AfterOf(h, i)))
        OBVIOUS
      <3>1. i \in 1..n /\ FpAt(h, AfterOf(h, i)) = p
        BY <1>5 DEF FollowersOf
      <3>2. AfterOf(h, i) # 0
        BY <1>8, <3>1 DEF FpAt
      <3>3. AfterOf(h, i) \in 1..n /\ AfterOf(g, i) = AfterOf(h, i)
        BY <1>2, <1>6, <3>1, <3>2
      <3>4. AfterOf(g, AfterOf(h, i)) = AfterOf(h, AfterOf(h, i)) /\ AfterOf(h, AfterOf(h, i)) \in 0..n
        BY <1>6, <3>3
      <3>. QED
        BY <1>7, <3>3, <3>4
    <2>2. ASSUME p = Predecessor(bl, e)
          PROVE  FpAt(g, AfterOf(g, AfterOf(g, m))) = Grandparent(bl, e)
      <3>1. t # 0 /\ Engine!validTransition(bl, e)
        BY <1>4, <1>8, <2>2 DEF Predecessor
      <3>2. t \in 1..n
        BY <1>2, <1>4, <3>1
      <3>3. AfterOf(g, t) = AfterOf(h, t) /\ AfterOf(h, t) \in 0..n
        BY <1>6, <3>2
      <3>4. FpAt(g, AfterOf(h, t)) = FpAt(h, AfterOf(h, t))
        BY <1>7, <3>3
      <3>. QED
        BY <1>4, <1>9, <3>1, <3>3, <3>4 DEF Grandparent
    <2>3. m \notin FollowersOf(h, p)
      BY <1>2, <1>5 DEF FollowersOf
    <2>. QED
      BY <1>12, <2>1, <2>2, <2>3 DEF FollowersOfBoth
  <1>14. \A p \in Fingerprints : FollowersOf(g, p) =
                 IF p = Predecessor(bl, e) THEN FollowersOf(h, p) \cup {m} ELSE FollowersOf(h, p)
    BY <1>12
  <1>15. \A p, a \in Fingerprints : FollowersOfBoth(g, a, p) =
                 IF p = Predecessor(bl, e) /\ a = Grandparent(bl, e)
                 THEN FollowersOfBoth(h, a, p) \cup {m} ELSE FollowersOfBoth(h, a, p)
    BY <1>13
  <1>. QED
    BY <1>10, <1>11, <1>14, <1>15 DEF g, m, n

\* The fields an observation changes.
LEMMA ObserveFields ==
  ASSUME NEW s, DOMAIN s = StatsFields, NEW e, NEW p, NEW a
  PROVE  LET o == Engine!observe(s, e, p, a)
         IN /\ DOMAIN o = StatsFields
            /\ o.count = s.count + 1
            /\ o.last = IF e.at > s.last THEN e.at ELSE s.last
            /\ o.outgoing = s.outgoing /\ o.continuations = s.continuations
            /\ o.predecessors = IF p # NoFingerprint THEN Engine!Bump(s.predecessors, p, maxPredecessors)
                                ELSE s.predecessors
            /\ o.trigrams = IF p # NoFingerprint /\ a # NoFingerprint
                            THEN Engine!Bump(s.trigrams, <<a, p>>, maxTrigramPredecessors)
                            ELSE s.trigrams
  BY DEF Engine!observe, StatsFields, Engine!recordPredecessor, Engine!recordTrigram

\* The fields a predecessor changes when it is left.
LEMMA LeftFields ==
  ASSUME NEW s, DOMAIN s = StatsFields, NEW a
  PROVE  LET o == Engine!left(s, a)
         IN /\ DOMAIN o = StatsFields
            /\ o.count = s.count /\ o.last = s.last /\ o.predecessors = s.predecessors
            /\ o.trigrams = s.trigrams
            /\ o.outgoing = s.outgoing + 1
            /\ o.continuations = IF a # NoFingerprint
                                 THEN Engine!Bump(s.continuations, a, maxTrigramPredecessors)
                                 ELSE s.continuations
  BY DEF Engine!left, StatsFields, Engine!recordTrigramContinuation

\* What is known of a behaviour before it is seen.
LEMMA NothingKnown ==
  ASSUME NEW h \in Seq(Engine!Events), NEW f \in Fingerprints, \A i \in DOMAIN h : h[i].fp # f
  PROVE  StatsOK(Engine!Stats0, h, f)
  <1> DEFINE s == Engine!Stats0
  <1>1. /\ DOMAIN s = StatsFields /\ s.count = 0 /\ s.last = 0 /\ s.outgoing = 0
        /\ s.predecessors = Engine!Empty /\ s.continuations = Engine!Empty /\ s.trigrams = Engine!Empty
    BY DEF Engine!Stats0, StatsFields
  <1>2. IndexesOf(h, f) = {}
    BY DEF IndexesOf
  <1>3. FollowersOf(h, f) = {}
    <2> SUFFICES ASSUME NEW i \in FollowersOf(h, f) PROVE FALSE
      OBVIOUS
    <2>1. FpAt(h, AfterOf(h, i)) = f /\ AfterOf(h, i) \in 0..Len(h)
      BY AfterIs DEF FollowersOf
    <2>2. NoFingerprint # f
      BY EngineAssumption DEF Engine!EngineAssumption
    <2>3. AfterOf(h, i) \in DOMAIN h /\ h[AfterOf(h, i)].fp = f
      <3>1. AfterOf(h, i) # 0
        BY <2>1, <2>2 DEF FpAt
      <3>2. DOMAIN h = 1..Len(h) /\ Len(h) \in Nat
        OBVIOUS
      <3>. QED
        BY <2>1, <3>1, <3>2 DEF FpAt
    <2>. QED
      BY <2>3
  <1>4. \A p : FollowersOfBoth(h, p, f) = {}
    BY <1>3 DEF FollowersOfBoth
  <1>5. DOMAIN Engine!Empty = {} /\ Engine!Empty \in [DOMAIN Engine!Empty -> Nat]
    BY DEF Engine!Empty
  <1>6. Cardinality({}) = 0 /\ IsFiniteSet({})
    BY FS_EmptySet
  <1>7. \A b \in Nat : Counter(Engine!Empty, b)
    BY <1>5, <1>6 DEF Counter
  <1>8. maxPredecessors \in Nat /\ maxTrigramPredecessors \in Nat
    BY EngineAssumption DEF Engine!EngineAssumption
  <1>9. \A k, b : AgreesWith(Engine!Empty, k, {}, b)
    BY <1>5 DEF AgreesWith
  <1>10. \A T : IndexesOf(h, f) \cap T = {}
    BY <1>2
  <1> HIDE DEF s
  <1>11. \A p : /\ AgreesWith(s.predecessors, p, IndexesOf(h, f) \cap FollowersOf(h, p), maxPredecessors)
               /\ AgreesWith(s.continuations, p, FollowersOfBoth(h, p, f), maxTrigramPredecessors)
    BY <1>1, <1>4, <1>9, <1>10
  <1>12. \A p, g : AgreesWith(s.trigrams, <<g, p>>, IndexesOf(h, f) \cap FollowersOfBoth(h, g, p),
                             maxTrigramPredecessors)
    BY <1>1, <1>9, <1>10
  <1>13. /\ s.count = Cardinality(IndexesOf(h, f)) /\ s.outgoing = Cardinality(FollowersOf(h, f))
         /\ s.last \in Nat /\ \A i \in IndexesOf(h, f) : h[i].at <= s.last
    BY <1>1, <1>2, <1>3, <1>6
  <1>14. /\ Counter(s.predecessors, maxPredecessors) /\ Counter(s.trigrams, maxTrigramPredecessors)
         /\ Counter(s.continuations, maxTrigramPredecessors)
    BY <1>1, <1>7, <1>8
  <1>. QED
    BY <1>1, <1>11, <1>12, <1>13, <1>14 DEF StatsOK, s

\* The behaviours after an event: each as it was, observed if it is the event's,
\* left if it came before it.
Touched(s, f, bl, e) ==
    LET o == IF f = e.fp THEN Engine!observe(s, e, Predecessor(bl, e), Grandparent(bl, e)) ELSE s
    IN IF f = Predecessor(bl, e) THEN Engine!left(o, Grandparent(bl, e)) ELSE o

\* They are so after BaselineObserve.
LEMMA StatsAfter ==
  ASSUME NEW bl, NEW h, EngineInv(bl, h), NEW e \in Engine!Events
  PROVE  LET nb == Engine!BaselineObserve(bl, e)  g == Append(h, e)
         IN /\ DOMAIN nb.stats = RoomOf(g)
            /\ \A f \in RoomOf(g) :
                 nb.stats[f] = Touched(IF f \in RoomOf(h) THEN bl.stats[f] ELSE Engine!Stats0, f, bl, e)
  <1> DEFINE g == Append(h, e)
             fits == e.fp \in RoomOf(h) \/ Cardinality(RoomOf(h)) < maxFingerprints
             kept == IF Engine!admit(bl, e) THEN RoomOf(h) \cup {e.fp} ELSE RoomOf(h)
             st == [f \in kept |-> Touched(IF f \in RoomOf(h) THEN bl.stats[f] ELSE Engine!Stats0, f, bl, e)]
  <1>1. h \in Seq(Engine!Events) /\ RoomOK(h) /\ DOMAIN bl.stats = RoomOf(h)
    BY DEF EngineInv
  <1>2. Engine!admit(bl, e) <=> fits
    BY TailSays
  <1>3. RoomOf(g) = IF fits THEN RoomOf(h) \cup {e.fp} ELSE RoomOf(h)
    BY <1>1, RoomGrows
  <1>4. kept = RoomOf(g)
    <2> HIDE DEF fits, g
    <2>. QED
      BY <1>2, <1>3
  <1>5. Engine!BaselineObserve(bl, e).stats = st
    BY <1>1 DEF Engine!BaselineObserve, Touched, Predecessor, Grandparent
  <1> HIDE DEF kept, g
  <1>. QED
    BY <1>4, <1>5 DEF g

\* What is known of a behaviour stays what the history says of it.
LEMMA StatsStep ==
  ASSUME NEW bl, NEW h, EngineInv(bl, h), NEW e \in Engine!Events,
         NEW f \in Fingerprints, NEW s, StatsOK(s, h, f)
  PROVE  StatsOK(Touched(s, f, bl, e), Append(h, e), f)
  <1> DEFINE g == Append(h, e)  n == Len(h)  m == n + 1
             P == Predecessor(bl, e)  G == Grandparent(bl, e)  u == Touched(s, f, bl, e)
             K == IndexesOf(h, f)
  <1>1. h \in Seq(Engine!Events)
    BY DEF EngineInv
  <1>2. /\ n \in Nat /\ DOMAIN h = 1..n /\ DOMAIN g = 1..m /\ g[m] = e /\ m \notin 1..n
        /\ \A i \in 1..n : g[i] = h[i]
    BY <1>1, HistoryGrows
  <1>3. /\ e.at \in Nat /\ \A i \in 1..n : h[i].at \in Nat
    BY <1>1, EventTypes
  <1>4. /\ \A x : IndexesOf(g, x) = IF x = e.fp THEN IndexesOf(h, x) \cup {m} ELSE IndexesOf(h, x)
        /\ \A p \in Fingerprints : FollowersOf(g, p) =
             IF p = P THEN FollowersOf(h, p) \cup {m} ELSE FollowersOf(h, p)
        /\ \A p, a \in Fingerprints : FollowersOfBoth(g, a, p) =
             IF p = P /\ a = G THEN FollowersOfBoth(h, a, p) \cup {m} ELSE FollowersOfBoth(h, a, p)
    BY EventsGrow
  <1>5. /\ K \subseteq 1..n /\ \A p : FollowersOf(h, p) \subseteq 1..n
        /\ \A p, a : FollowersOfBoth(h, a, p) \subseteq 1..n
    BY <1>2 DEF IndexesOf, FollowersOf, FollowersOfBoth, AheadOf
  <1>6. \A T : T \subseteq 1..n => /\ IsFiniteSet(T) /\ m \notin T
                                  /\ Cardinality(T) \in Nat /\ Cardinality(T \cup {m}) = Cardinality(T) + 1
    <2>1. IsFiniteSet(1..n)
      BY <1>2, FS_Interval
    <2>2. \A T : T \subseteq 1..n => IsFiniteSet(T) /\ m \notin T
      BY <1>2, <2>1, FS_Subset
    <2>. QED
      BY <2>2, FS_AddElement, FS_CardinalityType
  <1>7. maxPredecessors \in Nat /\ maxTrigramPredecessors \in Nat /\ NoFingerprint \notin Fingerprints
    BY EngineAssumption DEF Engine!EngineAssumption
  <1>8. /\ DOMAIN s = StatsFields
        /\ s.count = Cardinality(K)
        /\ s.last \in Nat /\ \A i \in K : h[i].at <= s.last
        /\ s.outgoing = Cardinality(FollowersOf(h, f))
        /\ Counter(s.predecessors, maxPredecessors)
        /\ Counter(s.continuations, maxTrigramPredecessors)
        /\ Counter(s.trigrams, maxTrigramPredecessors)
        /\ \A p \in Fingerprints :
             /\ AgreesWith(s.predecessors, p, K \cap FollowersOf(h, p), maxPredecessors)
             /\ AgreesWith(s.continuations, p, FollowersOfBoth(h, p, f), maxTrigramPredecessors)
        /\ \A p, a \in Fingerprints :
             AgreesWith(s.trigrams, <<a, p>>, K \cap FollowersOfBoth(h, a, p), maxTrigramPredecessors)
    BY DEF StatsOK
  <1>9. /\ DOMAIN u = StatsFields
        /\ u.count = IF f = e.fp THEN s.count + 1 ELSE s.count
        /\ u.last = IF f = e.fp /\ e.at > s.last THEN e.at ELSE s.last
        /\ u.outgoing = IF f = P THEN s.outgoing + 1 ELSE s.outgoing
        /\ u.predecessors = IF f = e.fp /\ P # NoFingerprint
                            THEN Engine!Bump(s.predecessors, P, maxPredecessors) ELSE s.predecessors
        /\ u.trigrams = IF f = e.fp /\ P # NoFingerprint /\ G # NoFingerprint
                        THEN Engine!Bump(s.trigrams, <<G, P>>, maxTrigramPredecessors) ELSE s.trigrams
        /\ u.continuations = IF f = P /\ G # NoFingerprint
                             THEN Engine!Bump(s.continuations, G, maxTrigramPredecessors)
                             ELSE s.continuations
    <2> DEFINE o == IF f = e.fp THEN Engine!observe(s, e, P, G) ELSE s
    <2>1. /\ DOMAIN o = StatsFields
          /\ o.count = IF f = e.fp THEN s.count + 1 ELSE s.count
          /\ o.last = IF f = e.fp /\ e.at > s.last THEN e.at ELSE s.last
          /\ o.outgoing = s.outgoing /\ o.continuations = s.continuations
          /\ o.predecessors = IF f = e.fp /\ P # NoFingerprint
                              THEN Engine!Bump(s.predecessors, P, maxPredecessors) ELSE s.predecessors
          /\ o.trigrams = IF f = e.fp /\ P # NoFingerprint /\ G # NoFingerprint
                          THEN Engine!Bump(s.trigrams, <<G, P>>, maxTrigramPredecessors) ELSE s.trigrams
      <3> HIDE DEF P, G
      <3>1. CASE f = e.fp
        BY <1>8, <3>1, ObserveFields
      <3>2. CASE f # e.fp
        BY <1>8, <3>2
      <3>. QED
        BY <3>1, <3>2
    <2>2. u = IF f = P THEN Engine!left(o, G) ELSE o
      BY DEF Touched
    <2> HIDE DEF u, o, P, G
    <2>3. CASE f = P
      BY <2>1, <2>2, <2>3, LeftFields
    <2>4. CASE f # P
      BY <2>1, <2>2, <2>4
    <2>. QED
      BY <2>3, <2>4
  <1> HIDE DEF g, n, m, P, G, u, K
  <1>10. IndexesOf(g, f) = IF f = e.fp THEN K \cup {m} ELSE K
    BY <1>4 DEF K
  <1>11. u.count = Cardinality(IndexesOf(g, f))
    BY <1>5, <1>6, <1>8, <1>9, <1>10
  <1>12. u.last \in Nat /\ \A i \in IndexesOf(g, f) : g[i].at <= u.last
    <2>1. u.last \in Nat /\ s.last <= u.last /\ (f = e.fp => e.at <= u.last)
      BY <1>3, <1>8, <1>9
    <2>2. ASSUME NEW i \in K PROVE g[i].at <= u.last
      <3>1. g[i] = h[i] /\ h[i].at \in Nat /\ h[i].at <= s.last
        BY <1>2, <1>3, <1>5, <1>8, <2>2
      <3>. QED
        BY <1>8, <2>1, <3>1
    <2>. QED
      BY <1>2, <1>10, <2>1, <2>2
  <1>13. u.outgoing = Cardinality(FollowersOf(g, f))
    BY <1>4, <1>5, <1>6, <1>8, <1>9
  <1>14. /\ Counter(u.predecessors, maxPredecessors)
         /\ \A p \in Fingerprints :
              AgreesWith(u.predecessors, p, IndexesOf(g, f) \cap FollowersOf(g, p), maxPredecessors)
    <2> DEFINE c == s.predecessors  d == Engine!Bump(c, P, maxPredecessors)
    <2>1. \A p \in Fingerprints : IndexesOf(g, f) \cap FollowersOf(g, p) =
             IF f = e.fp /\ p = P THEN (K \cap FollowersOf(h, p)) \cup {m} ELSE K \cap FollowersOf(h, p)
      <3>1. m \notin K /\ \A p : m \notin FollowersOf(h, p)
        BY <1>5, <1>6
      <3>. QED
        BY <1>4, <1>10, <3>1
    <2>2. \A p : IsFiniteSet(K \cap FollowersOf(h, p)) /\ m \notin K \cap FollowersOf(h, p)
      <3>1. \A p : K \cap FollowersOf(h, p) \subseteq 1..n
        BY <1>5
      <3>. QED
        BY <1>6, <3>1
    <2>3. CASE f = e.fp /\ P # NoFingerprint
      <3>1. u.predecessors = d
        BY <1>9, <2>3
      <3>2. /\ Counter(d, maxPredecessors)
            /\ \A E, x : IsFiniteSet(E) /\ x \notin E /\ AgreesWith(c, P, E, maxPredecessors)
                 => AgreesWith(d, P, E \cup {x}, maxPredecessors)
            /\ \A k, E : k # P /\ AgreesWith(c, k, E, maxPredecessors) => AgreesWith(d, k, E, maxPredecessors)
        BY <1>7, <1>8, BumpAgrees
      <3> HIDE DEF c, d
      <3>3. \A p \in Fingerprints : AgreesWith(c, p, K \cap FollowersOf(h, p), maxPredecessors)
        BY <1>8 DEF c
      <3>4. ASSUME NEW p \in Fingerprints
            PROVE  AgreesWith(d, p, IndexesOf(g, f) \cap FollowersOf(g, p), maxPredecessors)
        <4> DEFINE E == K \cap FollowersOf(h, p)
        <4>1. AgreesWith(c, p, E, maxPredecessors) /\ IsFiniteSet(E) /\ m \notin E
          BY <2>2, <3>3
        <4>2. CASE p = P
          <5>1. IndexesOf(g, f) \cap FollowersOf(g, p) = E \cup {m}
            BY <2>1, <2>3, <4>2
          <5> HIDE DEF E
          <5>. QED
            BY <3>2, <4>1, <4>2, <5>1
        <4>3. CASE p # P
          <5>1. IndexesOf(g, f) \cap FollowersOf(g, p) = E
            BY <2>1, <4>3
          <5> HIDE DEF E
          <5>. QED
            BY <3>2, <4>1, <4>3, <5>1
        <4>. QED
          BY <4>2, <4>3
      <3>. QED
        BY <3>1, <3>2, <3>4
    <2>4. CASE ~(f = e.fp /\ P # NoFingerprint)
      <3>1. u.predecessors = c
        BY <1>9, <2>4
      <3>2. \A p \in Fingerprints : ~(f = e.fp /\ p = P)
        BY <1>7, <2>4
      <3>. QED
        BY <1>8, <2>1, <3>1, <3>2
    <2>. QED
      BY <2>3, <2>4
  <1>15. /\ Counter(u.trigrams, maxTrigramPredecessors)
         /\ \A p, a \in Fingerprints :
              AgreesWith(u.trigrams, <<a, p>>, IndexesOf(g, f) \cap FollowersOfBoth(g, a, p),
                         maxTrigramPredecessors)
    <2> DEFINE c == s.trigrams  d == Engine!Bump(c, <<G, P>>, maxTrigramPredecessors)
    <2>1. \A p, a \in Fingerprints : IndexesOf(g, f) \cap FollowersOfBoth(g, a, p) =
             IF f = e.fp /\ p = P /\ a = G THEN (K \cap FollowersOfBoth(h, a, p)) \cup {m}
             ELSE K \cap FollowersOfBoth(h, a, p)
      <3>1. m \notin K /\ \A p, a : m \notin FollowersOfBoth(h, a, p)
        BY <1>5, <1>6
      <3>. QED
        BY <1>4, <1>10, <3>1
    <2>2. \A p, a : IsFiniteSet(K \cap FollowersOfBoth(h, a, p)) /\ m \notin K \cap FollowersOfBoth(h, a, p)
      <3>1. \A p, a : K \cap FollowersOfBoth(h, a, p) \subseteq 1..n
        BY <1>5
      <3>. QED
        BY <1>6, <3>1
    <2>3. CASE f = e.fp /\ P # NoFingerprint /\ G # NoFingerprint
      <3>1. u.trigrams = d
        BY <1>9, <2>3
      <3>2. /\ Counter(d, maxTrigramPredecessors)
            /\ \A E, x : IsFiniteSet(E) /\ x \notin E /\ AgreesWith(c, <<G, P>>, E, maxTrigramPredecessors)
                 => AgreesWith(d, <<G, P>>, E \cup {x}, maxTrigramPredecessors)
            /\ \A k, E : k # <<G, P>> /\ AgreesWith(c, k, E, maxTrigramPredecessors)
                 => AgreesWith(d, k, E, maxTrigramPredecessors)
        BY <1>7, <1>8, BumpAgrees
      <3> HIDE DEF c, d
      <3>3. \A p, a \in Fingerprints :
              AgreesWith(c, <<a, p>>, K \cap FollowersOfBoth(h, a, p), maxTrigramPredecessors)
        BY <1>8 DEF c
      <3>4. \A p, a : <<a, p>> = <<G, P>> <=> (p = P /\ a = G)
        OBVIOUS
      <3>5. ASSUME NEW p \in Fingerprints, NEW a \in Fingerprints
            PROVE  AgreesWith(d, <<a, p>>, IndexesOf(g, f) \cap FollowersOfBoth(g, a, p),
                              maxTrigramPredecessors)
        <4> DEFINE E == K \cap FollowersOfBoth(h, a, p)
        <4>1. AgreesWith(c, <<a, p>>, E, maxTrigramPredecessors) /\ IsFiniteSet(E) /\ m \notin E
          BY <2>2, <3>3
        <4>2. CASE p = P /\ a = G
          <5>1. IndexesOf(g, f) \cap FollowersOfBoth(g, a, p) = E \cup {m}
            BY <2>1, <2>3, <4>2
          <5> HIDE DEF E
          <5>. QED
            BY <3>2, <4>1, <4>2, <5>1
        <4>3. CASE ~(p = P /\ a = G)
          <5>1. IndexesOf(g, f) \cap FollowersOfBoth(g, a, p) = E
            BY <2>1, <4>3
          <5> HIDE DEF E
          <5>. QED
            BY <3>2, <3>4, <4>1, <4>3, <5>1
        <4>. QED
          BY <4>2, <4>3
      <3>. QED
        BY <3>1, <3>2, <3>5
    <2>4. CASE ~(f = e.fp /\ P # NoFingerprint /\ G # NoFingerprint)
      <3>1. u.trigrams = c
        BY <1>9, <2>4
      <3>2. \A p, a \in Fingerprints : ~(f = e.fp /\ p = P /\ a = G)
        BY <1>7, <2>4
      <3>. QED
        BY <1>8, <2>1, <3>1, <3>2
    <2>. QED
      BY <2>3, <2>4
  <1>16. /\ Counter(u.continuations, maxTrigramPredecessors)
         /\ \A p \in Fingerprints :
              AgreesWith(u.continuations, p, FollowersOfBoth(g, p, f), maxTrigramPredecessors)
    <2> DEFINE c == s.continuations  d == Engine!Bump(c, G, maxTrigramPredecessors)
    <2>1. \A p \in Fingerprints : FollowersOfBoth(g, p, f) =
             IF f = P /\ p = G THEN FollowersOfBoth(h, p, f) \cup {m} ELSE FollowersOfBoth(h, p, f)
      BY <1>4
    <2>2. \A p : IsFiniteSet(FollowersOfBoth(h, p, f)) /\ m \notin FollowersOfBoth(h, p, f)
      BY <1>5, <1>6
    <2>3. CASE f = P /\ G # NoFingerprint
      <3>1. u.continuations = d
        BY <1>9, <2>3
      <3>2. /\ Counter(d, maxTrigramPredecessors)
            /\ \A E, x : IsFiniteSet(E) /\ x \notin E /\ AgreesWith(c, G, E, maxTrigramPredecessors)
                 => AgreesWith(d, G, E \cup {x}, maxTrigramPredecessors)
            /\ \A k, E : k # G /\ AgreesWith(c, k, E, maxTrigramPredecessors)
                 => AgreesWith(d, k, E, maxTrigramPredecessors)
        BY <1>7, <1>8, BumpAgrees
      <3> HIDE DEF c, d
      <3>3. \A p \in Fingerprints : AgreesWith(c, p, FollowersOfBoth(h, p, f), maxTrigramPredecessors)
        BY <1>8 DEF c
      <3>4. ASSUME NEW p \in Fingerprints
            PROVE  AgreesWith(d, p, FollowersOfBoth(g, p, f), maxTrigramPredecessors)
        <4> DEFINE E == FollowersOfBoth(h, p, f)
        <4>1. AgreesWith(c, p, E, maxTrigramPredecessors) /\ IsFiniteSet(E) /\ m \notin E
          BY <2>2, <3>3
        <4>2. CASE p = G
          <5>1. FollowersOfBoth(g, p, f) = E \cup {m}
            BY <2>1, <2>3, <4>2
          <5> HIDE DEF E
          <5>. QED
            BY <3>2, <4>1, <4>2, <5>1
        <4>3. CASE p # G
          <5>1. FollowersOfBoth(g, p, f) = E
            BY <2>1, <4>3
          <5> HIDE DEF E
          <5>. QED
            BY <3>2, <4>1, <4>3, <5>1
        <4>. QED
          BY <4>2, <4>3
      <3>. QED
        BY <3>1, <3>2, <3>4
    <2>4. CASE ~(f = P /\ G # NoFingerprint)
      <3>1. u.continuations = c
        BY <1>9, <2>4
      <3>2. \A p \in Fingerprints : ~(f = P /\ p = G)
        BY <1>7, <2>4
      <3>. QED
        BY <1>8, <2>1, <3>1, <3>2
    <2>. QED
      BY <2>3, <2>4
  <1>. QED
    BY <1>9, <1>11, <1>12, <1>13, <1>14, <1>15, <1>16 DEF StatsOK, g, u

\* The invariant holds before anything is observed.
LEMMA EngineStarts == EngineInv(Engine!New, <<>>)
  <1> DEFINE h == <<>>  bl == Engine!New
  <1>1. /\ h \in Seq(Engine!Events) /\ DOMAIN h = {} /\ Len(h) = 0
    OBVIOUS
  <1>2. FirstOf(h) = {} /\ RoomOf(h) = {} /\ AdmittedOf(h) = {}
    BY <1>1 DEF FirstOf, RoomOf, AdmittedOf
  <1>3. \A i : PlacesOf(h, i) = {} /\ AfterOf(h, i) = 0
    BY <1>2 DEF PlacesOf, AfterOf
  <1>4. /\ DOMAIN bl = BaselineFields /\ DOMAIN bl.stats = {} /\ bl.delegators = Engine!Empty
        /\ bl.last = NoFingerprint /\ bl.previous = NoFingerprint
    BY DEF Engine!New, BaselineFields
  <1>5. IsFiniteSet({}) /\ Cardinality({}) = 0
    BY FS_EmptySet
  <1>6. maxFingerprints \in Nat /\ maxDelegators \in Nat
    BY EngineAssumption DEF Engine!EngineAssumption
  <1>7. RoomOK(h)
    <2> HIDE DEF h
    <2>1. /\ IsFiniteSet(RoomOf(h)) /\ IsFiniteSet(FirstOf(h))
          /\ RoomOf(h) \subseteq {h[i].fp : i \in DOMAIN h}
          /\ \A i \in DOMAIN h : h[i].fp \in RoomOf(h)
          /\ Cardinality(RoomOf(h)) = Cardinality(FirstOf(h)) /\ Cardinality(RoomOf(h)) = 0
      BY <1>1, <1>2, <1>5
    <2>2. Cardinality(RoomOf(h)) <= maxFingerprints
      BY <1>6, <2>1
    <2>. QED
      BY <2>1, <2>2 DEF RoomOK
  <1>8. TailOK(bl, h)
    BY <1>2, <1>3, <1>4 DEF TailOK
  <1>9. DOMAIN Engine!Empty = {} /\ Engine!Empty \in [DOMAIN Engine!Empty -> Nat]
    BY DEF Engine!Empty
  <1>10. Counter(bl.delegators, maxDelegators)
    BY <1>4, <1>5, <1>6, <1>9 DEF Counter
  <1>11. \A d : DelegatedBy(h, d) = {}
    BY <1>1 DEF DelegatedBy
  <1>12. \A d : AgreesWith(bl.delegators, d, DelegatedBy(h, d), maxDelegators)
    BY <1>4, <1>9, <1>11 DEF AgreesWith
  <1>. QED
    BY <1>1, <1>2, <1>4, <1>7, <1>8, <1>10, <1>12 DEF EngineInv

\* What is learned from an event is what the event adds to the history.
LEMMA EngineLearns ==
  ASSUME NEW bl, NEW h, EngineInv(bl, h), NEW e \in Engine!Events
  PROVE  EngineInv(Engine!BaselineObserve(bl, e), Append(h, e))
  <1> DEFINE g == Append(h, e)  nb == Engine!BaselineObserve(bl, e)  n == Len(h)  m == n + 1
  <1>1. /\ h \in Seq(Engine!Events) /\ RoomOK(h) /\ Counter(bl.delegators, maxDelegators)
        /\ \A f \in RoomOf(h) : StatsOK(bl.stats[f], h, f)
        /\ \A v \in Volatiles : v.delegator # NoDelegator =>
             AgreesWith(bl.delegators, v.delegator, DelegatedBy(h, v.delegator), maxDelegators)
    BY DEF EngineInv
  <1>2. g \in Seq(Engine!Events)
    BY <1>1, HistoryGrows
  <1>3. RoomOK(g)
    BY <1>1, RoomGrows
  <1>4. TailOK(nb, g)
    BY TailStep
  <1>5. /\ DOMAIN nb = BaselineFields
        /\ nb.delegators = Engine!recordDelegator(bl.delegators, e.vol.delegator)
    BY BaselineAfter
  <1>6. DOMAIN nb.stats = RoomOf(g)
    BY StatsAfter
  <1>7. ASSUME NEW f \in RoomOf(g) PROVE StatsOK(nb.stats[f], g, f)
    <2> DEFINE s == IF f \in RoomOf(h) THEN bl.stats[f] ELSE Engine!Stats0
    <2>1. nb.stats[f] = Touched(s, f, bl, e)
      BY <1>7, StatsAfter
    <2>2. /\ RoomOf(g) = IF e.fp \in RoomOf(h) \/ Cardinality(RoomOf(h)) < maxFingerprints
                         THEN RoomOf(h) \cup {e.fp} ELSE RoomOf(h)
          /\ e.fp \notin RoomOf(h) /\ Cardinality(RoomOf(h)) < maxFingerprints
               => \A i \in DOMAIN h : h[i].fp # e.fp
      BY <1>1, RoomGrows
    <2>3. f \in Fingerprints
      <3>1. /\ e.fp \in Fingerprints /\ \A i \in 1..Len(h) : h[i].fp \in Fingerprints
        BY <1>1, EventTypes
      <3>2. RoomOf(h) \subseteq Fingerprints
        BY <1>1, <3>1 DEF RoomOK
      <3> HIDE DEF g
      <3>. QED
        BY <1>7, <2>2, <3>1, <3>2
    <2>4. StatsOK(s, h, f)
      <3>1. CASE f \in RoomOf(h)
        BY <1>1, <3>1
      <3>2. CASE f \notin RoomOf(h)
        <4>1. f = e.fp /\ \A i \in DOMAIN h : h[i].fp # f
          <5> HIDE DEF g
          <5>. QED
            BY <1>7, <2>2, <3>2
        <4>2. StatsOK(Engine!Stats0, h, f)
          BY <1>1, <2>3, <4>1, NothingKnown
        <4>. QED
          BY <3>2, <4>2
      <3>. QED
        BY <3>1, <3>2
    <2> HIDE DEF s
    <2>5. StatsOK(Touched(s, f, bl, e), g, f)
      BY <2>3, <2>4, StatsStep
    <2>. QED
      BY <2>1, <2>5
  <1>8. /\ Counter(nb.delegators, maxDelegators)
        /\ \A v \in Volatiles : v.delegator # NoDelegator =>
             AgreesWith(nb.delegators, v.delegator, DelegatedBy(g, v.delegator), maxDelegators)
    <2> DEFINE c == bl.delegators  x == e.vol.delegator  d == Engine!Bump(c, x, maxDelegators)
    <2>1. \A k : DelegatedBy(g, k) = IF k = x THEN DelegatedBy(h, k) \cup {m} ELSE DelegatedBy(h, k)
      BY EventsGrow
    <2>2. \A k : IsFiniteSet(DelegatedBy(h, k)) /\ m \notin DelegatedBy(h, k)
      <3>1. n \in Nat /\ DOMAIN h = 1..n
        BY <1>1
      <3>2. IsFiniteSet(1..n) /\ m \notin 1..n
        BY <3>1, FS_Interval
      <3>3. \A k : DelegatedBy(h, k) \subseteq 1..n
        BY <3>1 DEF DelegatedBy
      <3>. QED
        BY <3>2, <3>3, FS_Subset
    <2>3. CASE x = NoDelegator
      <3>1. nb.delegators = c
        BY <1>5, <2>3 DEF Engine!recordDelegator
      <3> HIDE DEF g, nb, c, x
      <3>2. \A v \in Volatiles : v.delegator # NoDelegator =>
               DelegatedBy(g, v.delegator) = DelegatedBy(h, v.delegator)
        BY <2>1, <2>3
      <3>. QED
        BY <1>1, <3>1, <3>2 DEF c
    <2>4. CASE x # NoDelegator
      <3>1. nb.delegators = d
        BY <1>5, <2>4 DEF Engine!recordDelegator
      <3>2. maxDelegators \in Nat
        BY EngineAssumption DEF Engine!EngineAssumption
      <3>3. /\ Counter(d, maxDelegators)
            /\ \A E, y : IsFiniteSet(E) /\ y \notin E /\ AgreesWith(c, x, E, maxDelegators)
                 => AgreesWith(d, x, E \cup {y}, maxDelegators)
            /\ \A k, E : k # x /\ AgreesWith(c, k, E, maxDelegators) => AgreesWith(d, k, E, maxDelegators)
        BY <1>1, <3>2, BumpAgrees
      <3>4. ASSUME NEW v \in Volatiles, v.delegator # NoDelegator
            PROVE  AgreesWith(d, v.delegator, DelegatedBy(g, v.delegator), maxDelegators)
        <4> DEFINE k == v.delegator  E == DelegatedBy(h, k)
        <4>1. AgreesWith(c, k, E, maxDelegators) /\ IsFiniteSet(E) /\ m \notin E
          BY <1>1, <2>2, <3>4
        <4>2. DelegatedBy(g, k) = IF k = x THEN E \cup {m} ELSE E
          BY <2>1
        <4> HIDE DEF c, d, E, k, x, g, m
        <4>3. AgreesWith(d, k, DelegatedBy(g, k), maxDelegators)
          <5>1. CASE k = x
            BY <3>3, <4>1, <4>2, <5>1
          <5>2. CASE k # x
            BY <3>3, <4>1, <4>2, <5>2
          <5>. QED
            BY <5>1, <5>2
        <4>. QED
          BY <4>3 DEF k
      <3> HIDE DEF d, g, nb
      <3>. QED
        BY <3>1, <3>3, <3>4
    <2>. QED
      BY <2>3, <2>4
  <1> HIDE DEF g, nb
  <1>9. EngineInv(nb, g)
    BY <1>2, <1>3, <1>4, <1>5, <1>6, <1>7, <1>8 DEF EngineInv
  <1>. QED
    BY <1>9 DEF g, nb

\* The reading of a history that the properties are about.
LEMMA ReadingIs ==
  ASSUME history \in Seq(Engine!Events)
  PROVE  LET r == Engine!Reading
         IN /\ r.room = RoomOf(history) /\ r.ahead = AheadOf(history)
            /\ \A i \in 1..(Len(history) + 1) : r.after[i] = AfterOf(history, i)
  <1> DEFINE seen == DOMAIN history
             first == {i \in seen : \A j \in 1..(i - 1) : history[j].fp # history[i].fp}
             room == {history[k].fp : k \in {k \in first : Engine!Cardinality({j \in first : j <= k}) <= maxFingerprints}}
             admitted == {i \in seen : history[i].fp \in room}
             ahead == {i \in seen : \A j \in admitted : j < i => history[j].at < history[i].at}
             places(i) == {j \in admitted \cap ahead : j < i}
             after(i) == IF places(i) = {} THEN 0 ELSE CHOOSE j \in places(i) : \A k \in places(i) : k <= j
  <1>1. first = FirstOf(history)
    BY DEF FirstOf
  <1>2. room = RoomOf(history)
    <2> HIDE DEF first
    <2>1. room = {history[k].fp : k \in {k \in first : Cardinality({j \in first : j <= k}) <= maxFingerprints}}
      BY EngineCardinality
    <2>. QED
      BY <1>1, <2>1 DEF RoomOf, EarlyOf
  <1>3. admitted = AdmittedOf(history)
    <2> HIDE DEF room
    <2>. QED
      BY <1>2 DEF AdmittedOf
  <1>4. ahead = AheadOf(history)
    <2> HIDE DEF admitted
    <2>. QED
      BY <1>3 DEF AheadOf
  <1>5. \A i : places(i) = PlacesOf(history, i)
    <2> HIDE DEF admitted, ahead
    <2>. QED
      BY <1>3, <1>4 DEF PlacesOf
  <1>6. \A i : after(i) = AfterOf(history, i)
    <2> HIDE DEF places
    <2>1. \A i : after(i) = IF places(i) = {} THEN 0 ELSE GreatestOf(places(i))
      BY DEF GreatestOf
    <2> HIDE DEF after
    <2>. QED
      BY <1>5, <2>1 DEF AfterOf
  <1>7. Engine!Reading = [room |-> room, ahead |-> ahead, after |-> [i \in 1..(Len(history) + 1) |-> after(i)]]
    BY DEF Engine!Reading
  <1> HIDE DEF room, ahead, after
  <1>. QED
    BY <1>2, <1>4, <1>6, <1>7

\* The sets of events the properties count are those of the invariant.
LEMMA ReadingCounts ==
  ASSUME history \in Seq(Engine!Events)
  PROVE  LET r == Engine!Reading
         IN /\ \A f : Engine!OfFp(f) = IndexesOf(history, f)
            /\ \A p : Engine!Followers(r, p) = FollowersOf(history, p)
            /\ \A p, g \in Fingerprints : Engine!FollowersOfTwo(r, g, p) = FollowersOfBoth(history, g, p)
  <1> DEFINE r == Engine!Reading  n == Len(history)
  <1>1. /\ r.ahead = AheadOf(history)
        /\ \A i \in 1..(n + 1) : r.after[i] = AfterOf(history, i)
    BY ReadingIs
  <1>2. n \in Nat /\ DOMAIN history = 1..n
    OBVIOUS
  <1>3. \A i : Engine!FpOf(i) = FpAt(history, i)
    BY DEF Engine!FpOf, FpAt
  <1>4. AheadOf(history) \subseteq 1..n /\ \A i \in 1..n : i \in 1..(n + 1)
    BY <1>2 DEF AheadOf
  <1> HIDE DEF r
  <1>5. \A p : Engine!Followers(r, p) = FollowersOf(history, p)
    BY <1>1, <1>3, <1>4 DEF Engine!Followers, FollowersOf
  <1>6. ASSUME NEW p \in Fingerprints, NEW g \in Fingerprints
        PROVE  Engine!FollowersOfTwo(r, g, p) = FollowersOfBoth(history, g, p)
    <2>1. ASSUME NEW i \in FollowersOf(history, p)
          PROVE  r.after[r.after[i]] = AfterOf(history, AfterOf(history, i))
      <3>1. i \in 1..n /\ FpAt(history, AfterOf(history, i)) = p
        BY <1>4 DEF FollowersOf
      <3>2. AfterOf(history, i) \in 0..n
        BY AfterIs
      <3>3. AfterOf(history, i) # 0
        <4>1. NoFingerprint \notin Fingerprints
          BY EngineAssumption DEF Engine!EngineAssumption
        <4>. QED
          BY <3>1, <4>1 DEF FpAt
      <3>4. AfterOf(history, i) \in 1..n
        BY <1>2, <3>2, <3>3
      <3>. QED
        BY <1>1, <1>4, <3>1, <3>4
    <2>. QED
      BY <1>3, <1>5, <2>1 DEF Engine!FollowersOfTwo, FollowersOfBoth
  <1>7. \A f : Engine!OfFp(f) = IndexesOf(history, f)
    BY DEF Engine!OfFp, IndexesOf
  <1>. QED
    BY <1>5, <1>6, <1>7 DEF r

\* The room of a history is a set of fingerprints.
LEMMA RoomType ==
  ASSUME NEW h \in Seq(Engine!Events), RoomOK(h)
  PROVE  RoomOf(h) \subseteq Fingerprints
  <1>1. \A i \in DOMAIN h : h[i] \in Engine!Events
    OBVIOUS
  <1>2. \A i \in DOMAIN h : h[i].fp \in Fingerprints
    BY <1>1 DEF Engine!Events
  <1>. QED
    BY <1>2 DEF RoomOK

\* The invariant is what the properties say of the baseline.
LEMMA EngineLearned ==
  ASSUME EngineInv(baseline, history)
  PROVE  Engine!BaselineIsHistory
  <1> DEFINE r == Engine!Reading
  <1>1. /\ history \in Seq(Engine!Events) /\ RoomOK(history) /\ DOMAIN baseline.stats = RoomOf(history)
        /\ \A f \in RoomOf(history) : StatsOK(baseline.stats[f], history, f)
        /\ \A v \in Volatiles : v.delegator # NoDelegator =>
             AgreesWith(baseline.delegators, v.delegator, DelegatedBy(history, v.delegator), maxDelegators)
    BY DEF EngineInv
  <1>2. r.room = RoomOf(history)
    BY <1>1, ReadingIs
  <1>3. /\ \A f : Engine!OfFp(f) = IndexesOf(history, f)
        /\ \A p : Engine!Followers(r, p) = FollowersOf(history, p)
        /\ \A p, g \in Fingerprints : Engine!FollowersOfTwo(r, g, p) = FollowersOfBoth(history, g, p)
    BY <1>1, ReadingCounts
  <1>4. RoomOf(history) \subseteq Fingerprints
    BY <1>1, RoomType
  <1>5. \A c, k, E, b : Engine!Agrees(c, k, E, b) <=> AgreesWith(c, k, E, b)
    BY EngineCardinality DEF Engine!Agrees, AgreesWith
  <1>6. \A S : Engine!Cardinality(S) = Cardinality(S)
    BY EngineCardinality
  <1> HIDE DEF r
  <1>7. ASSUME NEW f \in r.room
        PROVE  LET s == baseline.stats[f]
               IN /\ s.count = Engine!Cardinality(Engine!OfFp(f))
                  /\ \A i \in Engine!OfFp(f) : history[i].at <= s.last
                  /\ s.outgoing = Engine!Cardinality(Engine!Followers(r, f))
                  /\ \A p \in Fingerprints :
                       /\ Engine!Agrees(s.predecessors, p, Engine!OfFp(f) \cap Engine!Followers(r, p), maxPredecessors)
                       /\ Engine!Agrees(s.continuations, p, Engine!FollowersOfTwo(r, p, f), maxTrigramPredecessors)
                       /\ \A g \in Fingerprints :
                            Engine!Agrees(s.trigrams, <<g, p>>, Engine!OfFp(f) \cap Engine!FollowersOfTwo(r, g, p),
                                          maxTrigramPredecessors)
    <2> DEFINE s == baseline.stats[f]
    <2>1. StatsOK(s, history, f) /\ f \in Fingerprints
      BY <1>1, <1>2, <1>4, <1>7
    <2> HIDE DEF s
    <2>2. /\ s.count = Cardinality(IndexesOf(history, f))
          /\ \A i \in IndexesOf(history, f) : history[i].at <= s.last
          /\ s.outgoing = Cardinality(FollowersOf(history, f))
      BY <2>1 DEF StatsOK
    <2>3. \A p \in Fingerprints :
            /\ AgreesWith(s.predecessors, p, IndexesOf(history, f) \cap FollowersOf(history, p), maxPredecessors)
            /\ AgreesWith(s.continuations, p, FollowersOfBoth(history, p, f), maxTrigramPredecessors)
      BY <2>1 DEF StatsOK
    <2>4. \A p, g \in Fingerprints :
            AgreesWith(s.trigrams, <<g, p>>, IndexesOf(history, f) \cap FollowersOfBoth(history, g, p),
                       maxTrigramPredecessors)
      BY <2>1 DEF StatsOK
    <2>5. /\ s.count = Engine!Cardinality(Engine!OfFp(f))
          /\ \A i \in Engine!OfFp(f) : history[i].at <= s.last
          /\ s.outgoing = Engine!Cardinality(Engine!Followers(r, f))
      BY <1>3, <1>6, <2>2
    <2>6. \A p \in Fingerprints :
            /\ Engine!Agrees(s.predecessors, p, Engine!OfFp(f) \cap Engine!Followers(r, p), maxPredecessors)
            /\ Engine!Agrees(s.continuations, p, Engine!FollowersOfTwo(r, p, f), maxTrigramPredecessors)
      BY <1>3, <1>5, <2>1, <2>3
    <2>7. \A p \in Fingerprints : \A g \in Fingerprints :
            Engine!Agrees(s.trigrams, <<g, p>>, Engine!OfFp(f) \cap Engine!FollowersOfTwo(r, g, p),
                          maxTrigramPredecessors)
      BY <1>3, <1>5, <2>4
    <2>. QED
      BY <2>5, <2>6, <2>7 DEF s
  <1>8. ASSUME NEW v \in Volatiles, v.delegator # NoDelegator
        PROVE  Engine!Agrees(baseline.delegators, v.delegator,
                      {i \in DOMAIN history : history[i].vol.delegator = v.delegator}, maxDelegators)
    BY <1>1, <1>5, <1>8 DEF DelegatedBy
  <1>. QED
    BY <1>1, <1>2, <1>7, <1>8 DEF Engine!BaselineIsHistory, r

\* The signals about an event's place in the sequence.
LEMMA SequenceSignals ==
  ASSUME NEW bl, NEW e
  PROVE  LET x == Engine!Strengths(bl, e)
             s == Engine!StatsOf(bl, e.fp)
             valid == Engine!validTransition(bl, e)
             made == Engine!At(s.predecessors, bl.last)
             total == Engine!StatsOf(bl, bl.last).outgoing
             both == Engine!At(s.trigrams, <<bl.previous, bl.last>>)
             twice == Engine!At(Engine!StatsOf(bl, bl.last).continuations, bl.previous)
         IN /\ x.transition_deviation = IF valid THEN {IF made > 0 THEN 0 ELSE 2} ELSE {0}
            /\ x.transition_rarity # {0} => valid /\ made # 0 /\ ~(made >= total)
            /\ x.ngram_rarity # {0} => valid /\ both # 0 /\ ~(both >= twice)
  <1> DEFINE x == Engine!Strengths(bl, e)
             s == Engine!StatsOf(bl, e.fp)
             valid == Engine!validTransition(bl, e)
             made == Engine!At(s.predecessors, bl.last)
             total == Engine!StatsOf(bl, bl.last).outgoing
             both == Engine!At(s.trigrams, <<bl.previous, bl.last>>)
             twice == Engine!At(Engine!StatsOf(bl, bl.last).continuations, bl.previous)
  <1>1. /\ x.transition_deviation = IF valid THEN Engine!transitionSignal(bl, s) ELSE {0}
        /\ x.transition_rarity = IF valid THEN Engine!transitionRaritySignal(bl, s) ELSE {0}
        /\ x.ngram_rarity = IF valid /\ bl.previous # NoFingerprint
                            THEN Engine!ngramRaritySignal(bl, s) ELSE {0}
    BY DEF Engine!Strengths, Engine!Sequenced
  <1>2. Engine!transitionSignal(bl, s) = {IF made > 0 THEN 0 ELSE 2}
    BY DEF Engine!transitionSignal
  <1>3. Engine!transitionRaritySignal(bl, s) = Engine!Rarity(made, total, MinTransitionObservations)
    BY DEF Engine!transitionRaritySignal
  <1>4. Engine!ngramRaritySignal(bl, s) = Engine!Rarity(both, twice, MinNGramObservations)
    BY DEF Engine!ngramRaritySignal
  <1>5. \A c, t, m : Engine!Rarity(c, t, m) # {0} => c # 0 /\ ~(c >= t)
    BY DEF Engine!Rarity
  <1> HIDE DEF x, s, valid, made, total, both, twice
  <1>6. /\ x.transition_deviation = IF valid THEN {IF made > 0 THEN 0 ELSE 2} ELSE {0}
        /\ x.transition_rarity # {0} => valid /\ made # 0 /\ ~(made >= total)
        /\ x.ngram_rarity # {0} => valid /\ both # 0 /\ ~(both >= twice)
    BY <1>1, <1>2, <1>3, <1>4, <1>5
  <1>. QED
    BY <1>6 DEF x, s, valid, made, total, both, twice

\* The signals say what the history says.
LEMMA EngineSignals ==
  ASSUME EngineInv(baseline, history)
  PROVE  Engine!SignalsAreTrue
  <1> DEFINE h == history  n == Len(h)  r == Engine!Reading
             tail == r.after[n + 1]  after_ == Engine!Followers(r, Engine!FpOf(tail))
  <1>1. /\ h \in Seq(Engine!Events) /\ n \in Nat /\ DOMAIN h = 1..n
        /\ RoomOK(h) /\ TailOK(baseline, h)
        /\ DOMAIN baseline.stats = RoomOf(h)
        /\ \A g \in RoomOf(h) : StatsOK(baseline.stats[g], h, g)
    BY DEF EngineInv
  <1>2. r.room = RoomOf(h) /\ tail = AfterOf(h, n + 1)
    <2>1. n + 1 \in 1..(n + 1)
      BY <1>1
    <2>. QED
      BY <1>1, <2>1, ReadingIs
  <1>3. /\ \A g : Engine!OfFp(g) = IndexesOf(h, g)
        /\ \A p : Engine!Followers(r, p) = FollowersOf(h, p)
    BY <1>1, ReadingCounts
  <1>4. \A i : Engine!FpOf(i) = FpAt(h, i)
    BY DEF Engine!FpOf, FpAt
  <1>5. /\ \A i \in 1..n : h[i] \in Engine!Events
        /\ Engine!Events = [fp : Fingerprints, at : Times, vol : Volatiles]
        /\ Times \subseteq Nat /\ NoFingerprint \notin Fingerprints
    <2>1. \A i \in 1..n : h[i] \in Engine!Events
      BY <1>1
    <2>. QED
      BY <2>1, EngineAssumption DEF Engine!Events, Engine!EngineAssumption
  <1>6. /\ tail = 0 => baseline.last = NoFingerprint
        /\ tail # 0 => /\ tail \in 1..n /\ baseline.last = h[tail].fp /\ baseline.lastTime = h[tail].at
                       /\ h[tail].at \in Nat /\ baseline.last \in Fingerprints /\ baseline.last \in RoomOf(h)
                       /\ Engine!FpOf(tail) = baseline.last
    <2>1. /\ tail = 0 => baseline.last = NoFingerprint
          /\ tail # 0 => /\ tail \in AdmittedOf(h) /\ baseline.last = h[tail].fp
                         /\ baseline.lastTime = h[tail].at
      BY <1>1, <1>2 DEF TailOK
    <2>2. tail # 0 => tail \in 1..n /\ h[tail].fp \in RoomOf(h)
      BY <1>1, <2>1 DEF AdmittedOf
    <2> HIDE DEF tail, n, h
    <2>3. tail # 0 => h[tail].at \in Nat /\ h[tail].fp \in Fingerprints
      BY <1>5, <2>2
    <2>. QED
      BY <1>4, <2>1, <2>2, <2>3 DEF FpAt
  <1> SUFFICES ASSUME NEW f \in Fingerprints, NEW t \in Times
               PROVE  LET x == Engine!Strengths(baseline, [fp |-> f, at |-> t, vol |-> CHOOSE v \in Volatiles : TRUE])
                          s == Engine!StatsOf(baseline, f)
                          inOrder == tail # 0 /\ history[tail].at < t
                          made == IF tail = 0 THEN {} ELSE Engine!OfFp(f) \cap after_
                          new == made = {} \/ f \notin r.room \/ Engine!Cardinality(DOMAIN s.predecessors) = maxPredecessors
                      IN /\ x.transition_deviation = {2} => inOrder /\ new
                         /\ inOrder /\ made = {} => x.transition_deviation = {2}
                         /\ x.transition_rarity # {0} =>
                              inOrder /\ made # {} /\ Engine!Cardinality(made) < Engine!Cardinality(after_)
                         /\ x.ngram_rarity # {0} =>
                               Engine!At(s.trigrams, <<baseline.previous, baseline.last>>)
                                  < Engine!At(baseline.stats[baseline.last].continuations, baseline.previous)
    BY DEF Engine!SignalsAreTrue
  <1> DEFINE e == [fp |-> f, at |-> t, vol |-> CHOOSE v \in Volatiles : TRUE]
             x == Engine!Strengths(baseline, e)
             s == Engine!StatsOf(baseline, f)
             inOrder == tail # 0 /\ history[tail].at < t
             made == IF tail = 0 THEN {} ELSE Engine!OfFp(f) \cap after_
             once == Engine!At(s.predecessors, baseline.last)
             z == Engine!StatsOf(baseline, baseline.last)
             both == Engine!At(s.trigrams, <<baseline.previous, baseline.last>>)
             twice == Engine!At(z.continuations, baseline.previous)
  <1>7. e.fp = f /\ e.at = t
    OBVIOUS
  <1>8. /\ x.transition_deviation =
             IF Engine!validTransition(baseline, e) THEN {IF once > 0 THEN 0 ELSE 2} ELSE {0}
        /\ x.transition_rarity # {0} =>
             Engine!validTransition(baseline, e) /\ once # 0 /\ ~(once >= z.outgoing)
        /\ x.ngram_rarity # {0} =>
             Engine!validTransition(baseline, e) /\ both # 0 /\ ~(both >= twice)
    <2> HIDE DEF e
    <2>. QED
      BY <1>7, SequenceSignals
  <1>9. Engine!validTransition(baseline, e) <=> inOrder
    <2>1. t \in Nat
      BY <1>5
    <2>2. Engine!validTransition(baseline, e) <=> (baseline.last # NoFingerprint /\ t > baseline.lastTime)
      BY <1>7 DEF Engine!validTransition
    <2> HIDE DEF tail, e
    <2>. QED
      BY <1>5, <1>6, <2>1, <2>2
  <1>10. IsFiniteSet(1..n) /\ \A T : T \subseteq 1..n => IsFiniteSet(T) /\ Cardinality(T) \in Nat
                                                        /\ (Cardinality(T) = 0 <=> T = {})
    <2>1. IsFiniteSet(1..n)
      BY <1>1, FS_Interval
    <2>. QED
      BY <2>1, FS_Subset, FS_CardinalityType, FS_EmptySet
  <1> HIDE DEF h, n, r, tail, after_, e, x, inOrder
  <1>11. after_ \subseteq 1..n /\ made \subseteq 1..n
    <2>1. \A p : FollowersOf(h, p) \subseteq 1..n
      BY <1>1 DEF FollowersOf, AheadOf
    <2>. QED
      BY <1>3, <2>1 DEF after_
  <1>12. ASSUME tail # 0, f \in RoomOf(h)
         PROVE  AgreesWith(s.predecessors, baseline.last, made, maxPredecessors)
    <2>1. s = baseline.stats[f]
      BY <1>1, <1>12 DEF Engine!StatsOf
    <2>2. made = IndexesOf(h, f) \cap FollowersOf(h, baseline.last)
      BY <1>3, <1>6, <1>12 DEF after_
    <2>3. StatsOK(baseline.stats[f], h, f)
      BY <1>1, <1>12
    <2>. QED
      BY <1>6, <1>12, <2>1, <2>2, <2>3 DEF StatsOK
  <1>13. ASSUME f \notin RoomOf(h) PROVE once = 0 /\ both = 0
    <2>1. s = Engine!Stats0
      BY <1>1, <1>13 DEF Engine!StatsOf
    <2>2. DOMAIN s.predecessors = {} /\ DOMAIN s.trigrams = {}
      BY <2>1 DEF Engine!Stats0, Engine!Empty
    <2>. QED
      BY <2>2 DEF Engine!At
  <1>14. ASSUME tail # 0
         PROVE  z = baseline.stats[baseline.last] /\ z.outgoing = Cardinality(after_)
    <2>1. z = baseline.stats[baseline.last]
      BY <1>1, <1>6, <1>14 DEF Engine!StatsOf
    <2>2. StatsOK(baseline.stats[baseline.last], h, baseline.last)
      BY <1>1, <1>6, <1>14
    <2>3. after_ = FollowersOf(h, baseline.last)
      BY <1>3, <1>6, <1>14 DEF after_
    <2>. QED
      BY <2>1, <2>2, <2>3 DEF StatsOK
  <1>15. ASSUME tail # 0
         PROVE  /\ once = IF f \in RoomOf(h) /\ baseline.last \in DOMAIN s.predecessors
                          THEN Cardinality(made) ELSE 0
                /\ f \in RoomOf(h) /\ baseline.last \notin DOMAIN s.predecessors
                     => made = {} \/ Cardinality(DOMAIN s.predecessors) = maxPredecessors
    <2> HIDE DEF made, s
    <2>. QED
      BY <1>12, <1>13, <1>15 DEF AgreesWith, Engine!At
  <1>16. ASSUME tail # 0, f \in RoomOf(h)
         PROVE  both \in Nat
    <2>1. s = baseline.stats[f] /\ StatsOK(baseline.stats[f], h, f)
      BY <1>1, <1>16 DEF Engine!StatsOf
    <2>2. Counter(s.trigrams, maxTrigramPredecessors)
      BY <2>1 DEF StatsOK
    <2> HIDE DEF s
    <2>. QED
      BY <2>2 DEF Counter, Engine!At
  <1>17. ASSUME tail # 0 PROVE twice \in Nat
    <2>1. StatsOK(z, h, baseline.last)
      BY <1>1, <1>6, <1>14, <1>17
    <2>2. Counter(z.continuations, maxTrigramPredecessors)
      BY <2>1 DEF StatsOK
    <2> HIDE DEF z
    <2>. QED
      BY <2>2 DEF Counter, Engine!At
  <1>18. Cardinality(made) \in Nat /\ Cardinality(after_) \in Nat /\ (Cardinality(made) = 0 <=> made = {})
    <2> HIDE DEF made
    <2>. QED
      BY <1>10, <1>11
  <1>19. inOrder => tail # 0
    BY DEF inOrder
  <1>20. \A S : Engine!Cardinality(S) = Cardinality(S)
    BY EngineCardinality
  <1> DEFINE new == made = {} \/ f \notin r.room \/ Engine!Cardinality(DOMAIN s.predecessors) = maxPredecessors
  <1> HIDE DEF made, s, once, z, both, twice
  <1>21. x.transition_deviation = {2} => inOrder /\ new
    <2>1. ASSUME x.transition_deviation = {2} PROVE inOrder /\ ~(once > 0)
      <3>1. {0} # {2}
        OBVIOUS
      <3>2. CASE inOrder
        BY <1>8, <1>9, <2>1, <3>1, <3>2
      <3>3. CASE ~inOrder
        BY <1>8, <1>9, <2>1, <3>1, <3>3
      <3>. QED
        BY <3>2, <3>3
    <2>2. ASSUME inOrder, ~(once > 0) PROVE new
      BY <1>2, <1>15, <1>18, <1>19, <1>20, <2>2
    <2> HIDE DEF new
    <2>. QED
      BY <2>1, <2>2
  <1>22. inOrder /\ made = {} => x.transition_deviation = {2}
    <2>1. ASSUME inOrder, made = {} PROVE ~(once > 0)
      BY <1>15, <1>18, <1>19, <2>1
    <2>. QED
      BY <1>8, <1>9, <2>1
  <1>23. x.transition_rarity # {0} =>
           inOrder /\ made # {} /\ Engine!Cardinality(made) < Engine!Cardinality(after_)
    <2>1. ASSUME inOrder, once # 0, ~(once >= z.outgoing)
          PROVE  made # {} /\ Cardinality(made) < Cardinality(after_)
      BY <1>14, <1>15, <1>18, <1>19, <2>1
    <2>. QED
      BY <1>8, <1>9, <1>20, <2>1
  <1>24. x.ngram_rarity # {0} => both < Engine!At(baseline.stats[baseline.last].continuations, baseline.previous)
    <2>1. ASSUME inOrder, both # 0, ~(both >= twice)
          PROVE  both < twice /\ twice = Engine!At(baseline.stats[baseline.last].continuations, baseline.previous)
      <3>1. tail # 0 /\ f \in RoomOf(h)
        BY <1>13, <1>19, <2>1
      <3>2. both \in Nat /\ twice \in Nat
        BY <1>16, <1>17, <3>1
      <3>3. twice = Engine!At(baseline.stats[baseline.last].continuations, baseline.previous)
        BY <1>14, <3>1 DEF twice
      <3>. QED
        BY <2>1, <3>2, <3>3
    <2>. QED
      BY <1>8, <1>9, <2>1
  <1>. QED
    BY <1>21, <1>22, <1>23, <1>24 DEF x, s, inOrder, made, both, e, h

\* Trust is a product of what is left of each factor, so it follows them, and
\* the risk follows trust.
LEMMA EngineTrust == Engine!TrustIsCautious
  <1> DEFINE left(a, c) == 4 - a * c
  <1>1. \A p, q, r, u \in Nat : p <= q /\ r <= u => p * r <= q * u /\ p * r \in Nat
    <2> SUFFICES ASSUME NEW p \in Nat, NEW q \in Nat, NEW r \in Nat, NEW u \in Nat, p <= q, r <= u
                 PROVE  p * r <= q * u /\ p * r \in Nat
      OBVIOUS
    <2>1. q - p \in Nat /\ u - r \in Nat
      OBVIOUS
    <2>2. q * u = p * r + p * (u - r) + (q - p) * u
      OBVIOUS
    <2>3. p * r \in Nat /\ p * (u - r) \in Nat /\ (q - p) * u \in Nat
      BY <2>1
    <2>. QED
      BY <2>2, <2>3
  <1>2. \A a, b, c \in 0..2 : b <= a => left(a, c) <= left(b, c) /\ left(a, c) \in Nat /\ left(b, c) \in Nat
    <2> SUFFICES ASSUME NEW a \in 0..2, NEW b \in 0..2, NEW c \in 0..2, b <= a
                 PROVE  left(a, c) <= left(b, c) /\ left(a, c) \in Nat /\ left(b, c) \in Nat
      OBVIOUS
    <2>1. c = 0 \/ c = 1 \/ c = 2
      OBVIOUS
    <2>2. CASE c = 0
      BY <2>2
    <2>3. CASE c = 1
      BY <2>3
    <2>4. CASE c = 2
      BY <2>4
    <2>. QED
      BY <2>1, <2>2, <2>3, <2>4
  <1>3. \A v \in Engine!Grid : Engine!clampFavorable(v) = v /\ Engine!clampAdverse(v) = v
    BY DEF Engine!Grid, Engine!clampFavorable, Engine!clampAdverse, Engine!NonFinite
  <1>4. Engine!clampAdverse(Engine!NonFinite) = 2
    BY DEF Engine!clampAdverse
  <1>5. Engine!Grid = 0..2 /\ Engine!NonFinite = 3
    BY DEF Engine!Grid, Engine!NonFinite
  <1>6. \A p, q \in Nat : p <= q => Engine!riskRank(q) <= Engine!riskRank(p)
    BY DEF Engine!riskRank
  <1> HIDE DEF left
  <1>7. \A a, c, i \in 0..2, k \in 0..3 :
          Engine!Compute(a, c, i, k) = i * left(a, c) * (2 - (IF k = 3 THEN 2 ELSE k))
    <2> SUFFICES ASSUME NEW a \in 0..2, NEW c \in 0..2, NEW i \in 0..2, NEW k \in 0..3
                 PROVE  Engine!Compute(a, c, i, k) = i * left(a, c) * (2 - (IF k = 3 THEN 2 ELSE k))
      OBVIOUS
    <2>1. /\ Engine!clampFavorable(i) = i /\ Engine!clampAdverse(a) = a /\ Engine!clampAdverse(c) = c
      BY <1>3, <1>5
    <2>2. Engine!clampAdverse(k) = IF k = 3 THEN 2 ELSE k
      BY DEF Engine!clampAdverse, Engine!NonFinite
    <2>. QED
      BY <2>1, <2>2 DEF Engine!Compute, left
  <1>8. ASSUME NEW a \in 0..2, NEW b \in 0..2, NEW c \in 0..2, NEW i \in 0..2, NEW j \in 0..2,
               NEW u \in 0..2, NEW w \in 0..2, b <= a, i <= j, w <= u
        PROVE  /\ i * left(a, c) * (2 - u) <= j * left(b, c) * (2 - w)
               /\ i * left(a, c) * (2 - u) \in Nat /\ j * left(b, c) * (2 - w) \in Nat
    <2>1. left(a, c) \in Nat /\ left(b, c) \in Nat /\ left(a, c) <= left(b, c)
      BY <1>2, <1>8
    <2>2. /\ i * left(a, c) \in Nat /\ j * left(b, c) \in Nat /\ i * left(a, c) <= j * left(b, c)
      <3>1. i \in Nat /\ j \in Nat
        OBVIOUS
      <3>2. i * left(a, c) <= j * left(b, c) /\ i * left(a, c) \in Nat
        BY <1>1, <1>8, <2>1, <3>1
      <3>3. j * left(b, c) \in Nat
        BY <2>1, <3>1
      <3>. QED
        BY <3>2, <3>3
    <2> DEFINE x == i * left(a, c)  y == j * left(b, c)
    <2> HIDE DEF x, y
    <2>3. 2 - u \in Nat /\ 2 - w \in Nat /\ 2 - u <= 2 - w
      BY <1>8
    <2>4. x \in Nat /\ y \in Nat /\ x <= y
      BY <2>2 DEF x, y
    <2>5. x * (2 - u) <= y * (2 - w) /\ x * (2 - u) \in Nat
      BY <1>1, <2>3, <2>4
    <2>6. y * (2 - w) \in Nat
      BY <2>3, <2>4
    <2>. QED
      BY <2>5, <2>6 DEF x, y
  <1>9. ASSUME NEW a \in 0..2, NEW c \in 0..2, NEW i \in 0..2, NEW k \in 0..3,
               NEW b \in 0..2, NEW j \in 0..2, NEW n \in 0..2,
               b <= a, i <= j, n <= k
        PROVE  Engine!riskRank(Engine!Compute(b, c, j, n)) <= Engine!riskRank(Engine!Compute(a, c, i, k))
    <2> DEFINE u == IF k = 3 THEN 2 ELSE k  p == i * left(a, c) * (2 - u)  q == j * left(b, c) * (2 - n)
    <2>1. u \in 0..2 /\ n <= u
      BY <1>9
    <2>2. Engine!Compute(a, c, i, k) = p
      BY <1>7
    <2>3. Engine!Compute(b, c, j, n) = q
      <3>1. n \in 0..3 /\ n # 3
        OBVIOUS
      <3>. QED
        BY <1>7, <3>1
    <2> HIDE DEF u
    <2>4. p <= q /\ p \in Nat /\ q \in Nat
      BY <1>8, <1>9, <2>1
    <2> HIDE DEF p, q
    <2>. QED
      BY <1>6, <2>2, <2>3, <2>4
  <1>10. ASSUME NEW a \in 0..2, NEW c \in 0..2, NEW i \in 0..2, NEW n \in 0..2
         PROVE  Engine!riskRank(Engine!Compute(a, c, i, 3)) >= Engine!riskRank(Engine!Compute(a, c, i, n))
    <2>1. 3 \in 0..3 /\ n <= 3 /\ a <= a /\ i <= i
      OBVIOUS
    <2>2. Engine!riskRank(Engine!Compute(a, c, i, n)) <= Engine!riskRank(Engine!Compute(a, c, i, 3))
      BY <1>9, <2>1
    <2>3. \A s : Engine!riskRank(s) \in Nat
      BY DEF Engine!riskRank
    <2>. QED
      BY <2>2, <2>3
  <1>11. Engine!Grid \cup {Engine!NonFinite} = 0..3
    BY <1>5
  <1>. QED
    BY <1>5, <1>9, <1>10, <1>11 DEF Engine!TrustIsCautious

\* A step of the engine keeps what is learned true.
LEMMA EngineStep ==
  ASSUME EngineInv(baseline, history), [Engine!Next]_(Engine!vars)
  PROVE  EngineInv(baseline, history)'
  <1>1. CASE UNCHANGED Engine!vars
    BY <1>1 DEF Engine!vars, EngineInv
  <1>2. CASE Engine!Next
    <2>1. PICK e \in Engine!Events : \E decision \in Engine!Analyze(e) :
              Engine!Learn(e, decision) \/ Engine!Refuse(decision)
      BY <1>2 DEF Engine!Next
    <2>2. PICK decision \in Engine!Analyze(e) : Engine!Learn(e, decision) \/ Engine!Refuse(decision)
      BY <2>1
    <2>3. CASE Engine!Refuse(decision)
      BY <2>3 DEF Engine!Refuse, Engine!vars
    <2>4. CASE Engine!Learn(e, decision)
      <3>1. baseline' = Engine!BaselineObserve(baseline, e) /\ history' = Append(history, e)
        BY <2>4 DEF Engine!Learn
      <3>2. EngineInv(Engine!BaselineObserve(baseline, e), Append(history, e))
        BY EngineLearns
      <3>. QED
        BY <3>1, <3>2
    <2>. QED
      BY <2>2, <2>3, <2>4
  <1>. QED
    BY <1>1, <1>2

-----------------------------------------------------------------------------
\* Whatever order events come in, what the engine learned is exactly the history
\* it learned from and its signals and its trust say what the history says; and
\* however a report's loads interleave with the spans they count, it agrees with
\* itself, the last one being complete (internal/baseline, internal/anomaly,
\* internal/trust, processor reporter.go).
THEOREM ProcessorSound == CollectionSpec => []ProcessorIsSound
  <1> DEFINE EnginePart == part = "engine" => EngineInv(baseline, history)
             ReporterPart == part = "reporting" => ReporterInv
  <1>1. CollectionInit => EnginePart /\ ReporterPart
    <2>1. Engine!Init => EngineInv(baseline, history)
      BY EngineStarts DEF Engine!Init
    <2>. QED
      BY <2>1, ReporterStarts DEF CollectionInit
  <1>2. EnginePart /\ [CollectionNext]_all => EnginePart'
    <2> SUFFICES ASSUME part = "engine", EngineInv(baseline, history), [CollectionNext]_all
                 PROVE  EngineInv(baseline, history)'
      BY PartStays
    <2>1. [Engine!Next]_(Engine!vars)
      BY DEF CollectionNext, all, engineVars, Engine!vars
    <2>. QED
      BY <2>1, EngineStep
  <1>3. ReporterPart /\ [CollectionNext]_all => ReporterPart'
    <2> SUFFICES ASSUME part = "reporting", ReporterInv, [CollectionNext]_all
                 PROVE  ReporterInv'
      BY PartStays
    <2>1. [Reporter!Next]_(Reporter!vars)
      BY DEF CollectionNext, all, reportingVars, Reporter!vars
    <2>. QED
      BY <2>1, ReporterStep
  <1>4. EnginePart /\ ReporterPart => ProcessorIsSound
    BY EngineLearned, EngineSignals, EngineTrust, ReporterSound
    DEF ProcessorIsSound, Engine!DecisionsAreSound
  <1>. QED
    BY <1>1, <1>2, <1>3, <1>4, PTL DEF CollectionSpec
=============================================================================
