---------------------------- MODULE PipelineStatus ----------------------------
(***************************************************************************)
(* Pipeline status, from a span to the status page (statusSnapshot,        *)
(* ConsumeTraces and processSpan of src/processor/processor.go,            *)
(* src/processor/internal/status, src/platform/status.go, status_rules.go  *)
(* and httpapi/status.go).                                                 *)
(*                                                                         *)
(* Each Collector counts spans from several goroutines while its reporter  *)
(* loads the counters one after another and posts them.  A post may time   *)
(* out and arrive later or never; a Collector may stop or crash and come   *)
(* back as a new instance.  The control plane holds the latest report per  *)
(* Collector in a bounded registry, forgets silent ones, and derives from  *)
(* it whether Collectors report and where the user should land.            *)
(***************************************************************************)
EXTENDS Naturals, FiniteSets, Sequences

CONSTANTS
    Collectors,
    Producers,         \* service names
    MaxSpans,          \* [Collectors -> Nat], spans one process handles
    MaxReports,        \* [Collectors -> Nat], reports one process sends
    MaxInstances,      \* [Collectors -> Nat], processes it goes through
    MaxHeld,           \* MaxStatusCollectors
    FreshWindow,       \* StatusFreshWindow, in ticks
    Expiry,            \* StatusExpiry
    MaxDelay,          \* ticks a request may take to arrive
    MaxTime,
    Ingests,           \* ingest requests that commit a record
    None

ASSUME BoundsAssumption ==
    /\ {MaxSpans, MaxReports, MaxInstances} \subseteq [Collectors -> Nat]
    /\ {MaxHeld, FreshWindow, Expiry, MaxDelay,
        MaxTime} \subseteq Nat
    /\ FreshWindow < Expiry

VARIABLES
    now,       \* the clock, common to every process
    process,   \* [Collectors -> its present process]
    net,       \* reports posted and not yet recorded
    held,      \* [Collectors -> None or [report, receivedAt]]
    ingest,    \* [Ingests -> its progress through noteIngest]
    lastIngest,
    changes    \* what a status reader was last notified of

vars == <<now, process, net, held, ingest, lastIngest, changes>>

\* A process that has just started: nothing counted, nothing sent.
Started(instance) ==
    [instance |-> instance, sequence |-> 0, started |-> now,
     received |-> 0, seen |-> [p \in Producers |-> None]]

Init ==
    /\ now = 1
    /\ process = [c \in Collectors |-> Started(1)]
    /\ net = {}
    /\ held = [c \in Collectors |-> None]
    /\ ingest = [i \in Ingests |-> [at |-> 0, read |-> 0, pc |-> "new"]]
    /\ lastIngest = 0
    /\ changes = [c \in Collectors |-> None]

Others == <<net, held, ingest, lastIngest, now, changes>>

--------------------------------------------------------------------------------
\* A Collector, its span path and its snapshot each in one step: that the
\* parts of a snapshot agree is CollectorReporting's theorem.

ConsumeTraces(c, p) ==
    /\ process[c].received < MaxSpans[c]
    /\ process' = [process EXCEPT ![c].received = @ + 1, ![c].seen[p] = now]
    /\ UNCHANGED Others

Known(c) == {p \in Producers : process[c].seen[p] # None}

Report(c) ==
    [collector |-> c, instance |-> process[c].instance, sequence |-> process[c].sequence + 1,
     received |-> process[c].received, uptime |-> now - process[c].started,
     ages |-> [p \in Known(c) |-> now - process[c].seen[p]], sentAt |-> now]

\* One post at a time; the next may follow a timeout, the last one still on
\* its way.
send(c) ==
    /\ process[c].sequence < MaxReports[c]
    /\ net' = net \cup {Report(c)}
    /\ process' = [process EXCEPT ![c].sequence = @ + 1]
    /\ UNCHANGED <<held, ingest, lastIngest, now, changes>>

\* A crash or a stop, and a new process under the same name.
Restart(c) ==
    /\ process[c].instance < MaxInstances[c]
    /\ process' = [process EXCEPT ![c] = Started(process[c].instance + 1)]
    /\ UNCHANGED Others

--------------------------------------------------------------------------------
\* The control plane.

Lose(r) ==
    /\ net' = net \ {r}
    /\ UNCHANGED <<process, held, ingest, lastIngest, now, changes>>

\* Expired entries leave first, so a Collector that went away hands its slot
\* back.
Unexpired == [c \in Collectors |-> IF held[c] # None /\ now > held[c].receivedAt + Expiry
                                       THEN None ELSE held[c]]

Full(kept) == Cardinality({c \in Collectors : kept[c] # None}) >= MaxHeld

Held(r) == [report |-> r, receivedAt |-> now]

\* Faulty variant: whatever arrives is the latest.
LastArrivalWins(r) ==
    LET kept == Unexpired IN
    IF kept[r.collector] = None /\ Full(kept) THEN kept
    ELSE [kept EXCEPT ![r.collector] = Held(r)]

\* A report older than the one held from the same process is ignored; a new
\* Collector needs a free slot.
record(r) ==
    LET kept == Unexpired  h == kept[r.collector] IN
    IF h # None /\ h.report.instance = r.instance /\ r.sequence <= h.report.sequence THEN kept
    ELSE IF h = None /\ Full(kept) THEN kept
    ELSE [kept EXCEPT ![r.collector] = Held(r)]

\* The facts a reader sees of a report; what advances on every report is not
\* among them.
Facts(r) == [instance |-> r.instance, received |-> r.received, producers |-> DOMAIN r.ages]

sameFacts(a, b) == Facts(a) = Facts(b)

\* Readers are told when what is held changed, and read the page again.
ReportCollectorStatus(r) ==
    LET kept == Unexpired  h == kept[r.collector]
        accepted == record(r)[r.collector] # h
        changed  == accepted /\ (h = None \/ ~sameFacts(h.report, r))
    IN /\ net' = net \ {r}
       /\ held' = record(r)
       /\ changes' = IF changed THEN [changes EXCEPT ![r.collector] = Facts(r)] ELSE changes
       /\ UNCHANGED <<process, ingest, lastIngest, now>>

\* noteIngest: a record was committed; compare-and-swap until the time noted
\* is at least this one.
Receive(i) ==
    /\ ingest[i].pc = "new"
    /\ ingest' = [ingest EXCEPT ![i] = [at |-> now, read |-> 0, pc |-> "load"]]
    /\ UNCHANGED <<process, net, held, lastIngest, now, changes>>

NoteLoad(i) ==
    /\ ingest[i].pc = "load"
    /\ ingest' = [ingest EXCEPT ![i].read = lastIngest,
                                ![i].pc = IF lastIngest >= ingest[i].at THEN "done" ELSE "swap"]
    /\ UNCHANGED <<process, net, held, lastIngest, now, changes>>

NoteSwap(i) ==
    /\ ingest[i].pc = "swap"
    /\ lastIngest' = IF lastIngest = ingest[i].read THEN ingest[i].at ELSE lastIngest
    /\ ingest' = [ingest EXCEPT ![i].pc = IF lastIngest = ingest[i].read THEN "done" ELSE "load"]
    /\ UNCHANGED <<process, net, held, now, changes>>

\* Time; a request past the longest delay is lost.
Tick ==
    /\ now < MaxTime
    /\ now' = now + 1
    /\ net' = {r \in net : now' <= r.sentAt + MaxDelay}
    /\ UNCHANGED <<process, held, ingest, lastIngest, changes>>

Next ==
    \/ Tick
    \/ \E c \in Collectors :
         \/ \E p \in Producers : ConsumeTraces(c, p)
         \/ send(c) \/ Restart(c)
    \/ \E r \in net : Lose(r) \/ ReportCollectorStatus(r)
    \/ \E i \in Ingests : Receive(i) \/ NoteLoad(i) \/ NoteSwap(i)

Spec == Init /\ [][Next]_vars

--------------------------------------------------------------------------------
\* What the status page says, read at the present instant.

snapshot == {c \in Collectors : held[c] # None /\ now <= held[c].receivedAt + Expiry}

\* Faulty variant: a Collector counts as reporting until it is forgotten.
ReportingWhileHeld == snapshot

Reporting == {c \in snapshot : now <= held[c].receivedAt + FreshWindow}

\* When a producer was last seen, by the control plane's clock.
\* (Naturals only: the age of a report never exceeds its reception.)
LastSeen(c, p) == held[c].receivedAt - held[c].report.ages[p]

ActiveProducers(c) ==
    {p \in DOMAIN held[c].report.ages : now <= LastSeen(c, p) + FreshWindow}

ingestFresh == lastIngest # 0 /\ now <= lastIngest + FreshWindow

landingFor ==
    IF ingestFresh \/ \E c \in Reporting : ActiveProducers(c) # {} THEN "live" ELSE "status"

ruleNoCollector == Reporting = {}

ruleNoProducer ==
    /\ \A c \in Reporting : ActiveProducers(c) = {}
    /\ \E c \in Reporting :
          now >= held[c].receivedAt - held[c].report.uptime + FreshWindow

--------------------------------------------------------------------------------
\* When the Collector really last heard the producer, as of the report.
SeenAt(r, p) == r.sentAt - r.ages[p]

\* The status page tells the truth within the network's delay: a
\* Collector shown as reporting did post within the window, the user is sent
\* to the live view only if a span or a record did arrive, and "no producer"
\* is said only if the reporting Collectors had seen none; and whoever reads
\* it when notified has seen the facts now held
\* (PipelineStatus, landingFor, status_rules.go).
StatusIsTrue ==
    LET Recent(t) == t # 0 /\ now <= t + FreshWindow + MaxDelay IN
    /\ \A c \in Reporting : Recent(held[c].report.sentAt)
    /\ landingFor = "live" =>
          \/ \E i \in Ingests : ingest[i].pc # "new" /\ Recent(ingest[i].at)
          \/ \E c \in Reporting : \E p \in DOMAIN held[c].report.ages :
                Recent(SeenAt(held[c].report, p))
    /\ ruleNoProducer =>
          \A c \in Reporting : \A p \in DOMAIN held[c].report.ages :
             SeenAt(held[c].report, p) + FreshWindow < now
    /\ \A i \in Ingests : ingest[i].pc = "done" => lastIngest >= ingest[i].at
    /\ \A c \in Collectors : held[c] # None => changes[c] = Facts(held[c].report)

\* A late report never rolls back what is held of the process it
\* came from, and the time of the last ingest never moves back (record,
\* noteIngest).
NothingGoesBack ==
    /\ lastIngest' >= lastIngest
    /\ \A c \in Collectors :
          held[c] # None /\ held'[c] # None
             /\ held[c].report.instance = held'[c].report.instance =>
                LET a == held[c].report  b == held'[c].report IN
                /\ b.sequence >= a.sequence
                /\ b.received >= a.received

\* Whatever arrives late, the registry and the last ingest only move forward
\* (record, noteIngest).
StatusNeverGoesBack == [][NothingGoesBack]_vars
================================================================================
