----------------------------- MODULE MCProgress -----------------------------
(* What must eventually end, for TLC: a stream and its slot, a dashboard's  *)
(* reconnection, an Observe call that is flushed to a file, a development   *)
(* session past its deadline, the stop of a local runtime. Each initial     *)
(* state chooses the component that runs; the variables of the others rest, *)
(* those of the file store in an initial state.                             *)
EXTENDS BaselineFileStore, Naturals, TLC

CONSTANTS
    Resting, r1, k1, k2, c1, c2, c3,
    LocalProcs, LocalPorts,                      \* processes of one state directory
    SessionModes, SignalBound, FailureBound, CollectorPorts   \* a development session

VARIABLES
    part,   \* the component this behaviour is of
    \* RealtimeBus
    closed, nextID, subscribers, filter, queue, ended, handler, hand, watcher,
    cancelled, published, since, written,
    \* Dashboard
    status, records, due, skipped, conn, wire, cut, reads, timers, state, gen, shown,
    live, pending, resyncing, everLive, quitting, drops, keys,
    \* DevSession
    mode, attached, handover, sessionPc, code, attempt, lock, runtime, collector,
    workload, outcome, stragglers, run, runStarted, runCompleted, reported, previous,
    heard, relay, signals, sent, relaying, deadlineDone, sessionFailures,
    \* LocalRuntime
    localPc, port, bound, store, bus, requests, streams, timedOut, waiter, discovery,
    seen, raced

busVars == <<closed, nextID, subscribers, filter, queue, ended, handler, hand, watcher,
             cancelled, published, since, written>>
tuiVars == <<status, records, due, skipped, conn, wire, cut, reads, timers, state, gen,
             shown, live, pending, resyncing, everLive, quitting, drops, keys>>
sessionVars == <<mode, attached, handover, sessionPc, code, attempt, lock, runtime,
                 collector, workload, outcome, stragglers, run, runStarted, runCompleted,
                 reported, previous, heard, relay, signals, sent, relaying, deadlineDone, sessionFailures>>
localVars == <<localPc, port, bound, store, bus, requests, streams, timedOut, waiter,
               discovery, seen, raced>>
all == <<part, busVars, tuiVars, vars, sessionVars, localVars>>

\* The other components rest.
BusRests ==
    /\ closed = Resting /\ nextID = Resting /\ subscribers = Resting /\ filter = Resting
    /\ queue = Resting /\ ended = Resting /\ handler = Resting /\ hand = Resting
    /\ watcher = Resting /\ cancelled = Resting /\ published = Resting /\ since = Resting
    /\ written = Resting
TuiRests ==
    /\ status = Resting /\ records = Resting /\ due = Resting /\ skipped = Resting
    /\ conn = Resting /\ wire = Resting /\ cut = Resting /\ reads = Resting
    /\ timers = Resting /\ state = Resting /\ gen = Resting /\ shown = Resting
    /\ live = Resting /\ pending = Resting /\ resyncing = Resting /\ everLive = Resting
    /\ quitting = Resting /\ drops = Resting /\ keys = Resting
SessionRests ==
    /\ mode = Resting /\ attached = Resting /\ handover = Resting /\ sessionPc = Resting
    /\ code = Resting /\ attempt = Resting /\ lock = Resting /\ runtime = Resting
    /\ collector = Resting /\ workload = Resting /\ outcome = Resting
    /\ stragglers = Resting /\ run = Resting /\ runStarted = Resting
    /\ runCompleted = Resting /\ reported = Resting /\ previous = Resting
    /\ heard = Resting /\ relay = Resting /\ signals = Resting
    /\ sent = Resting /\ relaying = Resting /\ deadlineDone = Resting
    /\ sessionFailures = Resting
LocalRests ==
    /\ localPc = Resting /\ port = Resting /\ bound = Resting /\ store = Resting /\ bus = Resting
    /\ requests = Resting /\ streams = Resting /\ timedOut = Resting /\ waiter = Resting
    /\ discovery = Resting /\ seen = Resting
    /\ raced = Resting

\* One slot, for which two clients come one after the other.
Bus == INSTANCE RealtimeBus WITH
    Runs <- {r1}, queueCapacity <- 1, maxSubscribers <- 1, MaxSubscriptions <- 2, MaxEvents <- 2
\* A run that starts, takes a record and ends, and one failure.
Tui == INSTANCE Dashboard WITH
    Statuses <- {"pending", "running", "completed"}, Overlapping <- FALSE,
    tuiPendingEventCapacity <- 1, tuiObservationCapacity <- 2,
    MaxRecords <- 1, MaxDrops <- 1, MaxKeys <- 0
\* Two calls for one key, which must share a shard, and one for another.
MCKeyOf == (c1 :> k1) @@ (c2 :> k1) @@ (c3 :> k2)
Session == INSTANCE DevSession WITH
    Modes <- SessionModes, MaxSignals <- SignalBound, MaxFailures <- FailureBound,
    PortAttempts <- CollectorPorts,
    pc <- sessionPc, queue <- signals, failures <- sessionFailures
Local == INSTANCE LocalRuntime WITH
    Procs <- LocalProcs, Ports <- LocalPorts, file <- discovery, pc <- localPc

ASSUME PartsAssumption ==
    Tui!DashboardAssumption /\ Session!SessionAssumption /\ Local!NamesAssumption

BusAlone == TuiRests /\ Init /\ SessionRests /\ LocalRests
BusOnly  == UNCHANGED <<part, tuiVars, vars, sessionVars, localVars>>
TuiAlone == BusRests /\ Init /\ SessionRests /\ LocalRests
TuiOnly  == UNCHANGED <<part, busVars, vars, sessionVars, localVars>>
FileAlone == BusRests /\ TuiRests /\ SessionRests /\ LocalRests
FileOnly  == UNCHANGED <<part, busVars, tuiVars, sessionVars, localVars>>
SessionAlone == BusRests /\ TuiRests /\ Init /\ LocalRests
SessionOnly  == UNCHANGED <<part, busVars, tuiVars, vars, localVars>>
LocalAlone == BusRests /\ TuiRests /\ Init /\ SessionRests
LocalOnly  == UNCHANGED <<part, busVars, tuiVars, vars, sessionVars>>

ProgressInit ==
    \/ part = "bus" /\ Bus!Init /\ BusAlone
    \/ part = "dashboard" /\ Tui!Init /\ TuiAlone
    \/ part = "file" /\ Init /\ FileAlone
    \/ part = "session" /\ Session!Init /\ SessionAlone
    \/ part = "local" /\ Local!Init /\ LocalAlone

ProgressNext ==
    \/ part = "bus" /\ Bus!Next /\ BusOnly
    \/ part = "dashboard" /\ Tui!Next /\ TuiOnly
    \/ part = "file" /\ Next /\ FileOnly
    \/ part = "session" /\ Session!Next /\ SessionOnly
    \/ part = "local" /\ Local!Next /\ LocalOnly

\* The fairness each component's own specification states.
ProgressFairness ==
    /\ \A s \in 1..2 : /\ WF_busVars(part = "bus" /\ Bus!Serve(s))
                       /\ WF_busVars(part = "bus" /\ Bus!Watch(s))
    /\ WF_tuiVars(part = "dashboard" /\ ~quitting /\ Tui!Work)
    /\ WF_vars(part = "file" /\ NewFileStore)
    /\ \A c \in Calls : WF_vars(part = "file" /\ Step(c))
    /\ WF_sessionVars(part = "session" /\ Session!Session)
    /\ WF_sessionVars(part = "session" /\ Session!run_take)
    /\ WF_sessionVars(part = "session" /\ Session!run_forward)
    /\ WF_sessionVars(part = "session" /\ Session!expire)
    /\ WF_sessionVars(part = "session" /\ Session!terminate)
    /\ \A p \in LocalProcs : /\ WF_localVars(part = "local" /\ Local!Stop(p))
                             /\ WF_localVars(part = "local" /\ Local!Wait(p))

ProgressSpec == ProgressInit /\ [][ProgressNext]_all /\ ProgressFairness

\* However its streams break, the dashboard becomes live again or the user ends
\* it (tui_model.go, handleStreamEnd and scheduleReconnect).
Recovers == <>[](part = "dashboard" => quitting \/ Tui!Settled)

\* A development session leaves nothing running, completes a run only with its
\* evidence, and exits with what happened (dev.go, devSession).
SessionIsSound == part = "session" => Session!SessionIsSound

\* A runtime that published beside no rival is found while it serves, two that
\* serve at once were rivals, and a clean end leaves nothing open
\* (localruntime/runtime.go, Start, Stop and discovery).
RuntimeIsSound == part = "local" => Local!RuntimeIsSound

\* A client that goes away gives its slot and its handler back, however slowly
\* it reads (httpapi/realtime.go; realtime.go, remove).
SlotsComeBack ==
    \A i \in 1..2 : (part = "bus" /\ Bus!Over(i)) ~> (part = "bus" /\ Bus!Released(i))

\* Stop of a runtime returns: neither streams nor the goroutine in Wait hold it
\* (localruntime/runtime.go, Stop).
StopReturns ==
    \A p \in LocalProcs :
        (part = "local" /\ localPc[p] = "stop") ~> (part = "local" /\ localPc[p] \in {"done", "killed"})

\* Every Observe returns, for nobody waits for flushMu for ever (internal/store/file.go);
\* and once the deadline has passed the session returns, whatever the workload
\* does with SIGTERM (dev_signals.go, signalRelay.expire and terminate).
CallsAndSessionsEnd ==
    \/ part = "file"
    \/ part = "session" /\ mode = "suite" /\ deadlineDone
    ~>
    \/ part = "file" /\ \A c \in Calls : pc[c] \in {"done", "failed"}
    \/ part = "session" /\ Session!Ended
=============================================================================
