---------------------------- MODULE LocalRuntime ----------------------------
(***************************************************************************)
(* trustvian-local (platform/localruntime and platform/cmd/trustvian-local):*)
(* processes that start, serve and stop in one state directory, and the    *)
(* discovery file through which clients find the one that serves.          *)
(*                                                                         *)
(* A process is its main goroutine and the goroutine that waits for Serve. *)
(* It may be killed at any step, and nothing keeps the starts and the stops*)
(* of two processes apart. A port that one process gave up can be the next *)
(* one's, always so when --listen names it.                                *)
(***************************************************************************)
EXTENDS Integers, FiniteSets

CONSTANTS
    Procs,
    Ports

Foreign == "foreign"    \* an endpoint that is not on this machine's loopback

\* Assumed of the constants; the instance for TLC says so with an ASSUME.
NamesAssumption ==
    /\ {"none", "junk", Foreign} \cap Ports = {}
    /\ "nobody" \notin Procs

VARIABLES
    pc,                  \* [Procs -> step of Start, serve and Stop]
    port, bound,         \* [Procs -> apiURL's port], and whether its listener is open
    store, bus,          \* [Procs -> "none", "open", "closed"]
    requests, streams,   \* [Procs -> BOOLEAN]: an ordinary request, an event stream
    timedOut,            \* [Procs -> BOOLEAN]: graceful shutdown gave up
    waiter,              \* [Procs -> run's goroutine in Wait: "none", "waiting", "seen"]
    file,                \* runtime.json: the endpoint it names, and who wrote it
    seen,                \* [Procs -> the endpoint that Start read there and is to dial]
    raced                \* [Procs -> BOOLEAN]: published beside a rival (history)
vars == <<pc, port, bound, store, bus, requests, streams, timedOut, waiter, file, seen, raced>>

NoFile == [url |-> "none", by |-> "nobody"]
listener == <<port, bound>>
handlers == <<requests, streams>>
looks == <<seen, raced>>

\* The directory may hold a file of an earlier process, or one checked out
\* with the project.
Init ==
    /\ pc = [p \in Procs |-> "idle"]
    /\ port = [p \in Procs |-> "none"] /\ bound = [p \in Procs |-> FALSE]
    /\ store = [p \in Procs |-> "none"] /\ bus = [p \in Procs |-> "none"]
    /\ requests = [p \in Procs |-> FALSE] /\ streams = [p \in Procs |-> FALSE]
    /\ timedOut = [p \in Procs |-> FALSE] /\ waiter = [p \in Procs |-> "none"]
    /\ file \in {NoFile} \cup [url : Ports \cup {"junk", Foreign}, by : {"nobody"}]
    /\ seen = [p \in Procs |-> "none"] /\ raced = [p \in Procs |-> FALSE]

Goto(p, step) == pc' = [pc EXCEPT ![p] = step]
\* What only the process knew and did is gone with it.
Gone(p) ==
    /\ port' = [port EXCEPT ![p] = "none"]
    /\ requests' = [requests EXCEPT ![p] = FALSE] /\ streams' = [streams EXCEPT ![p] = FALSE]
    /\ timedOut' = [timedOut EXCEPT ![p] = FALSE] /\ waiter' = [waiter EXCEPT ![p] = "none"]
    /\ seen' = [seen EXCEPT ![p] = "none"] /\ raced' = [raced EXCEPT ![p] = FALSE]
Listening(u) == \E q \in Procs : bound[q] /\ port[q] = u

(* ---------------------------------- Start ---------------------------------- *)

\* run: flags, the listen address and the backend are refused before anything exists.
Start(p) ==
    /\ pc[p] = "idle"
    /\ Goto(p, "probe") \/ Goto(p, "done")
    /\ UNCHANGED <<listener, store, bus, handlers, timedOut, waiter, file, looks>>

\* ReadDiscovery: what a bounded, validated read makes of the file.
ReadDiscovery == IF file.url \in {"none", "junk", Foreign} THEN {} ELSE {file.url}

\* refuseIfRuntimeIsLive: the file is read, and then what it named is dialled.
refuseIfRuntimeIsLive(p) ==
    /\ \/ pc[p] = "probe" /\ ReadDiscovery = {} /\ Goto(p, "open") /\ UNCHANGED seen
       \/ /\ pc[p] = "probe" /\ \E u \in ReadDiscovery : seen' = [seen EXCEPT ![p] = u]
          /\ Goto(p, "dial")
       \/ /\ pc[p] = "dial" /\ seen' = [seen EXCEPT ![p] = "none"]
          /\ Goto(p, IF Listening(seen[p]) THEN "done" ELSE "open")
    /\ UNCHANGED <<listener, store, bus, handlers, timedOut, waiter, file, raced>>

openBackend(p) ==
    /\ pc[p] = "open"
    /\ \/ /\ store' = [store EXCEPT ![p] = "open"] /\ bus' = [bus EXCEPT ![p] = "open"]
          /\ Goto(p, "bind")
       \/ Goto(p, "done") /\ UNCHANGED <<store, bus>>
    /\ UNCHANGED <<listener, handlers, timedOut, waiter, file, looks>>

\* The handlers are composed and the port is bound, or what was opened is closed.
CannotListen(p) ==
    /\ pc[p] = "bind" /\ Goto(p, "done")
    /\ store' = [store EXCEPT ![p] = "closed"] /\ bus' = [bus EXCEPT ![p] = "closed"]
    /\ UNCHANGED <<listener, handlers, timedOut, waiter, file, looks>>
Listen(p) ==
    /\ pc[p] = "bind"
    /\ \E u \in {v \in Ports : ~Listening(v)} : port' = [port EXCEPT ![p] = u]
    /\ bound' = [bound EXCEPT ![p] = TRUE] /\ Goto(p, "publish")
    /\ UNCHANGED <<store, bus, handlers, timedOut, waiter, file, looks>>

\* Who may act on what the file was before p published: a start or a stop that
\* has read it, or a stop that will take p's endpoint for its own.
Rivals(p) ==
    {q \in Procs \ {p} :
        \/ pc[q] \in {"dial", "open", "bind", "publish", "remove"}
        \/ pc[q] \in {"stop", "drain", "join", "compare"} /\ port[q] = port[p]}

\* writeDiscovery renames a complete file into place; a runtime that cannot
\* be found is stopped again.
writeDiscovery(p) ==
    /\ pc[p] = "publish"
    /\ \/ /\ file' = [url |-> port[p], by |-> p]
          /\ waiter' = [waiter EXCEPT ![p] = "waiting"]
          /\ raced' = [raced EXCEPT ![p] = Rivals(p) # {}]
          /\ Goto(p, "serving")
       \/ Goto(p, "stop") /\ UNCHANGED <<file, waiter, raced>>
    /\ UNCHANGED <<listener, store, bus, handlers, timedOut, seen>>

(* --------------------------------- Serving --------------------------------- *)

Arrive(p) ==
    /\ bound[p]
    /\ \/ ~requests[p] /\ requests' = [requests EXCEPT ![p] = TRUE] /\ UNCHANGED streams
       \/ ~streams[p] /\ bus[p] = "open" /\ streams' = [streams EXCEPT ![p] = TRUE] /\ UNCHANGED requests
    /\ UNCHANGED <<pc, listener, store, bus, timedOut, waiter, file, looks>>

\* A handler returns; a stream does so on its own only once the bus is closed.
Return(p) ==
    /\ \/ requests[p] /\ requests' = [requests EXCEPT ![p] = FALSE] /\ UNCHANGED streams
       \/ streams[p] /\ bus[p] = "closed" /\ streams' = [streams EXCEPT ![p] = FALSE] /\ UNCHANGED requests
    /\ UNCHANGED <<pc, listener, store, bus, timedOut, waiter, file, looks>>

\* run: a signal, or Serve returning on its own, which the waiter reports.
Interrupted(p) ==
    /\ pc[p] = "serving"
    /\ \/ UNCHANGED <<bound, waiter>>
       \/ bound' = [bound EXCEPT ![p] = FALSE] /\ waiter' = [waiter EXCEPT ![p] = "seen"]
    /\ Goto(p, "stop")
    /\ UNCHANGED <<port, store, bus, handlers, timedOut, file, looks>>

(* ----------------------------------- Stop ----------------------------------- *)

\* Stop closes the bus, so that streams return, before it shuts the server down.
CloseBus(p) ==
    /\ pc[p] = "stop" /\ Goto(p, "drain")
    /\ bus' = [bus EXCEPT ![p] = "closed"] /\ bound' = [bound EXCEPT ![p] = FALSE]
    /\ UNCHANGED <<port, store, handlers, timedOut, waiter, file, looks>>

\* server.Shutdown returns when the handlers have, or when its time is up: a
\* request may outlast it, and so may a stream that still writes what is queued,
\* each frame under a deadline of its own.
Shutdown(p) ==
    /\ pc[p] = "drain"
    /\ \/ ~requests[p] /\ ~streams[p] /\ UNCHANGED timedOut
       \/ (requests[p] \/ streams[p]) /\ timedOut' = [timedOut EXCEPT ![p] = TRUE]
    /\ Goto(p, "join")
    /\ UNCHANGED <<listener, store, bus, handlers, waiter, file, looks>>

\* Faulty variant: one value is sent, and whoever receives it first has it.
ServeErrorReceivedOnce(p) == ~bound[p] /\ waiter[p] # "seen"

\* serveDone is closed rather than sent on: Stop and Wait both observe it.
serveDone(p) == ~bound[p]

Wait(p) ==
    /\ waiter[p] = "waiting" /\ serveDone(p)
    /\ waiter' = [waiter EXCEPT ![p] = "seen"]
    /\ UNCHANGED <<pc, listener, store, bus, handlers, timedOut, file, looks>>

CloseStore(p) ==
    /\ pc[p] = "join" /\ serveDone(p)
    /\ store' = [store EXCEPT ![p] = "closed"] /\ Goto(p, "compare")
    /\ UNCHANGED <<listener, bus, handlers, timedOut, waiter, file, looks>>

\* Faulty variant: whoever stops removes the file.
RemoveDiscovery(p) ==
    /\ pc[p] = "compare" /\ file' = NoFile /\ Goto(p, "done") /\ Gone(p)
    /\ UNCHANGED <<bound, store, bus>>

\* removeOwnedDiscovery reads the file, and then removes whatever is there; the
\* process ends.
removeOwnedDiscovery(p) ==
    /\ \/ /\ pc[p] = "compare" /\ ReadDiscovery = {port[p]} /\ Goto(p, "remove")
          /\ UNCHANGED <<port, handlers, timedOut, waiter, file, looks>>
       \/ pc[p] = "compare" /\ ReadDiscovery # {port[p]} /\ Goto(p, "done") /\ Gone(p) /\ UNCHANGED file
       \/ pc[p] = "remove" /\ file' = NoFile /\ Goto(p, "done") /\ Gone(p)
    /\ UNCHANGED <<bound, store, bus>>

Killed(p) ==
    /\ pc[p] \notin {"idle", "done", "killed"} /\ Goto(p, "killed") /\ Gone(p)
    /\ bound' = [bound EXCEPT ![p] = FALSE]
    /\ store' = [store EXCEPT ![p] = "closed"] /\ bus' = [bus EXCEPT ![p] = "closed"]
    /\ UNCHANGED file

Stop(p) == CloseBus(p) \/ Shutdown(p) \/ CloseStore(p) \/ removeOwnedDiscovery(p)

Step(p) ==
    \/ Start(p) \/ refuseIfRuntimeIsLive(p) \/ openBackend(p) \/ CannotListen(p) \/ Listen(p)
    \/ writeDiscovery(p) \/ Arrive(p) \/ Return(p) \/ Interrupted(p) \/ Wait(p)
    \/ Stop(p) \/ Killed(p)

Next == \E p \in Procs : Step(p)

Spec == Init /\ [][Next]_vars /\ \A p \in Procs : WF_vars(Stop(p)) /\ WF_vars(Wait(p))

(* -------------------------------- Properties -------------------------------- *)

\* Start and Stop take no lock, so two processes whose starts or stops overlap
\* may both serve, or leave the one that serves without its file. A runtime
\* that no rival stood beside when it published is found for as long as it
\* serves: a later start is refused, a late stop leaves its file alone; so two
\* that serve at once were rivals. A clean end leaves nothing open and no file
\* of its own; streams are told to end before shutdown can give up, and the
\* store is closed under a handler only when it did; and nothing off this
\* machine is contacted, whatever the file says.
RuntimeIsSound ==
    /\ \A p \in Procs : pc[p] = "serving" /\ ~raced[p] => file = [url |-> port[p], by |-> p]
    /\ \A p, q \in Procs : pc[p] = "serving" /\ pc[q] = "serving" /\ p # q => raced[p] \/ raced[q]
    /\ \A p \in Procs : pc[p] = "done" =>
         /\ ~bound[p] /\ store[p] # "open" /\ bus[p] # "open" /\ file.by # p
    /\ \A p \in Procs : timedOut[p] => bus[p] = "closed"
    /\ \A p \in Procs : store[p] = "closed" /\ (requests[p] \/ streams[p]) => timedOut[p]
    /\ \A p \in Procs : seen[p] # Foreign

\* Stop always returns: neither the streams nor the goroutine in Wait can hold it.
StopReturns == \A p \in Procs : pc[p] = "stop" ~> pc[p] \in {"done", "killed"}
=============================================================================
