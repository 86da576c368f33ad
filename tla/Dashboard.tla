------------------------------ MODULE Dashboard -----------------------------
(***************************************************************************)
(* The terminal dashboard (src/cmd/trustvian/tui_model.go and              *)
(* tui_realtime.go): it subscribes to the events of one run, waits for the *)
(* handshake, reads the run and its progress while it buffers what         *)
(* arrives, installs what it read and replays the buffer over it.          *)
(*                                                                         *)
(* The control plane is the little of it the dashboard sees: a run that    *)
(* changes, and events published after each change, which overtake one     *)
(* another.  Streams are those of RealtimeBus: without a gap, until they   *)
(* end.  A command of the dashboard runs beside its Update loop, belongs   *)
(* to the generation that started it, and may finish long after that       *)
(* generation was abandoned.                                               *)
(***************************************************************************)
EXTENDS Naturals, Sequences, SequencesExt, RunLifecycle

CONSTANTS
    Statuses,                 \* statuses the run may pass through
    Overlapping,              \* two transitions of the run may be in progress
    tuiPendingEventCapacity,
    tuiObservationCapacity,
    MaxRecords,               \* bound: records of the run
    MaxDrops,                 \* bound: streams that break, requests that fail
    MaxKeys                   \* bound: times the user presses r

\* Assumed of the constants; every instance for TLC says so with an ASSUME.
DashboardAssumption ==
    /\ Statuses \subseteq RunStatuses
    /\ Overlapping \in BOOLEAN
    /\ tuiPendingEventCapacity \in Nat \ {0} /\ tuiObservationCapacity \in Nat \ {0}
    /\ MaxRecords \in Nat /\ MaxDrops \in Nat /\ MaxKeys \in Nat

\* The bound on generations, never reached: a lost stream costs two, the key r
\* one, and a buffer overflows only for want of room for so many events.
Generations ==
    LET overflows == (MaxRecords + 2) \div (tuiPendingEventCapacity + 1)
    IN 0..(2 * (MaxDrops + overflows) + MaxKeys)

VARIABLES
    \* the control plane
    status, records,
    due,           \* events of committed changes, not published yet
    skipped,       \* events that will never be published
    \* connections, by generation
    conn,          \* "none", "opening", "registered", "open", "closed"
    wire,          \* frames between the bus and the model
    cut,           \* generations whose connection has ended
    \* commands in progress
    reads,         \* of resync: generation, progress, what was read
    timers,        \* generations waiting for their reconnection
    \* tuiModel
    state, gen, shown, live, pending, resyncing, everLive, quitting,
    \* bounds
    drops, keys

plane == <<status, records, due, skipped>>
net   == <<conn, wire, cut>>
cmds  == <<reads, timers>>
model == <<state, gen, shown, live, pending, resyncing, everLive, quitting>>
vars  == <<plane, net, cmds, model, drops, keys>>

\* Events and frames: one about a record, one about a status, the handshake.
Observation(n) == [record |-> n, status |-> "none"]
Lifecycle(s)   == [record |-> 0, status |-> s]
StreamReady    == [record |-> 0, status |-> "ready"]

\* newTUIModel and Init; the run may have a history.
Init ==
    /\ status \in {"pending", "running"} \cap Statuses
    /\ records = 0
    /\ due = {} /\ skipped = {}
    /\ conn = [g \in Generations |-> IF g = 0 THEN "opening" ELSE "none"]
    /\ wire = [g \in Generations |-> <<>>]
    /\ cut = {}
    /\ reads = {} /\ timers = {}
    /\ state = "connecting"
    /\ gen = 0
    /\ shown = [status |-> "none", count |-> 0]
    /\ live = <<>> /\ pending = <<>>
    /\ resyncing = FALSE /\ everLive = FALSE /\ quitting = FALSE
    /\ drops = 0 /\ keys = 0

-----------------------------------------------------------------------------
(* The control plane *)

\* A transition commits; its event is published by the same handler, later.
Transition(to) ==
    /\ TransitionAllowed(status, to)
    /\ Overlapping \/ \A e \in due : e.record > 0
    /\ status' = to
    /\ due' = due \cup {Lifecycle(to)}
    /\ UNCHANGED <<records, skipped, net, cmds, model, drops, keys>>

Ingest ==
    /\ status = "running"
    /\ records < MaxRecords
    /\ records' = records + 1
    /\ due' = due \cup {Observation(records')}
    /\ UNCHANGED <<status, skipped, net, cmds, model, drops, keys>>

\* Every registered stream takes the event.
Publish(e) ==
    /\ due' = due \ {e}
    /\ wire' = [g \in Generations |->
          IF conn[g] \in {"registered", "open"} /\ g \notin cut
          THEN Append(wire[g], e) ELSE wire[g]]
    /\ UNCHANGED <<status, records, skipped, conn, cut, cmds, model, drops, keys>>

\* The scope of the event could not be read after the commit.
SkipPublication(e) ==
    /\ due' = due \ {e}
    /\ skipped' = skipped \cup {e}
    /\ UNCHANGED <<status, records, net, cmds, model, drops, keys>>

-----------------------------------------------------------------------------
(* What the handlers of the model have in common *)

NewRead(g) == [gen |-> g, at |-> "run", status |-> "none", count |-> 0]

\* releaseStream, if the model holds a connection.
Released == [conn EXCEPT ![gen] = IF @ = "open" THEN "closed" ELSE @]
Emptied  == [wire EXCEPT ![gen] = IF conn[gen] = "open" THEN <<>> ELSE @]

\* scheduleReconnect: what belonged to the generation is abandoned, and a timer
\* armed for the next one.
ScheduleReconnect(armed) ==
    /\ gen + 1 \in Generations
    /\ state' = "reconnecting"
    /\ gen' = gen + 1
    /\ timers' = timers \cup {armed}
    /\ live' = <<>> /\ pending' = <<>>
    /\ UNCHANGED quitting

\* The program ends, with the error on its last frame.
Fatal ==
    /\ state' = "fatal"
    /\ quitting' = TRUE
    /\ UNCHANGED <<gen, timers, live, pending>>

\* Faulty variant: the timer carries the generation it replaces.
HandleStreamEndEarlyTimer ==
    /\ conn' = [conn EXCEPT ![gen] = "closed"]
    /\ wire' = [wire EXCEPT ![gen] = <<>>]
    /\ IF everLive THEN ScheduleReconnect(gen) ELSE Fatal
    /\ UNCHANGED <<shown, resyncing, everLive>>

\* handleStreamEnd, failStream: fatal before the first synchronization, a
\* reconnection after a delay once there was one.
HandleStreamEnd ==
    /\ conn' = [conn EXCEPT ![gen] = "closed"]
    /\ wire' = [wire EXCEPT ![gen] = <<>>]
    /\ IF everLive THEN ScheduleReconnect(gen + 1) ELSE Fatal
    /\ UNCHANGED <<shown, resyncing, everLive>>

\* reconnect: everything in progress is abandoned.
Reconnect ==
    /\ gen + 1 \in Generations
    /\ wire' = Emptied
    /\ gen' = gen + 1
    /\ conn' = [Released EXCEPT ![gen'] = "opening"]
    /\ live' = <<>> /\ pending' = <<>>
    /\ resyncing' = FALSE
    /\ state' = "connecting"
    /\ UNCHANGED <<shown, everLive, quitting>>

\* A row appears; the oldest gives way when there is no room.
appendObservation(rows, n) ==
    Append(IF Len(rows) = tuiObservationCapacity THEN Tail(rows) ELSE rows, n)

\* applyEvent, for one event after the other: its row appears, the last status
\* stays.
Rows(events) ==
    LET after[i \in 0..Len(events)] ==
            IF i = 0 THEN live
            ELSE IF events[i].record > 0 THEN appendObservation(after[i - 1], events[i].record)
            ELSE after[i - 1]
    IN after[Len(events)]

StatusAfter(events, s) ==
    LET changes == {i \in DOMAIN events : events[i].record = 0}
    IN IF changes = {} THEN s ELSE events[Max(changes)].status

EndsRun(events) == \E i \in 1..Len(events) : IsTerminal(events[i].status)

-----------------------------------------------------------------------------
(* The stream *)

\* The server registers the subscription and begins its response.
Subscribe(g) ==
    /\ conn[g] = "opening"
    /\ conn' = [conn EXCEPT ![g] = "registered"]
    /\ wire' = [wire EXCEPT ![g] = <<StreamReady>>]
    /\ UNCHANGED <<plane, cut, cmds, model, drops, keys>>

\* The connection is refused or not answered in time.
OpenFails ==
    /\ conn[gen] = "opening"
    /\ drops < MaxDrops
    /\ drops' = drops + 1
    /\ HandleStreamEnd
    /\ UNCHANGED <<plane, cut, reads, keys>>

\* streamOpenedMsg: a connection nobody waits for any more is closed.
StreamOpened(g) ==
    /\ conn[g] = "registered"
    /\ IF g = gen
       THEN /\ conn' = [conn EXCEPT ![g] = "open"]
            /\ UNCHANGED wire
       ELSE /\ conn' = [conn EXCEPT ![g] = "closed"]
            /\ wire' = [wire EXCEPT ![g] = <<>>]
    /\ UNCHANGED <<plane, cut, cmds, model, drops, keys>>

\* The connection ends: the bus or the server gave the stream up, the network
\* broke, the reader found no room or heard nothing for too long.  What was
\* under way may be lost.
CutStream ==
    /\ conn[gen] \in {"registered", "open"} /\ gen \notin cut
    /\ drops < MaxDrops
    /\ drops' = drops + 1
    /\ cut' = cut \cup {gen}
    /\ \E n \in 0..Len(wire[gen]) : wire' = [wire EXCEPT ![gen] = SubSeq(@, 1, n)]
    /\ UNCHANGED <<plane, conn, cmds, model, keys>>

\* streamEndedMsg, from the one read of the stream.
StreamEnds ==
    /\ conn[gen] = "open"
    /\ gen \in cut
    /\ wire[gen] = <<>>
    /\ HandleStreamEnd
    /\ UNCHANGED <<plane, cut, reads, drops, keys>>

NextFrame == Head(wire[gen])
Advance   == wire' = [wire EXCEPT ![gen] = Tail(@)]

\* A frame the model may take.
Arrived == conn[gen] = "open" /\ wire[gen] # <<>>

\* handleFrame: the handshake lets the reads begin.
HandleReady ==
    /\ Arrived /\ NextFrame = StreamReady
    /\ state \in {"connecting", "reconnecting"}
    /\ Advance
    /\ state' = "resyncing"
    /\ resyncing' = TRUE
    /\ reads' = reads \cup {NewRead(gen)}
    /\ UNCHANGED <<plane, conn, cut, timers, gen, shown, live, pending, everLive, quitting, drops, keys>>

\* handleFrame: events wait for the reads.
HandleWhileResyncing ==
    /\ Arrived
    /\ state = "resyncing"
    /\ Len(pending) < tuiPendingEventCapacity
    /\ Advance
    /\ pending' = Append(pending, NextFrame)
    /\ UNCHANGED <<plane, conn, cut, cmds, state, gen, shown, live, resyncing, everLive, quitting, drops, keys>>

\* Faulty variant: the event is dropped and the stream goes on.
HandleOverflowDropping ==
    /\ Arrived
    /\ state = "resyncing"
    /\ Len(pending) >= tuiPendingEventCapacity
    /\ Advance
    /\ UNCHANGED <<plane, conn, cut, cmds, model, drops, keys>>

\* handleFrame: no room, so the stream is abandoned.
HandleOverflow ==
    /\ Arrived
    /\ state = "resyncing"
    /\ Len(pending) >= tuiPendingEventCapacity
    /\ HandleStreamEnd
    /\ UNCHANGED <<plane, cut, reads, drops, keys>>

\* handleFrame: a handshake or an event that does not decode, is of another
\* version or run, or comes out of turn costs the whole stream.
RejectFrame ==
    /\ Arrived
    /\ drops < MaxDrops
    /\ drops' = drops + 1
    /\ HandleStreamEnd
    /\ UNCHANGED <<plane, cut, reads, keys>>

\* handleFrame: applied at once; the end of the run earns one more read.
HandleLive ==
    /\ Arrived
    /\ state = "live"
    /\ Advance
    /\ live' = Rows(<<NextFrame>>)
    /\ shown' = [shown EXCEPT !.status = StatusAfter(<<NextFrame>>, @)]
    /\ LET rereads == EndsRun(<<NextFrame>>) /\ ~resyncing
       IN /\ resyncing' = (resyncing \/ rereads)
          /\ reads' = IF rereads THEN reads \cup {NewRead(gen)} ELSE reads
    /\ UNCHANGED <<plane, conn, cut, timers, state, gen, pending, everLive, quitting, drops, keys>>

-----------------------------------------------------------------------------
(* The reads of resync, and what becomes of them *)

ReadRun(r) ==
    /\ r.at = "run"
    /\ reads' = (reads \ {r}) \cup {[r EXCEPT !.at = "progress", !.status = status]}
    /\ UNCHANGED <<plane, net, timers, model, drops, keys>>

ReadProgress(r) ==
    /\ r.at = "progress"
    /\ reads' = (reads \ {r}) \cup {[r EXCEPT !.at = "done", !.count = records]}
    /\ UNCHANGED <<plane, net, timers, model, drops, keys>>

\* streamEndedMsg, from a read that failed.
ReadFails(r) ==
    /\ r.at # "done"
    /\ r.gen = gen
    /\ drops < MaxDrops
    /\ drops' = drops + 1
    /\ reads' = reads \ {r}
    /\ HandleStreamEnd
    /\ UNCHANGED <<plane, cut, keys>>

\* applySnapshot: what was read is installed, what arrived meanwhile applied
\* over it, and if that ends the run there is one more read.
ResyncDone(r) ==
    /\ r.at = "done"
    /\ r.gen = gen
    /\ shown' = [status |-> StatusAfter(pending, r.status), count |-> r.count]
    /\ live' = Rows(pending)
    /\ pending' = <<>>
    /\ state' = "live"
    /\ everLive' = TRUE
    /\ resyncing' = EndsRun(pending)
    /\ reads' = (reads \ {r}) \cup (IF EndsRun(pending) THEN {NewRead(gen)} ELSE {})
    /\ UNCHANGED <<plane, net, timers, gen, quitting, drops, keys>>

\* A message of an abandoned generation is ignored.
IgnoreRead(r) ==
    /\ r.gen # gen
    /\ reads' = reads \ {r}
    /\ UNCHANGED <<plane, net, timers, model, drops, keys>>

-----------------------------------------------------------------------------
(* Timers and keys *)

\* reconnectNowMsg
Tick(g) ==
    /\ timers' = timers \ {g}
    /\ IF g = gen THEN Reconnect ELSE UNCHANGED <<conn, wire, model>>
    /\ UNCHANGED <<plane, cut, reads, drops, keys>>

\* The key r, at any time.
PressReconnect ==
    /\ keys < MaxKeys
    /\ keys' = keys + 1
    /\ Reconnect
    /\ UNCHANGED <<plane, cut, cmds, drops>>

\* The keys q and ctrl+c.
PressQuit ==
    /\ quitting' = TRUE
    /\ conn' = Released
    /\ wire' = Emptied
    /\ UNCHANGED <<plane, cut, cmds, state, gen, shown, live, pending, resyncing, everLive, drops, keys>>

-----------------------------------------------------------------------------

Plane ==
    \/ \E to \in Statuses : Transition(to)
    \/ Ingest
    \/ \E e \in due : Publish(e) \/ SkipPublication(e)

\* What the dashboard's loop and its commands do when nothing fails.
Work ==
    \/ \E g \in Generations : Subscribe(g) \/ StreamOpened(g)
    \/ HandleReady \/ HandleWhileResyncing \/ HandleOverflow \/ HandleLive
    \/ StreamEnds
    \/ \E r \in reads : ReadRun(r) \/ ReadProgress(r) \/ ResyncDone(r) \/ IgnoreRead(r)
    \/ \E g \in timers : Tick(g)

\* Once it is quitting, Update ignores every message and the program ends.
Next ==
    /\ ~quitting
    /\ \/ Plane \/ Work
       \/ OpenFails \/ CutStream \/ RejectFrame \/ (\E r \in reads : ReadFails(r))
       \/ PressReconnect \/ PressQuit

Spec     == Init /\ [][Next]_vars
FairSpec == Spec /\ WF_vars(~quitting /\ Work)

-----------------------------------------------------------------------------
(* Properties *)

\* The dashboard says LIVE, and its connection is.
Live == state = "live" /\ ~quitting /\ gen \notin cut

Reading == \E r \in reads : r.gen = gen

\* Still to come over the stream.
Coming == due \cup ToSet(wire[gen])

\* "subscribing first loses nothing" (tui_model.go): each record of the run is
\* counted in what was read, among the rows, still to come, or was never
\* announced at all; no record falls between snapshot and stream.
NothingFallsBetween ==
    Live => \A n \in 1..records :
               \/ n <= shown.count
               \/ n \in ToSet(live)
               \/ Observation(n) \in Coming \cup skipped
               \/ Len(live) = tuiObservationCapacity

\* "A stale dashboard that looks current is the one failure this interface must
\* not have": once every change of status that was announced has arrived, and
\* no read is under way, a live dashboard shows the run's status.
LiveIsCurrent ==
    Live /\ ~Reading /\ (\A e \in Coming : e.record > 0) /\ Lifecycle(status) \notin skipped
        => shown.status = status

\* A dashboard that shows a run as ended shows its final count, or is about to
\* read it: a terminal event seen at any moment, buffered ones too, earns a
\* read that nobody forgets.
EndedShowsFinalCounts ==
    Live /\ IsTerminal(shown.status) => shown.count = records \/ Reading

\* Live on a connection that works, which a dashboard that was live once
\* becomes again however its streams break.
Settled == state = "live" /\ gen \notin cut /\ ~resyncing
=============================================================================
