----------------------------- MODULE RealtimeBus ----------------------------
(***************************************************************************)
(* The realtime bus (src/platform/realtime.go) and the goroutines around   *)
(* it: publishers, which must never wait; one SSE handler for each         *)
(* subscription (src/platform/httpapi/realtime.go), which writes to a      *)
(* socket that may stall; one watcher for each, which waits for its        *)
(* request to be cancelled.  All of them may end a subscription, at the    *)
(* same time.  The bus lock makes each of its operations one step.         *)
(*                                                                         *)
(* An event is its position in the order of publication; what else it      *)
(* says matters to nobody here but its scope.                              *)
(***************************************************************************)
EXTENDS Naturals, Sequences, FiniteSets

CONSTANTS
    Runs,             \* what a filter may ask for
    queueCapacity,
    maxSubscribers,
    MaxSubscriptions, \* bound: calls of Subscribe that succeed
    MaxEvents,        \* bound: publications
    None              \* an empty filter; the scope of a status change

ASSUME BusAssumption ==
    /\ queueCapacity \in Nat \ {0} /\ maxSubscribers \in Nat \ {0}
    /\ MaxSubscriptions \in Nat /\ MaxEvents \in Nat
    /\ None \notin Runs

Ids    == 1..MaxSubscriptions
Scopes == Runs \cup {None}

VARIABLES
    \* InMemoryRealtimeBus
    closed, nextID,
    subscribers,   \* ids that are registered
    \* busSubscription
    filter,        \* [Ids -> Scopes]
    queue,         \* [Ids -> Seq(position)], the buffered channel
    ended,         \* [Ids -> calls of finish; closeOnce closes the channel at the first]
    \* goroutines and requests
    handler,       \* [Ids -> where the SSE handler is]
    hand,          \* [Ids -> <<>> or the one event being written]
    watcher,       \* [Ids -> "none", "waiting", "gone"]
    cancelled,     \* ids whose client went away
    \* what happened
    published,     \* scopes, in the order of publication
    since,         \* [Ids -> publications before the subscription]
    written        \* [Ids -> events the client was sent]

bus    == <<closed, nextID, subscribers, filter, queue, ended>>
others == <<handler, hand, watcher, cancelled>>
past   == <<published, since, written>>
vars   == <<bus, others, past>>

Init ==
    /\ closed = FALSE
    /\ nextID = 0
    /\ subscribers = {}
    /\ filter = [s \in Ids |-> None]
    /\ queue = [s \in Ids |-> <<>>]
    /\ ended = [s \in Ids |-> 0]
    /\ handler = [s \in Ids |-> "none"]
    /\ hand = [s \in Ids |-> <<>>]
    /\ watcher = [s \in Ids |-> "none"]
    /\ cancelled = {}
    /\ published = <<>>
    /\ since = [s \in Ids |-> 0]
    /\ written = [s \in Ids |-> <<>>]

-----------------------------------------------------------------------------
(* Operations of the bus, each under its lock. *)

\* RealtimeFilter.matches
Matches(f, scope) == f = None \/ f = scope

\* Streams S leave the bus and are finished: a first call closes the channel and
\* ends the watcher's context.
Finish(S) ==
    /\ subscribers' = subscribers \ S
    /\ ended' = [s \in Ids |-> IF s \in S THEN ended[s] + 1 ELSE ended[s]]

\* remove: nothing happens to a subscription that is not registered any more.
Remove(s) == Finish({s} \cap subscribers)

\* Faulty variant: the newest client gets a slot somebody else holds.
SubscribeEvicting(f) ==
    /\ ~closed
    /\ nextID < MaxSubscriptions
    /\ nextID' = nextID + 1
    /\ LET old == {s \in subscribers : Cardinality(subscribers) >= maxSubscribers
                                       /\ \A r \in subscribers : s <= r}
       IN /\ subscribers' = (subscribers \ old) \cup {nextID'}
          /\ ended' = [s \in Ids |-> IF s \in old THEN ended[s] + 1 ELSE ended[s]]
    /\ filter' = [filter EXCEPT ![nextID'] = f]
    /\ since' = [since EXCEPT ![nextID'] = Len(published)]
    /\ handler' = [handler EXCEPT ![nextID'] = "handshake"]
    /\ watcher' = [watcher EXCEPT ![nextID'] = "waiting"]
    /\ UNCHANGED <<closed, queue, hand, cancelled, published, written>>

\* The handler of a new request registers a stream and starts its watcher; at
\* the limit, and on a closed bus, it is refused.
Subscribe(f) ==
    /\ ~closed
    /\ Cardinality(subscribers) < maxSubscribers
    /\ nextID < MaxSubscriptions
    /\ nextID' = nextID + 1
    /\ subscribers' = subscribers \cup {nextID'}
    /\ filter' = [filter EXCEPT ![nextID'] = f]
    /\ since' = [since EXCEPT ![nextID'] = Len(published)]
    /\ handler' = [handler EXCEPT ![nextID'] = "handshake"]
    /\ watcher' = [watcher EXCEPT ![nextID'] = "waiting"]
    /\ UNCHANGED <<closed, queue, ended, hand, cancelled, published, written>>

\* Faulty variant: an event that finds no room is dropped, the stream goes on.
PublishDropping(scope) ==
    /\ ~closed
    /\ Len(published) < MaxEvents
    /\ published' = Append(published, scope)
    /\ queue' = [s \in Ids |->
          IF s \in subscribers /\ Matches(filter[s], scope) /\ Len(queue[s]) < queueCapacity
          THEN Append(queue[s], Len(published')) ELSE queue[s]]
    /\ UNCHANGED <<closed, nextID, subscribers, filter, ended, others, since, written>>

\* A matching stream takes the event, or is disconnected when it has no room.
Publish(scope) ==
    /\ ~closed
    /\ Len(published) < MaxEvents
    /\ published' = Append(published, scope)
    /\ LET matching  == {s \in subscribers : Matches(filter[s], scope)}
           saturated == {s \in matching : Len(queue[s]) >= queueCapacity}
       IN /\ queue' = [s \in Ids |-> IF s \in matching \ saturated
                                     THEN Append(queue[s], Len(published')) ELSE queue[s]]
          /\ Finish(saturated)
    /\ UNCHANGED <<closed, nextID, filter, others, since, written>>

\* InMemoryRealtimeBus.Close
CloseBus ==
    /\ ~closed
    /\ closed' = TRUE
    /\ Finish(subscribers)
    /\ UNCHANGED <<nextID, filter, queue, others, past>>

-----------------------------------------------------------------------------
(* The goroutine that watches a subscription's context, which is cancelled   *)
(* with the request or when the stream is finished.                          *)

Watch(s) ==
    /\ watcher[s] = "waiting"
    /\ s \in cancelled \/ ended[s] > 0
    /\ watcher' = [watcher EXCEPT ![s] = "gone"]
    /\ Remove(s)
    /\ UNCHANGED <<closed, nextID, filter, queue, handler, hand, cancelled, past>>

-----------------------------------------------------------------------------
(* The SSE handler.  Every write has a deadline, so it ends, well or badly.  *)

Goto(s, label) == handler' = [handler EXCEPT ![s] = label]

\* stream_ready is written, after the subscription was registered.
Handshake(s) ==
    /\ handler[s] = "handshake"
    /\ Goto(s, "streaming") \/ Goto(s, "leaving")
    /\ UNCHANGED <<bus, hand, watcher, cancelled, past>>

\* A closed channel first gives what it still holds.
Receive(s) ==
    /\ handler[s] = "streaming"
    /\ queue[s] # <<>>
    /\ hand' = [hand EXCEPT ![s] = <<Head(queue[s])>>]
    /\ queue' = [queue EXCEPT ![s] = Tail(@)]
    /\ Goto(s, "writing")
    /\ UNCHANGED <<closed, nextID, subscribers, filter, ended, watcher, cancelled, past>>

WriteEvent(s) ==
    /\ handler[s] = "writing"
    /\ written' = [written EXCEPT ![s] = @ \o hand[s]]
    /\ hand' = [hand EXCEPT ![s] = <<>>]
    /\ Goto(s, "streaming")
    /\ UNCHANGED <<bus, watcher, cancelled, published, since>>

\* The write or its flush fails, or the client does not read in time.
WriteFails(s) ==
    /\ handler[s] = "writing"
    /\ hand' = [hand EXCEPT ![s] = <<>>]
    /\ Goto(s, "leaving")
    /\ UNCHANGED <<bus, watcher, cancelled, past>>

\* Faulty variant: the handler does not notice that the channel was closed.
LeaveOnCancel(s) ==
    /\ handler[s] = "streaming"
    /\ s \in cancelled
    /\ Goto(s, "leaving")
    /\ UNCHANGED <<bus, hand, watcher, cancelled, past>>

\* Nothing more to stream: the client went away, or the channel is closed and
\* empty.
Leave(s) ==
    /\ handler[s] = "streaming"
    /\ s \in cancelled \/ (ended[s] > 0 /\ queue[s] = <<>>)
    /\ Goto(s, "leaving")
    /\ UNCHANGED <<bus, hand, watcher, cancelled, past>>

\* A heartbeat has the same deadline as an event.
HeartbeatFails(s) ==
    /\ handler[s] = "streaming"
    /\ Goto(s, "leaving")
    /\ UNCHANGED <<bus, hand, watcher, cancelled, past>>

\* The deferred Close.
Close(s) ==
    /\ handler[s] = "leaving"
    /\ Goto(s, "done")
    /\ Remove(s)
    /\ UNCHANGED <<closed, nextID, filter, queue, hand, watcher, cancelled, past>>

\* The client closes its connection.
Disconnect(s) ==
    /\ handler[s] \notin {"none", "done"}
    /\ s \notin cancelled
    /\ cancelled' = cancelled \cup {s}
    /\ UNCHANGED <<bus, handler, hand, watcher, past>>

-----------------------------------------------------------------------------

Serve(s) ==
    \/ Handshake(s) \/ Receive(s) \/ WriteEvent(s) \/ WriteFails(s)
    \/ Leave(s) \/ Close(s)

Next ==
    \/ \E f \in Scopes : Subscribe(f) \/ Publish(f)
    \/ CloseBus
    \/ \E s \in Ids : Serve(s) \/ HeartbeatFails(s) \/ Watch(s) \/ Disconnect(s)

Spec == Init /\ [][Next]_vars

\* Goroutines run, and a write is over by its deadline.  Nobody owes the bus a
\* publication, a subscription or its end.
FairSpec == Spec /\ \A s \in Ids : WF_vars(Serve(s)) /\ WF_vars(Watch(s))

-----------------------------------------------------------------------------
(* Properties *)

\* What a stream has taken from the bus: sent, being sent, queued.
Taken(s) == written[s] \o hand[s] \o queue[s]

\* The publications a stream is for.
Wanted(s) == {n \in (since[s] + 1)..Len(published) : Matches(filter[s], published[n])}

\* Both halves of the bound on memory hold, and a stream is registered exactly
\* until its channel is closed, which happens once however many goroutines end
\* it at the same time.
BusBounded ==
    /\ Cardinality(subscribers) <= maxSubscribers
    /\ \A s \in Ids :
          /\ Len(queue[s]) <= queueCapacity
          /\ ended[s] <= 1
          /\ s \in subscribers <=> (s <= nextID /\ ended[s] = 0)
          /\ handler[s] = "done" => s \notin subscribers

\* What a client was sent is, without a gap and in order, how the publications
\* it asked for begin; and a stream still registered has missed none.
Gapless(s) ==
    LET t == Taken(s)
    IN /\ \A i, j \in 1..Len(t) : i < j => t[i] < t[j]
       /\ \A i \in 1..Len(t) : t[i] \in Wanted(s)
       /\ \A i \in 1..Len(written[s]) :
             \A n \in Wanted(s) : n < written[s][i] => \E j \in 1..i : written[s][j] = n
       /\ (s \in subscribers /\ handler[s] # "leaving") =>
             \A n \in Wanted(s) : \E i \in 1..Len(t) : t[i] = n

\* "Dropping silently would leave a client believing it has a complete stream
\* when it does not": each stream is finished once however many goroutines end
\* it, memory stays bounded, and no stream has a gap (realtime.go, Publish,
\* finish and remove).
StreamIsGapless == BusBounded /\ \A s \in Ids : Gapless(s)

\* "A caller should not be able to disconnect somebody else's stream": a
\* stream leaves the bus because its own queue is full, its own client or
\* handler is gone, or the bus closes.
LeftForOwnReasons ==
    \A s \in subscribers \ subscribers' :
        \/ s \in cancelled
        \/ handler[s] = "leaving"
        \/ closed'
        \/ Len(queue[s]) = queueCapacity /\ queue'[s] = queue[s]
           /\ published' # published

\* Whatever slots are contended, a stream ends through its own queue, client or
\* handler, or with the bus (realtime.go, Subscribe and Publish).
DisconnectedForOwnReasons == [][LeftForOwnReasons]_vars

\* A stream whose client went away or that has ended, and one whose slot and
\* handler are back: however slowly its client reads, the first leads to the second.
Over(s)     == s \in cancelled \/ ended[s] > 0
Released(s) == s \notin subscribers /\ handler[s] = "done"
=============================================================================
