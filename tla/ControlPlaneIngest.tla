------------------------- MODULE ControlPlaneIngest -------------------------
(***************************************************************************)
(* The control plane of one evaluation run: concurrent HTTP handlers that  *)
(* ingest decision records, move the run through its lifecycle and report  *)
(* its progress (src/platform/controlplane.go), over either store          *)
(* (sqlite.go, postgres.go).                                               *)
(*                                                                         *)
(* SQLite holds one connection, so a transaction, even a reading one,      *)
(* keeps every other statement out.  PostgreSQL hands each transaction a   *)
(* connection of a pool: writers serialize on the run's row lock, readers  *)
(* take no lock, and READ COMMITTED gives each statement the state         *)
(* committed when it starts.                                               *)
(*                                                                         *)
(* A record is its content; its digest is the content too, two records     *)
(* being identical exactly when their digests are.                         *)
(***************************************************************************)
EXTENDS Naturals, Sequences, FiniteSets, RunLifecycle

CONSTANTS
    Handlers,      \* request handlers of the control plane
    Contents,      \* what a record may say
    Shapes,        \* behavioral fingerprints
    Shape,         \* [Contents -> Shapes], DecisionRecord.FingerprintID
    MaxBehaviors,  \* maxBehaviorEntries
    MaxRetained,   \* MaxRetainedObservations
    MaxRequests,   \* bound: requests over the whole behaviour
    Migrated,      \* may the run come from an older schema?
    Pooled,        \* TRUE: PostgresStore, FALSE: SQLiteStore
    None           \* no row, nobody, nothing

ASSUME ShapeAssumption == Shape \in [Contents -> Shapes] /\ IsFiniteSet(Shapes)
ASSUME LimitAssumption ==
    /\ MaxBehaviors \in Nat \ {0}
    /\ MaxRetained \in Nat \ {0}
    /\ MaxRequests \in Nat
ASSUME StoreAssumption == Migrated \in BOOLEAN /\ Pooled \in BOOLEAN
ASSUME NobodyAssumption == None \notin Handlers /\ None \notin Contents
ASSUME NoRowAssumption ==
    /\ None \notin [retained : Nat, complete : BOOLEAN]
    /\ None \notin [next : Nat, digest : Contents]

Positions == 1..(MaxRequests + 1)

VARIABLES
    \* rows of the run
    status,       \* the run's status
    aggregate,    \* the records folded into the aggregate, in order
    snapshot,     \* [observed, complete, entries], the behavior snapshot
    cursor,       \* None, or [next, digest]
    history,      \* None, or [retained, complete]
    observations, \* retained observations, [sequence, content, fresh]
    \* the store's concurrency control
    owner,        \* who holds the connection (SQLite) or the run's row lock
    \* the handlers
    pc,           \* where each handler is
    req,          \* the request it serves
    view,         \* what its current read transaction has seen so far
    fold,         \* the evidence it computed, to be committed
    \* what the outside was told
    requests,     \* requests accepted for processing so far
    answers,      \* replies, [sequence, content, disposition]
    sent,         \* how often each sequence's observation was published
    told          \* lifecycle events published

rows     == <<aggregate, snapshot, cursor, history, observations>>
handlers == <<pc, req, view, fold>>
outside  == <<requests, answers, sent, told>>
vars     == <<status, rows, owner, handlers, outside>>

-----------------------------------------------------------------------------
(* Evidence as values. *)

Unseen == [s \in Shapes |-> 0]
Empty  == [observed |-> 0, complete |-> TRUE, entries |-> Unseen]

Known(entries) == {s \in Shapes : entries[s] > 0}

\* One element for every record the entries count, so that its size is their sum.
Counted(entries) == UNION {{s} \X (1..entries[s]) : s \in Shapes}

\* Faulty variant: a saturated collector goes on counting the shapes it knows.
CollectPastCapacity(snap, c) ==
    LET s == Shape[c]
    IN IF s \notin Known(snap.entries) /\ Cardinality(Known(snap.entries)) >= MaxBehaviors
       THEN [snap EXCEPT !.complete = FALSE]
       ELSE [snap EXCEPT !.observed = @ + 1, !.entries[s] = @ + 1]

\* BehaviorCollector.ObserveOperational, a capacity error included: at the
\* bound a new shape marks the snapshot incomplete, and it then stands still.
Collect(snap, c) ==
    LET s == Shape[c]
    IN IF ~snap.complete
       THEN snap
       ELSE IF s \notin Known(snap.entries) /\ Cardinality(Known(snap.entries)) >= MaxBehaviors
       THEN [snap EXCEPT !.complete = FALSE]
       ELSE [observed |-> snap.observed + 1, complete |-> TRUE,
             entries |-> [snap.entries EXCEPT ![s] = @ + 1]]

\* Faulty variant: retaining a record makes the history complete again.
RetainHeals(row, sequence) ==
    IF row = None
    THEN [insert |-> TRUE, row |-> [retained |-> 1, complete |-> sequence = 1]]
    ELSE IF row.retained >= MaxRetained
    THEN [insert |-> FALSE, row |-> [row EXCEPT !.complete = FALSE]]
    ELSE [insert |-> TRUE, row |-> [retained |-> row.retained + 1, complete |-> TRUE]]

\* planObservationRetention
Retain(row, sequence) ==
    IF row = None
    THEN [insert |-> TRUE, row |-> [retained |-> 1, complete |-> sequence = 1]]
    ELSE IF row.retained >= MaxRetained
    THEN [insert |-> FALSE, row |-> [row EXCEPT !.complete = FALSE]]
    ELSE [insert |-> TRUE, row |-> [row EXCEPT !.retained = @ + 1]]

Header(snap) ==
    [observed |-> snap.observed,
     distinct |-> Cardinality(Known(snap.entries)),
     complete |-> snap.complete]

\* What a handler has read before it reads anything.
Blank == [cursor |-> None, aggregate |-> <<>>, header |-> Header(Empty), entries |-> Unseen]

\* loadEvidence finds nothing: neither row exists.
NoEvidence(v) == Len(v.aggregate) = 0 /\ v.header.observed = 0

\* loadEvidence refuses: half a pair, a header its entries contradict, or two
\* halves that cannot describe one moment.
EvidenceCorrupt(v) ==
    /\ ~NoEvidence(v)
    /\ \/ Len(v.aggregate) = 0 \/ v.header.observed = 0
       \/ Cardinality(Known(v.entries)) # v.header.distinct
       \/ Cardinality(Counted(v.entries)) # v.header.observed
       \/ v.header.complete /\ Len(v.aggregate) # v.header.observed
       \/ v.header.observed > Len(v.aggregate)

\* ingestState: the cursor row must agree with the evidence beside it, and a
\* run without one has the cursor its record count implies, and no digest.
StateCorrupt(v) ==
    \/ EvidenceCorrupt(v)
    \/ v.cursor # None /\ (NoEvidence(v) \/ v.cursor.next # Len(v.aggregate) + 1)

NextSequence(v) == IF v.cursor = None THEN Len(v.aggregate) + 1 ELSE v.cursor.next

LastDigest(v) == IF v.cursor = None THEN None ELSE v.cursor.digest

\* All rows as one statement-free reading: what a transaction that excludes
\* every writer sees.
Stored == [cursor |-> cursor, aggregate |-> aggregate,
           header |-> Header(snapshot), entries |-> snapshot.entries]

Init ==
    /\ \/ /\ status = "pending"
          /\ aggregate = <<>>
          /\ snapshot = Empty
          /\ cursor = None
       \/ /\ Migrated
          /\ status = "running"
          /\ \E c \in Contents :
                /\ aggregate = <<c>>
                /\ snapshot = Collect(Empty, c)
                /\ \/ cursor = [next |-> 2, digest |-> c]
                   \/ ~Pooled /\ cursor = None
    /\ history = None
    /\ observations = {}
    /\ owner = None
    /\ pc = [h \in Handlers |-> "idle"]
    /\ req = [h \in Handlers |-> None]
    /\ view = [h \in Handlers |-> Blank]
    /\ fold = [h \in Handlers |-> None]
    /\ requests = 0
    /\ answers = {}
    /\ sent = [p \in Positions |-> 0]
    /\ told = {}

-----------------------------------------------------------------------------
(* Steps every handler shares. *)

\* A statement outside any transaction needs a connection of its own.
Connected(h) == Pooled \/ owner \in {None, h}
Hold(h)      == owner' = IF Pooled THEN owner ELSE h
Drop(h)      == owner' = IF owner = h THEN None ELSE owner

Goto(h, label) == pc' = [pc EXCEPT ![h] = label]

\* The handler is done; nothing of its request is kept.
Finish(h) ==
    /\ Goto(h, "idle")
    /\ req' = [req EXCEPT ![h] = None]
    /\ view' = [view EXCEPT ![h] = Blank]
    /\ fold' = [fold EXCEPT ![h] = None]

Reply(h, disposition) ==
    /\ Finish(h)
    /\ answers' = answers \cup {[sequence |-> req[h].sequence, content |-> req[h].content,
                                 disposition |-> disposition]}

\* A refusal tells the client nothing it could hold the store to.
Refuse(h) == Finish(h) /\ UNCHANGED answers

-----------------------------------------------------------------------------
(* Requests.  Each begins by loading the run; one the run's status refuses   *)
(* changes nothing and is left out.                                          *)

Accept(h, r, label) ==
    /\ pc[h] = "idle"
    /\ requests < MaxRequests
    /\ Connected(h)
    /\ requests' = requests + 1
    /\ req' = [req EXCEPT ![h] = r]
    /\ Goto(h, label)
    /\ UNCHANGED <<status, rows, owner, view, fold, answers, sent, told>>

IngestDecisionRecord(h) ==
    /\ status = "running"
    /\ \E p \in Positions, c \in Contents :
          Accept(h, [op |-> "ingest", sequence |-> p, content |-> c], "cursor")

EvaluationProgress(h) ==
    Accept(h, [op |-> "progress", sequence |-> 0, content |-> None], "cursor")

TransitionRun(h) ==
    \E to \in RunStatuses :
        /\ TransitionAllowed(status, to)
        /\ Accept(h, [op |-> "transition", from |-> status, to |-> to], "lock")

-----------------------------------------------------------------------------
(* EvaluationIngestState and EvaluationEvidence: a read transaction whose    *)
(* statements each see what is committed when they run.  evidenceRowsPresent *)
(* asks for each row before it is loaded; rows never go away, so a question  *)
(* and the load after it are one step, and a missing row is an empty one.    *)

\* Faulty variant: the reads are not one transaction.
ReadCursorAlone(h) ==
    /\ pc[h] = "cursor"
    /\ Connected(h)
    /\ view' = [view EXCEPT ![h].cursor = cursor]
    /\ Goto(h, "aggregate")
    /\ UNCHANGED <<status, rows, owner, req, fold, outside>>

ReadCursor(h) ==
    /\ pc[h] = "cursor"
    /\ Connected(h)
    /\ Hold(h)
    /\ view' = [view EXCEPT ![h].cursor = cursor]
    /\ Goto(h, "aggregate")
    /\ UNCHANGED <<status, rows, req, fold, outside>>

ReadAggregate(h) ==
    /\ \/ pc[h] = "aggregate" /\ Goto(h, "header")
       \/ pc[h] = "evidence.aggregate" /\ Goto(h, "evidence.header")
    /\ Connected(h)
    /\ Hold(h)
    /\ view' = [view EXCEPT ![h].aggregate = aggregate]
    /\ UNCHANGED <<status, rows, req, fold, outside>>

ReadHeader(h) ==
    /\ \/ pc[h] = "header" /\ Goto(h, "entries")
       \/ pc[h] = "evidence.header" /\ Goto(h, "evidence.entries")
    /\ view' = [view EXCEPT ![h].header = Header(snapshot)]
    /\ UNCHANGED <<status, rows, owner, req, fold, outside>>

\* The last statement of EvaluationIngestState, and what the service makes of
\* the state: apply at the next sequence, replay the previous one if it is
\* provably the same record, refuse every other.
ReadState(h) ==
    /\ pc[h] = "entries"
    /\ Drop(h)
    /\ LET v == [view[h] EXCEPT !.entries = snapshot.entries]
       IN \/ /\ StateCorrupt(v)
             /\ Reply(h, "corrupt")
          \/ /\ ~StateCorrupt(v)
             /\ req[h].op = "progress"
             /\ Refuse(h)
          \/ /\ ~StateCorrupt(v)
             /\ req[h].op = "ingest"
             /\ req[h].sequence = NextSequence(v)
             /\ Goto(h, "evidence.aggregate")
             /\ view' = [view EXCEPT ![h] = Blank]
             /\ UNCHANGED <<req, fold, answers>>
          \/ /\ ~StateCorrupt(v)
             /\ req[h].op = "ingest"
             /\ req[h].sequence # NextSequence(v)
             /\ IF req[h].sequence + 1 = NextSequence(v)
                THEN Reply(h, IF LastDigest(v) = req[h].content THEN "replayed"
                                                               ELSE "different")
                ELSE Refuse(h)
    /\ UNCHANGED <<status, rows, requests, sent, told>>

\* Faulty variant: whether the behavior is new is asked after the fold.
FoldRecordThenAsk(h) ==
    /\ pc[h] = "evidence.entries"
    /\ Drop(h)
    /\ LET v    == [view[h] EXCEPT !.entries = snapshot.entries]
           snap == Collect([observed |-> v.header.observed, complete |-> v.header.complete,
                            entries |-> v.entries], req[h].content)
       IN /\ ~EvidenceCorrupt(v)
          /\ Goto(h, "lock")
          /\ fold' = [fold EXCEPT ![h] =
                 [aggregate |-> Append(v.aggregate, req[h].content),
                  snapshot  |-> snap,
                  fresh     |-> Shape[req[h].content] \notin Known(snap.entries)]]
          /\ view' = [view EXCEPT ![h] = Blank]
          /\ UNCHANGED <<req, answers>>
    /\ UNCHANGED <<status, rows, requests, sent, told>>

\* The last statement of EvaluationEvidence, then applyRecord up to its
\* commit: the record is folded into what was read.
FoldRecord(h) ==
    /\ pc[h] = "evidence.entries"
    /\ Drop(h)
    /\ LET v    == [view[h] EXCEPT !.entries = snapshot.entries]
           snap == [observed |-> v.header.observed, complete |-> v.header.complete,
                    entries |-> v.entries]
           c    == req[h].content
       IN \/ /\ EvidenceCorrupt(v)
             /\ Reply(h, "corrupt")
          \/ /\ ~EvidenceCorrupt(v)
             /\ Goto(h, "lock")
             /\ fold' = [fold EXCEPT ![h] =
                    [aggregate |-> Append(v.aggregate, c),
                     snapshot  |-> Collect(snap, c),
                     fresh     |-> Shape[c] \notin Known(v.entries)]]
             /\ view' = [view EXCEPT ![h] = Blank]
             /\ UNCHANGED <<req, answers>>
    /\ UNCHANGED <<status, rows, requests, sent, told>>

-----------------------------------------------------------------------------
(* CommitEvaluationIngest and UpdateEvaluationRun: write transactions.       *)

\* Faulty variant: the run's row is read without locking it.
LockNothing(h) ==
    /\ pc[h] = "lock"
    /\ owner' = h
    /\ Goto(h, IF req[h].op = "ingest" THEN "reread" ELSE "swap")
    /\ UNCHANGED <<status, rows, req, view, fold, outside>>

\* BeginTx on the only connection, or lockRun.
Lock(h) ==
    /\ pc[h] = "lock"
    /\ owner = None
    /\ owner' = h
    /\ Goto(h, IF req[h].op = "ingest" THEN "reread" ELSE "swap")
    /\ UNCHANGED <<status, rows, req, view, fold, outside>>

\* validateEvidencePair, which the code asks before the transaction begins, and
\* checkEvidenceNotStale: the pair is one moment's, and evidence never moves
\* backwards.
CommitRefused(f) ==
    \/ f.snapshot.complete /\ Len(f.aggregate) # f.snapshot.observed
    \/ f.snapshot.observed > Len(f.aggregate)
    \/ /\ Len(aggregate) > 0
       /\ \/ ~snapshot.complete /\ f.snapshot.complete
          \/ Len(f.aggregate) < Len(aggregate)
          \/ /\ Len(f.aggregate) = Len(aggregate)
             /\ f.aggregate # aggregate \/ f.snapshot # snapshot

\* Faulty variant: only the service checks that the run is running.
RereadAnyStatus(h) ==
    /\ pc[h] = "reread"
    /\ \/ /\ NextSequence(Stored) = req[h].sequence
          /\ ~CommitRefused(fold[h])
          /\ Goto(h, "write")
          /\ UNCHANGED <<owner, req, view, fold, answers>>
       \/ /\ NextSequence(Stored) # req[h].sequence
          /\ Drop(h)
          /\ Refuse(h)
    /\ UNCHANGED <<status, rows, requests, sent, told>>

\* The cursor is read again inside the transaction.  Moved past exactly this
\* record, it proves another handler committed the same one.
Reread(h) ==
    /\ pc[h] = "reread"
    /\ LET moved == NextSequence(Stored) # req[h].sequence
           same  == /\ NextSequence(Stored) = req[h].sequence + 1
                    /\ LastDigest(Stored) = req[h].content
           write == ~moved /\ status = "running" /\ ~CommitRefused(fold[h])
       IN \/ /\ write
             /\ Goto(h, "write")
             /\ UNCHANGED <<owner, req, view, fold, answers>>
          \/ /\ ~write
             /\ Drop(h)
             /\ IF moved /\ same THEN Reply(h, "replayed") ELSE Refuse(h)
    /\ UNCHANGED <<status, rows, requests, sent, told>>

\* writeEvidence, retainObservation and the cursor, in one commit.
Written(h) ==
    LET kept == Retain(history, req[h].sequence)
    IN /\ aggregate' = fold[h].aggregate
       /\ snapshot' = fold[h].snapshot
       /\ cursor' = [next |-> req[h].sequence + 1, digest |-> req[h].content]
       /\ history' = kept.row
       /\ observations' = observations \cup
             IF kept.insert
             THEN {[sequence |-> req[h].sequence, content |-> req[h].content,
                    fresh |-> fold[h].fresh]}
             ELSE {}

Write(h) ==
    /\ pc[h] = "write"
    /\ Written(h)
    /\ Drop(h)
    /\ Goto(h, "publish")
    /\ UNCHANGED <<status, req, view, fold, outside>>

\* Faulty variant: a failed transaction is never rolled back.
WriteFailsOpen(h) ==
    /\ pc[h] = "write"
    /\ UNCHANGED rows
    /\ Refuse(h)
    /\ UNCHANGED <<status, owner, requests, sent, told>>

\* The transaction fails, or its outcome is lost: the handler reports an error
\* although the commit may have happened, and publishes nothing.
WriteFails(h) ==
    /\ pc[h] = "write"
    /\ Written(h) \/ UNCHANGED rows
    /\ Drop(h)
    /\ Refuse(h)
    /\ UNCHANGED <<status, requests, sent, told>>

\* publishObservation, then the reply.  Publication needs the run's scope, and
\* is skipped without a word when that cannot be read.
Publish(h) ==
    /\ pc[h] = "publish"
    /\ Connected(h)
    /\ sent' = [sent EXCEPT ![req[h].sequence] = @ + 1] \/ UNCHANGED sent
    /\ Reply(h, "applied")
    /\ UNCHANGED <<status, rows, owner, requests, told>>

\* UpdateEvaluationRun: compare and swap on the status the handler loaded.
Swapped(h) == status = req[h].from /\ status' = req[h].to

Swap(h) ==
    /\ pc[h] = "swap"
    /\ Swapped(h)
    /\ Drop(h)
    /\ Goto(h, "announce")
    /\ UNCHANGED <<rows, req, view, fold, outside>>

\* Somebody else moved the run, or the transaction failed, or its outcome was
\* lost: nothing is published.
SwapFails(h) ==
    /\ pc[h] = "swap"
    /\ Swapped(h) \/ UNCHANGED status
    /\ Drop(h)
    /\ Refuse(h)
    /\ UNCHANGED <<rows, requests, sent, told>>

\* publishLifecycle, then the reply.
Announce(h) ==
    /\ pc[h] = "announce"
    /\ Connected(h)
    /\ told' = told \cup {req[h].to} \/ UNCHANGED told
    /\ Refuse(h)
    /\ UNCHANGED <<status, rows, owner, requests, sent>>

\* The process dies.  Transactions in progress are rolled back, replies and
\* publications that were due are lost.
CrashPlane ==
    /\ \E h \in Handlers : pc[h] # "idle"
    /\ owner' = None
    /\ pc' = [h \in Handlers |-> "idle"]
    /\ req' = [h \in Handlers |-> None]
    /\ view' = [h \in Handlers |-> Blank]
    /\ fold' = [h \in Handlers |-> None]
    /\ UNCHANGED <<status, rows, outside>>

-----------------------------------------------------------------------------

Arrive(h) == IngestDecisionRecord(h) \/ EvaluationProgress(h) \/ TransitionRun(h)

\* Steps of a request in progress.
Serve(h) ==
    \/ ReadCursor(h) \/ ReadAggregate(h) \/ ReadHeader(h) \/ ReadState(h)
    \/ FoldRecord(h) \/ Lock(h) \/ Reread(h) \/ Write(h) \/ WriteFails(h)
    \/ Publish(h) \/ Swap(h) \/ SwapFails(h) \/ Announce(h)

Next == CrashPlane \/ \E h \in Handlers : Arrive(h) \/ Serve(h)

Spec == Init /\ [][Next]_vars

\* Handlers are goroutines and neither store keeps one waiting forever: row
\* locks and the connection pool are handed on in the order they were asked.
FairSpec == Spec /\ \A h \in Handlers : WF_vars(Serve(h))

-----------------------------------------------------------------------------
(* Properties *)

\* What each variable may hold.
Cursors   == [next : Nat, digest : Contents]
Snapshots == [observed : Nat, complete : BOOLEAN, entries : [Shapes -> Nat]]
Headers   == [observed : Nat, distinct : Nat, complete : BOOLEAN]
Views     == [cursor : Cursors \cup {None}, aggregate : Seq(Contents),
              header : Headers, entries : [Shapes -> Nat]]
Folds     == [aggregate : Seq(Contents), snapshot : Snapshots, fresh : BOOLEAN]

Ingest     == [op : {"ingest"}, sequence : Positions, content : Contents]
Progress   == [op : {"progress"}, sequence : {0}, content : {None}]
Transition == {r \in [op : {"transition"}, from : RunStatuses, to : RunStatuses] :
                  TransitionAllowed(r.from, r.to)}

\* Where a handler may be: reading the ingest state, applying a record.
Reading  == {"cursor", "aggregate", "header", "entries"}
Applying == {"evidence.aggregate", "evidence.header", "evidence.entries",
             "reread", "write", "publish"}
Labels   == {"idle", "lock", "swap", "announce"} \cup Reading \cup Applying

\* Every variable holds what its row or local of the program may hold; a
\* cursor is never without its digest, an observation never past the bound.
TypeOK ==
    /\ status \in RunStatuses
    /\ aggregate \in Seq(Contents)
    /\ snapshot \in Snapshots
    /\ cursor \in Cursors \cup {None}
    /\ history \in [retained : Nat, complete : BOOLEAN] \cup {None}
    /\ observations \subseteq [sequence : Positions, content : Contents, fresh : BOOLEAN]
    /\ owner \in Handlers \cup {None}
    /\ pc \in [Handlers -> Labels]
    /\ req \in [Handlers -> Ingest \cup Progress \cup Transition \cup {None}]
    /\ view \in [Handlers -> Views]
    /\ fold \in [Handlers -> Folds \cup {None}]
    /\ requests \in 0..MaxRequests
    /\ answers \subseteq [sequence : Nat, content : Contents \cup {None},
                          disposition : {"applied", "replayed", "different", "corrupt"}]
    /\ sent \in [Positions -> Nat]
    /\ told \subseteq RunStatuses

\* The requests a handler serves, by where it is.
RequestInv(h) ==
    \/ pc[h] = "idle" /\ req[h] = None
    \/ pc[h] \in Reading /\ req[h] \in Ingest \cup Progress
    \/ pc[h] \in Applying \cup {"lock"} /\ req[h] \in Ingest
    \/ pc[h] \in {"lock", "swap", "announce"} /\ req[h] \in Transition

\* What a handler has read of the log is still how the log begins.
ViewInv(h) ==
    /\ Len(view[h].aggregate) <= Len(aggregate)
    /\ \A i \in 1..Len(view[h].aggregate) : view[h].aggregate[i] = aggregate[i]
    /\ view[h].cursor # None =>
          /\ view[h].cursor.next - 1 \in 1..Len(aggregate)
          /\ view[h].cursor.digest = aggregate[view[h].cursor.next - 1]

\* An ingest that holds, or waits to commit, the evidence it computed.
Committing(h) == pc[h] \in {"lock", "reread", "write"} /\ req[h] \in Ingest

\* A record about to be applied goes at the end of the log or the log has
\* moved past it, and the evidence it was folded into is how the log begins.
FoldInv(h) ==
    /\ (pc[h] \in Applying \/ Committing(h)) => req[h].sequence <= Len(aggregate) + 1
    /\ pc[h] \in {"evidence.header", "evidence.entries"} =>
          req[h].sequence <= Len(view[h].aggregate) + 1
    /\ Committing(h) =>
          /\ fold[h] \in Folds
          /\ req[h].sequence <= Len(fold[h].aggregate)
          /\ Len(fold[h].aggregate) <= Len(aggregate) + 1
          /\ \A i \in 1..Len(fold[h].aggregate) :
                fold[h].aggregate[i] = IF i = Len(fold[h].aggregate)
                                       THEN req[h].content ELSE aggregate[i]

\* Write transactions exclude each other, and what one is about to commit is
\* the next record of a running run.
CommitInv(h) ==
    /\ pc[h] \in {"reread", "write", "swap"} => owner = h
    /\ pc[h] = "write" =>
          /\ status = "running"
          /\ req[h].sequence = Len(aggregate) + 1
          /\ Len(fold[h].aggregate) = Len(aggregate) + 1

\* A handler about to publish is the only one with its sequence.
PublishInv(h) ==
    pc[h] = "publish" =>
        /\ req[h].sequence <= Len(aggregate)
        /\ aggregate[req[h].sequence] = req[h].content
        /\ sent[req[h].sequence] = 0
        /\ \A k \in Handlers \ {h} :
              pc[k] = "publish" => req[k].sequence # req[h].sequence

HandlerInv(h) ==
    RequestInv(h) /\ ViewInv(h) /\ FoldInv(h) /\ CommitInv(h) /\ PublishInv(h)

\* How many of the first n records have shape s.
Count(n, s) == Cardinality({i \in 1..n : i <= Len(aggregate) /\ Shape[aggregate[i]] = s})

\* ingestState: "The cursor and the evidence it describes must agree."  No
\* interleaving of handlers, crash or lost commit parts them.
CursorDescribesEvidence ==
    cursor # None =>
        /\ cursor.next = Len(aggregate) + 1
        /\ Len(aggregate) > 0
        /\ cursor.digest = aggregate[Len(aggregate)]

\* The snapshot is exactly the fold of a prefix of the run: of all of it while
\* complete, and otherwise of everything before the record that found no room.
SnapshotIsPrefix ==
    /\ \A s \in Shapes : snapshot.entries[s] = Count(snapshot.observed, s)
    /\ snapshot.complete => snapshot.observed = Len(aggregate)
    /\ ~snapshot.complete =>
          /\ snapshot.observed < Len(aggregate)
          /\ Cardinality(Known(snapshot.entries)) = MaxBehaviors
          /\ Count(snapshot.observed, Shape[aggregate[snapshot.observed + 1]]) = 0

\* The retained history quotes the run: every observation is the record at its
\* sequence, and a history that calls itself complete holds all of them.
HistoryQuotesRun ==
    /\ \A o \in observations : o.sequence <= Len(aggregate) /\ aggregate[o.sequence] = o.content
    /\ history # None =>
          /\ history.retained = Cardinality(observations)
          /\ history.retained <= MaxRetained
          /\ history.complete => history.retained = Len(aggregate)

\* "newBehavior is captured above and recorded rather than re-derived": it is
\* true of a shape's first record, and false only of a shape seen before.
FreshIsFirst ==
    \A o \in observations :
        /\ Count(o.sequence - 1, Shape[o.content]) = 0 => o.fresh
        /\ o.sequence <= snapshot.observed =>
              (o.fresh <=> Count(o.sequence - 1, Shape[o.content]) = 0)

\* The retry contract: a record a client was told is applied or replayed is
\* the record the run holds at that sequence, now and ever after.
AcknowledgedIsHeld ==
    \A a \in answers :
        a.disposition \in {"applied", "replayed"} =>
            a.sequence \in 1..Len(aggregate) /\ aggregate[a.sequence] = a.content

\* "Concurrent identical submissions are the retry contract working, so all but
\* one replay rather than conflicting": a client told that its sequence holds
\* different content did present different content.  Only a record that came
\* from a schema without digests cannot be recognised.
ConflictIsReal ==
    \A a \in answers :
        a.disposition = "different" =>
            \/ a.sequence <= Len(aggregate) /\ aggregate[a.sequence] # a.content
            \/ Migrated /\ a.sequence = 1

\* "Only an applied record is announced": each record of the run is published
\* at most once, however many handlers were given it.
PublishedAtMostOnce ==
    \A p \in Positions : sent[p] <= 1 /\ (sent[p] = 1 => p <= Len(aggregate))

\* The inductive invariant behind the theorems: the log only grows, whatever a
\* handler knows of it is a prefix, and a commit extends it by one record.
IngestInv ==
    /\ TypeOK
    /\ \A h \in Handlers : HandlerInv(h)
    /\ CursorDescribesEvidence
    /\ AcknowledgedIsHeld
    /\ PublishedAtMostOnce

\* What the store holds beside the log is right: the snapshot, the history and
\* the freshness of its observations (controlplane.go, applyRecord).
StoredEvidenceIsRight == SnapshotIsPrefix /\ HistoryQuotesRun /\ FreshIsFirst

\* Two transitions racing each other never both happen: a run is announced in
\* the status it ends in, and in no other it did not pass through.
LifecycleEventsAgree ==
    \A s \in told : s = status \/ (s = "running" /\ IsTerminal(status))

\* "What must never happen is completion first, ingest after."
EndedRunsAreFrozen ==
    [][IsTerminal(status) => UNCHANGED <<status, rows>>]_vars

\* Saturation is sticky: neither the snapshot nor the history, once
\* incomplete, calls itself complete again.
IncompleteIsSticky ==
    [][/\ ~snapshot.complete => ~snapshot'.complete
       /\ history # None /\ ~history.complete => history' # None /\ ~history'.complete]_vars

\* No reader takes a concurrent commit for a corrupt store.
NeverReportsCorruption == \A a \in answers : a.disposition # "corrupt"

\* What the outside is told is true: conflicts are real, a concurrent commit is
\* never taken for corruption, and only statuses the run had are announced
\* (controlplane.go, sqlite.go).
AnswersAreHonest == ConflictIsReal /\ NeverReportsCorruption /\ LifecycleEventsAgree

\* Every request is answered, or the process dies: no handler waits for ever
\* on a lock, or with one.
RequestsEnd == \A h \in Handlers : pc[h] # "idle" ~> pc[h] = "idle"

\* The control plane implements EvidenceLog.
Log == INSTANCE EvidenceLog WITH log <- aggregate, phase <- status

ImplementsLog == Log!LSpec
=============================================================================
