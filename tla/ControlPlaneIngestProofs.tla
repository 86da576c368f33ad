---------------------- MODULE ControlPlaneIngestProofs ----------------------
(***************************************************************************)
(* Proofs about the ingest of decision records, for every set of handlers, *)
(* every number of requests and either store.                              *)
(***************************************************************************)
EXTENDS ControlPlaneIngest, SequenceTheorems, FiniteSetTheorems, TLAPS

\* What a header says of a snapshot, and a fresh handler has read, is typed.
LEMMA HeaderType == ASSUME NEW snap \in Snapshots PROVE Header(snap) \in Headers
  <1>1. IsFiniteSet(Known(snap.entries))
    BY ShapeAssumption, FS_Subset DEF Known
  <1>2. Cardinality(Known(snap.entries)) \in Nat
    BY <1>1, FS_CardinalityType
  <1>. QED
    BY <1>2 DEF Header, Headers, Snapshots

\* An empty snapshot is a snapshot.
LEMMA EmptyType == Empty \in Snapshots
  BY DEF Empty, Snapshots, Unseen

\* A view before its first read has seen nothing.
LEMMA BlankType ==
  /\ Blank \in Views
  /\ Blank.cursor = None
  /\ Blank.aggregate = <<>>
  BY HeaderType, EmptyType DEF Blank, Views, Unseen

\* Collecting a record keeps a snapshot a snapshot.
LEMMA CollectType ==
  ASSUME NEW snap \in Snapshots, NEW c \in Contents
  PROVE  Collect(snap, c) \in Snapshots
  <1>1. Shape[c] \in Shapes
    BY ShapeAssumption
  <1>2. [snap EXCEPT !.complete = FALSE] \in Snapshots
    BY DEF Snapshots
  <1>3. [snap.entries EXCEPT ![Shape[c]] = @ + 1] \in [Shapes -> Nat]
    BY <1>1 DEF Snapshots
  <1>4. [observed |-> snap.observed + 1, complete |-> TRUE,
         entries |-> [snap.entries EXCEPT ![Shape[c]] = @ + 1]] \in Snapshots
    BY <1>3 DEF Snapshots
  <1>. QED
    BY <1>2, <1>4 DEF Collect

\* The initial states satisfy the inductive invariant.
LEMMA InitInv == Init => IngestInv
  <1> SUFFICES ASSUME Init PROVE IngestInv
    OBVIOUS
  <1> USE ShapeAssumption, LimitAssumption, StoreAssumption, NobodyAssumption
  <1>1. /\ snapshot \in Snapshots
        /\ aggregate \in Seq(Contents)
        /\ cursor \in Cursors \cup {None}
        /\ CursorDescribesEvidence
        /\ status \in RunStatuses
    <2>1. CASE aggregate = <<>> /\ snapshot = Empty /\ cursor = None /\ status = "pending"
      BY <2>1, EmptyType DEF CursorDescribesEvidence, RunStatuses
    <2>2. ASSUME NEW c \in Contents, aggregate = <<c>>, snapshot = Collect(Empty, c),
                 cursor = [next |-> 2, digest |-> c] \/ cursor = None, status = "running"
          PROVE  <1>1!1 /\ <1>1!2 /\ <1>1!3 /\ <1>1!4 /\ <1>1!5
      <3>1. snapshot \in Snapshots
        BY <2>2, EmptyType, CollectType
      <3>. QED
        BY <2>2, <3>1 DEF CursorDescribesEvidence, RunStatuses, Cursors
    <2>. QED
      BY <2>1, <2>2 DEF Init
  <1>2. TypeOK
    <2>1. pc \in [Handlers -> Labels] /\ owner \in Handlers \cup {None}
      BY DEF Init, Labels
    <2>2. req \in [Handlers -> Ingest \cup Progress \cup Transition \cup {None}]
      BY DEF Init
    <2>3. view \in [Handlers -> Views] /\ fold \in [Handlers -> Folds \cup {None}]
      BY BlankType DEF Init
    <2>4. requests \in 0..MaxRequests /\ sent \in [Positions -> Nat]
      BY DEF Init
    <2>5. history = None /\ observations = {} /\ answers = {} /\ told = {}
      BY DEF Init
    <2>. QED
      BY <1>1, <2>1, <2>2, <2>3, <2>4, <2>5 DEF TypeOK
  <1>3. ASSUME NEW h \in Handlers PROVE HandlerInv(h)
    <2>1. pc[h] = "idle" /\ req[h] = None /\ view[h].cursor = None /\ view[h].aggregate = <<>>
      BY BlankType DEF Init
    <2>. QED
      BY <1>1, <2>1 DEF HandlerInv, RequestInv, ViewInv, FoldInv, CommitInv, PublishInv,
         Committing, Applying
  <1>4. AcknowledgedIsHeld /\ PublishedAtMostOnce
    BY DEF Init, AcknowledgedIsHeld, PublishedAtMostOnce, Positions
  <1>. QED
    BY <1>1, <1>2, <1>3, <1>4 DEF IngestInv

-----------------------------------------------------------------------------
(* Types. *)

\* A handler that is done leaves its variables typed.
LEMMA FinishType ==
  ASSUME TypeOK, NEW h \in Handlers, Finish(h)
  PROVE  /\ pc' \in [Handlers -> Labels]
         /\ req' \in [Handlers -> Ingest \cup Progress \cup Transition \cup {None}]
         /\ view' \in [Handlers -> Views]
         /\ fold' \in [Handlers -> Folds \cup {None}]
  <1>1. pc' \in [Handlers -> Labels]
    BY DEF Finish, Goto, TypeOK, Labels
  <1>2. req' \in [Handlers -> Ingest \cup Progress \cup Transition \cup {None}]
    BY DEF Finish, TypeOK
  <1>3. view' \in [Handlers -> Views] /\ fold' \in [Handlers -> Folds \cup {None}]
    BY BlankType DEF Finish, TypeOK
  <1>. QED
    BY <1>1, <1>2, <1>3

\* What a client is told is typed.
LEMMA ReplyType ==
  ASSUME TypeOK, NEW h \in Handlers, req[h] \in Ingest \cup Progress,
         NEW d \in {"applied", "replayed", "different", "corrupt"}, Reply(h, d)
  PROVE  answers' \subseteq [sequence : Nat, content : Contents \cup {None},
                            disposition : {"applied", "replayed", "different", "corrupt"}]
  <1>1. req[h].sequence \in Nat /\ req[h].content \in Contents \cup {None}
    BY LimitAssumption DEF Ingest, Progress, Positions
  <1>. QED
    BY <1>1 DEF Reply, TypeOK

\* A label that is one is a typed place to go.
LEMMA GotoType ==
  ASSUME TypeOK, NEW h \in Handlers, NEW label \in Labels, Goto(h, label)
  PROVE  pc' \in [Handlers -> Labels]
  BY DEF Goto, TypeOK

\* Steps on the connection or the row lock keep its owner a handler or nobody.
LEMMA OwnerType ==
  ASSUME TypeOK, NEW h \in Handlers, Hold(h) \/ Drop(h) \/ owner' = h \/ owner' = owner
  PROVE  owner' \in Handlers \cup {None}
  BY DEF Hold, Drop, TypeOK

\* What a handler folds a record into is typed.
LEMMA FoldedType ==
  ASSUME TypeOK, NEW h \in Handlers, req[h] \in Ingest
  PROVE  LET v    == [view[h] EXCEPT !.entries = snapshot.entries]
             snap == [observed |-> v.header.observed, complete |-> v.header.complete,
                      entries |-> v.entries]
         IN [aggregate |-> Append(v.aggregate, req[h].content),
             snapshot  |-> Collect(snap, req[h].content),
             fresh     |-> Shape[req[h].content] \notin Known(v.entries)] \in Folds
  <1> DEFINE v    == [view[h] EXCEPT !.entries = snapshot.entries]
             snap == [observed |-> v.header.observed, complete |-> v.header.complete,
                      entries |-> v.entries]
  <1>1. v.aggregate \in Seq(Contents) /\ snap \in Snapshots
    BY DEF TypeOK, Views, Headers, Snapshots
  <1>2. req[h].content \in Contents
    BY DEF Ingest
  <1>3. Append(v.aggregate, req[h].content) \in Seq(Contents)
    BY <1>1, <1>2
  <1>4. Collect(snap, req[h].content) \in Snapshots
    BY <1>1, <1>2, CollectType
  <1>. QED
    BY <1>3, <1>4 DEF Folds

\* What a handler commits is typed.
LEMMA WrittenType ==
  ASSUME TypeOK, NEW h \in Handlers, req[h] \in Ingest, fold[h] \in Folds, Written(h)
  PROVE  /\ aggregate' \in Seq(Contents)
         /\ snapshot' \in Snapshots
         /\ cursor' \in Cursors
         /\ history' \in [retained : Nat, complete : BOOLEAN] \cup {None}
         /\ observations' \subseteq [sequence : Positions, content : Contents, fresh : BOOLEAN]
  <1>1. req[h].sequence \in Positions /\ req[h].sequence \in Nat /\ req[h].content \in Contents
    BY LimitAssumption DEF Ingest, Positions
  <1>2. Retain(history, req[h].sequence).row \in [retained : Nat, complete : BOOLEAN]
    <2>1. CASE history = None
      BY <1>1, <2>1 DEF Retain
    <2>2. CASE history # None
      <3>1. history \in [retained : Nat, complete : BOOLEAN]
        BY <2>2 DEF TypeOK
      <3>2. [history EXCEPT !.complete = FALSE] \in [retained : Nat, complete : BOOLEAN]
        BY <3>1
      <3>3. history.retained + 1 \in Nat
        BY <3>1
      <3>4. [history EXCEPT !.retained = @ + 1] \in [retained : Nat, complete : BOOLEAN]
        BY <3>1, <3>3, Zenon
      <3>. QED
        BY <2>2, <3>2, <3>4 DEF Retain
    <2>. QED
      BY <2>1, <2>2
  <1>3. aggregate' \in Seq(Contents) /\ snapshot' \in Snapshots /\ fold[h].fresh \in BOOLEAN
    BY DEF Written, Folds
  <1>4. cursor' \in Cursors
    BY <1>1 DEF Written, Cursors
  <1>5. [sequence |-> req[h].sequence, content |-> req[h].content, fresh |-> fold[h].fresh]
          \in [sequence : Positions, content : Contents, fresh : BOOLEAN]
    BY <1>1, <1>3
  <1>6. observations' \subseteq [sequence : Positions, content : Contents, fresh : BOOLEAN]
    BY <1>5 DEF Written, TypeOK
  <1>7. history' \in [retained : Nat, complete : BOOLEAN]
    BY <1>2 DEF Written
  <1>. QED
    BY <1>3, <1>4, <1>6, <1>7

\* Every step keeps every variable in its type.
LEMMA TypeStep == ASSUME IngestInv, [Next]_vars PROVE TypeOK'
  <1> USE DEF IngestInv, rows, outside
  <1>1. CASE UNCHANGED vars
    BY <1>1 DEF TypeOK, vars, handlers
  <1>2. CASE CrashPlane
    <2>1. pc' \in [Handlers -> Labels] /\ owner' \in Handlers \cup {None}
      BY <1>2 DEF CrashPlane, Labels
    <2>2. req' \in [Handlers -> Ingest \cup Progress \cup Transition \cup {None}]
      BY <1>2 DEF CrashPlane
    <2>3. view' \in [Handlers -> Views] /\ fold' \in [Handlers -> Folds \cup {None}]
      BY <1>2, BlankType DEF CrashPlane
    <2>. QED
      BY <1>2, <2>1, <2>2, <2>3 DEF CrashPlane, TypeOK
  <1>3. ASSUME NEW h \in Handlers, NEW r \in Ingest \cup Progress \cup Transition,
               NEW label \in Labels, Accept(h, r, label)
        PROVE  TypeOK'
    <2>1. pc' \in [Handlers -> Labels]
      BY <1>3, GotoType DEF Accept
    <2>2. requests' \in 0..MaxRequests
      BY <1>3, LimitAssumption DEF Accept, TypeOK
    <2>. QED
      BY <1>3, <2>1, <2>2 DEF Accept, TypeOK
  <1>4. ASSUME NEW h \in Handlers, Arrive(h) PROVE TypeOK'
    <2>1. CASE IngestDecisionRecord(h)
      BY <2>1, <1>3 DEF IngestDecisionRecord, Ingest, Labels, Reading
    <2>2. CASE EvaluationProgress(h)
      BY <2>2, <1>3 DEF EvaluationProgress, Progress, Labels, Reading
    <2>3. CASE TransitionRun(h)
      BY <2>3, <1>3 DEF TransitionRun, Transition, Labels, TypeOK
    <2>. QED
      BY <1>4, <2>1, <2>2, <2>3 DEF Arrive
  <1>5. ASSUME NEW h \in Handlers, ReadCursor(h) PROVE TypeOK'
    <2>1. pc' \in [Handlers -> Labels] /\ owner' \in Handlers \cup {None}
      BY <1>5, GotoType, OwnerType DEF ReadCursor, Labels, Reading
    <2>2. view' \in [Handlers -> Views]
      BY <1>5 DEF ReadCursor, TypeOK, Views
    <2>. QED
      BY <1>5, <2>1, <2>2 DEF ReadCursor, TypeOK
  <1>6. ASSUME NEW h \in Handlers, ReadAggregate(h) PROVE TypeOK'
    <2>1. pc' \in [Handlers -> Labels] /\ owner' \in Handlers \cup {None}
      BY <1>6, GotoType, OwnerType DEF ReadAggregate, Labels, Reading, Applying
    <2>2. view' \in [Handlers -> Views]
      BY <1>6 DEF ReadAggregate, TypeOK, Views
    <2>. QED
      BY <1>6, <2>1, <2>2 DEF ReadAggregate, TypeOK
  <1>7. ASSUME NEW h \in Handlers, ReadHeader(h) PROVE TypeOK'
    <2>1. pc' \in [Handlers -> Labels]
      BY <1>7, GotoType DEF ReadHeader, Labels, Reading, Applying
    <2>2. Header(snapshot) \in Headers
      BY HeaderType DEF TypeOK
    <2>3. view' \in [Handlers -> Views]
      BY <1>7, <2>2 DEF ReadHeader, TypeOK, Views
    <2>. QED
      BY <1>7, <2>1, <2>3 DEF ReadHeader, TypeOK
  <1>8. ASSUME NEW h \in Handlers, ReadState(h) PROVE TypeOK'
    <2>1. req[h] \in Ingest \cup Progress /\ owner' \in Handlers \cup {None}
      BY <1>8, OwnerType DEF ReadState, HandlerInv, RequestInv, Reading, Applying
    <2>2. ASSUME NEW d \in {"applied", "replayed", "different", "corrupt"}, Reply(h, d)
          PROVE  TypeOK'
      <3>1. Finish(h)
        BY <2>2 DEF Reply
      <3>. QED
        BY <1>8, <2>1, <2>2, <3>1, FinishType, ReplyType DEF ReadState, TypeOK
    <2>3. CASE Refuse(h)
      BY <1>8, <2>1, <2>3, FinishType DEF ReadState, Refuse, TypeOK
    <2>4. CASE /\ Goto(h, "evidence.aggregate")
               /\ view' = [view EXCEPT ![h] = Blank]
               /\ UNCHANGED <<req, fold, answers>>
      <3>1. pc' \in [Handlers -> Labels] /\ view' \in [Handlers -> Views]
        BY <2>4, GotoType, BlankType DEF TypeOK, Labels, Applying
      <3>. QED
        BY <1>8, <2>1, <2>4, <3>1 DEF ReadState, TypeOK
    <2>. QED
      BY <1>8, <2>2, <2>3, <2>4 DEF ReadState
  <1>9. ASSUME NEW h \in Handlers, FoldRecord(h) PROVE TypeOK'
    <2>1. req[h] \in Ingest /\ owner' \in Handlers \cup {None}
      BY <1>9, OwnerType DEF FoldRecord, HandlerInv, RequestInv, Reading, Applying
    <2>. DEFINE v == [view[h] EXCEPT !.entries = snapshot.entries]
                snap == [observed |-> v.header.observed, complete |-> v.header.complete,
                         entries |-> v.entries]
    <2>2. CASE Reply(h, "corrupt")
      <3>1. Finish(h)
        BY <2>2 DEF Reply
      <3>. QED
        BY <1>9, <2>1, <2>2, <3>1, FinishType, ReplyType DEF FoldRecord, TypeOK
    <2>3. CASE /\ Goto(h, "lock")
               /\ fold' = [fold EXCEPT ![h] =
                      [aggregate |-> Append(v.aggregate, req[h].content),
                       snapshot  |-> Collect(snap, req[h].content),
                       fresh     |-> Shape[req[h].content] \notin Known(v.entries)]]
               /\ view' = [view EXCEPT ![h] = Blank]
               /\ UNCHANGED <<req, answers>>
      <3>1. [aggregate |-> Append(v.aggregate, req[h].content),
             snapshot  |-> Collect(snap, req[h].content),
             fresh     |-> Shape[req[h].content] \notin Known(v.entries)] \in Folds
        BY <2>1, FoldedType
      <3>2. fold' \in [Handlers -> Folds \cup {None}]
        BY <2>3, <3>1 DEF TypeOK
      <3>3. pc' \in [Handlers -> Labels] /\ view' \in [Handlers -> Views]
        BY <2>3, GotoType, BlankType DEF TypeOK, Labels
      <3>. QED
        BY <1>9, <2>1, <2>3, <3>2, <3>3 DEF FoldRecord, TypeOK
    <2>. QED
      BY <1>9, <2>2, <2>3 DEF FoldRecord
  <1>10. ASSUME NEW h \in Handlers, Lock(h) PROVE TypeOK'
    <2>1. pc' \in [Handlers -> Labels] /\ owner' \in Handlers \cup {None}
      BY <1>10, GotoType, OwnerType DEF Lock, Labels, Applying
    <2>. QED
      BY <1>10, <2>1 DEF Lock, TypeOK
  <1>11. ASSUME NEW h \in Handlers, Reread(h) PROVE TypeOK'
    <2>1. req[h] \in Ingest
      BY <1>11 DEF Reread, HandlerInv, RequestInv, Reading, Applying
    <2>2. CASE Goto(h, "write") /\ UNCHANGED <<owner, req, view, fold, answers>>
      <3>1. pc' \in [Handlers -> Labels]
        BY <2>2, GotoType DEF Labels, Applying
      <3>. QED
        BY <1>11, <2>2, <3>1 DEF Reread, TypeOK
    <2>3. CASE Drop(h) /\ Reply(h, "replayed")
      <3>1. Finish(h) /\ owner' \in Handlers \cup {None}
        BY <2>3, OwnerType DEF Reply
      <3>. QED
        BY <1>11, <2>1, <2>3, <3>1, FinishType, ReplyType DEF Reread, TypeOK
    <2>4. CASE Drop(h) /\ Refuse(h)
      <3>1. owner' \in Handlers \cup {None}
        BY <2>4, OwnerType
      <3>. QED
        BY <1>11, <2>4, <3>1, FinishType DEF Reread, Refuse, TypeOK
    <2>. QED
      BY <1>11, <2>2, <2>3, <2>4 DEF Reread
  <1>12. ASSUME NEW h \in Handlers, Write(h) PROVE TypeOK'
    <2>1. req[h] \in Ingest /\ fold[h] \in Folds
      BY <1>12 DEF Write, HandlerInv, RequestInv, FoldInv, Committing, Reading, Applying
    <2>2. pc' \in [Handlers -> Labels] /\ owner' \in Handlers \cup {None}
      BY <1>12, GotoType, OwnerType DEF Write, Labels, Applying
    <2>. QED
      BY <1>12, <2>1, <2>2, WrittenType DEF Write, TypeOK
  <1>13. ASSUME NEW h \in Handlers, WriteFails(h) PROVE TypeOK'
    <2>1. req[h] \in Ingest /\ fold[h] \in Folds
      BY <1>13 DEF WriteFails, HandlerInv, RequestInv, FoldInv, Committing, Reading, Applying
    <2>2. owner' \in Handlers \cup {None}
      BY <1>13, OwnerType DEF WriteFails
    <2>3. /\ aggregate' \in Seq(Contents)
          /\ snapshot' \in Snapshots
          /\ cursor' \in Cursors \cup {None}
          /\ history' \in [retained : Nat, complete : BOOLEAN] \cup {None}
          /\ observations' \subseteq [sequence : Positions, content : Contents, fresh : BOOLEAN]
      BY <1>13, <2>1, WrittenType DEF WriteFails, TypeOK
    <2>. QED
      BY <1>13, <2>2, <2>3, FinishType DEF WriteFails, Refuse, TypeOK
  <1>14. ASSUME NEW h \in Handlers, Publish(h) PROVE TypeOK'
    <2>1. req[h] \in Ingest
      BY <1>14 DEF Publish, HandlerInv, RequestInv, Reading, Applying
    <2>2. Finish(h) /\ Reply(h, "applied") /\ sent' \in [Positions -> Nat]
      BY <1>14, <2>1 DEF Publish, Reply, TypeOK, Ingest
    <2>. QED
      BY <1>14, <2>1, <2>2, FinishType, ReplyType DEF Publish, TypeOK
  <1>15. ASSUME NEW h \in Handlers, Swap(h) PROVE TypeOK'
    <2>1. req[h] \in Transition
      BY <1>15 DEF Swap, HandlerInv, RequestInv, Reading, Applying
    <2>2. pc' \in [Handlers -> Labels] /\ owner' \in Handlers \cup {None}
      BY <1>15, GotoType, OwnerType DEF Swap, Labels
    <2>. QED
      BY <1>15, <2>1, <2>2 DEF Swap, Swapped, Transition, TypeOK
  <1>16. ASSUME NEW h \in Handlers, SwapFails(h) PROVE TypeOK'
    <2>1. req[h] \in Transition
      BY <1>16 DEF SwapFails, HandlerInv, RequestInv, Reading, Applying
    <2>2. owner' \in Handlers \cup {None} /\ status' \in RunStatuses
      BY <1>16, <2>1, OwnerType DEF SwapFails, Swapped, Transition, TypeOK
    <2>. QED
      BY <1>16, <2>2, FinishType DEF SwapFails, Refuse, TypeOK
  <1>17. ASSUME NEW h \in Handlers, Announce(h) PROVE TypeOK'
    <2>1. req[h] \in Transition
      BY <1>17 DEF Announce, HandlerInv, RequestInv, Reading, Applying
    <2>2. told' \subseteq RunStatuses
      BY <1>17, <2>1 DEF Announce, Transition, TypeOK
    <2>. QED
      BY <1>17, <2>2, FinishType DEF Announce, Refuse, TypeOK
  <1>. QED
    BY <1>1, <1>2, <1>4, <1>5, <1>6, <1>7, <1>8, <1>9, <1>10, <1>11, <1>12, <1>13, <1>14,
       <1>15, <1>16, <1>17 DEF Next, Serve

-----------------------------------------------------------------------------
(* The handlers a step is not about. *)

\* A step of h touches no other handler.
Only(h) ==
  \A k \in Handlers \ {h} :
     pc'[k] = pc[k] /\ req'[k] = req[k] /\ view'[k] = view[k] /\ fold'[k] = fold[k]

\* A handler keeps what it knows when another one takes a step that commits
\* nothing.
LEMMA OthersKeep ==
  ASSUME IngestInv, NEW h \in Handlers, NEW k \in Handlers \ {h}, Only(h),
         UNCHANGED <<aggregate, sent>>,
         pc[k] = "write" => status' = status,
         owner = k => owner' = k,
         pc'[h] # "publish"
  PROVE  HandlerInv(k)'
  <1> USE DEF Only
  <1>1. HandlerInv(k)
    BY DEF IngestInv
  <1>2. RequestInv(k)' /\ ViewInv(k)'
    BY <1>1 DEF HandlerInv, RequestInv, ViewInv
  <1>3. FoldInv(k)'
    BY <1>1 DEF HandlerInv, FoldInv, Committing
  <1>4. CommitInv(k)'
    BY <1>1 DEF HandlerInv, CommitInv
  <1>5. PublishInv(k)'
    BY <1>1 DEF HandlerInv, PublishInv
  <1>. QED
    BY <1>2, <1>3, <1>4, <1>5 DEF HandlerInv

\* An idle handler knows nothing and claims nothing.
LEMMA IdleInv ==
  ASSUME TypeOK', NEW h \in Handlers, pc'[h] = "idle", req'[h] = None, view'[h] = Blank
  PROVE  HandlerInv(h)'
  <1>1. Len(view'[h].aggregate) = 0 /\ view'[h].cursor = None
    BY BlankType
  <1>2. Len(aggregate') \in Nat
    BY DEF TypeOK
  <1>. QED
    BY <1>1, <1>2 DEF HandlerInv, RequestInv, ViewInv, FoldInv, CommitInv, PublishInv,
       Committing, Applying

\* A handler that is done is idle.
LEMMA FinishedInv ==
  ASSUME TypeOK, TypeOK', NEW h \in Handlers, Finish(h)
  PROVE  HandlerInv(h)'
  <1>1. pc'[h] = "idle" /\ req'[h] = None /\ view'[h] = Blank
    BY DEF Finish, Goto, TypeOK
  <1>. QED
    BY <1>1, IdleInv

\* A commit extends the log by the handler's record.
LEMMA CommitExtends ==
  ASSUME IngestInv, NEW h \in Handlers, pc[h] = "write", Written(h)
  PROVE  /\ req[h] \in Ingest
         /\ status = "running"
         /\ owner = h
         /\ req[h].sequence = Len(aggregate) + 1
         /\ Len(aggregate') = Len(aggregate) + 1
         /\ aggregate' = Append(aggregate, req[h].content)
         /\ \A i \in 1..Len(aggregate) : aggregate'[i] = aggregate[i]
         /\ aggregate'[req[h].sequence] = req[h].content
         /\ cursor' = [next |-> req[h].sequence + 1, digest |-> req[h].content]
  <1>1. /\ req[h] \in Ingest
        /\ status = "running"
        /\ owner = h
        /\ req[h].sequence = Len(aggregate) + 1
    BY DEF IngestInv, HandlerInv, RequestInv, CommitInv, Reading, Applying
  <1>2. /\ fold[h] \in Folds
        /\ Len(fold[h].aggregate) = Len(aggregate) + 1
        /\ \A i \in 1..Len(fold[h].aggregate) :
              fold[h].aggregate[i] = IF i = Len(fold[h].aggregate)
                                     THEN req[h].content ELSE aggregate[i]
    BY <1>1 DEF IngestInv, HandlerInv, FoldInv, CommitInv, Committing
  <1>3. /\ aggregate' = fold[h].aggregate
        /\ aggregate' \in Seq(Contents) /\ aggregate \in Seq(Contents)
    BY <1>2 DEF Written, Folds, IngestInv, TypeOK
  <1>4. Append(aggregate, req[h].content) \in Seq(Contents)
    BY <1>1, <1>3 DEF Ingest
  <1>5. /\ Len(Append(aggregate, req[h].content)) = Len(aggregate')
        /\ \A i \in 1..Len(aggregate') : aggregate'[i] = Append(aggregate, req[h].content)[i]
    BY <1>1, <1>2, <1>3, AppendProperties DEF Ingest
  <1>6. aggregate' = Append(aggregate, req[h].content)
    BY <1>3, <1>4, <1>5, SeqEqual
  <1>7. /\ \A i \in 1..Len(aggregate) : aggregate'[i] = aggregate[i]
        /\ aggregate'[req[h].sequence] = req[h].content
    BY <1>1, <1>2, <1>3
  <1>. QED
    BY <1>1, <1>2, <1>3, <1>6, <1>7 DEF Written

\* A handler keeps what it knows when another one commits a record.
LEMMA OthersKeepOnCommit ==
  ASSUME IngestInv, NEW h \in Handlers, NEW k \in Handlers \ {h},
         pc[h] = "write", Written(h), UNCHANGED <<sent, status>>, Only(h),
         pc'[h] = "publish" => req'[h] = req[h]
  PROVE  HandlerInv(k)'
  <1> USE DEF Only
  <1> DEFINE n == Len(aggregate)
  <1>1. /\ HandlerInv(k)
        /\ req[h].sequence = n + 1
        /\ owner = h
        /\ n \in Nat
        /\ Len(aggregate') = n + 1
        /\ \A i \in 1..n : aggregate'[i] = aggregate[i]
    BY CommitExtends DEF IngestInv, TypeOK
  <1>2. view[k] \in Views /\ Len(view[k].aggregate) \in Nat
    BY DEF IngestInv, TypeOK, Views
  <1>3. RequestInv(k)'
    BY <1>1 DEF HandlerInv, RequestInv
  <1>4. ViewInv(k)'
    <2>1. view'[k] = view[k]
      OBVIOUS
    <2>2. \A i \in 1..Len(view[k].aggregate) : view[k].aggregate[i] = aggregate'[i]
      BY <1>1, <1>2 DEF HandlerInv, ViewInv
    <2>3. view[k].cursor # None =>
             /\ view[k].cursor.next - 1 \in 1..(n + 1)
             /\ view[k].cursor.digest = aggregate'[view[k].cursor.next - 1]
      BY <1>1, <1>2 DEF HandlerInv, ViewInv
    <2>4. Len(view[k].aggregate) <= n + 1
      BY <1>1, <1>2 DEF HandlerInv, ViewInv
    <2>. QED
      BY <1>1, <2>1, <2>2, <2>3, <2>4 DEF ViewInv
  <1>5. FoldInv(k)'
    <2>1. /\ pc'[k] = pc[k] /\ req'[k] = req[k] /\ view'[k] = view[k] /\ fold'[k] = fold[k]
          /\ Committing(k)' <=> Committing(k)
      BY DEF Committing
    <2>2. (pc[k] \in Applying \/ Committing(k)) => req[k].sequence <= n + 2
      <3>1. (pc[k] \in Applying \/ Committing(k)) => req[k] \in Ingest
        BY <1>1 DEF HandlerInv, RequestInv, Committing, Reading, Applying
      <3>2. req[k] \in Ingest => req[k].sequence \in Nat
        BY LimitAssumption DEF Ingest, Positions
      <3>. QED
        BY <1>1, <3>1, <3>2 DEF HandlerInv, FoldInv
    <2>3. ASSUME Committing(k)
          PROVE  /\ fold[k] \in Folds
                 /\ req[k].sequence <= Len(fold[k].aggregate)
                 /\ Len(fold[k].aggregate) <= n + 2
                 /\ \A i \in 1..Len(fold[k].aggregate) :
                       fold[k].aggregate[i] = IF i = Len(fold[k].aggregate)
                                              THEN req[k].content ELSE aggregate'[i]
      <3>1. fold[k] \in Folds /\ Len(fold[k].aggregate) \in Nat
        BY <1>1, <2>3 DEF HandlerInv, FoldInv, Folds
      <3>. QED
        BY <1>1, <2>3, <3>1 DEF HandlerInv, FoldInv
    <2>. QED
      BY <1>1, <2>1, <2>2, <2>3 DEF HandlerInv, FoldInv
  <1>6. CommitInv(k)'
    BY <1>1 DEF HandlerInv, CommitInv
  <1>7. PublishInv(k)'
    <2>1. ASSUME pc[k] = "publish"
          PROVE  /\ req[k].sequence \in 1..n
                 /\ aggregate'[req[k].sequence] = req[k].content
      <3>1. req[k] \in Ingest
        BY <1>1, <2>1 DEF HandlerInv, RequestInv, Reading, Applying
      <3>2. req[k].sequence \in 1..n
        BY <1>1, <2>1, <3>1, LimitAssumption DEF HandlerInv, PublishInv, Ingest, Positions
      <3>. QED
        BY <1>1, <2>1, <3>2 DEF HandlerInv, PublishInv
    <2>. QED
      BY <1>1, <2>1 DEF HandlerInv, PublishInv
  <1>. QED
    BY <1>3, <1>4, <1>5, <1>6, <1>7 DEF HandlerInv

-----------------------------------------------------------------------------
(* The handler a step is about. *)

\* A request is accepted: its handler has read nothing yet.
LEMMA AcceptInv ==
  ASSUME IngestInv, TypeOK', NEW h \in Handlers,
         NEW r \in Ingest \cup Progress \cup Transition, NEW label \in Labels,
         Accept(h, r, label),
         \/ label = "cursor" /\ r \in Ingest \cup Progress
         \/ label = "lock" /\ r \in Transition
  PROVE  HandlerInv(h)'
  <1>1. pc'[h] = label /\ req'[h] = r /\ UNCHANGED <<view, aggregate>>
    BY DEF Accept, Goto, IngestInv, TypeOK, rows
  <1>2. RequestInv(h)'
    BY <1>1 DEF RequestInv, Reading
  <1>3. ViewInv(h)'
    BY <1>1 DEF ViewInv, IngestInv, HandlerInv
  <1>4. r \in Transition => r \notin Ingest
    BY DEF Transition, Ingest
  <1>. QED
    BY <1>1, <1>2, <1>3, <1>4 DEF HandlerInv, FoldInv, CommitInv, PublishInv, Committing, Applying

\* The steps of EvaluationIngestState and EvaluationEvidence that only read.
LEMMA ReadInv ==
  ASSUME IngestInv, TypeOK', NEW h \in Handlers, ReadCursor(h) \/ ReadAggregate(h) \/ ReadHeader(h)
  PROVE  HandlerInv(h)'
  <1> USE DEF IngestInv, rows
  <1>0. HandlerInv(h) /\ UNCHANGED <<req, aggregate, fold, sent, status>> /\ Len(aggregate) \in Nat
    BY DEF ReadCursor, ReadAggregate, ReadHeader, outside, TypeOK
  <1>1. CASE ReadCursor(h)
    <2>1. /\ pc[h] = "cursor" /\ pc'[h] = "aggregate"
          /\ view'[h].cursor = cursor /\ view'[h].aggregate = view[h].aggregate
      BY <1>1 DEF ReadCursor, Goto, TypeOK, Views
    <2>2. RequestInv(h)'
      BY <1>0, <2>1 DEF HandlerInv, RequestInv, Reading, Applying
    <2>3. ViewInv(h)'
      <3>1. cursor # None => /\ cursor.next - 1 \in 1..Len(aggregate)
                             /\ cursor.digest = aggregate[cursor.next - 1]
        BY <1>0 DEF CursorDescribesEvidence
      <3>. QED
        BY <1>0, <2>1, <3>1 DEF HandlerInv, ViewInv
    <2>. QED
      BY <1>0, <2>1, <2>2, <2>3 DEF HandlerInv, FoldInv, CommitInv, PublishInv, Committing, Applying
  <1>2. CASE ReadAggregate(h)
    <2>1. /\ \/ pc[h] = "aggregate" /\ pc'[h] = "header"
             \/ pc[h] = "evidence.aggregate" /\ pc'[h] = "evidence.header"
          /\ view'[h].cursor = view[h].cursor /\ view'[h].aggregate = aggregate
      BY <1>2 DEF ReadAggregate, Goto, TypeOK, Views
    <2>2. RequestInv(h)'
      BY <1>0, <2>1 DEF HandlerInv, RequestInv, Reading, Applying
    <2>3. ViewInv(h)'
      BY <1>0, <2>1 DEF HandlerInv, ViewInv
    <2>. QED
      BY <1>0, <2>1, <2>2, <2>3 DEF HandlerInv, FoldInv, CommitInv, PublishInv, Committing, Applying
  <1>3. CASE ReadHeader(h)
    <2>1. /\ \/ pc[h] = "header" /\ pc'[h] = "entries"
             \/ pc[h] = "evidence.header" /\ pc'[h] = "evidence.entries"
          /\ view'[h].cursor = view[h].cursor /\ view'[h].aggregate = view[h].aggregate
      BY <1>3 DEF ReadHeader, Goto, TypeOK, Views
    <2>2. RequestInv(h)'
      BY <1>0, <2>1 DEF HandlerInv, RequestInv, Reading, Applying
    <2>3. ViewInv(h)'
      BY <1>0, <2>1 DEF HandlerInv, ViewInv
    <2>. QED
      BY <1>0, <2>1, <2>2, <2>3 DEF HandlerInv, FoldInv, CommitInv, PublishInv, Committing, Applying
  <1>. QED
    BY <1>1, <1>2, <1>3

\* The sequence a reader expects next is at most one past the log, and a
\* record it recognises by its digest is in the log.
LEMMA ReaderExpects ==
  ASSUME IngestInv, NEW h \in Handlers, NEW v \in Views,
         v.cursor = view[h].cursor, v.aggregate = view[h].aggregate
  PROVE  /\ NextSequence(v) \in 1..(Len(aggregate) + 1)
         /\ \A p \in Nat \ {0} :
               p + 1 = NextSequence(v) /\ LastDigest(v) \in Contents =>
                   p \in 1..Len(aggregate) /\ aggregate[p] = LastDigest(v)
  <1>1. ViewInv(h) /\ Len(aggregate) \in Nat /\ Len(v.aggregate) \in Nat
    BY DEF IngestInv, HandlerInv, TypeOK, Views
  <1>2. v.cursor # None => v.cursor \in Cursors
    BY DEF Views
  <1>. QED
    BY <1>1, <1>2, NobodyAssumption DEF NextSequence, LastDigest, ViewInv, Cursors

\* The last statement of EvaluationIngestState.
LEMMA ReadStateInv ==
  ASSUME IngestInv, TypeOK', NEW h \in Handlers, ReadState(h)
  PROVE  HandlerInv(h)' /\ AcknowledgedIsHeld'
  <1> DEFINE v == [view[h] EXCEPT !.entries = snapshot.entries]
  <1>1. /\ v \in Views /\ v.cursor = view[h].cursor /\ v.aggregate = view[h].aggregate
        /\ pc[h] = "entries" /\ req[h] \in Ingest \cup Progress
        /\ UNCHANGED aggregate
    <2>1. v \in Views /\ v.cursor = view[h].cursor /\ v.aggregate = view[h].aggregate
      BY ZenonT(30) DEF IngestInv, TypeOK, Views, Snapshots
    <2>2. pc[h] = "entries" /\ UNCHANGED aggregate
      BY DEF ReadState, rows
    <2>3. req[h] \in Ingest \cup Progress
      BY <2>2 DEF IngestInv, HandlerInv, RequestInv, Reading, Applying
    <2>. QED
      BY <2>1, <2>2, <2>3
  <1> HIDE DEF v
  <1>2. req[h] \in Ingest => req[h].sequence \in Nat \ {0} /\ req[h].content \in Contents
    BY LimitAssumption DEF Ingest, Positions
  <1>3. CASE Refuse(h)
    BY <1>1, <1>3, FinishedInv DEF Refuse, IngestInv, AcknowledgedIsHeld
  <1>4. CASE Reply(h, "corrupt") \/ Reply(h, "different")
    BY <1>1, <1>4, FinishedInv DEF Reply, IngestInv, AcknowledgedIsHeld
  <1>5. CASE /\ Reply(h, "replayed") /\ req[h].op = "ingest"
             /\ req[h].sequence + 1 = NextSequence(v) /\ LastDigest(v) = req[h].content
    <2>1. req[h] \in Ingest
      BY <1>1, <1>5 DEF Progress, Ingest
    <2>2. req[h].sequence \in 1..Len(aggregate) /\ aggregate[req[h].sequence] = req[h].content
      BY <1>1, <1>2, <1>5, <2>1, ReaderExpects
    <2>. QED
      BY <1>1, <1>5, <2>2, FinishedInv DEF Reply, IngestInv, AcknowledgedIsHeld
  <1>6. CASE /\ req[h].op = "ingest"
             /\ req[h].sequence = NextSequence(v)
             /\ Goto(h, "evidence.aggregate")
             /\ view' = [view EXCEPT ![h] = Blank]
             /\ UNCHANGED <<req, fold, answers>>
    <2>1. req[h] \in Ingest
      BY <1>1, <1>6 DEF Progress, Ingest
    <2>2. req[h].sequence <= Len(aggregate) + 1
      BY <1>1, <1>6, ReaderExpects
    <2>3. /\ pc'[h] = "evidence.aggregate" /\ req'[h] = req[h]
          /\ view'[h].cursor = None /\ Len(view'[h].aggregate) = 0
      BY <1>6, BlankType DEF Goto, IngestInv, TypeOK
    <2>4. RequestInv(h)' /\ ViewInv(h)'
      <3>1. Len(aggregate) \in Nat
        BY DEF IngestInv, TypeOK
      <3>. QED
        BY <1>1, <2>1, <2>3, <3>1 DEF RequestInv, ViewInv, Applying
    <2>. QED
      BY <1>1, <1>6, <2>1, <2>2, <2>3, <2>4
      DEF HandlerInv, FoldInv, CommitInv, PublishInv, Committing, IngestInv, AcknowledgedIsHeld
  <1>. QED
    BY <1>3, <1>4, <1>5, <1>6 DEF ReadState, v

\* The last statement of EvaluationEvidence and the fold.
LEMMA FoldRecordInv ==
  ASSUME IngestInv, TypeOK', NEW h \in Handlers, FoldRecord(h)
  PROVE  HandlerInv(h)' /\ AcknowledgedIsHeld'
  <1>1. /\ pc[h] = "evidence.entries" /\ req[h] \in Ingest
        /\ UNCHANGED aggregate
        /\ Len(aggregate) \in Nat
        /\ view[h].aggregate \in Seq(Contents)
        /\ ViewInv(h) /\ req[h].sequence <= Len(view[h].aggregate) + 1
    <2>1. pc[h] = "evidence.entries" /\ UNCHANGED aggregate
      BY DEF FoldRecord, rows
    <2>2. Len(aggregate) \in Nat /\ view[h].aggregate \in Seq(Contents)
      BY DEF IngestInv, TypeOK, Views
    <2>3. req[h] \in Ingest
      BY <2>1 DEF IngestInv, HandlerInv, RequestInv, Reading, Applying
    <2>4. ViewInv(h) /\ req[h].sequence <= Len(view[h].aggregate) + 1
      BY <2>1 DEF IngestInv, HandlerInv, FoldInv
    <2>. QED
      BY <2>1, <2>2, <2>3, <2>4
  <1>2. req[h].sequence \in Nat \ {0} /\ req[h].content \in Contents
    BY <1>1, LimitAssumption DEF Ingest, Positions
  <1>3. CASE Reply(h, "corrupt")
    BY <1>1, <1>3, FinishedInv DEF Reply, IngestInv, AcknowledgedIsHeld
  <1>4. CASE ~Reply(h, "corrupt")
    <2> DEFINE n == Len(view[h].aggregate)
    <2>1. /\ Goto(h, "lock") /\ view' = [view EXCEPT ![h] = Blank] /\ UNCHANGED <<req, answers>>
          /\ fold'[h].aggregate = Append(view[h].aggregate, req[h].content)
      BY <1>4 DEF FoldRecord, IngestInv, TypeOK, Views
    <2>2. /\ pc'[h] = "lock" /\ req'[h] = req[h]
          /\ view'[h].cursor = None /\ Len(view'[h].aggregate) = 0
      BY <2>1, BlankType DEF Goto, IngestInv, TypeOK
    <2>3. fold'[h] \in Folds
      <3> DEFINE v    == [view[h] EXCEPT !.entries = snapshot.entries]
                 snap == [observed |-> v.header.observed, complete |-> v.header.complete,
                          entries |-> v.entries]
                 new  == [aggregate |-> Append(v.aggregate, req[h].content),
                          snapshot  |-> Collect(snap, req[h].content),
                          fresh     |-> Shape[req[h].content] \notin Known(v.entries)]
      <3>1. fold' = [fold EXCEPT ![h] = new]
        BY <1>4 DEF FoldRecord
      <3>2. new \in Folds
        BY <1>1, FoldedType DEF IngestInv
      <3> HIDE DEF new
      <3>. QED
        BY <3>1, <3>2 DEF IngestInv, TypeOK
    <2>4. /\ Len(fold'[h].aggregate) = n + 1
          /\ \A i \in 1..(n + 1) :
                fold'[h].aggregate[i] = IF i = n + 1 THEN req[h].content ELSE view[h].aggregate[i]
      BY <1>1, <1>2, <2>1, AppendProperties
    <2>5. n \in Nat /\ n <= Len(aggregate)
          /\ \A i \in 1..n : view[h].aggregate[i] = aggregate[i]
      BY <1>1 DEF ViewInv
    <2>6. RequestInv(h)' /\ ViewInv(h)'
      BY <1>1, <2>2 DEF RequestInv, ViewInv
    <2>7. FoldInv(h)'
      BY <1>1, <1>2, <2>2, <2>3, <2>4, <2>5, SMTT(30) DEF FoldInv, Committing
    <2>. QED
      BY <1>1, <2>1, <2>2, <2>6, <2>7
      DEF HandlerInv, CommitInv, PublishInv, IngestInv, AcknowledgedIsHeld
  <1>. QED
    BY <1>3, <1>4

\* The transaction begins.
LEMMA LockInv ==
  ASSUME IngestInv, TypeOK', NEW h \in Handlers, Lock(h)
  PROVE  HandlerInv(h)'
  <1>1. HandlerInv(h) /\ UNCHANGED <<aggregate, req, view, fold, sent>> /\ pc[h] = "lock"
    BY DEF Lock, IngestInv, rows, outside
  <1>2. /\ owner' = h
        /\ pc'[h] = IF req[h].op = "ingest" THEN "reread" ELSE "swap"
    BY DEF Lock, Goto, IngestInv, TypeOK
  <1>3. \/ req[h] \in Ingest /\ req[h].op = "ingest"
        \/ req[h] \in Transition /\ req[h].op # "ingest" /\ req[h] \notin Ingest
    BY <1>1 DEF HandlerInv, RequestInv, Reading, Applying, Ingest, Transition
  <1>. QED
    BY <1>1, <1>2, <1>3 DEF HandlerInv, RequestInv, ViewInv, FoldInv, CommitInv, PublishInv,
       Committing, Applying

\* Inside the transaction the cursor is where the log ends.
LEMMA StoredExpects ==
  ASSUME IngestInv
  PROVE  /\ NextSequence(Stored) = Len(aggregate) + 1
         /\ LastDigest(Stored) \in Contents =>
               Len(aggregate) > 0 /\ aggregate[Len(aggregate)] = LastDigest(Stored)
  BY NobodyAssumption DEF IngestInv, CursorDescribesEvidence, NextSequence, LastDigest, Stored

\* The cursor is read again.
LEMMA RereadInv ==
  ASSUME IngestInv, TypeOK', NEW h \in Handlers, Reread(h)
  PROVE  HandlerInv(h)' /\ AcknowledgedIsHeld'
  <1>1. pc[h] = "reread" /\ UNCHANGED <<aggregate, status>>
    BY DEF Reread, rows
  <1>2. req[h] \in Ingest /\ owner = h /\ HandlerInv(h) /\ Len(aggregate) \in Nat
    <2>1. HandlerInv(h) /\ Len(aggregate) \in Nat
      BY DEF IngestInv, TypeOK
    <2>. QED
      BY <1>1, <2>1 DEF HandlerInv, RequestInv, CommitInv, Reading, Applying
  <1>3. req[h].sequence \in Nat \ {0} /\ req[h].content \in Contents
    BY <1>2, LimitAssumption DEF Ingest, Positions
  <1>4. CASE Refuse(h)
    BY <1>1, <1>4, FinishedInv DEF Refuse, IngestInv, AcknowledgedIsHeld
  <1>5. CASE /\ Reply(h, "replayed")
             /\ NextSequence(Stored) = req[h].sequence + 1
             /\ LastDigest(Stored) = req[h].content
    <2>1. req[h].sequence \in 1..Len(aggregate) /\ aggregate[req[h].sequence] = req[h].content
      BY <1>2, <1>3, <1>5, StoredExpects
    <2>. QED
      BY <1>1, <1>5, <2>1, FinishedInv DEF Reply, IngestInv, AcknowledgedIsHeld
  <1>6. CASE /\ NextSequence(Stored) = req[h].sequence
             /\ status = "running"
             /\ Goto(h, "write")
             /\ UNCHANGED <<owner, req, view, fold, answers>>
    <2>1. req[h].sequence = Len(aggregate) + 1 /\ pc'[h] = "write"
      BY <1>6, StoredExpects DEF Goto, IngestInv, TypeOK
    <2>2. Committing(h) /\ Committing(h)'
      BY <1>1, <1>2, <1>6, <2>1 DEF Committing
    <2>3. fold[h] \in Folds /\ Len(fold[h].aggregate) = Len(aggregate) + 1
      <3>1. fold[h] \in Folds /\ Len(fold[h].aggregate) \in Nat
        BY <1>2, <2>2 DEF HandlerInv, FoldInv, Folds
      <3>. QED
        BY <1>2, <2>1, <2>2, <3>1 DEF HandlerInv, FoldInv
    <2>4. RequestInv(h)' /\ ViewInv(h)'
      BY <1>1, <1>2, <1>6, <2>1 DEF HandlerInv, RequestInv, ViewInv, Applying
    <2>5. FoldInv(h)'
      BY <1>1, <1>2, <1>6, <2>1, <2>2 DEF HandlerInv, FoldInv
    <2>. QED
      BY <1>1, <1>2, <1>6, <2>1, <2>3, <2>4, <2>5
      DEF HandlerInv, CommitInv, PublishInv, IngestInv, AcknowledgedIsHeld
  <1>. QED
    BY <1>4, <1>5, <1>6 DEF Reread

\* The record is committed and its handler is about to publish it.
LEMMA WriteInv ==
  ASSUME IngestInv, TypeOK', NEW h \in Handlers, Write(h)
  PROVE  HandlerInv(h)'
  <1> DEFINE n == Len(aggregate)
  <1>1. /\ pc[h] = "write" /\ pc'[h] = "publish" /\ Written(h)
        /\ UNCHANGED <<req, view, fold, sent, status>>
        /\ \A k \in Handlers \ {h} : pc'[k] = pc[k]
    BY DEF Write, Goto, IngestInv, TypeOK, outside
  <1>2. /\ req[h] \in Ingest
        /\ req[h].sequence = n + 1
        /\ Len(aggregate') = n + 1
        /\ \A i \in 1..n : aggregate'[i] = aggregate[i]
        /\ aggregate'[req[h].sequence] = req[h].content
    BY <1>1, CommitExtends
  <1>3. HandlerInv(h) /\ view[h] \in Views /\ n \in Nat /\ Len(view[h].aggregate) \in Nat
    BY DEF IngestInv, TypeOK, Views
  <1>4. RequestInv(h)'
    BY <1>1, <1>2 DEF RequestInv, Applying
  <1>5. ViewInv(h)'
    <2>1. \A i \in 1..Len(view[h].aggregate) : view[h].aggregate[i] = aggregate'[i]
      BY <1>2, <1>3 DEF HandlerInv, ViewInv
    <2>2. view[h].cursor # None =>
             /\ view[h].cursor.next - 1 \in 1..(n + 1)
             /\ view[h].cursor.digest = aggregate'[view[h].cursor.next - 1]
      BY <1>2, <1>3 DEF HandlerInv, ViewInv
    <2>3. Len(view[h].aggregate) <= n + 1
      BY <1>3 DEF HandlerInv, ViewInv
    <2>. QED
      BY <1>1, <1>2, <2>1, <2>2, <2>3 DEF ViewInv
  <1>6. FoldInv(h)'
    BY <1>1, <1>2, <1>3 DEF FoldInv, Committing
  <1>7. PublishInv(h)'
    <2>1. sent[req[h].sequence] = 0
      <3>1. req[h].sequence \in Positions
        BY <1>2 DEF Ingest
      <3>. QED
        BY <1>2, <1>3, <3>1 DEF IngestInv, PublishedAtMostOnce, TypeOK
    <2>2. ASSUME NEW k \in Handlers \ {h}, pc[k] = "publish" PROVE req[k].sequence # n + 1
      <3>1. HandlerInv(k) /\ req[k] \in Ingest
        BY <2>2 DEF IngestInv, HandlerInv, RequestInv, Reading, Applying
      <3>. QED
        BY <1>3, <2>2, <3>1, LimitAssumption DEF HandlerInv, PublishInv, Ingest, Positions
    <2>. QED
      BY <1>1, <1>2, <1>3, <2>1, <2>2 DEF PublishInv
  <1>. QED
    BY <1>1, <1>4, <1>5, <1>6, <1>7 DEF HandlerInv, CommitInv

\* The run has moved and its handler is about to announce it.
LEMMA SwapInv ==
  ASSUME IngestInv, TypeOK', NEW h \in Handlers, Swap(h)
  PROVE  HandlerInv(h)'
  <1>1. /\ pc[h] = "swap" /\ pc'[h] = "announce"
        /\ UNCHANGED <<aggregate, req, view, fold>>
    BY DEF Swap, Goto, IngestInv, TypeOK, rows
  <1>. QED
    BY <1>1 DEF IngestInv, HandlerInv, RequestInv, ViewInv, FoldInv, CommitInv, PublishInv,
       Committing, Reading, Applying

-----------------------------------------------------------------------------
(* Every step. *)

\* A handler that is done, or goes on, leaves the others alone.
LEMMA OnlyFinish ==
  ASSUME TypeOK, NEW h \in Handlers, Finish(h)
  PROVE  Only(h) /\ pc'[h] = "idle"
  BY DEF Finish, Goto, Only, TypeOK

\* A step that commits nothing and publishes nothing.
LEMMA QuietStep ==
  ASSUME IngestInv, TypeOK', NEW h \in Handlers, Only(h), HandlerInv(h)', AcknowledgedIsHeld',
         UNCHANGED <<aggregate, cursor, sent>>,
         \A k \in Handlers \ {h} : pc[k] = "write" => status' = status,
         \A k \in Handlers \ {h} : owner = k => owner' = k,
         pc'[h] # "publish"
  PROVE  IngestInv'
  <1>1. \A k \in Handlers \ {h} : HandlerInv(k)'
    BY OthersKeep
  <1>2. CursorDescribesEvidence' /\ PublishedAtMostOnce'
    BY DEF IngestInv, CursorDescribesEvidence, PublishedAtMostOnce
  <1>. QED
    BY <1>1, <1>2 DEF IngestInv

\* A record is committed.
LEMMA CommitStep ==
  ASSUME IngestInv, TypeOK', NEW h \in Handlers, pc[h] = "write", Written(h), Only(h),
         HandlerInv(h)', UNCHANGED <<sent, status, answers>>,
         pc'[h] = "publish" => req'[h] = req[h]
  PROVE  IngestInv'
  <1> DEFINE n == Len(aggregate)
  <1>1. /\ Len(aggregate') = n + 1 /\ n \in Nat
        /\ req[h].sequence = n + 1
        /\ \A i \in 1..n : aggregate'[i] = aggregate[i]
        /\ aggregate'[req[h].sequence] = req[h].content
        /\ cursor' = [next |-> req[h].sequence + 1, digest |-> req[h].content]
    BY CommitExtends DEF IngestInv, TypeOK
  <1>2. \A k \in Handlers \ {h} : HandlerInv(k)'
    BY OthersKeepOnCommit
  <1>3. CursorDescribesEvidence'
    BY <1>1 DEF CursorDescribesEvidence
  <1>4. AcknowledgedIsHeld'
    BY <1>1 DEF IngestInv, AcknowledgedIsHeld
  <1>5. PublishedAtMostOnce'
    BY <1>1, LimitAssumption DEF IngestInv, PublishedAtMostOnce, Positions
  <1>. QED
    BY <1>2, <1>3, <1>4, <1>5 DEF IngestInv

\* A committed record is published.
LEMMA PublishStep ==
  ASSUME IngestInv, TypeOK', NEW h \in Handlers, Publish(h)
  PROVE  IngestInv'
  <1>1. /\ pc[h] = "publish" /\ Finish(h) /\ UNCHANGED <<aggregate, cursor, status, owner>>
        /\ Reply(h, "applied")
    BY DEF Publish, Reply, rows
  <1>2. HandlerInv(h) /\ req[h] \in Ingest
    BY <1>1 DEF IngestInv, HandlerInv, RequestInv, Reading, Applying
  <1>3. /\ req[h].sequence \in Positions /\ req[h].sequence \in 1..Len(aggregate)
        /\ aggregate[req[h].sequence] = req[h].content
        /\ sent[req[h].sequence] = 0
    BY <1>1, <1>2, LimitAssumption DEF HandlerInv, PublishInv, Ingest, Positions, IngestInv, TypeOK
  <1>4. /\ sent'[req[h].sequence] \in {0, 1}
        /\ \A p \in Positions \ {req[h].sequence} : sent'[p] = sent[p]
    BY <1>3 DEF Publish, IngestInv, TypeOK
  <1>5. HandlerInv(h)' /\ Only(h) /\ pc'[h] = "idle"
    BY <1>1, FinishedInv, OnlyFinish DEF IngestInv
  <1>6. ASSUME NEW k \in Handlers \ {h} PROVE HandlerInv(k)'
    <2>1. HandlerInv(k) /\ (pc[k] = "publish" => req[k] \in Ingest)
      BY DEF IngestInv, HandlerInv, RequestInv, Reading, Applying
    <2>2. pc'[k] = pc[k] /\ req'[k] = req[k] /\ view'[k] = view[k] /\ fold'[k] = fold[k]
      BY <1>5 DEF Only
    <2>3. RequestInv(k)' /\ ViewInv(k)'
      BY <1>1, <2>1, <2>2 DEF HandlerInv, RequestInv, ViewInv
    <2>4. FoldInv(k)' /\ CommitInv(k)'
      BY <1>1, <2>1, <2>2 DEF HandlerInv, FoldInv, CommitInv, Committing
    <2>5. ASSUME pc[k] = "publish" PROVE sent'[req[k].sequence] = 0
      <3>1. req[k].sequence \in Positions /\ req[k].sequence # req[h].sequence
        BY <1>1, <1>2, <2>1, <2>5 DEF HandlerInv, PublishInv, Ingest
      <3>. QED
        BY <1>4, <2>1, <2>5, <3>1 DEF HandlerInv, PublishInv
    <2>6. PublishInv(k)'
      BY <1>1, <1>5, <2>1, <2>2, <2>5 DEF HandlerInv, PublishInv, Only
    <2>. QED
      BY <2>3, <2>4, <2>6 DEF HandlerInv
  <1>7. AcknowledgedIsHeld'
    BY <1>1, <1>3 DEF Reply, IngestInv, AcknowledgedIsHeld
  <1>8. CursorDescribesEvidence'
    BY <1>1 DEF IngestInv, CursorDescribesEvidence
  <1>9. PublishedAtMostOnce'
    <2>1. \A p \in Positions : sent'[p] <= 1 /\ (sent'[p] = 1 => p <= Len(aggregate))
      BY <1>3, <1>4 DEF IngestInv, PublishedAtMostOnce
    <2>. QED
      BY <1>1, <2>1 DEF PublishedAtMostOnce
  <1>. QED
    BY <1>5, <1>6, <1>7, <1>8, <1>9 DEF IngestInv

\* The process dies, and every handler with it.
LEMMA CrashStep == ASSUME IngestInv, TypeOK', CrashPlane PROVE IngestInv'
  <1>1. \A h \in Handlers : HandlerInv(h)'
    BY IdleInv DEF CrashPlane
  <1>2. UNCHANGED <<aggregate, cursor, answers, sent>>
    BY DEF CrashPlane, rows, outside
  <1>3. CursorDescribesEvidence' /\ AcknowledgedIsHeld' /\ PublishedAtMostOnce'
    BY <1>2 DEF IngestInv, CursorDescribesEvidence, AcknowledgedIsHeld, PublishedAtMostOnce
  <1>. QED
    BY <1>1, <1>3 DEF IngestInv

\* A request arrives.
LEMMA ArriveStep == ASSUME IngestInv, TypeOK', NEW h \in Handlers, Arrive(h) PROVE IngestInv'
  <1>1. ASSUME NEW r \in Ingest \cup Progress \cup Transition, NEW label \in Labels,
               Accept(h, r, label),
               \/ label = "cursor" /\ r \in Ingest \cup Progress
               \/ label = "lock" /\ r \in Transition
        PROVE  IngestInv'
    <2>1. HandlerInv(h)'
      BY <1>1, AcceptInv
    <2>2. Only(h) /\ pc'[h] # "publish"
      BY <1>1 DEF Accept, Goto, Only, IngestInv, TypeOK
    <2>3. UNCHANGED <<aggregate, cursor, sent, answers, status, owner>>
      BY <1>1 DEF Accept, rows
    <2>4. AcknowledgedIsHeld'
      BY <2>3 DEF IngestInv, AcknowledgedIsHeld
    <2>. QED
      BY <2>1, <2>2, <2>3, <2>4, QuietStep
  <1>2. CASE IngestDecisionRecord(h)
    BY <1>1, <1>2 DEF IngestDecisionRecord, Ingest, Labels, Reading
  <1>3. CASE EvaluationProgress(h)
    BY <1>1, <1>3 DEF EvaluationProgress, Progress, Labels, Reading
  <1>4. CASE TransitionRun(h)
    BY <1>1, <1>4 DEF TransitionRun, Transition, Labels, IngestInv, TypeOK
  <1>. QED
    BY <1>2, <1>3, <1>4 DEF Arrive

\* A handler reads.
LEMMA ReadStep ==
  ASSUME IngestInv, TypeOK', NEW h \in Handlers,
         ReadCursor(h) \/ ReadAggregate(h) \/ ReadHeader(h)
  PROVE  IngestInv'
  <1>1. HandlerInv(h)'
    BY ReadInv
  <1>2. Only(h) /\ pc'[h] # "publish"
    BY DEF ReadCursor, ReadAggregate, ReadHeader, Goto, Only, IngestInv, TypeOK
  <1>3. UNCHANGED <<aggregate, cursor, sent, answers, status>>
    BY DEF ReadCursor, ReadAggregate, ReadHeader, rows, outside
  <1>4. AcknowledgedIsHeld'
    BY <1>3 DEF IngestInv, AcknowledgedIsHeld
  <1>5. \A k \in Handlers \ {h} : owner = k => owner' = k
    BY NobodyAssumption DEF ReadCursor, ReadAggregate, ReadHeader, Hold, Connected
  <1>. QED
    BY <1>1, <1>2, <1>3, <1>4, <1>5, QuietStep

\* A handler decides what the state it read means for its request, folds its
\* record, or begins its transaction and reads the cursor again.
LEMMA DecideStep ==
  ASSUME IngestInv, TypeOK', NEW h \in Handlers,
         ReadState(h) \/ FoldRecord(h) \/ Lock(h) \/ Reread(h)
  PROVE  IngestInv'
  <1>1. UNCHANGED <<aggregate, cursor, sent, status>>
    BY DEF ReadState, FoldRecord, Lock, Reread, rows, outside
  <1>2. HandlerInv(h)' /\ AcknowledgedIsHeld'
    <2>1. CASE Lock(h)
      BY <2>1, LockInv DEF Lock, rows, outside, IngestInv, AcknowledgedIsHeld
    <2>. QED
      BY <2>1, ReadStateInv, FoldRecordInv, RereadInv
  <1>3. Only(h) /\ pc'[h] # "publish"
    <2>1. CASE Finish(h)
      BY <2>1, OnlyFinish DEF IngestInv
    <2>2. CASE ReadState(h) /\ ~Finish(h)
      BY <2>2 DEF ReadState, Reply, Refuse, Goto, Only, IngestInv, TypeOK
    <2>3. CASE FoldRecord(h) /\ ~Finish(h)
      BY <2>3 DEF FoldRecord, Reply, Goto, Only, IngestInv, TypeOK
    <2>4. CASE Lock(h)
      BY <2>4 DEF Lock, Goto, Only, IngestInv, TypeOK
    <2>5. CASE Reread(h) /\ ~Finish(h)
      BY <2>5 DEF Reread, Reply, Refuse, Goto, Only, IngestInv, TypeOK
    <2>. QED
      BY <2>1, <2>2, <2>3, <2>4, <2>5
  <1>4. \A k \in Handlers \ {h} : owner = k => owner' = k
    BY NobodyAssumption DEF ReadState, FoldRecord, Lock, Reread, Drop
  <1>. QED
    BY <1>1, <1>2, <1>3, <1>4, QuietStep

\* A handler commits a record, or learns that it failed to.
LEMMA WriteStep ==
  ASSUME IngestInv, TypeOK', NEW h \in Handlers, Write(h) \/ WriteFails(h)
  PROVE  IngestInv'
  <1>1. CASE Write(h)
    <2>1. HandlerInv(h)'
      BY <1>1, WriteInv
    <2>2. Only(h) /\ req' = req
      BY <1>1 DEF Write, Goto, Only, IngestInv, TypeOK
    <2>. QED
      BY <1>1, <2>1, <2>2, CommitStep DEF Write, outside
  <1>2. CASE WriteFails(h)
    <2>1. pc[h] = "write" /\ Finish(h) /\ UNCHANGED <<sent, status, answers>>
      BY <1>2 DEF WriteFails, Refuse
    <2>2. HandlerInv(h)' /\ Only(h) /\ pc'[h] = "idle"
      BY <2>1, FinishedInv, OnlyFinish DEF IngestInv
    <2>3. CASE Written(h)
      BY <2>1, <2>2, <2>3, CommitStep
    <2>4. CASE UNCHANGED rows
      <3>1. \A k \in Handlers \ {h} : owner = k => owner' = k
        BY <1>2 DEF WriteFails, Drop
      <3>2. UNCHANGED <<aggregate, cursor>>
        BY <2>4 DEF rows
      <3>3. AcknowledgedIsHeld'
        BY <2>1, <3>2 DEF IngestInv, AcknowledgedIsHeld
      <3>. QED
        BY <2>1, <2>2, <3>1, <3>2, <3>3, QuietStep
    <2>. QED
      BY <1>2, <2>3, <2>4 DEF WriteFails
  <1>. QED
    BY <1>1, <1>2

\* A handler moves the run, fails to, or announces that it did.
LEMMA TransitionStep ==
  ASSUME IngestInv, TypeOK', NEW h \in Handlers, Swap(h) \/ SwapFails(h) \/ Announce(h)
  PROVE  IngestInv'
  <1>1. UNCHANGED <<aggregate, cursor, sent, answers>>
    BY DEF Swap, SwapFails, Announce, Refuse, rows, outside
  <1>2. HandlerInv(h)' /\ Only(h) /\ pc'[h] # "publish"
    <2>1. CASE Swap(h)
      BY <2>1, SwapInv DEF Swap, Goto, Only, IngestInv, TypeOK
    <2>2. CASE SwapFails(h) \/ Announce(h)
      <3>1. Finish(h)
        BY <2>2 DEF SwapFails, Announce, Refuse
      <3>. QED
        BY <3>1, FinishedInv, OnlyFinish DEF IngestInv
    <2>. QED
      BY <2>1, <2>2
  <1>3. ASSUME NEW k \in Handlers \ {h}
        PROVE  (pc[k] = "write" => status' = status) /\ (owner = k => owner' = k)
    <2>1. CASE Announce(h)
      BY <2>1 DEF Announce
    <2>2. CASE Swap(h) \/ SwapFails(h)
      <3>1. owner = h /\ pc[k] # "write"
        BY <2>2 DEF Swap, SwapFails, IngestInv, HandlerInv, CommitInv
      <3>. QED
        BY <3>1
    <2>. QED
      BY <2>1, <2>2
  <1>4. AcknowledgedIsHeld'
    BY <1>1 DEF IngestInv, AcknowledgedIsHeld
  <1>. QED
    BY <1>1, <1>2, <1>3, <1>4, QuietStep

\* Every step of the control plane keeps the inductive invariant.
LEMMA InvStep == ASSUME IngestInv, [Next]_vars PROVE IngestInv'
  <1>1. TypeOK'
    BY TypeStep
  <1>2. CASE UNCHANGED vars
    <2>1. \A h \in Handlers : HandlerInv(h)'
      BY <1>2 DEF IngestInv, HandlerInv, RequestInv, ViewInv, FoldInv, CommitInv, PublishInv,
         Committing, vars, rows, handlers, outside
    <2>2. CursorDescribesEvidence' /\ AcknowledgedIsHeld' /\ PublishedAtMostOnce'
      BY <1>2 DEF IngestInv, CursorDescribesEvidence, AcknowledgedIsHeld, PublishedAtMostOnce,
         vars, rows, outside
    <2>. QED
      BY <1>1, <2>1, <2>2 DEF IngestInv
  <1>3. CASE CrashPlane
    BY <1>1, <1>3, CrashStep
  <1>4. ASSUME NEW h \in Handlers, Arrive(h) \/ Serve(h) PROVE IngestInv'
    BY <1>1, <1>4, ArriveStep, ReadStep, DecideStep, WriteStep, PublishStep, TransitionStep
    DEF Serve
  <1>. QED
    BY <1>2, <1>3, <1>4 DEF Next

-----------------------------------------------------------------------------
(* What follows. *)

\* The invariant of the control plane: at every moment each handler's view is
\* a prefix of the log and each commit under way extends it by one record.
THEOREM IngestInvHolds == Spec => []IngestInv
  <1>1. Init => IngestInv
    BY InitInv
  <1>2. IngestInv /\ [Next]_vars => IngestInv'
    BY InvStep
  <1>. QED
    BY <1>1, <1>2, PTL DEF Spec

\* Type correctness.
THEOREM IngestTypes == Spec => []TypeOK
  <1>1. IngestInv => TypeOK
    BY DEF IngestInv
  <1>. QED
    BY <1>1, IngestInvHolds, PTL

\* The cursor row and the aggregate never part, whatever handlers, crashes and
\* lost commits do (ingestState: "The cursor and the evidence it describes must
\* agree").
THEOREM CursorAgrees == Spec => []CursorDescribesEvidence
  <1>1. IngestInv => CursorDescribesEvidence
    BY DEF IngestInv
  <1>. QED
    BY <1>1, IngestInvHolds, PTL

\* A record a client was told is applied or replayed is in the run at its
\* sequence for ever (IngestDecisionRecord's retry contract).
THEOREM RetryContract == Spec => []AcknowledgedIsHeld
  <1>1. IngestInv => AcknowledgedIsHeld
    BY DEF IngestInv
  <1>. QED
    BY <1>1, IngestInvHolds, PTL

\* No record is published twice, and none that is not in the run
\* (publishObservation: "Only an applied record is announced").
THEOREM PublishedOnce == Spec => []PublishedAtMostOnce
  <1>1. IngestInv => PublishedAtMostOnce
    BY DEF IngestInv
  <1>. QED
    BY <1>1, IngestInvHolds, PTL

\* What a step may do to the log and the run: nothing, append one record to a
\* running run, or move the run along its lifecycle.
LEMMA StepOfLog ==
  ASSUME IngestInv, [Next]_vars
  PROVE  \/ UNCHANGED <<aggregate, status>> /\ (IsTerminal(status) => UNCHANGED rows)
         \/ /\ status = "running" /\ UNCHANGED status
            /\ \E c \in Contents : aggregate' = Append(aggregate, c)
         \/ /\ \E to \in RunStatuses : TransitionAllowed(status, to) /\ status' = to
            /\ UNCHANGED rows
  <1>1. CASE UNCHANGED vars
    BY <1>1 DEF vars, rows
  <1>2. CASE CrashPlane
    BY <1>2 DEF CrashPlane, rows
  <1>3. ASSUME NEW h \in Handlers, Arrive(h) PROVE UNCHANGED <<status, rows>>
    BY <1>3 DEF Arrive, IngestDecisionRecord, EvaluationProgress, TransitionRun, Accept
  <1>4. ASSUME NEW h \in Handlers,
               \/ ReadCursor(h) \/ ReadAggregate(h) \/ ReadHeader(h) \/ ReadState(h)
               \/ FoldRecord(h) \/ Lock(h) \/ Reread(h) \/ Publish(h) \/ Announce(h)
        PROVE  UNCHANGED <<status, rows>>
    BY <1>4 DEF ReadCursor, ReadAggregate, ReadHeader, ReadState, FoldRecord, Lock, Reread,
       Publish, Announce
  <1>5. ASSUME NEW h \in Handlers, Write(h) \/ WriteFails(h)
        PROVE  \/ UNCHANGED <<status, rows>>
               \/ /\ status = "running" /\ UNCHANGED status
                  /\ \E c \in Contents : aggregate' = Append(aggregate, c)
    <2>1. UNCHANGED status /\ pc[h] = "write" /\ (Written(h) \/ UNCHANGED rows)
      BY <1>5 DEF Write, WriteFails
    <2>. QED
      BY <2>1, CommitExtends DEF Ingest
  <1>6. ASSUME NEW h \in Handlers, Swap(h) \/ SwapFails(h)
        PROVE  /\ UNCHANGED rows
               /\ \/ UNCHANGED status
                  \/ \E to \in RunStatuses : TransitionAllowed(status, to) /\ status' = to
    <2>1. req[h] \in Transition
      BY <1>6 DEF Swap, SwapFails, IngestInv, HandlerInv, RequestInv, Reading, Applying
    <2>. QED
      BY <1>6, <2>1 DEF Swap, SwapFails, Swapped, Transition
  <1>. QED
    BY <1>1, <1>2, <1>3, <1>4, <1>5, <1>6 DEF Next, Serve, rows

\* A run that has ended is frozen: no status, aggregate, snapshot, cursor or
\* history of it changes again ("What must never happen is completion first,
\* ingest after").
THEOREM EndedFrozen == Spec => EndedRunsAreFrozen
  <1>1. IngestInv /\ [Next]_vars => [IsTerminal(status) => UNCHANGED <<status, rows>>]_vars
    <2> SUFFICES ASSUME IngestInv, [Next]_vars, IsTerminal(status) PROVE UNCHANGED <<status, rows>>
      OBVIOUS
    <2>1. status # "running" /\ \A to \in RunStatuses : ~TransitionAllowed(status, to)
      BY DEF IsTerminal, TransitionAllowed
    <2>. QED
      BY <2>1, StepOfLog
  <1>. QED
    BY <1>1, IngestInvHolds, PTL DEF Spec, EndedRunsAreFrozen

\* The control plane implements the append-only log of EvidenceLog.
THEOREM IngestRefinesLog == Spec => ImplementsLog
  <1>1. Init => Log!LInit
    <2>1. ASSUME NEW c \in Contents PROVE <<c>> \in Seq(Contents) /\ Len(<<c>>) = 1
      OBVIOUS
    <2>. QED
      BY <2>1 DEF Init, Log!LInit
  <1>2. IngestInv /\ [Next]_vars => [Log!LNext]_<<aggregate, status>>
    <2> SUFFICES ASSUME IngestInv, [Next]_vars PROVE [Log!LNext]_<<aggregate, status>>
      OBVIOUS
    <2>. QED
      BY StepOfLog DEF Log!LNext, Log!Admit, Log!Advance, Log!RunStatuses, RunStatuses,
         Log!TransitionAllowed, TransitionAllowed, rows
  <1>. QED
    BY <1>1, <1>2, IngestInvHolds, PTL DEF Spec, ImplementsLog, Log!LSpec

-----------------------------------------------------------------------------
(* What the store holds beside the log. *)

\* How many of the first n records of a log have shape s.
CountIn(agg, n, s) == Cardinality({i \in 1..n : i <= Len(agg) /\ Shape[agg[i]] = s})

\* A snapshot that is the fold of a prefix of the log, within its capacity.
SnapOK(agg, snap) ==
    /\ \A s \in Shapes : snap.entries[s] = CountIn(agg, snap.observed, s)
    /\ snap.complete => snap.observed = Len(agg)
    /\ ~snap.complete =>
          /\ snap.observed < Len(agg)
          /\ Cardinality(Known(snap.entries)) = MaxBehaviors
          /\ CountIn(agg, snap.observed, Shape[agg[snap.observed + 1]]) = 0
    /\ Cardinality(Known(snap.entries)) <= MaxBehaviors
    /\ IsFiniteSet(Counted(snap.entries))
    /\ Cardinality(Counted(snap.entries)) = snap.observed

\* A history that quotes the log.
HistoryOK(agg, hist, obs) ==
    /\ \A o \in obs : o.sequence <= Len(agg) /\ agg[o.sequence] = o.content
    /\ IsFiniteSet(obs)
    /\ hist = None => obs = {}
    /\ hist # None =>
          /\ hist.retained = Cardinality(obs)
          /\ hist.retained <= MaxRetained
          /\ hist.complete => hist.retained = Len(agg)

\* Observations that say of their behavior whether it was new.
FreshOK(agg, snap, obs) ==
    \A o \in obs :
        /\ CountIn(agg, o.sequence - 1, Shape[o.content]) = 0 => o.fresh
        /\ o.sequence <= snap.observed =>
              (o.fresh <=> CountIn(agg, o.sequence - 1, Shape[o.content]) = 0)

\* The length of the log is a version: whatever a handler read or folded at
\* the present length describes the present snapshot.
VersionInv(h) ==
    /\ pc[h] = "evidence.entries" /\ Len(view[h].aggregate) = Len(aggregate) =>
          view[h].header = Header(snapshot)
    /\ Committing(h) /\ Len(fold[h].aggregate) = Len(aggregate) + 1 =>
          /\ fold[h].snapshot = Collect(snapshot, req[h].content)
          /\ fold[h].fresh <=> Shape[req[h].content] \notin Known(snapshot.entries)

StoreInv ==
    /\ SnapOK(aggregate, snapshot)
    /\ HistoryOK(aggregate, history, observations)
    /\ FreshOK(aggregate, snapshot, observations)
    /\ \A h \in Handlers : VersionInv(h)

\* A count is a number, and grows with the prefix it is taken over.
LEMMA CountType ==
  ASSUME NEW agg \in Seq(Contents), NEW n \in Nat, NEW s
  PROVE  /\ CountIn(agg, n, s) \in Nat
         /\ IsFiniteSet({i \in 1..n : i <= Len(agg) /\ Shape[agg[i]] = s})
         /\ CountIn(agg, n, s) = 0 <=>
               \A i \in 1..n : i <= Len(agg) => Shape[agg[i]] # s
  <1> DEFINE S == {i \in 1..n : i <= Len(agg) /\ Shape[agg[i]] = s}
  <1>1. IsFiniteSet(S)
    BY FS_Interval, FS_Subset
  <1>2. Cardinality(S) \in Nat
    BY <1>1, FS_CardinalityType
  <1>3. Cardinality(S) = 0 <=> S = {}
    BY <1>1, FS_EmptySet
  <1>. QED
    BY <1>1, <1>2, <1>3 DEF CountIn

\* Appending a record leaves the counts of earlier prefixes alone.
LEMMA CountOld ==
  ASSUME NEW agg \in Seq(Contents), NEW c \in Contents, NEW n \in Nat, NEW s, n <= Len(agg)
  PROVE  CountIn(Append(agg, c), n, s) = CountIn(agg, n, s)
  <1>1. /\ Len(Append(agg, c)) = Len(agg) + 1 /\ Len(agg) \in Nat
        /\ \A i \in 1..n : Append(agg, c)[i] = agg[i]
    BY AppendProperties
  <1>2. {i \in 1..n : i <= Len(Append(agg, c)) /\ Shape[Append(agg, c)[i]] = s}
          = {i \in 1..n : i <= Len(agg) /\ Shape[agg[i]] = s}
    BY <1>1
  <1>. QED
    BY <1>2 DEF CountIn

\* The whole log counts one more of the appended record's shape.
LEMMA CountNew ==
  ASSUME NEW agg \in Seq(Contents), NEW c \in Contents, NEW s
  PROVE  CountIn(Append(agg, c), Len(agg) + 1, s)
           = CountIn(agg, Len(agg), s) + (IF Shape[c] = s THEN 1 ELSE 0)
  <1> DEFINE n == Len(agg)
             Old == {i \in 1..n : i <= n /\ Shape[agg[i]] = s}
             New == {i \in 1..(n + 1) : i <= Len(Append(agg, c)) /\ Shape[Append(agg, c)[i]] = s}
  <1>1. /\ Len(Append(agg, c)) = n + 1 /\ n \in Nat
        /\ \A i \in 1..n : Append(agg, c)[i] = agg[i]
        /\ Append(agg, c)[n + 1] = c
    BY AppendProperties
  <1>2. IsFiniteSet(Old) /\ Cardinality(Old) = CountIn(agg, n, s) /\ CountIn(agg, n, s) \in Nat
    <2>1. CountIn(agg, n, s) \in Nat /\ IsFiniteSet(Old)
      BY <1>1, CountType
    <2>2. Cardinality(Old) = CountIn(agg, n, s)
      BY DEF CountIn
    <2>. QED
      BY <2>1, <2>2
  <1>. HIDE DEF Old
  <1>3. CASE Shape[c] = s
    <2>1. New = Old \cup {n + 1} /\ n + 1 \notin Old
      BY <1>1, <1>3 DEF Old
    <2>2. Cardinality(New) = Cardinality(Old) + 1
      BY <1>2, <2>1, FS_AddElement
    <2>. QED
      BY <1>2, <1>3, <2>2 DEF CountIn
  <1>4. CASE Shape[c] # s
    <2>1. New = Old
      BY <1>1, <1>4 DEF Old
    <2>2. CountIn(Append(agg, c), n + 1, s) = CountIn(agg, n, s)
      BY <1>2, <2>1 DEF CountIn
    <2>. QED
      BY <1>2, <1>4, <2>2
  <1>. QED
    BY <1>3, <1>4

\* One more of a shape: the entries count one record more, and know the shape.
LEMMA EntriesGrow ==
  ASSUME NEW e \in [Shapes -> Nat], NEW s \in Shapes, IsFiniteSet(Counted(e))
  PROVE  LET g == [e EXCEPT ![s] = @ + 1]
         IN /\ g \in [Shapes -> Nat]
            /\ IsFiniteSet(Counted(g)) /\ Cardinality(Counted(g)) = Cardinality(Counted(e)) + 1
            /\ Known(g) = Known(e) \cup {s}
  <1> DEFINE g == [e EXCEPT ![s] = @ + 1]
  <1>1. /\ g \in [Shapes -> Nat] /\ g[s] = e[s] + 1 /\ e[s] \in Nat
        /\ \A t \in Shapes \ {s} : g[t] = e[t]
    OBVIOUS
  <1>2. Known(g) = Known(e) \cup {s}
    BY <1>1 DEF Known
  <1>3. <<s, e[s] + 1>> \notin Counted(e)
    BY <1>1 DEF Counted
  <1>4. Counted(g) = Counted(e) \cup {<<s, e[s] + 1>>}
    <2>1. ASSUME NEW x \in Counted(g) PROVE x \in Counted(e) \cup {<<s, e[s] + 1>>}
      <3>1. PICK t \in Shapes : x \in {t} \X (1..g[t])
        BY <2>1 DEF Counted
      <3>2. PICK i \in 1..g[t] : x = <<t, i>>
        BY <3>1
      <3>3. CASE t = s /\ i = e[s] + 1
        BY <3>2, <3>3
      <3>4. CASE ~(t = s /\ i = e[s] + 1)
        <4>1. i \in 1..e[t]
          BY <1>1, <3>2, <3>4
        <4>2. x \in {t} \X (1..e[t])
          BY <3>2, <4>1
        <4>. QED
          BY <4>2 DEF Counted
      <3>. QED
        BY <3>3, <3>4
    <2>2. ASSUME NEW x \in Counted(e) PROVE x \in Counted(g)
      <3>1. PICK t \in Shapes : x \in {t} \X (1..e[t])
        BY <2>2 DEF Counted
      <3>2. PICK i \in 1..e[t] : x = <<t, i>>
        BY <3>1
      <3>3. i \in 1..g[t]
        BY <1>1, <3>2
      <3>4. x \in {t} \X (1..g[t])
        BY <3>2, <3>3
      <3>. QED
        BY <3>4 DEF Counted
    <2>3. <<s, e[s] + 1>> \in Counted(g)
      <3>1. <<s, e[s] + 1>> \in {s} \X (1..g[s])
        BY <1>1
      <3>. QED
        BY <3>1 DEF Counted
    <2>. QED
      BY <2>1, <2>2, <2>3
  <1>5. IsFiniteSet(Counted(g)) /\ Cardinality(Counted(g)) = Cardinality(Counted(e)) + 1
    <2> HIDE DEF g
    <2>. QED
      BY <1>3, <1>4, FS_AddElement
  <1>. QED
    BY <1>1, <1>2, <1>5

\* Collecting the record that is appended keeps the snapshot a fold of a prefix,
\* within its capacity; one that has stopped stays as it is.
LEMMA CollectOK ==
  ASSUME NEW agg \in Seq(Contents), NEW c \in Contents, NEW snap \in Snapshots, SnapOK(agg, snap)
  PROVE  /\ SnapOK(Append(agg, c), Collect(snap, c))
         /\ ~snap.complete => Collect(snap, c) = snap
  <1> DEFINE new == Append(agg, c)
             n   == Len(agg)
             sh  == Shape[c]
             e   == snap.entries
  <1>1. /\ new \in Seq(Contents) /\ Len(new) = n + 1 /\ n \in Nat
        /\ \A i \in 1..n : new[i] = agg[i]
        /\ new[n + 1] = c
    BY AppendProperties
  <1>2. snap.observed \in Nat /\ snap.observed <= n /\ e \in [Shapes -> Nat] /\ sh \in Shapes
    BY <1>1, ShapeAssumption DEF Snapshots, SnapOK
  <1>3. IsFiniteSet(Known(e)) /\ Cardinality(Known(e)) \in Nat
    BY ShapeAssumption, FS_Subset, FS_CardinalityType DEF Known
  <1>4. \A s \in Shapes : CountIn(new, snap.observed, s) = CountIn(agg, snap.observed, s)
    BY <1>1, <1>2, CountOld
  <1>5. CASE ~snap.complete
    <2>1. snap.observed + 1 \in 1..n /\ agg[snap.observed + 1] \in Contents
      BY <1>1, <1>2, <1>5 DEF SnapOK
    <2>2. Shape[agg[snap.observed + 1]] \in Shapes /\ new[snap.observed + 1] = agg[snap.observed + 1]
      BY <1>1, <2>1, ShapeAssumption
    <2>3. SnapOK(new, snap)
      BY <1>1, <1>2, <1>4, <1>5, <2>2 DEF SnapOK
    <2>. QED
      BY <1>5, <2>3 DEF Collect
  <1>6. CASE snap.complete /\ sh \notin Known(e) /\ Cardinality(Known(e)) >= MaxBehaviors
    <2>1. Collect(snap, c) = [snap EXCEPT !.complete = FALSE]
      BY <1>6 DEF Collect
    <2>2. /\ Collect(snap, c).complete = FALSE
          /\ Collect(snap, c).observed = snap.observed
          /\ Collect(snap, c).entries = e
      BY <2>1 DEF Snapshots
    <2>3. Cardinality(Known(e)) = MaxBehaviors /\ snap.observed = n
      BY <1>3, <1>6, LimitAssumption DEF SnapOK
    <2>4. CountIn(new, n, sh) = 0
      <3>1. e[sh] = 0
        BY <1>2, <1>6 DEF Known
      <3>. QED
        BY <1>2, <1>4, <2>3, <3>1 DEF SnapOK
    <2>. QED
      BY <1>1, <1>2, <1>4, <1>6, <2>2, <2>3, <2>4 DEF SnapOK
  <1>7. CASE snap.complete /\ ~(sh \notin Known(e) /\ Cardinality(Known(e)) >= MaxBehaviors)
    <2> DEFINE g == [e EXCEPT ![sh] = @ + 1]
    <2>1. Collect(snap, c) = [observed |-> snap.observed + 1, complete |-> TRUE, entries |-> g]
      BY <1>7 DEF Collect
    <2>2. /\ g \in [Shapes -> Nat] /\ Known(g) = Known(e) \cup {sh}
          /\ IsFiniteSet(Counted(g)) /\ Cardinality(Counted(g)) = Cardinality(Counted(e)) + 1
      BY <1>2, EntriesGrow DEF SnapOK
    <2>3. snap.observed = n /\ Cardinality(Counted(e)) = n
      BY <1>7 DEF SnapOK
    <2>4. \A s \in Shapes : g[s] = CountIn(new, n + 1, s)
      <3>1. \A s \in Shapes : e[s] = CountIn(agg, n, s) /\ e[s] \in Nat
        BY <1>2, <2>3 DEF SnapOK
      <3>2. \A s \in Shapes : g[s] = e[s] + (IF sh = s THEN 1 ELSE 0)
        BY <1>2, <3>1
      <3>. QED
        BY <3>1, <3>2, CountNew
    <2>5. Cardinality(Known(g)) <= MaxBehaviors
      <3>1. sh \in Known(e) => Known(g) = Known(e)
        BY <2>2
      <3>2. sh \notin Known(e) => Cardinality(Known(g)) = Cardinality(Known(e)) + 1
        BY <1>3, <2>2, FS_AddElement
      <3>. QED
        BY <1>3, <1>7, <3>1, <3>2, LimitAssumption DEF SnapOK
    <2>6. /\ Collect(snap, c).observed = n + 1
          /\ Collect(snap, c).complete = TRUE
          /\ Collect(snap, c).entries = g
      BY <2>1, <2>3
    <2> HIDE DEF g
    <2>. QED
      BY <1>1, <1>7, <2>2, <2>3, <2>4, <2>5, <2>6 DEF SnapOK
  <1>. QED
    BY <1>2, <1>5, <1>6, <1>7 DEF Snapshots

\* Retaining the appended record keeps the history a quotation of the log, and
\* a history that is incomplete stays incomplete.
LEMMA RetainOK ==
  ASSUME NEW agg \in Seq(Contents), NEW c \in Contents,
         NEW hist \in [retained : Nat, complete : BOOLEAN] \cup {None},
         NEW obs \in SUBSET [sequence : Positions, content : Contents, fresh : BOOLEAN],
         HistoryOK(agg, hist, obs), NEW fresh \in BOOLEAN
  PROVE  LET kept == Retain(hist, Len(agg) + 1)
             o    == [sequence |-> Len(agg) + 1, content |-> c, fresh |-> fresh]
         IN /\ HistoryOK(Append(agg, c), kept.row, obs \cup (IF kept.insert THEN {o} ELSE {}))
            /\ kept.row # None
            /\ hist # None /\ ~hist.complete => ~kept.row.complete
  <1> DEFINE new  == Append(agg, c)
             n    == Len(agg)
             kept == Retain(hist, n + 1)
             o    == [sequence |-> n + 1, content |-> c, fresh |-> fresh]
             all  == obs \cup {o}
  <1>1. /\ new \in Seq(Contents) /\ Len(new) = n + 1 /\ n \in Nat
        /\ \A i \in 1..n : new[i] = agg[i]
        /\ new[n + 1] = c
    BY AppendProperties
  <1>2. \A x \in obs : /\ x.sequence \in Nat \ {0} /\ x.sequence <= n /\ agg[x.sequence] = x.content
                       /\ new[x.sequence] = x.content
    BY <1>1, LimitAssumption DEF HistoryOK, Positions
  <1>3. o \notin obs /\ IsFiniteSet(obs) /\ Cardinality(obs) \in Nat
    BY <1>1, <1>2, FS_CardinalityType DEF HistoryOK
  <1>4. IsFiniteSet(all) /\ Cardinality(all) = Cardinality(obs) + 1
    <2> HIDE DEF o
    <2>. QED
      BY <1>3, FS_AddElement
  <1>5. o.sequence = n + 1 /\ o.content = c
    OBVIOUS
  <1>6. /\ \A x \in all : x.sequence <= n + 1 /\ new[x.sequence] = x.content
        /\ \A x \in obs : x.sequence <= n + 1 /\ new[x.sequence] = x.content
    BY <1>1, <1>2, <1>5
  <1> HIDE DEF o, new, all
  <1> DEFINE Goal(row, x) ==
        /\ HistoryOK(new, row, x)
        /\ row # None
        /\ hist # None /\ ~hist.complete => ~row.complete
  <1>7. CASE hist = None
    <2> DEFINE row == [retained |-> 1, complete |-> n + 1 = 1]
    <2>1. kept = [insert |-> TRUE, row |-> row]
      BY <1>7 DEF Retain
    <2>2. obs = {} /\ Cardinality(obs) = 0
      BY <1>7, FS_EmptySet DEF HistoryOK
    <2>3. row \in [retained : Nat, complete : BOOLEAN]
      BY <1>1
    <2>4. row.retained = 1 /\ (row.complete <=> n + 1 = 1)
      OBVIOUS
    <2> HIDE DEF row
    <2>5. row # None
      BY <2>3, NoRowAssumption
    <2>6. Goal(row, all)
      BY <1>1, <1>4, <1>6, <1>7, <2>2, <2>4, <2>5, LimitAssumption DEF HistoryOK
    <2>7. kept.row = row /\ kept.insert
      BY <2>1
    <2>. QED
      BY <2>6, <2>7 DEF o, new, all
  <1>8. CASE hist # None /\ hist.retained >= MaxRetained
    <2> DEFINE row == [hist EXCEPT !.complete = FALSE]
    <2>1. hist \in [retained : Nat, complete : BOOLEAN]
      BY <1>8
    <2>2. kept = [insert |-> FALSE, row |-> row]
      BY <1>8 DEF Retain
    <2>3. row \in [retained : Nat, complete : BOOLEAN]
      BY <2>1
    <2>4. row.retained = hist.retained /\ ~row.complete
      BY <2>1
    <2> HIDE DEF row
    <2>5. row # None
      BY <2>3, NoRowAssumption
    <2>6. Goal(row, obs)
      BY <1>1, <1>3, <1>6, <1>8, <2>4, <2>5 DEF HistoryOK
    <2>7. kept.row = row /\ ~kept.insert
      BY <2>2
    <2>. QED
      BY <2>6, <2>7 DEF o, new, all
  <1>9. CASE hist # None /\ ~(hist.retained >= MaxRetained)
    <2> DEFINE row == [hist EXCEPT !.retained = @ + 1]
    <2>1. hist \in [retained : Nat, complete : BOOLEAN] /\ hist.retained \in Nat
      BY <1>9
    <2>2. kept = [insert |-> TRUE, row |-> row]
      BY <1>9 DEF Retain
    <2>3. hist.retained + 1 \in Nat
      BY <2>1
    <2>4. row \in [retained : Nat, complete : BOOLEAN]
      BY <2>1, <2>3, Zenon
    <2>5. row.retained = hist.retained + 1 /\ row.complete = hist.complete
      BY <2>1
    <2> HIDE DEF row
    <2>6. row # None
      BY <2>4, NoRowAssumption
    <2>7. Goal(row, all)
      BY <1>1, <1>4, <1>6, <1>9, <2>1, <2>5, <2>6, LimitAssumption DEF HistoryOK
    <2>8. kept.row = row /\ kept.insert
      BY <2>2
    <2>. QED
      BY <2>7, <2>8 DEF o, new, all
  <1>. QED
    BY <1>7, <1>8, <1>9 DEF o, new

\* The appended record is fresh exactly when the snapshot did not know its
\* shape; what earlier observations say stays right.
LEMMA FreshStep ==
  ASSUME NEW agg \in Seq(Contents), NEW c \in Contents, NEW snap \in Snapshots, SnapOK(agg, snap),
         NEW obs \in SUBSET [sequence : Positions, content : Contents, fresh : BOOLEAN],
         \A x \in obs : x.sequence <= Len(agg),
         FreshOK(agg, snap, obs),
         NEW o \in [sequence : Positions, content : Contents, fresh : BOOLEAN],
         o.sequence = Len(agg) + 1, o.content = c,
         o.fresh <=> Shape[c] \notin Known(snap.entries),
         NEW all \in SUBSET (obs \cup {o})
  PROVE  FreshOK(Append(agg, c), Collect(snap, c), all)
  <1> DEFINE new == Append(agg, c)
             col == Collect(snap, c)
             n   == Len(agg)
  <1>1. n \in Nat /\ snap.observed \in Nat /\ snap.observed <= n /\ snap.entries \in [Shapes -> Nat]
    BY DEF Snapshots, SnapOK
  <1>2. \/ col.observed = snap.observed
        \/ col.observed = n + 1 /\ snap.observed = n
    BY DEF Collect, Snapshots, SnapOK
  <1>3. \A x \in obs : x.sequence \in Nat \ {0} /\ Shape[x.content] \in Shapes
    BY LimitAssumption, ShapeAssumption DEF Positions
  <1>4. ASSUME NEW x \in obs
        PROVE  /\ CountIn(new, x.sequence - 1, Shape[x.content]) = 0 => x.fresh
               /\ x.sequence <= col.observed =>
                     (x.fresh <=> CountIn(new, x.sequence - 1, Shape[x.content]) = 0)
    <2>1. x.sequence - 1 \in Nat /\ x.sequence - 1 <= n /\ x.sequence \in Nat /\ x.sequence <= n
      BY <1>1, <1>3
    <2>2. CountIn(new, x.sequence - 1, Shape[x.content])
            = CountIn(agg, x.sequence - 1, Shape[x.content])
      BY <2>1, CountOld
    <2>3. x.sequence <= col.observed => x.sequence <= snap.observed
      BY <1>1, <1>2, <2>1
    <2>. QED
      BY <2>2, <2>3 DEF FreshOK
  <1>5. /\ CountIn(new, o.sequence - 1, Shape[o.content]) = 0 => o.fresh
        /\ o.sequence <= col.observed =>
              (o.fresh <=> CountIn(new, o.sequence - 1, Shape[o.content]) = 0)
    <2> DEFINE sh == Shape[c]
    <2>1. o.sequence - 1 = n /\ sh \in Shapes
      BY <1>1, ShapeAssumption
    <2>2. CountIn(new, n, sh) = CountIn(agg, n, sh)
      BY <1>1, CountOld
    <2>3. o.fresh <=> CountIn(agg, snap.observed, sh) = 0
      <3>1. snap.entries[sh] = CountIn(agg, snap.observed, sh) /\ snap.entries[sh] \in Nat
        BY <1>1, <2>1 DEF SnapOK
      <3>. QED
        BY <2>1, <3>1 DEF Known
    <2>4. CountIn(agg, n, sh) = 0 => CountIn(agg, snap.observed, sh) = 0
      <3>1. CountIn(agg, n, sh) = 0 <=> \A i \in 1..n : i <= n => Shape[agg[i]] # sh
        BY <1>1, CountType
      <3>2. CountIn(agg, snap.observed, sh) = 0 <=>
               \A i \in 1..snap.observed : i <= n => Shape[agg[i]] # sh
        BY <1>1, CountType
      <3>. QED
        BY <1>1, <3>1, <3>2
    <2>5. o.sequence <= col.observed => snap.observed = n
      BY <1>1, <1>2
    <2> HIDE DEF new, col, sh
    <2>6. Shape[o.content] = sh
      BY DEF sh
    <2>. QED
      BY <2>1, <2>2, <2>3, <2>4, <2>5, <2>6
  <1>. QED
    BY <1>4, <1>5 DEF FreshOK

\* The initial rows: nothing, or a migrated run of one record.
LEMMA StoreInit == Init => StoreInv
  <1> SUFFICES ASSUME Init PROVE StoreInv
    OBVIOUS
  <1>1. SnapOK(<<>>, Empty)
    <2>1. /\ Known(Unseen) = {} /\ Counted(Unseen) = {}
          /\ Cardinality({}) = 0 /\ IsFiniteSet({})
      BY FS_EmptySet DEF Known, Counted, Unseen
    <2>2. <<>> \in Seq(Contents) /\ Len(<<>>) = 0
      OBVIOUS
    <2>3. ASSUME NEW s \in Shapes PROVE CountIn(<<>>, 0, s) = 0
      <3>1. {i \in 1..0 : i <= Len(<<>>) /\ Shape[<<>>[i]] = s} = {}
        OBVIOUS
      <3>. QED
        BY <2>1, <3>1 DEF CountIn
    <2>4. Empty.observed = 0 /\ Empty.complete /\ Empty.entries = Unseen
      BY DEF Empty
    <2>5. \A s \in Shapes : Unseen[s] = 0
      BY DEF Unseen
    <2>6. \A s \in Shapes : Empty.entries[s] = CountIn(<<>>, Empty.observed, s)
      BY <2>3, <2>4, <2>5
    <2>7. Cardinality(Known(Empty.entries)) <= MaxBehaviors
      BY <2>1, <2>4, LimitAssumption
    <2>. QED
      BY <2>1, <2>2, <2>4, <2>6, <2>7 DEF SnapOK
  <1>2. SnapOK(aggregate, snapshot)
    <2>1. ASSUME NEW c \in Contents, aggregate = <<c>>, snapshot = Collect(Empty, c)
          PROVE  SnapOK(aggregate, snapshot)
      <3>1. Append(<<>>, c) = <<c>> /\ <<>> \in Seq(Contents)
        OBVIOUS
      <3>. QED
        BY <1>1, <2>1, <3>1, CollectOK, EmptyType
    <2>. QED
      BY <1>1, <2>1 DEF Init
  <1>3. HistoryOK(aggregate, history, observations) /\ FreshOK(aggregate, snapshot, observations)
    BY FS_EmptySet DEF Init, HistoryOK, FreshOK
  <1>4. \A h \in Handlers : VersionInv(h)
    BY DEF Init, VersionInv, Committing
  <1>. QED
    BY <1>2, <1>3, <1>4 DEF StoreInv

\* A step that leaves the rows alone may still bring its own handler to a place
\* where what it read or folded matters; it is then what the rows say.
LEMMA VersionOwn ==
  ASSUME IngestInv, StoreInv, NEW h \in Handlers, Arrive(h) \/ Serve(h), UNCHANGED rows
  PROVE  VersionInv(h)'
  <1> USE DEF IngestInv, rows
  <1>1. ASSUME NEW r, NEW label, Accept(h, r, label),
               label = "cursor" \/ (label = "lock" /\ r \notin Ingest)
        PROVE  VersionInv(h)'
    BY <1>1 DEF Accept, Goto, TypeOK, VersionInv, Committing
  <1>2. CASE Arrive(h)
    <2>1. CASE IngestDecisionRecord(h)
      BY <1>1, <2>1 DEF IngestDecisionRecord
    <2>2. CASE EvaluationProgress(h)
      BY <1>1, <2>2 DEF EvaluationProgress
    <2>3. CASE TransitionRun(h)
      BY <1>1, <2>3 DEF TransitionRun, Ingest
    <2>. QED
      BY <1>2, <2>1, <2>2, <2>3 DEF Arrive
  <1>3. CASE Finish(h)
    BY <1>3 DEF Finish, Goto, TypeOK, VersionInv, Committing
  <1>4. CASE ReadCursor(h) \/ ReadAggregate(h)
    BY <1>4 DEF ReadCursor, ReadAggregate, Goto, TypeOK, VersionInv, Committing
  <1>5. CASE ReadHeader(h)
    <2>1. view'[h].header = Header(snapshot) /\ pc'[h] \in {"entries", "evidence.entries"}
      BY <1>5 DEF ReadHeader, Goto, TypeOK, Views
    <2>. QED
      BY <2>1 DEF VersionInv, Committing, Header
  <1>6. CASE ReadState(h) /\ ~Finish(h)
    BY <1>6 DEF ReadState, Reply, Refuse, Goto, TypeOK, VersionInv, Committing
  <1>7. CASE FoldRecord(h) /\ ~Finish(h)
    <2> DEFINE v    == [view[h] EXCEPT !.entries = snapshot.entries]
               snap == [observed |-> v.header.observed, complete |-> v.header.complete,
                        entries |-> v.entries]
               c    == req[h].content
    <2>1. /\ pc[h] = "evidence.entries" /\ pc'[h] = "lock" /\ UNCHANGED req
          /\ fold'[h] = [aggregate |-> Append(v.aggregate, c), snapshot |-> Collect(snap, c),
                         fresh |-> Shape[c] \notin Known(v.entries)]
      BY <1>7 DEF FoldRecord, Reply, Goto, TypeOK
    <2>2. /\ v.aggregate = view[h].aggregate /\ v.header = view[h].header
          /\ v.entries = snapshot.entries /\ v.aggregate \in Seq(Contents)
      BY DEF TypeOK, Views
    <2>3. req[h] \in Ingest /\ c \in Contents
      BY <2>1 DEF HandlerInv, RequestInv, Reading, Applying, Ingest
    <2>4. Len(Append(v.aggregate, c)) = Len(v.aggregate) + 1 /\ Len(v.aggregate) \in Nat
      BY <2>2, <2>3, AppendProperties
    <2>5. ASSUME Len(v.aggregate) = Len(aggregate) PROVE snap = snapshot
      <3>1. v.header = Header(snapshot)
        BY <2>1, <2>2, <2>5 DEF StoreInv, VersionInv
      <3>2. v.header.observed = snapshot.observed /\ v.header.complete = snapshot.complete
        BY <3>1 DEF Header
      <3>3. snapshot = [observed |-> snapshot.observed, complete |-> snapshot.complete,
                        entries |-> snapshot.entries]
        BY DEF TypeOK, Snapshots
      <3>. QED
        BY <2>2, <3>2, <3>3
    <2>6. /\ fold'[h].aggregate = Append(v.aggregate, c) /\ fold'[h].snapshot = Collect(snap, c)
          /\ fold'[h].fresh = (Shape[c] \notin Known(v.entries))
      <3> DEFINE new == Shape[c] \notin Known(v.entries)
                 rec == [aggregate |-> Append(v.aggregate, c), snapshot |-> Collect(snap, c),
                         fresh |-> new]
      <3>1. fold'[h] = rec
        BY <2>1
      <3>2. rec.aggregate = Append(v.aggregate, c) /\ rec.snapshot = Collect(snap, c)
        OBVIOUS
      <3>3. rec.fresh = new
        <4> HIDE DEF v, snap, c, new
        <4>. QED
          BY Zenon
      <3> HIDE DEF rec
      <3>. QED
        BY <3>1, <3>2, <3>3
    <2>7. Len(fold'[h].aggregate) = Len(aggregate) + 1 => Len(v.aggregate) = Len(aggregate)
      BY <2>4, <2>6 DEF TypeOK
    <2> HIDE DEF v, snap
    <2>. QED
      BY <2>1, <2>2, <2>5, <2>6, <2>7 DEF VersionInv, Collect
  <1>8. CASE Lock(h) \/ (Reread(h) /\ ~Finish(h))
    <2>1. /\ pc[h] \in {"lock", "reread"} /\ pc'[h] \in {"reread", "write", "swap"}
          /\ UNCHANGED <<req, view, fold>>
      BY <1>8 DEF Lock, Reread, Reply, Refuse, Goto, TypeOK
    <2>2. VersionInv(h)
      BY DEF StoreInv
    <2>. QED
      BY <2>1, <2>2 DEF VersionInv, Committing, Collect
  <1>9. CASE Write(h) \/ Swap(h)
    BY <1>9 DEF Write, Swap, Goto, TypeOK, VersionInv, Committing
  <1>. QED
    BY <1>2, <1>3, <1>4, <1>5, <1>6, <1>7, <1>8, <1>9
    DEF Serve, WriteFails, Publish, SwapFails, Announce, Refuse, Reply

\* What a step does to the rows: nothing, or one handler commits its record and
\* is then done with its evidence.
LEMMA RowsStep ==
  ASSUME IngestInv, [Next]_vars
  PROVE  \/ UNCHANGED rows
         \/ \E h \in Handlers :
               /\ pc[h] = "write" /\ Written(h) /\ Only(h) /\ pc'[h] \in {"publish", "idle"}
               /\ UNCHANGED <<answers, told, status>> /\ Drop(h)
  <1>1. CASE UNCHANGED vars \/ CrashPlane
    BY <1>1 DEF vars, CrashPlane
  <1>2. ASSUME NEW h \in Handlers, Arrive(h) PROVE UNCHANGED rows
    BY <1>2 DEF Arrive, IngestDecisionRecord, EvaluationProgress, TransitionRun, Accept
  <1>3. ASSUME NEW h \in Handlers,
               \/ ReadCursor(h) \/ ReadAggregate(h) \/ ReadHeader(h) \/ ReadState(h)
               \/ FoldRecord(h) \/ Lock(h) \/ Reread(h) \/ Publish(h) \/ Announce(h)
               \/ Swap(h) \/ SwapFails(h)
        PROVE  UNCHANGED rows
    BY <1>3 DEF ReadCursor, ReadAggregate, ReadHeader, ReadState, FoldRecord, Lock, Reread,
       Publish, Announce, Swap, SwapFails
  <1>4. ASSUME NEW h \in Handlers, Write(h)
        PROVE  /\ pc[h] = "write" /\ Written(h) /\ Only(h) /\ pc'[h] \in {"publish", "idle"}
               /\ UNCHANGED <<answers, told, status>> /\ Drop(h)
    BY <1>4 DEF Write, Only, Goto, IngestInv, TypeOK, outside
  <1>5. ASSUME NEW h \in Handlers, WriteFails(h)
        PROVE  \/ UNCHANGED rows
               \/ /\ pc[h] = "write" /\ Written(h) /\ Only(h) /\ pc'[h] \in {"publish", "idle"}
                  /\ UNCHANGED <<answers, told, status>> /\ Drop(h)
    BY <1>5, OnlyFinish DEF WriteFails, Refuse, IngestInv
  <1>. QED
    BY <1>1, <1>2, <1>3, <1>4, <1>5 DEF Next, Serve

\* A step of one handler leaves every other as it was.
LEMMA OneAtATime ==
  ASSUME IngestInv, NEW h \in Handlers, Arrive(h) \/ Serve(h)
  PROVE  Only(h)
  <1>1. CASE Arrive(h)
    BY <1>1 DEF Arrive, IngestDecisionRecord, EvaluationProgress, TransitionRun, Accept, Goto,
       Only, IngestInv, TypeOK
  <1>2. CASE Finish(h)
    BY <1>2, OnlyFinish DEF IngestInv
  <1>3. CASE ReadCursor(h) \/ ReadAggregate(h) \/ ReadHeader(h)
    BY <1>3 DEF ReadCursor, ReadAggregate, ReadHeader, Goto, Only, IngestInv, TypeOK
  <1>4. CASE (ReadState(h) \/ FoldRecord(h)) /\ ~Finish(h)
    BY <1>4 DEF ReadState, FoldRecord, Reply, Refuse, Goto, Only, IngestInv, TypeOK
  <1>5. CASE Lock(h) \/ (Reread(h) /\ ~Finish(h)) \/ Write(h) \/ Swap(h)
    BY <1>5 DEF Lock, Reread, Reply, Refuse, Write, Swap, Goto, Only, IngestInv, TypeOK
  <1>. QED
    BY <1>1, <1>2, <1>3, <1>4, <1>5
    DEF Serve, WriteFails, Publish, SwapFails, Announce, Refuse, Reply

\* What the handler that commits writes beside the record: the snapshot
\* collected from the stored one, and the freshness it had there.
LEMMA CommitWrites ==
  ASSUME IngestInv, StoreInv, NEW h \in Handlers, pc[h] = "write", Written(h)
  PROVE  /\ snapshot' = Collect(snapshot, req[h].content)
         /\ fold[h].fresh \in BOOLEAN
         /\ fold[h].fresh <=> Shape[req[h].content] \notin Known(snapshot.entries)
  <1>1. Committing(h) /\ fold[h] \in Folds /\ Len(fold[h].aggregate) = Len(aggregate) + 1
    BY CommitExtends DEF Committing, IngestInv, HandlerInv, FoldInv, CommitInv
  <1>2. VersionInv(h)
    BY DEF StoreInv
  <1>. QED
    BY <1>1, <1>2 DEF VersionInv, Written, Folds

\* Every step keeps what the store holds beside the log right.
LEMMA StoreStep == ASSUME IngestInv, StoreInv, [Next]_vars PROVE StoreInv'
  <1>1. CASE UNCHANGED rows
    <2>1. /\ SnapOK(aggregate', snapshot') /\ HistoryOK(aggregate', history', observations')
          /\ FreshOK(aggregate', snapshot', observations')
      BY <1>1 DEF StoreInv, rows
    <2>2. ASSUME NEW k \in Handlers PROVE VersionInv(k)'
      <3>1. CASE UNCHANGED vars
        BY <3>1 DEF StoreInv, VersionInv, Committing, Header, Known, Collect, vars, rows, handlers
      <3>2. CASE CrashPlane
        BY <3>2 DEF CrashPlane, VersionInv, Committing
      <3>3. ASSUME NEW h \in Handlers, Arrive(h) \/ Serve(h) PROVE VersionInv(k)'
        <4>1. CASE k = h
          BY <1>1, <3>3, <4>1, VersionOwn
        <4>2. CASE k # h
          <5>1. Only(h) /\ VersionInv(k)
            BY <3>3, OneAtATime DEF StoreInv
          <5>. QED
            BY <1>1, <4>2, <5>1 DEF Only, VersionInv, Committing, Header, Known, Collect, rows
        <4>. QED
          BY <4>1, <4>2
      <3>. QED
        BY <3>1, <3>2, <3>3 DEF Next
    <2>. QED
      BY <2>1, <2>2 DEF StoreInv
  <1>2. ASSUME NEW h \in Handlers, pc[h] = "write", Written(h), Only(h),
               pc'[h] \in {"publish", "idle"}
        PROVE  StoreInv'
    <2> DEFINE n    == Len(aggregate)
               c    == req[h].content
               kept == Retain(history, req[h].sequence)
               o    == [sequence |-> req[h].sequence, content |-> c, fresh |-> fold[h].fresh]
    <2>1. /\ req[h] \in Ingest /\ c \in Contents /\ req[h].sequence = n + 1
          /\ aggregate' = Append(aggregate, c) /\ Len(aggregate') = n + 1
          /\ aggregate \in Seq(Contents) /\ snapshot \in Snapshots /\ n \in Nat
      BY <1>2, CommitExtends DEF Ingest, IngestInv, TypeOK
    <2>2. /\ snapshot' = Collect(snapshot, c) /\ fold[h].fresh \in BOOLEAN
          /\ fold[h].fresh <=> Shape[c] \notin Known(snapshot.entries)
      BY <1>2, CommitWrites
    <2>3. SnapOK(aggregate', snapshot')
      BY <2>1, <2>2, CollectOK DEF StoreInv
    <2>4. history' = kept.row /\ observations' = observations \cup (IF kept.insert THEN {o} ELSE {})
      BY <1>2 DEF Written
    <2>5. /\ history \in [retained : Nat, complete : BOOLEAN] \cup {None}
          /\ observations \in SUBSET [sequence : Positions, content : Contents, fresh : BOOLEAN]
      BY DEF IngestInv, TypeOK
    <2>6. HistoryOK(aggregate', history', observations')
      BY <2>1, <2>2, <2>4, <2>5, RetainOK DEF StoreInv
    <2>7. FreshOK(aggregate', snapshot', observations')
      <3>1. o \in [sequence : Positions, content : Contents, fresh : BOOLEAN]
        BY <2>1, <2>2 DEF Ingest
      <3>2. o.sequence = n + 1 /\ o.content = c /\ (o.fresh <=> fold[h].fresh)
        BY <2>1
      <3>3. observations' \in SUBSET (observations \cup {o})
        BY <2>4
      <3>4. \A x \in observations : x.sequence <= n
        BY DEF StoreInv, HistoryOK
      <3> HIDE DEF o, c, n
      <3>5. FreshOK(Append(aggregate, c), Collect(snapshot, c), observations')
        BY <2>1, <2>2, <2>5, <3>1, <3>2, <3>3, <3>4, FreshStep DEF StoreInv, n
      <3>. QED
        BY <2>1, <2>2, <3>5
    <2>8. ASSUME NEW k \in Handlers PROVE VersionInv(k)'
      <3>1. CASE k = h
        BY <1>2, <3>1 DEF VersionInv, Committing
      <3>2. CASE k # h
        <4>1. /\ pc'[k] = pc[k] /\ req'[k] = req[k] /\ view'[k] = view[k] /\ fold'[k] = fold[k]
              /\ Committing(k)' <=> Committing(k)
          BY <1>2, <3>2 DEF Only, Committing
        <4>2. /\ Len(view[k].aggregate) <= n /\ Len(view[k].aggregate) \in Nat
              /\ Committing(k) => Len(fold[k].aggregate) <= n + 1 /\ Len(fold[k].aggregate) \in Nat
          BY DEF IngestInv, HandlerInv, ViewInv, FoldInv, TypeOK, Views, Folds
        <4>3. Len(view'[k].aggregate) # Len(aggregate')
          BY <2>1, <4>1, <4>2
        <4>4. Committing(k)' => Len(fold'[k].aggregate) # Len(aggregate') + 1
          BY <2>1, <4>1, <4>2
        <4>. QED
          BY <4>3, <4>4 DEF VersionInv
      <3>. QED
        BY <3>1, <3>2
    <2>. QED
      BY <2>3, <2>6, <2>7, <2>8 DEF StoreInv
  <1>. QED
    BY <1>1, <1>2, RowsStep

\* Every reachable state satisfies both invariants.
LEMMA StoreInvariant == Spec => [](IngestInv /\ StoreInv)
  <1>1. IngestInv /\ [Next]_vars => IngestInv'
    BY InvStep
  <1>2. IngestInv /\ StoreInv /\ [Next]_vars => StoreInv'
    BY StoreStep
  <1>. QED
    BY InitInv, StoreInit, <1>1, <1>2, PTL DEF Spec

\* The two invariants say what the store holds.
LEMMA StoreInvIsRight == ASSUME IngestInv, StoreInv PROVE StoredEvidenceIsRight
  <1>1. SnapshotIsPrefix
    BY DEF StoreInv, SnapOK, SnapshotIsPrefix, Count, CountIn
  <1>2. HistoryQuotesRun
    BY DEF StoreInv, HistoryOK, HistoryQuotesRun
  <1>3. FreshIsFirst
    BY DEF StoreInv, FreshOK, FreshIsFirst, Count, CountIn
  <1>. QED
    BY <1>1, <1>2, <1>3 DEF StoredEvidenceIsRight

\* What the store holds beside the log is right under either store, torn reads
\* included: the snapshot is the fold of a prefix of the run, the history quotes
\* it, and an observation says truly whether its behavior was new.
THEOREM StoredEvidenceRight == Spec => []StoredEvidenceIsRight
  <1>1. IngestInv /\ StoreInv => StoredEvidenceIsRight
    BY StoreInvIsRight
  <1>. QED
    BY <1>1, StoreInvariant, PTL

\* Saturation is sticky: a commit into an incomplete snapshot or history leaves
\* it incomplete (ObserveOperational, planObservationRetention).
THEOREM IncompleteSticks == Spec => IncompleteIsSticky
  <1> DEFINE Sticks ==
        /\ ~snapshot.complete => ~snapshot'.complete
        /\ history # None /\ ~history.complete => history' # None /\ ~history'.complete
  <1>1. IngestInv /\ StoreInv /\ [Next]_vars => [Sticks]_vars
    <2> SUFFICES ASSUME IngestInv, StoreInv, [Next]_vars PROVE Sticks
      OBVIOUS
    <2>1. CASE UNCHANGED rows
      BY <2>1 DEF rows
    <2>2. ASSUME NEW h \in Handlers, pc[h] = "write", Written(h) PROVE Sticks
      <3> DEFINE c == req[h].content
      <3>1. /\ c \in Contents /\ req[h].sequence = Len(aggregate) + 1
            /\ aggregate \in Seq(Contents) /\ snapshot \in Snapshots
            /\ history \in [retained : Nat, complete : BOOLEAN] \cup {None}
            /\ observations \in SUBSET [sequence : Positions, content : Contents, fresh : BOOLEAN]
        BY <2>2, CommitExtends DEF Ingest, IngestInv, TypeOK
      <3>2. snapshot' = Collect(snapshot, c) /\ history' = Retain(history, Len(aggregate) + 1).row
        BY <2>2, <3>1, CommitWrites DEF Written
      <3>3. ~snapshot.complete => snapshot' = snapshot
        BY <3>1, <3>2, CollectOK DEF StoreInv
      <3>4. history # None /\ ~history.complete => history' # None /\ ~history'.complete
        BY <3>1, <3>2, RetainOK DEF StoreInv
      <3>. QED
        BY <3>3, <3>4
    <2>. QED
      BY <2>1, <2>2, RowsStep
  <1>. QED
    BY <1>1, StoreInvariant, PTL DEF Spec, IncompleteIsSticky

-----------------------------------------------------------------------------
(* What clients are told, on the store with one connection. *)

\* A handler in the middle of a read transaction holds the connection, so
\* what it has read is what is stored.
ReaderInv(h) ==
    /\ pc[h] \in {"aggregate", "header", "entries", "evidence.header", "evidence.entries"} =>
          owner = h
    /\ pc[h] \in {"aggregate", "header", "entries"} => view[h].cursor = cursor
    /\ pc[h] \in {"header", "entries", "evidence.header", "evidence.entries"} =>
          view[h].aggregate = aggregate
    /\ pc[h] \in {"entries", "evidence.entries"} => view[h].header = Header(snapshot)

\* A status the run has, or passed through on its way to its end.
Passed(s) == s = status \/ (s = "running" /\ IsTerminal(status))

LifecycleInv ==
    /\ "pending" \notin told
    /\ \A s \in told : Passed(s)
    /\ \A h \in Handlers : pc[h] = "announce" => Passed(req[h].to)

HonestInv ==
    /\ \A h \in Handlers : ReaderInv(h)
    /\ cursor = None => Len(aggregate) = 0 \/ (Migrated /\ Len(aggregate) = 1)
    /\ \A a \in answers : a.disposition = "different" => a.sequence # 0
    /\ ConflictIsReal
    /\ NeverReportsCorruption

\* A view that shows one moment of a store whose snapshot is right is sound: it
\* is empty exactly when the log is, and never taken for corrupt.
LEMMA ViewSound ==
  ASSUME NEW agg \in Seq(Contents), NEW snap \in Snapshots, SnapOK(agg, snap), NEW v,
         v.aggregate = agg, v.header = Header(snap), v.entries = snap.entries
  PROVE  /\ ~EvidenceCorrupt(v)
         /\ NoEvidence(v) <=> Len(agg) = 0
  <1> DEFINE e == snap.entries
  <1>1. /\ Len(agg) \in Nat /\ snap.observed \in Nat /\ e \in [Shapes -> Nat]
        /\ snap.observed <= Len(agg) /\ (snap.complete => snap.observed = Len(agg))
        /\ snap.complete \in BOOLEAN
    BY DEF Snapshots, SnapOK
  <1>2. /\ v.header.observed = snap.observed /\ v.header.complete = snap.complete
        /\ v.header.distinct = Cardinality(Known(e))
    BY DEF Header
  <1>3. Len(agg) > 0 => snap.observed > 0
    <2>1. CASE snap.complete
      BY <1>1, <2>1
    <2>2. CASE ~snap.complete
      <3>1. Known(e) # {}
        <4>1. Cardinality(Known(e)) # 0
          BY <2>2, LimitAssumption DEF SnapOK
        <4>. QED
          BY <4>1, FS_EmptySet
      <3>2. PICK s \in Shapes : e[s] > 0
        BY <3>1 DEF Known
      <3>3. <<s, 1>> \in Counted(e)
        BY <1>1, <3>2 DEF Counted
      <3>4. Cardinality(Counted(e)) # 0
        BY <3>3, FS_EmptySet DEF SnapOK
      <3>. QED
        BY <1>1, <3>4 DEF SnapOK
    <2>. QED
      BY <1>1, <2>1, <2>2
  <1>4. Cardinality(Counted(v.entries)) = snap.observed
    BY DEF SnapOK
  <1>5. NoEvidence(v) <=> Len(agg) = 0
    BY <1>1, <1>2, <1>3 DEF NoEvidence
  <1>6. ~EvidenceCorrupt(v)
    BY <1>1, <1>2, <1>3, <1>4, <1>5 DEF EvidenceCorrupt
  <1>. QED
    BY <1>5, <1>6

\* What a handler has read by the end of a transaction is what is stored, and
\* it is sound.
LEMMA ReaderSees ==
  ASSUME IngestInv, StoreInv, NEW h \in Handlers, ReaderInv(h)
  PROVE  LET v == [view[h] EXCEPT !.entries = snapshot.entries]
         IN /\ pc[h] \in {"entries", "evidence.entries"} => ~EvidenceCorrupt(v)
            /\ pc[h] = "entries" =>
                  /\ ~StateCorrupt(v)
                  /\ NextSequence(v) = Len(aggregate) + 1
                  /\ LastDigest(v) = IF cursor = None THEN None ELSE cursor.digest
  <1> DEFINE v == [view[h] EXCEPT !.entries = snapshot.entries]
  <1>1. /\ v.aggregate = view[h].aggregate /\ v.header = view[h].header
        /\ v.entries = snapshot.entries /\ v.cursor = view[h].cursor
    BY DEF IngestInv, TypeOK, Views
  <1>2. /\ aggregate \in Seq(Contents) /\ snapshot \in Snapshots /\ SnapOK(aggregate, snapshot)
        /\ CursorDescribesEvidence
    BY DEF IngestInv, TypeOK, StoreInv
  <1> HIDE DEF v
  <1>3. ASSUME pc[h] \in {"entries", "evidence.entries"}
        PROVE  ~EvidenceCorrupt(v) /\ (NoEvidence(v) <=> Len(aggregate) = 0)
    <2>1. v.aggregate = aggregate /\ v.header = Header(snapshot)
      BY <1>1, <1>3 DEF ReaderInv
    <2>. QED
      BY <1>1, <1>2, <2>1, ViewSound
  <1>4. ASSUME pc[h] = "entries"
        PROVE  /\ ~StateCorrupt(v)
               /\ NextSequence(v) = Len(aggregate) + 1
               /\ LastDigest(v) = IF cursor = None THEN None ELSE cursor.digest
    <2>1. v.cursor = cursor /\ v.aggregate = aggregate
      BY <1>1, <1>4 DEF ReaderInv
    <2>2. cursor # None => cursor.next = Len(aggregate) + 1 /\ Len(aggregate) # 0
      BY <1>2 DEF CursorDescribesEvidence
    <2>. QED
      BY <1>3, <1>4, <2>1, <2>2 DEF StateCorrupt, NextSequence, LastDigest
  <1>. QED
    BY <1>3, <1>4 DEF v

\* The connection keeps every other handler out: while k holds it, a step of h
\* neither takes it nor changes a row.
LEMMA ConnectionExcludes ==
  ASSUME IngestInv, ~Pooled, NEW h \in Handlers, NEW k \in Handlers \ {h}, owner = k,
         Arrive(h) \/ Serve(h)
  PROVE  owner' = k /\ UNCHANGED rows
  <1>1. k # None /\ k # h
    BY NobodyAssumption
  <1>2. pc[h] \notin {"reread", "write", "swap"}
    BY <1>1 DEF IngestInv, HandlerInv, CommitInv
  <1>3. CASE Arrive(h)
    BY <1>3 DEF Arrive, IngestDecisionRecord, EvaluationProgress, TransitionRun, Accept
  <1>4. CASE Serve(h)
    BY <1>1, <1>2, <1>4 DEF Serve, ReadCursor, ReadAggregate, ReadHeader, ReadState, FoldRecord,
       Lock, Reread, Write, WriteFails, Publish, Swap, SwapFails, Announce, Connected, Drop
  <1>. QED
    BY <1>3, <1>4

\* Every step keeps a reader's view the stored one.
LEMMA ReaderStep ==
  ASSUME IngestInv, ~Pooled, [Next]_vars, NEW k \in Handlers, ReaderInv(k)
  PROVE  ReaderInv(k)'
  <1>1. CASE UNCHANGED vars
    BY <1>1 DEF ReaderInv, Header, Known, vars, rows, handlers
  <1>2. CASE CrashPlane
    BY <1>2 DEF CrashPlane, ReaderInv
  <1>3. ASSUME NEW h \in Handlers, Arrive(h) \/ Serve(h), k # h PROVE ReaderInv(k)'
    <2>1. pc'[k] = pc[k] /\ view'[k] = view[k]
      BY <1>3, OneAtATime DEF Only
    <2>2. owner = k => owner' = k /\ UNCHANGED rows
      BY <1>3, ConnectionExcludes
    <2>. QED
      BY <2>1, <2>2 DEF ReaderInv, Header, Known, rows
  <1>4. CASE Arrive(k)
    BY <1>4 DEF Arrive, IngestDecisionRecord, EvaluationProgress, TransitionRun, Accept, Goto,
       IngestInv, TypeOK, ReaderInv
  <1>5. CASE Finish(k)
    BY <1>5 DEF Finish, Goto, IngestInv, TypeOK, ReaderInv
  <1>6. CASE ReadCursor(k)
    <2>1. pc'[k] = "aggregate" /\ owner' = k /\ view'[k].cursor = cursor /\ UNCHANGED rows
      BY <1>6 DEF ReadCursor, Goto, Hold, IngestInv, TypeOK, Views
    <2>. QED
      BY <2>1 DEF ReaderInv, rows
  <1>7. CASE ReadAggregate(k)
    <2>1. /\ (pc[k] = "aggregate" /\ pc'[k] = "header") \/ pc'[k] = "evidence.header"
          /\ owner' = k /\ view'[k].cursor = view[k].cursor /\ view'[k].aggregate = aggregate
          /\ UNCHANGED rows
      BY <1>7 DEF ReadAggregate, Goto, Hold, IngestInv, TypeOK, Views
    <2>. QED
      BY <2>1 DEF ReaderInv, rows
  <1>8. CASE ReadHeader(k)
    <2>1. /\ \/ pc[k] = "header" /\ pc'[k] = "entries"
             \/ pc[k] = "evidence.header" /\ pc'[k] = "evidence.entries"
          /\ view'[k].cursor = view[k].cursor /\ view'[k].aggregate = view[k].aggregate
          /\ view'[k].header = Header(snapshot) /\ UNCHANGED <<rows, owner>>
      BY <1>8 DEF ReadHeader, Goto, IngestInv, TypeOK, Views
    <2>. QED
      BY <2>1 DEF ReaderInv, Header, Known, rows
  <1>9. CASE (ReadState(k) \/ FoldRecord(k)) /\ ~Finish(k)
    <2>1. pc'[k] \in {"evidence.aggregate", "lock"}
      BY <1>9 DEF ReadState, FoldRecord, Reply, Refuse, Goto, IngestInv, TypeOK
    <2>. QED
      BY <2>1 DEF ReaderInv
  <1>10. CASE Lock(k) \/ (Reread(k) /\ ~Finish(k)) \/ Write(k) \/ Swap(k)
    <2>1. pc'[k] \in {"reread", "swap", "write", "publish", "announce"}
      BY <1>10 DEF Lock, Reread, Write, Swap, Reply, Refuse, Goto, IngestInv, TypeOK
    <2>. QED
      BY <2>1 DEF ReaderInv
  <1>. QED
    BY <1>1, <1>2, <1>3, <1>4, <1>5, <1>6, <1>7, <1>8, <1>9, <1>10
    DEF Next, Serve, WriteFails, Publish, SwapFails, Announce, Refuse, Reply

\* Where a handler that announces is, and what the others do to the run's
\* status: nothing, or one move along its lifecycle.
LEMMA StatusStep ==
  ASSUME IngestInv, [Next]_vars
  PROVE  \/ /\ UNCHANGED status
            /\ \A s \in told' \ told : \E h \in Handlers : pc[h] = "announce" /\ s = req[h].to
            /\ \A h \in Handlers : pc'[h] = "announce" => pc[h] = "announce" /\ req'[h] = req[h]
         \/ \E h \in Handlers :
               /\ req[h] \in Transition /\ status = req[h].from /\ status' = req[h].to
               /\ UNCHANGED told
               /\ \A k \in Handlers :
                     pc'[k] = "announce" => req'[k] = req[k] /\ (k = h \/ pc[k] = "announce")
  <1>1. CASE UNCHANGED vars \/ CrashPlane
    BY <1>1 DEF vars, CrashPlane, handlers, outside
  <1>2. ASSUME NEW h \in Handlers, Arrive(h) \/ Serve(h), ~Swap(h), ~SwapFails(h)
        PROVE  /\ UNCHANGED status
               /\ \A s \in told' \ told : pc[h] = "announce" /\ s = req[h].to
               /\ pc'[h] # "announce"
    <2>1. CASE Arrive(h)
      BY <1>2, <2>1 DEF Arrive, IngestDecisionRecord, EvaluationProgress, TransitionRun, Accept,
         Goto, IngestInv, TypeOK
    <2>2. CASE ReadCursor(h) \/ ReadAggregate(h) \/ ReadHeader(h)
      BY <1>2, <2>2 DEF ReadCursor, ReadAggregate, ReadHeader, Goto, IngestInv, TypeOK, outside
    <2>3. CASE ReadState(h) \/ FoldRecord(h)
      BY <1>2, <2>3 DEF ReadState, FoldRecord, Reply, Refuse, Finish, Goto, IngestInv, TypeOK
    <2>4. CASE Lock(h) \/ Reread(h) \/ Write(h) \/ WriteFails(h)
      BY <1>2, <2>4 DEF Lock, Reread, Write, WriteFails, Reply, Refuse, Finish, Goto, IngestInv,
         TypeOK, outside
    <2>5. CASE Publish(h) \/ Announce(h)
      BY <1>2, <2>5 DEF Publish, Announce, Reply, Refuse, Finish, Goto, IngestInv, TypeOK
    <2>. QED
      BY <1>2, <2>1, <2>2, <2>3, <2>4, <2>5 DEF Serve
  <1>3. ASSUME NEW h \in Handlers, Swap(h) \/ SwapFails(h)
        PROVE  /\ \/ UNCHANGED status /\ pc'[h] # "announce"
                  \/ status = req[h].from /\ status' = req[h].to
               /\ pc'[h] = "announce" => req'[h] = req[h]
               /\ UNCHANGED told
               /\ req[h] \in Transition
    <2>1. pc[h] = "swap" /\ req[h] \in Transition
      BY <1>3 DEF Swap, SwapFails, IngestInv, HandlerInv, RequestInv, Reading, Applying
    <2>. QED
      BY <1>3, <2>1 DEF Swap, SwapFails, Swapped, Refuse, Finish, Goto, IngestInv, TypeOK, outside
  <1>4. ASSUME NEW h \in Handlers, Arrive(h) \/ Serve(h), NEW k \in Handlers \ {h}
        PROVE  pc'[k] = pc[k] /\ req'[k] = req[k]
    BY <1>4, OneAtATime DEF Only
  <1>. QED
    <2>1. ASSUME NEW h \in Handlers, Arrive(h) \/ Serve(h), ~Swap(h), ~SwapFails(h)
          PROVE  /\ UNCHANGED status
                 /\ \A s \in told' \ told : \E i \in Handlers : pc[i] = "announce" /\ s = req[i].to
                 /\ \A i \in Handlers : pc'[i] = "announce" => pc[i] = "announce" /\ req'[i] = req[i]
      BY <2>1, <1>2, <1>4
    <2>. QED
      BY <1>1, <1>3, <1>4, <2>1 DEF Next, Serve

\* Every step keeps the announced statuses ones the run had.
LEMMA LifecycleStep == ASSUME IngestInv, LifecycleInv, [Next]_vars PROVE LifecycleInv'
  <1>1. ASSUME NEW h \in Handlers, pc[h] = "announce"
        PROVE  req[h].to # "pending" /\ Passed(req[h].to)
    BY <1>1 DEF IngestInv, HandlerInv, RequestInv, Reading, Applying, Transition,
       TransitionAllowed, LifecycleInv
  <1>2. CASE /\ UNCHANGED status
             /\ \A s \in told' \ told : \E h \in Handlers : pc[h] = "announce" /\ s = req[h].to
             /\ \A h \in Handlers : pc'[h] = "announce" => pc[h] = "announce" /\ req'[h] = req[h]
    BY <1>1, <1>2 DEF LifecycleInv, Passed
  <1>3. ASSUME NEW h \in Handlers, req[h] \in Transition,
               status = req[h].from, status' = req[h].to, UNCHANGED told,
               \A k \in Handlers :
                  pc'[k] = "announce" => req'[k] = req[k] /\ (k = h \/ pc[k] = "announce")
        PROVE  LifecycleInv'
    <2>1. TransitionAllowed(status, status')
      BY <1>3 DEF Transition
    <2>2. ASSUME NEW s, Passed(s), s # "pending" PROVE s = "running" /\ IsTerminal(status')
      BY <2>1, <2>2 DEF Passed, TransitionAllowed, IsTerminal
    <2>3. \A s \in told : s = "running" /\ IsTerminal(status')
      BY <2>2 DEF LifecycleInv
    <2>4. ASSUME NEW k \in Handlers, pc'[k] = "announce"
          PROVE  req'[k].to = status' \/ (req'[k].to = "running" /\ IsTerminal(status'))
      BY <1>1, <1>3, <2>2, <2>4
    <2>. QED
      BY <1>3, <2>3, <2>4 DEF LifecycleInv, Passed
  <1>. QED
    BY <1>2, <1>3, StatusStep

\* A client told of a conflict, and no client told of corruption: what a step
\* of one handler adds to the answers.
LEMMA AnswerStep ==
  ASSUME IngestInv, StoreInv, HonestInv, ~Pooled, NEW h \in Handlers, Arrive(h) \/ Serve(h),
         NEW a \in answers' \ answers
  PROVE  /\ a.disposition # "corrupt"
         /\ a.disposition = "different" =>
               /\ a.sequence = Len(aggregate) /\ a.sequence # 0
               /\ cursor # None => aggregate[a.sequence] # a.content
  <1>1. CASE ReadState(h)
    <2> DEFINE v == [view[h] EXCEPT !.entries = snapshot.entries]
    <2>1. /\ pc[h] = "entries" /\ ~StateCorrupt(v) /\ NextSequence(v) = Len(aggregate) + 1
          /\ LastDigest(v) = IF cursor = None THEN None ELSE cursor.digest
      BY <1>1, ReaderSees DEF ReadState, HonestInv
    <2> HIDE DEF v
    <2>2. PICK d \in {"replayed", "different"} :
             /\ Reply(h, d) /\ req[h].op = "ingest" /\ req[h].sequence + 1 = NextSequence(v)
             /\ d = IF LastDigest(v) = req[h].content THEN "replayed" ELSE "different"
      BY <1>1, <2>1 DEF ReadState, Refuse, v
    <2>3. req[h] \in Ingest /\ req[h].sequence \in Nat \ {0} /\ req[h].content \in Contents
      <3>1. req[h] \in Ingest \cup Progress
        BY <2>1 DEF IngestInv, HandlerInv, RequestInv, Reading, Applying
      <3>2. req[h] \in Ingest
        BY <2>2, <3>1 DEF Progress
      <3>. QED
        BY <3>2, LimitAssumption DEF Ingest, Positions
    <2>4. a = [sequence |-> req[h].sequence, content |-> req[h].content, disposition |-> d]
      BY <2>2 DEF Reply
    <2>5. a.sequence = req[h].sequence /\ a.content = req[h].content /\ a.disposition = d
      BY <2>4
    <2>6. Len(aggregate) \in Nat /\ a.sequence = Len(aggregate) /\ a.sequence # 0
      BY <2>1, <2>2, <2>3, <2>5 DEF IngestInv, TypeOK
    <2>7. d = "different" /\ cursor # None => aggregate[a.sequence] # a.content
      BY <2>1, <2>2, <2>5, <2>6 DEF IngestInv, CursorDescribesEvidence
    <2>. QED
      BY <2>5, <2>6, <2>7
  <1>2. CASE FoldRecord(h)
    BY <1>2, ReaderSees DEF FoldRecord, HonestInv
  <1>3. CASE Reread(h) \/ Publish(h)
    BY <1>3 DEF Reread, Publish, Reply, Refuse
  <1>. QED
    BY <1>1, <1>2, <1>3 DEF Arrive, IngestDecisionRecord, EvaluationProgress, TransitionRun,
       Accept, Serve, ReadCursor, ReadAggregate, ReadHeader, Lock, Write, WriteFails, Swap,
       SwapFails, Announce, Refuse, outside

\* Every step keeps what clients were told true.
LEMMA HonestStep ==
  ASSUME IngestInv, StoreInv, HonestInv, ~Pooled, [Next]_vars PROVE HonestInv'
  <1>1. \A h \in Handlers : ReaderInv(h)'
    BY ReaderStep DEF HonestInv
  <1>2. /\ Len(aggregate) \in Nat /\ aggregate' \in Seq(Contents)
        /\ Len(aggregate) <= Len(aggregate') /\ (cursor # None => cursor' # None)
        /\ \A i \in 1..Len(aggregate) : aggregate'[i] = aggregate[i]
        /\ UNCHANGED <<cursor, aggregate>> \/ cursor' # None
    <2>1. aggregate' \in Seq(Contents) /\ aggregate \in Seq(Contents)
      BY TypeStep DEF IngestInv, TypeOK
    <2>2. CASE UNCHANGED rows
      BY <2>1, <2>2 DEF rows
    <2>3. ASSUME NEW h \in Handlers, pc[h] = "write", Written(h) PROVE <1>2
      <3>1. cursor' \in Cursors /\ CursorDescribesEvidence'
        BY <2>3, InvStep, CommitExtends, WrittenType
           DEF IngestInv, HandlerInv, FoldInv, CommitInv, Committing
      <3>2. cursor' # None
        BY <3>1, NoRowAssumption DEF Cursors
      <3>. QED
        BY <2>1, <2>3, <3>2, CommitExtends
    <2>. QED
      BY <2>2, <2>3, RowsStep
  <1>3. cursor' = None => Len(aggregate') = 0 \/ (Migrated /\ Len(aggregate') = 1)
    BY <1>2 DEF HonestInv
  <1>4. ASSUME NEW a \in answers' \ answers
        PROVE  /\ a.disposition # "corrupt"
               /\ a.disposition = "different" =>
                     /\ a.sequence = Len(aggregate) /\ a.sequence # 0
                     /\ cursor # None => aggregate[a.sequence] # a.content
    <2>1. PICK h \in Handlers : Arrive(h) \/ Serve(h)
      BY <1>4 DEF Next, CrashPlane, vars, outside
    <2>. QED
      BY <1>4, <2>1, AnswerStep
  <1>5. NeverReportsCorruption'
    BY <1>4 DEF HonestInv, NeverReportsCorruption
  <1>6. ASSUME NEW a \in answers', a.disposition = "different"
        PROVE  \/ a.sequence <= Len(aggregate') /\ aggregate'[a.sequence] # a.content
               \/ Migrated /\ a.sequence = 1
    <2>1. CASE a \in answers
      <3>1. \/ a.sequence <= Len(aggregate) /\ aggregate[a.sequence] # a.content
            \/ Migrated /\ a.sequence = 1
        BY <1>6, <2>1 DEF HonestInv, ConflictIsReal
      <3>2. a.sequence \in Nat \ {0}
        BY <1>6, <2>1 DEF IngestInv, TypeOK, HonestInv
      <3>. QED
        BY <1>2, <3>1, <3>2
    <2>2. CASE a \notin answers
      <3>1. /\ a.sequence = Len(aggregate) /\ a.sequence # 0
            /\ cursor # None => aggregate[a.sequence] # a.content
        BY <1>4, <1>6, <2>2
      <3>. QED
        BY <1>2, <3>1 DEF HonestInv
    <2>. QED
      BY <2>1, <2>2
  <1>7. ConflictIsReal'
    BY <1>6 DEF ConflictIsReal
  <1>8. \A a \in answers' : a.disposition = "different" => a.sequence # 0
    BY <1>4 DEF HonestInv
  <1>. QED
    BY <1>1, <1>3, <1>5, <1>7, <1>8 DEF HonestInv

\* With one connection, what clients and subscribers are told is true: a client
\* told of different content did present different content, none is told that the
\* store is corrupt, and only statuses the run had are announced.  The
\* assumption is SQLite's; the runs ingest_torn_read and ingest_retry_race show
\* what a pool does to the first two.
THEOREM AnswersHonest == ASSUME ~Pooled PROVE Spec => []AnswersAreHonest
  <1>1. Init => LifecycleInv /\ HonestInv
    <2> SUFFICES ASSUME Init PROVE LifecycleInv /\ HonestInv
      OBVIOUS
    <2>1. LifecycleInv /\ ConflictIsReal /\ NeverReportsCorruption /\ answers = {}
      BY DEF Init, LifecycleInv, ConflictIsReal, NeverReportsCorruption
    <2>2. \A h \in Handlers : ReaderInv(h)
      BY DEF Init, ReaderInv
    <2>3. cursor = None => Len(aggregate) = 0 \/ (Migrated /\ Len(aggregate) = 1)
      BY DEF Init
    <2>. QED
      BY <2>1, <2>2, <2>3 DEF HonestInv
  <1>2. IngestInv /\ LifecycleInv /\ [Next]_vars => LifecycleInv'
    BY LifecycleStep
  <1>3. IngestInv /\ StoreInv /\ HonestInv /\ [Next]_vars => HonestInv'
    BY HonestStep
  <1>4. LifecycleInv /\ HonestInv => AnswersAreHonest
    BY DEF LifecycleInv, HonestInv, AnswersAreHonest, LifecycleEventsAgree, Passed
  <1>. QED
    BY <1>1, <1>2, <1>3, <1>4, StoreInvariant, PTL DEF Spec

\* Under either store two racing transitions never both happen: the statuses
\* announced are ones the run had (UpdateEvaluationRun's compare and swap).
THEOREM EventsAgree == Spec => []LifecycleEventsAgree
  <1>1. Init => LifecycleInv
    BY DEF Init, LifecycleInv
  <1>2. IngestInv /\ LifecycleInv /\ [Next]_vars => LifecycleInv'
    BY LifecycleStep
  <1>3. LifecycleInv => LifecycleEventsAgree
    BY DEF LifecycleInv, LifecycleEventsAgree, Passed
  <1>. QED
    BY <1>1, <1>2, <1>3, IngestInvHolds, PTL DEF Spec
=============================================================================
