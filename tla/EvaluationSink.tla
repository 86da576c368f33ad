--------------------------- MODULE EvaluationSink ---------------------------
(***************************************************************************)
(* The evaluation sink of the Collector processor                          *)
(* (src/processor/internal/evaluation): it posts decision records to one   *)
(* evaluation run, in order, and lets the engine learn from a record only  *)
(* after the control plane has confirmed it.  The two halves of a record,  *)
(* its evidence in the run and its learning in the engine's store, cannot  *)
(* be written in one transaction; a one-entry journal on disk says which   *)
(* of them happened when the process dies in between.                      *)
(*                                                                         *)
(* One Collector process, which may crash (the process or its whole host)  *)
(* between any two steps and be started again; the network, which loses    *)
(* and delays requests; the control plane's ingest cursor; and, bounded by *)
(* MaxForeign, a second writer the sink must notice.                       *)
(*                                                                         *)
(* A record is bound to a sequence of a run by a claim.  Records are       *)
(* numbered in the order Record is called; record 0 stands for anything a  *)
(* second writer posts.                                                    *)
(***************************************************************************)
EXTENDS Naturals, RunLifecycle

CONSTANTS
    Runs,              \* evaluation runs
    MaxRecords,        \* bound: calls of Record over the whole behaviour
    MaxForeign,        \* bound: records posted by a second writer
    LateDelivery,      \* may a request outlive the process that sent it?
    RecoverySyncFails, \* may recovery fail after it removed the entry?
    None               \* no journal entry / nothing pending

Records == 1..MaxRecords
Foreign == 0
Claims  == [run : Runs, sequence : Nat \ {0}, record : Records \cup {Foreign}]
Entries == [claim : Claims, state : {"posting", "confirmed"}]

ASSUME BoundsAssumption == MaxRecords \in Nat /\ MaxForeign \in Nat
ASSUME FaultAssumption  == LateDelivery \in BOOLEAN /\ RecoverySyncFails \in BOOLEAN
ASSUME NoneAssumption   == None \notin Entries /\ None \notin Runs

VARIABLES
    \* the control plane, durable and shared by every client
    status,        \* [Runs -> RunStatuses]
    cursor,        \* [Runs -> sequence the run expects next]
    evidence,      \* claims the run has committed
    foreign,       \* records a second writer has posted so far
    \* the network
    inflight,      \* posted requests whose sender gave up on the response
    \* the Collector's disk
    entry,         \* journal file as the operating system shows it
    shadows,       \* older contents a host crash may still bring back
    \* the Collector's memory
    pc,            \* where the goroutine holding Sink.mu is
    runID,         \* Sink.runID, from the configuration of this start
    next,          \* Sink.next
    stage,         \* "ready" once Sink.initialized is set
    pending,       \* Sink.pending
    arg,           \* record of the Record call in progress, 0 when bound
    \* the engine's durable store
    learned,       \* [Records -> number of times it was observed]
    \* what callers were told
    calls,         \* Record calls so far
    indeterminate, \* records reported as ErrLearningIndeterminate or
                   \* RecoveryIndeterminate
    discarded      \* records reported as RecoveryDiscarded

plane   == <<status, cursor, evidence, foreign>>
disk    == <<entry, shadows>>
memory  == <<pc, runID, next, stage, pending, arg>>
history == <<calls, indeterminate, discarded>>
vars    == <<plane, inflight, disk, memory, learned, history>>

Init ==
    /\ status = [r \in Runs |-> "pending"]
    /\ cursor = [r \in Runs |-> 1]
    /\ evidence = {}
    /\ foreign = 0
    /\ inflight = {}
    /\ entry = None
    /\ shadows = {}
    /\ pc = "down"
    /\ runID = None
    /\ next = 0
    /\ stage = "starting"
    /\ pending = None
    /\ arg = 0
    /\ learned = [r \in Records |-> 0]
    /\ calls = 0
    /\ indeterminate = {}
    /\ discarded = {}

-----------------------------------------------------------------------------
(* The control plane, as this client sees it. *)

\* POST /records at the sequence the run expects: the record is applied.
Applied(c) ==
    /\ status[c.run] = "running"
    /\ cursor[c.run] = c.sequence
    /\ cursor' = [cursor EXCEPT ![c.run] = c.sequence + 1]
    /\ evidence' = evidence \cup {c}

\* The identical record at the previous sequence: replayed, nothing changes.
Replayed(c) ==
    /\ status[c.run] = "running"
    /\ cursor[c.run] = c.sequence + 1
    /\ c \in evidence
    /\ UNCHANGED <<cursor, evidence>>

\* The run moves through its lifecycle whatever the Collector is doing.
Transition(r) ==
    /\ \E to \in RunStatuses :
          /\ TransitionAllowed(status[r], to)
          /\ status' = [status EXCEPT ![r] = to]
    /\ UNCHANGED <<cursor, evidence, foreign, inflight, disk, memory, learned, history>>

\* A second writer breaks the one-writer-per-run assumption.
ForeignWrite(r) ==
    /\ foreign < MaxForeign
    /\ Applied([run |-> r, sequence |-> cursor[r], record |-> Foreign])
    /\ foreign' = foreign + 1
    /\ UNCHANGED <<status, inflight, disk, memory, learned, history>>

\* A request whose sender stopped waiting reaches the control plane.  Only the
\* deliveries that are applied matter: any other changes nothing.
LateArrival ==
    \E c \in inflight :
        /\ Applied(c)
        /\ inflight' = inflight \ {c}
        /\ UNCHANGED <<status, foreign, disk, memory, learned, history>>

-----------------------------------------------------------------------------
(* The journal.  write and clear end with a directory sync; both may fail   *)
(* before the file changed, or after it changed and before it was durable.  *)

NotPut       == UNCHANGED disk
PutUnsynced(e) == entry' = e /\ shadows' = shadows \cup {entry}
PutDurable(e)  == entry' = e /\ shadows' = {}
PutFails(e)    == NotPut \/ PutUnsynced(e)

-----------------------------------------------------------------------------
(* Leaving a call, and leaving the process. *)

\* Memory is gone.  A request the process had given up on may, or may not,
\* still be on its way.
Stop ==
    /\ pc' = "down"
    /\ runID' = None
    /\ next' = 0
    /\ stage' = "starting"
    /\ pending' = None
    /\ arg' = 0

Abandoned(requests) == IF LateDelivery THEN requests ELSE {}

\* The call fails.  Record returns its error and the sink stays up; a failed
\* Initialize fails the component's Start, and the Collector exits.
Fail(requests) ==
    IF stage = "ready"
    THEN /\ pc' = "idle"
         /\ arg' = 0
         /\ inflight' = requests
         /\ UNCHANGED <<runID, next, stage>>
    ELSE /\ pc' = "down"
         /\ runID' = None
         /\ next' = 0
         /\ stage' = "starting"
         /\ arg' = 0
         /\ inflight' = Abandoned(requests)

\* What the failed call leaves pending: nothing survives the process.
Keep(p) == pending' = IF stage = "ready" THEN p ELSE None

-----------------------------------------------------------------------------
(* Sink.Initialize *)

\* runStatus must be running, and a journal entry must belong to this run.
Start(r) ==
    /\ pc = "down"
    /\ status[r] = "running"
    /\ entry # None => entry.claim.run = r
    /\ pc' = "resume"
    /\ runID' = r
    /\ UNCHANGED <<next, stage, pending, arg>>
    /\ UNCHANGED <<plane, inflight, disk, learned, history>>

Ready(cur) ==
    /\ pc' = "idle"
    /\ next' = cur
    /\ stage' = "ready"
    /\ UNCHANGED <<runID, pending, arg>>

\* Nothing was pending: the cursor is the server's.
SeedCursor ==
    /\ pc = "resume"
    /\ entry = None
    /\ Ready(cursor[runID])
    /\ UNCHANGED <<plane, inflight, disk, learned, history>>

\* confirmed at N, the run expects N+1: the learning is not applied again and
\* the caller is told.
RecoverIndeterminate ==
    /\ pc = "resume"
    /\ entry # None
    /\ entry.state = "confirmed"
    /\ cursor[runID] = entry.claim.sequence + 1
    /\ \/ /\ PutDurable(None)
          /\ Ready(cursor[runID])
          /\ indeterminate' = indeterminate \cup {entry.claim.record}
          /\ UNCHANGED inflight
       \/ /\ IF RecoverySyncFails THEN PutFails(None) ELSE NotPut
          /\ Stop
          /\ inflight' = Abandoned(inflight)
          /\ UNCHANGED indeterminate
    /\ UNCHANGED <<plane, learned, calls, discarded>>

\* posting at N, the run still expects N: the record is discarded.
RecoverDiscard ==
    /\ pc = "resume"
    /\ entry # None
    /\ entry.state = "posting"
    /\ cursor[runID] = entry.claim.sequence
    /\ \/ /\ PutDurable(None)
          /\ Ready(cursor[runID])
          /\ discarded' = discarded \cup {entry.claim.record}
          /\ UNCHANGED inflight
       \/ /\ PutFails(None)
          /\ Stop
          /\ inflight' = Abandoned(inflight)
          /\ UNCHANGED discarded
    /\ UNCHANGED <<plane, learned, calls, indeterminate>>

\* posting at N, the run expects N+1: re-present the record at N, which the
\* control plane replays if and only if it is the one it holds.
RecoverRepresent ==
    /\ pc = "resume"
    /\ entry # None
    /\ entry.state = "posting"
    /\ cursor[runID] = entry.claim.sequence + 1
    /\ pending' = entry
    /\ next' = entry.claim.sequence
    /\ pc' = "reconcile"
    /\ UNCHANGED <<runID, stage, arg>>
    /\ UNCHANGED <<plane, inflight, disk, learned, history>>

\* The cursor could not be read, or it is one this entry cannot account for:
\* Initialize refuses and leaves the entry in place.
InitializeFails ==
    /\ pc = "resume"
    /\ Stop
    /\ inflight' = Abandoned(inflight)
    /\ UNCHANGED <<plane, disk, learned, history>>

-----------------------------------------------------------------------------
(* Sink.Record *)

\* Record takes the lock.  A pending record is finished first, and one whose
\* learning is indeterminate refuses every further record.
Record ==
    /\ pc = "idle"
    /\ calls < MaxRecords
    /\ calls' = calls + 1
    /\ \/ /\ pending # None
          /\ pending.state = "confirmed"
          /\ UNCHANGED <<pc, arg>>
       \/ /\ pending # None
          /\ pending.state = "posting"
          /\ pc' = "reconcile"
          /\ arg' = calls + 1
       \/ /\ pending = None
          /\ pc' = "intent"
          /\ arg' = calls + 1
    /\ UNCHANGED <<runID, next, stage, pending>>
    /\ UNCHANGED <<plane, inflight, disk, learned, indeterminate, discarded>>

\* The intent is durable before the request is sent.
WriteIntent ==
    /\ pc = "intent"
    /\ LET c == [run |-> runID, sequence |-> next, record |-> arg]
           e == [claim |-> c, state |-> "posting"]
       IN \/ /\ PutDurable(e)
             /\ pending' = e
             /\ pc' = "post"
          \/ /\ PutFails(e)
             /\ pc' = "idle"
             /\ UNCHANGED pending
    /\ arg' = 0
    /\ UNCHANGED <<runID, next, stage>>
    /\ UNCHANGED <<plane, inflight, learned, history>>

\* attempt: the control plane answers, applied or replayed.
AttemptAccepted ==
    /\ pc \in {"post", "reconcile"}
    /\ Applied(pending.claim) \/ Replayed(pending.claim)
    /\ next' = cursor'[pending.claim.run]
    /\ pc' = "confirm"
    /\ UNCHANGED <<runID, stage, pending, arg>>
    /\ UNCHANGED <<status, foreign, inflight, disk, learned, history>>

\* attempt, first time: declined with a 4xx, or never sent.  The sequence was
\* not consumed; the record is forgotten and the journal released.
AttemptDeclined ==
    /\ pc = "post"
    /\ pending' = None
    /\ PutDurable(None) \/ PutFails(None)
    /\ pc' = "idle"
    /\ UNCHANGED <<runID, next, stage, arg>>
    /\ UNCHANGED <<plane, inflight, learned, history>>

\* Faulty variant: a lost answer is taken for a refusal.
AttemptUnknownAsDeclined ==
    /\ pc = "post"
    /\ inflight' = inflight \cup {pending.claim}
    /\ pending' = None
    /\ PutDurable(None)
    /\ pc' = "idle"
    /\ UNCHANGED <<runID, next, stage, arg>>
    /\ UNCHANGED <<plane, learned, history>>

\* attempt, first time: no usable answer, so the record stays bound and is
\* re-presented once, in the same call.
AttemptUnknown ==
    /\ pc = "post"
    /\ inflight' = inflight \cup {pending.claim}
    /\ pc' = "reconcile"
    /\ UNCHANGED <<runID, next, stage, pending, arg>>
    /\ UNCHANGED <<plane, disk, learned, history>>

\* Faulty variant: reconcile tries again until the control plane accepts.
ReconcileForever ==
    /\ pc = "reconcile"
    /\ inflight' = inflight \cup {pending.claim}
    /\ UNCHANGED <<plane, disk, memory, learned, history>>

\* reconcile fails, definitively or not: ErrUnresolved, still pending.
ReconcileFails ==
    /\ pc = "reconcile"
    /\ \E requests \in {inflight, inflight \cup {pending.claim}} : Fail(requests)
    /\ Keep(pending)
    /\ UNCHANGED <<plane, disk, learned, history>>

-----------------------------------------------------------------------------
(* Sink.settle *)

\* Faulty variant: the learning goes ahead although the entry may still say
\* posting.
ConfirmEntryUnchecked ==
    /\ pc = "confirm"
    /\ LET e == [pending EXCEPT !.state = "confirmed"]
       IN /\ PutDurable(e) \/ PutFails(e)
          /\ pending' = e
    /\ pc' = "learn"
    /\ UNCHANGED <<runID, next, stage, arg, inflight>>
    /\ UNCHANGED <<plane, learned, history>>

\* The entry says confirmed before anything is learned.
ConfirmEntry ==
    /\ pc = "confirm"
    /\ LET e == [pending EXCEPT !.state = "confirmed"]
       IN \/ /\ PutDurable(e)
             /\ pending' = e
             /\ pc' = "learn"
             /\ UNCHANGED <<runID, next, stage, arg, inflight>>
          \/ /\ PutFails(e)
             /\ Fail(inflight)
             /\ Keep(pending)
    /\ UNCHANGED <<plane, learned, history>>

Observe(r) == learned' = [learned EXCEPT ![r] = @ + 1]

LearnSucceeds ==
    /\ pc = "learn"
    /\ Observe(pending.claim.record)
    /\ pc' = "release"
    /\ UNCHANGED <<runID, next, stage, pending, arg>>
    /\ UNCHANGED <<plane, inflight, disk, history>>

\* Faulty variant: the record goes back to posting, to be learned from again.
LearnFailsRetry ==
    /\ pc = "learn"
    /\ Observe(pending.claim.record) \/ UNCHANGED learned
    /\ indeterminate' = indeterminate \cup {pending.claim.record}
    /\ Fail(inflight)
    /\ Keep([pending EXCEPT !.state = "posting"])
    /\ UNCHANGED <<plane, disk, calls, discarded>>

\* The store failed on either side of its commit; the entry stays confirmed.
LearnFails ==
    /\ pc = "learn"
    /\ Observe(pending.claim.record) \/ UNCHANGED learned
    /\ indeterminate' = indeterminate \cup {pending.claim.record}
    /\ Fail(inflight)
    /\ Keep(pending)
    /\ UNCHANGED <<plane, disk, calls, discarded>>

\* Both halves are done.  Record goes on with its own record if it was
\* finishing an earlier one; Initialize is done.
Release ==
    /\ pc = "release"
    /\ pending' = None
    /\ \/ /\ PutDurable(None)
          /\ pc' = IF arg # 0 THEN "intent" ELSE "idle"
          /\ stage' = "ready"
          /\ UNCHANGED <<runID, next, arg, inflight>>
       \/ /\ PutFails(None)
          /\ Fail(inflight)
    /\ UNCHANGED <<plane, learned, history>>

-----------------------------------------------------------------------------
(* Crashes *)

\* The process dies; files keep what the operating system was last given.
CrashProcess ==
    /\ pc # "down"
    /\ Stop
    /\ inflight' = Abandoned(inflight)
    /\ UNCHANGED <<plane, disk, learned, history>>

\* The host dies; a rename or an unlink that was not synced may be undone.
CrashHost ==
    /\ Stop
    /\ inflight' = Abandoned(inflight)
    /\ entry' \in {entry} \cup shadows
    /\ shadows' = {}
    /\ UNCHANGED <<plane, learned, history>>

-----------------------------------------------------------------------------

Environment ==
    \/ \E r \in Runs : Transition(r) \/ ForeignWrite(r) \/ Start(r)
    \/ LateArrival
    \/ Record
    \/ CrashProcess
    \/ CrashHost

\* Steps of a call in progress.
Sink ==
    \/ SeedCursor
    \/ RecoverIndeterminate
    \/ RecoverDiscard
    \/ RecoverRepresent
    \/ InitializeFails
    \/ WriteIntent
    \/ AttemptAccepted
    \/ AttemptDeclined
    \/ AttemptUnknown
    \/ ReconcileFails
    \/ ConfirmEntry
    \/ LearnSucceeds
    \/ LearnFails
    \/ Release

Next == Environment \/ Sink

Spec == Init /\ [][Next]_vars

\* Every request is bounded by the client's timeout, so a call in progress
\* keeps moving; nothing else is owed a step.
FairSpec == Spec /\ WF_vars(Sink)

-----------------------------------------------------------------------------
(* Properties *)

TypeOK ==
    /\ status \in [Runs -> RunStatuses]
    /\ cursor \in [Runs -> Nat \ {0}]
    /\ evidence \subseteq Claims
    /\ foreign \in 0..MaxForeign
    /\ inflight \subseteq Claims
    /\ entry \in Entries \cup {None}
    /\ shadows \subseteq Entries \cup {None}
    /\ pc \in {"down", "resume", "idle", "intent", "post", "reconcile",
              "confirm", "learn", "release"}
    /\ runID \in Runs \cup {None}
    /\ next \in Nat
    /\ stage \in {"starting", "ready"}
    /\ pending \in Entries \cup {None}
    /\ arg \in 0..MaxRecords
    /\ learned \in [Records -> Nat]
    /\ calls \in 0..MaxRecords
    /\ indeterminate \subseteq Records
    /\ discarded \subseteq Records

\* What the journal may read as, now or after a host crash.
Readings == {entry} \cup shadows

\* Everything the Collector remembers of a record, on disk or in memory, and
\* every claim it has bound to a record that a run may yet be asked to hold.
Notes == (Readings \cup {pending}) \ {None}
Bound == inflight \cup {e.claim : e \in Notes}

\* Where the goroutine is says what it holds.
ControlInv ==
    /\ pc = "down" => runID = None
    /\ pc # "down" => runID \in Runs
    /\ pc \in {"down", "resume"} => stage = "starting" /\ pending = None /\ arg = 0
    /\ pc \in {"idle", "intent", "post"} => stage = "ready"
    /\ stage = "ready" => next > 0 /\ next <= cursor[runID]
    /\ pc \in {"confirm", "learn", "release"} => next > 0 /\ next <= cursor[runID]
    /\ pc = "resume" /\ entry # None => entry.claim.run = runID
    /\ pending # None => pending.claim.run = runID
    /\ pc = "intent" => pending = None /\ arg # 0
    /\ pc \in {"idle", "post"} => arg = 0
    /\ arg # 0 => arg = calls /\ stage = "ready"
    /\ pc \in {"post", "reconcile", "confirm"} =>
          pending # None /\ pending.state = "posting"
    /\ pc \in {"learn", "release"} => pending # None /\ pending.state = "confirmed"

\* A record is bound to one sequence, before the run could have moved past it,
\* and after every record the run then held.
BoundInv ==
    \A c \in Bound :
        /\ c.record # Foreign
        /\ c.record <= calls
        /\ arg # 0 => c.record < arg
        /\ c.sequence <= cursor[c.run]
        /\ \A d \in Bound \cup evidence : d.record = c.record => d = c
        /\ \A d \in evidence :
              d.run = c.run /\ d.sequence < c.sequence => d.record < c.record

EvidenceInv ==
    \A c \in evidence :
        /\ c.record <= calls
        /\ arg # 0 => c.record < arg
        /\ c.sequence < cursor[c.run]
        /\ \A d \in evidence :
              /\ d.run = c.run /\ d.sequence = c.sequence => d = c
              /\ d.record = c.record /\ c.record # Foreign => d = c
              /\ (/\ d.run = c.run /\ d.sequence < c.sequence
                  /\ c.record # Foreign) => d.record < c.record

\* Learning follows confirmation, and the journal says confirmed first.
LearnInv ==
    /\ \A r \in Records :
          /\ learned[r] <= 1
          /\ learned[r] = 1 => \E c \in evidence : c.record = r
    /\ \A e \in Notes : e.state = "posting" => learned[e.claim.record] = 0
    /\ pc \in {"confirm", "learn", "release"} => pending.claim \in evidence
    /\ pc = "learn" => learned[pending.claim.record] = 0 /\ Readings = {pending}

\* The inductive invariant behind the properties below: whatever the sink
\* remembers of a record agrees with what the run and the store hold of it.
SinkInv == TypeOK /\ ControlInv /\ BoundInv /\ EvidenceInv /\ LearnInv

\* LearnFunc: "The sink calls it exactly once per record".  No sequence of
\* crashes, lost replies, journal failures and recoveries applies the
\* learning of one record twice.
LearnedAtMostOnce == \A r \in Records : learned[r] <= 1

\* "Only after the control plane has confirmed that record": whatever was
\* learned from is evidence of some run.
LearnedIsEvidence ==
    \A r \in Records : learned[r] > 0 => \E c \in evidence : c.record = r

\* settle: a posting entry means "this was definitely not learned from", in
\* every reading a crash can leave behind.
PostingNotLearned ==
    \A e \in Readings \ {None} :
        e.state = "posting" => learned[e.claim.record] = 0

\* Two records never share a sequence, a record is never counted twice, and a
\* run holds the records in the order Record was called.
EvidenceInCallOrder ==
    \A c, d \in evidence :
        (c # d /\ c.record # Foreign /\ d.record # Foreign) =>
            /\ c.record # d.record
            /\ c.run = d.run => (c.sequence < d.sequence <=> c.record < d.record)

\* "No request is ever in flight without a durable record of it": a request
\* the run would still apply is the journal's entry in every reading.
WriteAhead ==
    \A c \in inflight :
        cursor[c.run] = c.sequence =>
            None \notin Readings /\ \A e \in Readings : e.claim = c

\* A record the run holds was learned from, or its learning was reported
\* indeterminate, or every reading of the journal still names it: evidence
\* and learning never part silently.
NoSilentDivergence ==
    \A c \in evidence :
        c.record # Foreign =>
            \/ learned[c.record] = 1
            \/ c.record \in indeterminate
            \/ None \notin Readings /\ \A e \in Readings : e.claim = c

\* RecoveryDiscarded: "the record never reached the control plane".
DiscardedNeverInRun ==
    \A c \in evidence : c.record \notin discarded

\* Learning is safe: at most once per record, only from evidence, never behind a
\* posting entry, and the evidence is in the order of the calls (sink.go).
LearningIsSafe ==
    LearnedAtMostOnce /\ LearnedIsEvidence /\ PostingNotLearned /\ EvidenceInCallOrder

\* Evidence and learning never part unseen: a request in flight is journalled,
\* a record the run holds is learned from or reported, and one reported as
\* discarded is not in the run (sink.go, pending.go).
NothingIsLostSilently == WriteAhead /\ NoSilentDivergence /\ DiscardedNeverInRun

\* "It is not applied again": no step learns from a record whose learning was
\* given up as indeterminate, or that recovery discarded.
GivenUpStaysUnlearned ==
    [][\A r \in indeterminate \cup discarded : learned'[r] = learned[r]]_vars

\* "There is exactly one extra attempt per call": every call of Initialize or
\* Record returns, or its process dies.
CallsReturn == (pc \notin {"idle", "down"}) ~> (pc \in {"idle", "down"})

\* The sink implements RecordDelivery.
Delivery == INSTANCE RecordDelivery WITH
    held     <- {c.record : c \in evidence} \ {Foreign},
    observed <- learned,
    unsure   <- indeterminate

ImplementsDelivery == Delivery!DSpec

=============================================================================
