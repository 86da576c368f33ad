------------------------ MODULE EvaluationSinkProofs ------------------------
(***************************************************************************)
(* Proofs about the evaluation sink, for every set of runs, every number   *)
(* of records and both settings of the two fault switches.                 *)
(***************************************************************************)
EXTENDS EvaluationSink, TLAPS

\* The initial state satisfies the inductive invariant.
LEMMA InitInv == Init => SinkInv
  BY BoundsAssumption, FaultAssumption, NoneAssumption
  DEF Init, SinkInv, TypeOK, ControlInv, BoundInv, EvidenceInv, LearnInv, Bound, Notes,
      Readings, Records, RunStatuses, Entries, Claims, Foreign

\* What the sink remembers is well formed, and never a second writer's record.
LEMMA NotesAreOwn ==
  ASSUME SinkInv
  PROVE  /\ \A e \in Notes : e \in Entries /\ e.claim \in Bound
         /\ \A c \in Bound : c \in Claims /\ c.record \in Records
  <1>1. ASSUME NEW e \in Notes PROVE e \in Entries /\ e.claim \in Bound /\ e.claim \in Claims
    BY <1>1 DEF SinkInv, TypeOK, Notes, Readings, Bound, Entries
  <1>2. ASSUME NEW c \in Bound PROVE c \in Claims
    BY <1>1, <1>2 DEF SinkInv, TypeOK, Bound
  <1>3. ASSUME NEW c \in Bound PROVE c.record \in Records
    BY <1>2, <1>3 DEF SinkInv, BoundInv, Claims, Foreign
  <1>. QED
    BY <1>1, <1>2, <1>3

\* Steps that only use the disk, the memory and the store keep every variable
\* in its type.
LEMMA TypeStep == ASSUME SinkInv, [Next]_vars PROVE TypeOK'
  <1> USE BoundsAssumption, FaultAssumption, NoneAssumption DEF SinkInv, TypeOK
  <1>1. CASE UNCHANGED vars
    BY <1>1 DEF vars, plane, disk, memory, history
  <1>2. ASSUME NEW r \in Runs, Transition(r) PROVE TypeOK'
    BY <1>2 DEF Transition, disk, memory, history
  <1>3. ASSUME NEW r \in Runs, ForeignWrite(r) PROVE TypeOK'
    BY <1>3 DEF ForeignWrite, Applied, disk, memory, history, Claims, Foreign
  <1>4. ASSUME NEW r \in Runs, Start(r) PROVE TypeOK'
    BY <1>4 DEF Start, plane, disk, history
  <1>5. CASE LateArrival
    BY <1>5 DEF LateArrival, Applied, disk, memory, history, Claims
  <1>6. CASE Record
    BY <1>6 DEF Record, plane, disk
  <1>7. CASE CrashProcess
    BY <1>7 DEF CrashProcess, Stop, Abandoned, plane, disk, history
  <1>8. CASE CrashHost
    BY <1>8 DEF CrashHost, Stop, Abandoned, plane, history
  <1>9. CASE SeedCursor
    BY <1>9 DEF SeedCursor, Ready, plane, disk, history, ControlInv
  <1>10. CASE RecoverIndeterminate
    <2>1. entry.claim.record \in Records
      BY <1>10, NotesAreOwn DEF RecoverIndeterminate, Notes, Readings
    <2>. QED
      BY <1>10, <2>1 DEF RecoverIndeterminate, Ready, Stop, Abandoned, PutDurable, PutFails,
         NotPut, PutUnsynced, plane, disk, ControlInv
  <1>11. CASE RecoverDiscard
    <2>1. entry.claim.record \in Records
      BY <1>11, NotesAreOwn DEF RecoverDiscard, Notes, Readings
    <2>. QED
      BY <1>11, <2>1 DEF RecoverDiscard, Ready, Stop, Abandoned, PutDurable, PutFails,
         NotPut, PutUnsynced, plane, disk, ControlInv
  <1>12. CASE RecoverRepresent
    BY <1>12 DEF RecoverRepresent, plane, disk, history, Entries, Claims
  <1>13. CASE InitializeFails
    BY <1>13 DEF InitializeFails, Stop, Abandoned, plane, disk, history
  <1>14. CASE WriteIntent
    BY <1>14, SMTT(30) DEF WriteIntent, PutDurable, PutFails, NotPut, PutUnsynced, plane, disk, history,
       ControlInv, Entries, Claims, Records
  <1>15. CASE AttemptAccepted
    BY <1>15 DEF AttemptAccepted, Applied, Replayed, disk, history, ControlInv, Entries, Claims
  <1>16. CASE AttemptDeclined
    BY <1>16 DEF AttemptDeclined, PutDurable, PutFails, NotPut, PutUnsynced, plane, disk, history
  <1>17. CASE AttemptUnknown
    BY <1>17 DEF AttemptUnknown, plane, disk, history, ControlInv, Entries
  <1>18. CASE ReconcileFails
    BY <1>18 DEF ReconcileFails, Fail, Keep, Abandoned, plane, disk, history, ControlInv, Entries
  <1>19. CASE ConfirmEntry
    BY <1>19 DEF ConfirmEntry, Fail, Keep, Abandoned, PutDurable, PutFails, NotPut, PutUnsynced,
       plane, disk, history, ControlInv, Entries
  <1>20. CASE LearnSucceeds
    <2>1. pending.claim.record \in Records
      BY <1>20, NotesAreOwn DEF LearnSucceeds, ControlInv, Notes
    <2>. QED
      BY <1>20, <2>1 DEF LearnSucceeds, Observe, plane, disk, history
  <1>21. CASE LearnFails
    <2>1. pending.claim.record \in Records
      BY <1>21, NotesAreOwn DEF LearnFails, ControlInv, Notes
    <2>. QED
      BY <1>21, <2>1 DEF LearnFails, Observe, Fail, Keep, Abandoned, plane, disk
  <1>22. CASE Release
    BY <1>22 DEF Release, Fail, Abandoned, PutDurable, PutFails, NotPut, PutUnsynced, plane, disk,
       history
  <1>. QED
    BY <1>1, <1>2, <1>3, <1>4, <1>5, <1>6, <1>7, <1>8, <1>9, <1>10, <1>11, <1>12, <1>13, <1>14,
       <1>15, <1>16, <1>17, <1>18, <1>19, <1>20, <1>21, <1>22
    DEF Next, Environment, Sink

\* Where the goroutine is keeps saying what it holds.
LEMMA ControlStep == ASSUME SinkInv, [Next]_vars PROVE ControlInv'
  <1> USE BoundsAssumption, NoneAssumption DEF SinkInv, TypeOK, ControlInv
  <1>1. CASE UNCHANGED vars
    BY <1>1 DEF vars, plane, disk, memory, history
  <1>2. ASSUME NEW r \in Runs, Transition(r) PROVE ControlInv'
    BY <1>2 DEF Transition, disk, memory, history
  <1>3. ASSUME NEW r \in Runs, ForeignWrite(r) PROVE ControlInv'
    BY <1>3 DEF ForeignWrite, Applied, disk, memory, history
  <1>4. ASSUME NEW r \in Runs, Start(r) PROVE ControlInv'
    BY <1>4 DEF Start, plane, disk, history
  <1>5. CASE LateArrival
    BY <1>5 DEF LateArrival, Applied, disk, memory, history, Claims
  <1>6. CASE Record
    BY <1>6 DEF Record, plane, disk
  <1>7. CASE CrashProcess
    BY <1>7 DEF CrashProcess, Stop, plane, disk, history
  <1>8. CASE CrashHost
    BY <1>8 DEF CrashHost, Stop, plane, history
  <1>9. CASE SeedCursor
    BY <1>9 DEF SeedCursor, Ready, plane, disk, history
  <1>10. CASE RecoverIndeterminate
    BY <1>10 DEF RecoverIndeterminate, Ready, Stop, plane
  <1>11. CASE RecoverDiscard
    BY <1>11 DEF RecoverDiscard, Ready, Stop, plane
  <1>12. CASE RecoverRepresent
    BY <1>12 DEF RecoverRepresent, plane, disk, history
  <1>13. CASE InitializeFails
    BY <1>13 DEF InitializeFails, Stop, plane, disk, history
  <1>14. CASE WriteIntent
    BY <1>14 DEF WriteIntent, plane, history, Entries, Claims, Records
  <1>15. CASE AttemptAccepted
    <2>1. pending.claim \in Claims /\ pending.claim.run = runID
      BY <1>15 DEF AttemptAccepted, Entries
    <2>2. next' = pending.claim.sequence + 1 /\ next' = cursor'[runID]
      BY <1>15, <2>1 DEF AttemptAccepted, Applied, Replayed, Claims
    <2>. QED
      BY <1>15, <2>1, <2>2 DEF AttemptAccepted, disk, history, Claims
  <1>16. CASE AttemptDeclined
    BY <1>16 DEF AttemptDeclined, plane, history
  <1>17. CASE AttemptUnknown
    BY <1>17 DEF AttemptUnknown, plane, disk, history
  <1>18. CASE ReconcileFails
    BY <1>18 DEF ReconcileFails, Fail, Keep, plane, disk, history
  <1>19. CASE ConfirmEntry
    BY <1>19 DEF ConfirmEntry, Fail, Keep, plane, history, Entries
  <1>20. CASE LearnSucceeds
    BY <1>20 DEF LearnSucceeds, plane, disk, history
  <1>21. CASE LearnFails
    BY <1>21 DEF LearnFails, Fail, Keep, plane, disk
  <1>22. CASE Release
    BY <1>22 DEF Release, Fail, plane, history
  <1>. QED
    BY <1>1, <1>2, <1>3, <1>4, <1>5, <1>6, <1>7, <1>8, <1>9, <1>10, <1>11, <1>12, <1>13, <1>14,
       <1>15, <1>16, <1>17, <1>18, <1>19, <1>20, <1>21, <1>22
    DEF Next, Environment, Sink

\* Every step but WriteIntent forgets claims or keeps them; WriteIntent binds
\* the record of the call to the cursor.
LEMMA BoundStep ==
  ASSUME SinkInv, [Next]_vars
  PROVE  \/ Bound' \subseteq Bound
         \/ /\ WriteIntent
            /\ Bound' \subseteq
                 Bound \cup {[run |-> runID, sequence |-> next, record |-> arg]}
  <1> USE NoneAssumption DEF Bound, Notes, Readings
  <1>1. CASE UNCHANGED vars
    BY <1>1 DEF vars, disk, memory
  <1>2. ASSUME NEW r \in Runs, Transition(r) \/ ForeignWrite(r) \/ Start(r)
        PROVE  Bound' \subseteq Bound
    BY <1>2 DEF Transition, ForeignWrite, Start, disk, memory
  <1>3. CASE LateArrival
    BY <1>3 DEF LateArrival, disk, memory
  <1>4. CASE Record \/ SeedCursor
    BY <1>4 DEF Record, SeedCursor, Ready, disk
  <1>5. CASE CrashProcess \/ CrashHost \/ InitializeFails
    BY <1>5 DEF CrashProcess, CrashHost, InitializeFails, Stop, Abandoned, disk
  <1>6. CASE RecoverIndeterminate
    BY <1>6 DEF RecoverIndeterminate, Ready, Stop, Abandoned, PutDurable, PutFails, NotPut,
       PutUnsynced, disk
  <1>7. CASE RecoverDiscard
    BY <1>7 DEF RecoverDiscard, Ready, Stop, Abandoned, PutDurable, PutFails, NotPut,
       PutUnsynced, disk
  <1>8. CASE RecoverRepresent
    BY <1>8 DEF RecoverRepresent, disk
  <1>9. CASE WriteIntent
    BY <1>9 DEF WriteIntent, PutDurable, PutFails, NotPut, PutUnsynced, disk
  <1>10. CASE AttemptAccepted \/ LearnSucceeds
    BY <1>10 DEF AttemptAccepted, LearnSucceeds, disk
  <1>11. CASE AttemptDeclined
    BY <1>11 DEF AttemptDeclined, PutDurable, PutFails, NotPut, PutUnsynced, disk
  <1>12. CASE AttemptUnknown \/ ReconcileFails
    BY <1>12 DEF AttemptUnknown, ReconcileFails, Fail, Keep, Abandoned, disk, SinkInv, ControlInv
  <1>13. CASE ConfirmEntry
    <2>1. [pending EXCEPT !.state = "confirmed"].claim = pending.claim
      BY <1>13 DEF ConfirmEntry, SinkInv, ControlInv, TypeOK, Entries
    <2>. QED
      BY <1>13, <2>1 DEF ConfirmEntry, Fail, Keep, Abandoned, PutDurable, PutFails, NotPut,
         PutUnsynced, disk, SinkInv, ControlInv
  <1>14. CASE LearnFails
    BY <1>14 DEF LearnFails, Fail, Keep, Abandoned, disk
  <1>15. CASE Release
    BY <1>15 DEF Release, Fail, Abandoned, PutDurable, PutFails, NotPut, PutUnsynced, disk
  <1>. QED
    BY <1>1, <1>2, <1>3, <1>4, <1>5, <1>6, <1>7, <1>8, <1>9, <1>10, <1>11, <1>12, <1>13, <1>14,
       <1>15
    DEF Next, Environment, Sink

\* The control plane changes its evidence only at the cursor, with a claim the
\* sink had bound or with a second writer's record.
LEMMA EvidenceStep ==
  ASSUME SinkInv, [Next]_vars
  PROVE  \/ UNCHANGED <<cursor, evidence>>
         \/ \E c \in Claims :
               /\ c \in Bound \/ c.record = Foreign
               /\ cursor[c.run] = c.sequence
               /\ cursor' = [cursor EXCEPT ![c.run] = c.sequence + 1]
               /\ evidence' = evidence \cup {c}
               /\ UNCHANGED <<calls, arg>>
  <1> DEFINE Goal(c) ==
        /\ c \in Claims
        /\ c \in Bound \/ c.record = Foreign
        /\ cursor[c.run] = c.sequence
        /\ cursor' = [cursor EXCEPT ![c.run] = c.sequence + 1]
        /\ evidence' = evidence \cup {c}
        /\ UNCHANGED <<calls, arg>>
  <1>1. ASSUME NEW r \in Runs, ForeignWrite(r)
        PROVE  Goal([run |-> r, sequence |-> cursor[r], record |-> Foreign])
    BY <1>1 DEF ForeignWrite, Applied, Claims, SinkInv, TypeOK, Foreign, history, memory
  <1>2. ASSUME NEW c \in inflight, LateArrival, Applied(c), UNCHANGED <<calls, arg>>
        PROVE  Goal(c)
    BY <1>2 DEF Applied, Bound, SinkInv, TypeOK
  <1>3. CASE LateArrival
    <2>1. PICK c \in inflight : Applied(c) /\ UNCHANGED <<calls, arg>>
      BY <1>3 DEF LateArrival, memory, history
    <2>2. Goal(c)
      BY <1>2, <1>3, <2>1
    <2>. QED
      BY <2>2
  <1>4. CASE AttemptAccepted
    <2>1. pending.claim \in Bound /\ pending.claim \in Claims
      BY <1>4, NotesAreOwn DEF AttemptAccepted, SinkInv, ControlInv, Notes
    <2>2. CASE Applied(pending.claim)
      <3>1. Goal(pending.claim)
        BY <1>4, <2>1, <2>2 DEF AttemptAccepted, Applied, history
      <3>. QED
        BY <3>1
    <2>3. CASE Replayed(pending.claim)
      BY <2>3 DEF Replayed
    <2>. QED
      BY <1>4, <2>2, <2>3 DEF AttemptAccepted
  <1>5. CASE UNCHANGED vars
    BY <1>5 DEF vars, plane
  <1>6. ASSUME NEW r \in Runs, Transition(r) \/ Start(r)
        PROVE  UNCHANGED <<cursor, evidence>>
    BY <1>6 DEF Transition, Start, plane
  <1>7. CASE Record \/ CrashProcess \/ CrashHost
    BY <1>7 DEF Record, CrashProcess, CrashHost, plane
  <1>8. CASE \/ SeedCursor \/ RecoverIndeterminate \/ RecoverDiscard \/ RecoverRepresent
             \/ InitializeFails \/ WriteIntent \/ AttemptDeclined \/ AttemptUnknown
             \/ ReconcileFails \/ ConfirmEntry \/ LearnSucceeds \/ LearnFails \/ Release
    BY <1>8 DEF SeedCursor, RecoverIndeterminate, RecoverDiscard, RecoverRepresent,
       InitializeFails, WriteIntent, AttemptDeclined, AttemptUnknown, ReconcileFails,
       ConfirmEntry, LearnSucceeds, LearnFails, Release, plane
  <1>. QED
    BY <1>1, <1>3, <1>4, <1>5, <1>6, <1>7, <1>8 DEF Next, Environment, Sink

\* The call in progress: a new call takes the next record number, an earlier
\* one keeps its own or lets go of it.
LEMMA CallStep ==
  ASSUME SinkInv, [Next]_vars
  PROVE  \/ calls' = calls /\ arg' \in {arg, 0}
         \/ calls' = calls + 1 /\ arg = 0 /\ arg' \in {0, calls'}
  <1>1. ASSUME NEW r \in Runs, Transition(r) \/ ForeignWrite(r) \/ Start(r)
        PROVE  calls' = calls /\ arg' \in {arg, 0}
    BY <1>1 DEF Transition, ForeignWrite, Start, memory, history
  <1>2. CASE Record
    BY <1>2 DEF Record, SinkInv, ControlInv, TypeOK
  <1>3. CASE LateArrival \/ CrashProcess \/ CrashHost \/ UNCHANGED vars
    BY <1>3 DEF LateArrival, CrashProcess, CrashHost, Stop, vars, memory, history
  <1>4. CASE \/ SeedCursor \/ RecoverIndeterminate \/ RecoverDiscard \/ RecoverRepresent
             \/ InitializeFails \/ WriteIntent
    BY <1>4 DEF SeedCursor, RecoverIndeterminate, RecoverDiscard, RecoverRepresent,
       InitializeFails, WriteIntent, Ready, Stop, history
  <1>5. CASE AttemptAccepted \/ AttemptDeclined \/ AttemptUnknown \/ ReconcileFails
    BY <1>5 DEF AttemptAccepted, AttemptDeclined, AttemptUnknown, ReconcileFails, Fail, history
  <1>6. CASE ConfirmEntry \/ LearnSucceeds \/ LearnFails \/ Release
    BY <1>6 DEF ConfirmEntry, LearnSucceeds, LearnFails, Release, Fail, history
  <1>. QED
    BY <1>1, <1>2, <1>3, <1>4, <1>5, <1>6 DEF Next, Environment, Sink

\* The run keeps its evidence distinct, below the cursor and in call order.
LEMMA EvidenceInvStep == ASSUME SinkInv, [Next]_vars PROVE EvidenceInv'
  <1> USE DEF SinkInv, EvidenceInv, TypeOK
  <1>1. arg \in Nat /\ calls \in Nat /\ (arg # 0 => arg = calls)
    BY BoundsAssumption DEF ControlInv
  <1>2. \A c \in evidence : c.record \in Nat /\ c.sequence \in Nat /\ c.run \in Runs
    BY BoundsAssumption DEF Claims, Records, Foreign
  <1>3. CASE UNCHANGED <<cursor, evidence>>
    BY <1>1, <1>2, <1>3, CallStep
  <1>4. ASSUME NEW c \in Claims,
               c \in Bound \/ c.record = Foreign,
               cursor[c.run] = c.sequence,
               cursor' = [cursor EXCEPT ![c.run] = c.sequence + 1],
               evidence' = evidence \cup {c},
               UNCHANGED <<calls, arg>>
        PROVE  EvidenceInv'
    <2>1. c.record \in Nat /\ c.sequence \in Nat /\ c.run \in Runs
      BY BoundsAssumption DEF Claims, Records, Foreign
    <2>2. c.record <= calls /\ (arg # 0 => c.record < arg)
      BY <1>1, <1>4 DEF BoundInv, Foreign
    <2>3. \A d \in evidence : d.run = c.run => d.sequence < c.sequence
      BY <1>4
    <2>4. \A d \in evidence : d.record = c.record /\ c.record # Foreign => d = c
      BY <1>4 DEF BoundInv
    <2>5. \A d \in evidence :
             d.run = c.run /\ d.sequence < c.sequence /\ c.record # Foreign => d.record < c.record
      BY <1>4 DEF BoundInv
    <2>6. \A d \in evidence' : d.sequence < cursor'[d.run]
      BY <1>2, <1>4, <2>1
    <2>7. \A d \in evidence' : d.record <= calls' /\ (arg' # 0 => d.record < arg')
      BY <1>4, <2>2
    <2>8. \A d, e \in evidence' :
             /\ d.run = e.run /\ d.sequence = e.sequence => d = e
             /\ d.record = e.record /\ e.record # Foreign => d = e
             /\ (d.run = e.run /\ d.sequence < e.sequence /\ e.record # Foreign)
                  => d.record < e.record
      BY <1>2, <1>4, <2>1, <2>3, <2>4, <2>5
    <2>. QED
      BY <2>6, <2>7, <2>8
  <1>. QED
    BY <1>3, <1>4, EvidenceStep

\* A record keeps its one claim, and the run cannot move past it unnoticed.
LEMMA BoundInvStep == ASSUME SinkInv, [Next]_vars PROVE BoundInv'
  <1> USE DEF SinkInv, TypeOK
  <1>1. arg \in Nat /\ calls \in Nat /\ (arg # 0 => arg = calls)
    BY BoundsAssumption DEF ControlInv
  <1>2. \A c \in evidence \cup Bound : c.record \in Nat /\ c.sequence \in Nat /\ c.run \in Runs
    BY BoundsAssumption, NotesAreOwn DEF Claims, Records, Foreign
  <1>3. CASE UNCHANGED <<cursor, evidence>> /\ Bound' \subseteq Bound
    BY <1>1, <1>2, <1>3, CallStep DEF BoundInv
  <1>4. CASE WriteIntent /\ Bound' \subseteq
               Bound \cup {[run |-> runID, sequence |-> next, record |-> arg]}
    <2> DEFINE c == [run |-> runID, sequence |-> next, record |-> arg]
    <2>1. /\ UNCHANGED <<cursor, evidence, calls>> /\ arg' = 0
          /\ arg # 0 /\ arg = calls /\ next <= cursor[runID]
      BY <1>4 DEF WriteIntent, plane, history, ControlInv
    <2>2. \A d \in Bound \cup evidence : d.record < arg /\ d.record # arg
      BY <1>1, <1>2, <2>1 DEF BoundInv, EvidenceInv
    <2>3. c.record = arg /\ c.run = runID /\ c.sequence = next
      OBVIOUS
    <2>4. ASSUME NEW d \in Bound'
          PROVE  /\ d.record # Foreign /\ d.record <= calls /\ d.sequence <= cursor[d.run]
                 /\ \A e \in Bound' \cup evidence : e.record = d.record => e = d
                 /\ \A e \in evidence :
                       e.run = d.run /\ e.sequence < d.sequence => e.record < d.record
      <3>1. CASE d \in Bound
        BY <1>4, <2>1, <2>2, <2>3, <3>1 DEF BoundInv
      <3>2. CASE d = c
        BY <1>1, <1>4, <2>1, <2>2, <2>3, <3>2 DEF Foreign
      <3>. QED
        BY <1>4, <3>1, <3>2
    <2>. QED
      BY <2>1, <2>4 DEF BoundInv
  <1>5. ASSUME NEW c \in Claims,
               c \in Bound \/ c.record = Foreign,
               cursor[c.run] = c.sequence,
               cursor' = [cursor EXCEPT ![c.run] = c.sequence + 1],
               evidence' = evidence \cup {c},
               UNCHANGED <<calls, arg>>,
               Bound' \subseteq Bound
        PROVE  BoundInv'
    <2>1. c.record \in Nat /\ c.sequence \in Nat /\ c.run \in Runs
      BY BoundsAssumption DEF Claims, Records, Foreign
    <2>2. ASSUME NEW d \in Bound
          PROVE  /\ d.record # Foreign /\ d.record <= calls /\ (arg # 0 => d.record < arg)
                 /\ d.sequence <= cursor'[d.run]
                 /\ \A e \in Bound \cup evidence' : e.record = d.record => e = d
                 /\ \A e \in evidence' :
                       e.run = d.run /\ e.sequence < d.sequence => e.record < d.record
      <3>1. d.record # Foreign /\ d.record <= calls /\ (arg # 0 => d.record < arg)
        BY <2>2 DEF BoundInv
      <3>2. d.sequence <= cursor'[d.run]
        BY <1>2, <1>5, <2>1, <2>2 DEF BoundInv
      <3>3. \A e \in Bound \cup evidence' : e.record = d.record => e = d
        BY <1>5, <2>2 DEF BoundInv
      <3>4. \A e \in evidence' :
               e.run = d.run /\ e.sequence < d.sequence => e.record < d.record
        BY <1>2, <1>5, <2>1, <2>2 DEF BoundInv
      <3>. QED
        BY <3>1, <3>2, <3>3, <3>4
    <2>. QED
      BY <1>5, <2>2 DEF BoundInv
  <1>6. WriteIntent => UNCHANGED <<cursor, evidence>>
    BY DEF WriteIntent, plane
  <1>7. CASE \E c \in Claims :
               /\ c \in Bound \/ c.record = Foreign
               /\ cursor[c.run] = c.sequence
               /\ cursor' = [cursor EXCEPT ![c.run] = c.sequence + 1]
               /\ evidence' = evidence \cup {c}
               /\ UNCHANGED <<calls, arg>>
    <2>1. CASE WriteIntent
      BY <1>3, <1>4, <1>6, <2>1, BoundStep
    <2>2. CASE Bound' \subseteq Bound
      BY <1>5, <1>7, <2>2
    <2>. QED
      BY <2>1, <2>2, BoundStep
  <1>. QED
    BY <1>3, <1>4, <1>6, <1>7, BoundStep, EvidenceStep

\* Only WriteIntent makes a new posting note.
LEMMA PostingStep ==
  ASSUME SinkInv, [Next]_vars, ~WriteIntent, NEW n \in Notes', n.state = "posting"
  PROVE  n \in Notes
  <1> USE NoneAssumption DEF Notes, Readings
  <1>1. CASE UNCHANGED vars
    BY <1>1 DEF vars, disk, memory
  <1>2. ASSUME NEW r \in Runs, Transition(r) \/ ForeignWrite(r) \/ Start(r)
        PROVE  n \in Notes
    BY <1>2 DEF Transition, ForeignWrite, Start, disk, memory
  <1>3. CASE LateArrival \/ Record \/ SeedCursor
    BY <1>3 DEF LateArrival, Record, SeedCursor, Ready, disk, memory
  <1>4. CASE CrashProcess \/ CrashHost \/ InitializeFails
    BY <1>4 DEF CrashProcess, CrashHost, InitializeFails, Stop, disk
  <1>5. CASE RecoverIndeterminate
    BY <1>5 DEF RecoverIndeterminate, Ready, Stop, PutDurable, PutFails, NotPut, PutUnsynced, disk
  <1>6. CASE RecoverDiscard
    BY <1>6 DEF RecoverDiscard, Ready, Stop, PutDurable, PutFails, NotPut, PutUnsynced, disk
  <1>7. CASE RecoverRepresent \/ AttemptAccepted \/ LearnSucceeds
    BY <1>7 DEF RecoverRepresent, AttemptAccepted, LearnSucceeds, disk
  <1>8. CASE AttemptDeclined
    BY <1>8 DEF AttemptDeclined, PutDurable, PutFails, NotPut, PutUnsynced, disk
  <1>9. CASE AttemptUnknown \/ ReconcileFails \/ LearnFails
    BY <1>9 DEF AttemptUnknown, ReconcileFails, LearnFails, Fail, Keep, disk
  <1>10. CASE ConfirmEntry
    <2>1. [pending EXCEPT !.state = "confirmed"].state = "confirmed"
      BY <1>10 DEF ConfirmEntry, SinkInv, ControlInv, TypeOK, Entries
    <2>. QED
      BY <1>10, <2>1 DEF ConfirmEntry, Fail, Keep, PutDurable, PutFails, NotPut, PutUnsynced, disk
  <1>11. CASE Release
    BY <1>11 DEF Release, Fail, PutDurable, PutFails, NotPut, PutUnsynced, disk
  <1>. QED
    BY <1>1, <1>2, <1>3, <1>4, <1>5, <1>6, <1>7, <1>8, <1>9, <1>10, <1>11
    DEF Next, Environment, Sink

\* Only a goroutine at "learn" touches the store, and it touches the record it
\* holds.
LEMMA StoreStep ==
  ASSUME [Next]_vars
  PROVE  \/ UNCHANGED learned
         \/ /\ LearnSucceeds \/ LearnFails
            /\ pc = "learn"
            /\ Observe(pending.claim.record)
  <1>1. ASSUME NEW r \in Runs, Transition(r) \/ ForeignWrite(r) \/ Start(r)
        PROVE  UNCHANGED learned
    BY <1>1 DEF Transition, ForeignWrite, Start
  <1>2. CASE \/ UNCHANGED vars \/ LateArrival \/ Record \/ CrashProcess \/ CrashHost
    BY <1>2 DEF vars, LateArrival, Record, CrashProcess, CrashHost
  <1>3. CASE \/ SeedCursor \/ RecoverIndeterminate \/ RecoverDiscard \/ RecoverRepresent
             \/ InitializeFails \/ WriteIntent \/ AttemptAccepted \/ AttemptDeclined
             \/ AttemptUnknown \/ ReconcileFails \/ ConfirmEntry \/ Release
    BY <1>3 DEF SeedCursor, RecoverIndeterminate, RecoverDiscard, RecoverRepresent,
       InitializeFails, WriteIntent, AttemptAccepted, AttemptDeclined, AttemptUnknown,
       ReconcileFails, ConfirmEntry, Release
  <1>4. CASE LearnSucceeds \/ LearnFails
    BY <1>4 DEF LearnSucceeds, LearnFails
  <1>. QED
    BY <1>1, <1>2, <1>3, <1>4 DEF Next, Environment, Sink

\* A goroutine past the confirmation holds a record its run holds, and one
\* about to learn has a journal that reads confirmed whatever happens.
LEMMA SettleStep ==
  ASSUME SinkInv, [Next]_vars
  PROVE  /\ pc' \in {"confirm", "learn", "release"} => pending'.claim \in evidence'
         /\ pc' = "learn" => Readings' = {pending'} /\ learned'[pending'.claim.record] = 0
  <1> USE NoneAssumption DEF Readings
  <1> DEFINE Goal == /\ pc' \in {"confirm", "learn", "release"} => pending'.claim \in evidence'
                     /\ pc' = "learn" =>
                          Readings' = {pending'} /\ learned'[pending'.claim.record] = 0
  <1>1. CASE UNCHANGED vars
    BY <1>1 DEF vars, plane, disk, memory, SinkInv, LearnInv
  <1>2. ASSUME NEW r \in Runs, Transition(r) \/ ForeignWrite(r) PROVE Goal
    BY <1>2 DEF Transition, ForeignWrite, Applied, disk, memory, SinkInv, LearnInv
  <1>3. ASSUME NEW r \in Runs, Start(r) PROVE Goal
    BY <1>3 DEF Start
  <1>4. CASE LateArrival
    BY <1>4 DEF LateArrival, Applied, disk, memory, SinkInv, LearnInv
  <1>5. CASE \/ Record \/ CrashProcess \/ CrashHost \/ SeedCursor \/ RecoverIndeterminate
             \/ RecoverDiscard \/ RecoverRepresent \/ InitializeFails \/ WriteIntent
    BY <1>5 DEF Record, CrashProcess, CrashHost, SeedCursor, RecoverIndeterminate,
       RecoverDiscard, RecoverRepresent, InitializeFails, WriteIntent, Ready, Stop
  <1>6. CASE AttemptAccepted
    BY <1>6 DEF AttemptAccepted, Applied, Replayed
  <1>7. CASE AttemptDeclined \/ AttemptUnknown \/ ReconcileFails \/ LearnFails
    BY <1>7 DEF AttemptDeclined, AttemptUnknown, ReconcileFails, LearnFails, Fail
  <1>8. CASE ConfirmEntry
    <2>1. [pending EXCEPT !.state = "confirmed"].claim = pending.claim
      BY <1>8 DEF ConfirmEntry, SinkInv, ControlInv, TypeOK, Entries
    <2>2. pending \in Notes /\ pending.state = "posting" /\ pending.claim \in evidence
      BY <1>8 DEF ConfirmEntry, SinkInv, ControlInv, LearnInv, Notes
    <2>. QED
      BY <1>8, <2>1, <2>2 DEF ConfirmEntry, Fail, PutDurable, plane, SinkInv, LearnInv
  <1>9. CASE LearnSucceeds
    BY <1>9 DEF LearnSucceeds, plane, SinkInv, LearnInv
  <1>10. CASE Release
    BY <1>10 DEF Release, Fail
  <1>. QED
    BY <1>1, <1>2, <1>3, <1>4, <1>5, <1>6, <1>7, <1>8, <1>9, <1>10 DEF Next, Environment, Sink

\* Every step keeps the learning half of the invariant: nothing is learned from
\* twice, or before the run holds it, or while a posting entry survives.
LEMMA LearnInvStep == ASSUME SinkInv, [Next]_vars PROVE LearnInv'
  <1> USE DEF SinkInv, TypeOK
  <1>1. evidence \subseteq evidence'
    BY EvidenceStep
  <1>2. CASE UNCHANGED learned
    <2>1. \A r \in Records :
             learned'[r] <= 1 /\ (learned'[r] = 1 => \E c \in evidence' : c.record = r)
      BY <1>1, <1>2 DEF LearnInv
    <2>2. ASSUME NEW n \in Notes', n.state = "posting" PROVE learned'[n.claim.record] = 0
      <3>1. CASE n \in Notes
        BY <1>2, <2>2, <3>1 DEF LearnInv
      <3>2. CASE WriteIntent /\ n \notin Notes
        <4>1. n.claim = [run |-> runID, sequence |-> next, record |-> arg]
          BY <2>2, <3>2, NoneAssumption DEF WriteIntent, PutDurable, PutFails, NotPut,
             PutUnsynced, disk, Notes, Readings
        <4>2. arg \in Records /\ arg = calls
          BY <3>2, BoundsAssumption DEF WriteIntent, ControlInv, Records
        <4>3. \A c \in evidence : c.record # arg
          BY <4>2, BoundsAssumption DEF EvidenceInv, Records, Claims, Foreign
        <4>4. learned[arg] = 0
          BY <4>2, <4>3 DEF LearnInv
        <4>. QED
          BY <1>2, <4>1, <4>4
      <3>. QED
        BY <2>2, <3>1, <3>2, PostingStep
    <2>. QED
      BY <2>1, <2>2, SettleStep DEF LearnInv
  <1>3. CASE /\ LearnSucceeds \/ LearnFails
             /\ pc = "learn"
             /\ Observe(pending.claim.record)
    <2> DEFINE own == pending.claim.record
    <2>1. own \in Records /\ pending \in Notes /\ pending.state = "confirmed"
      BY <1>3, NotesAreOwn DEF ControlInv, Notes
    <2>2. learned[own] = 0 /\ pending.claim \in evidence /\ Readings = {pending}
      BY <1>3 DEF LearnInv
    <2>3. /\ learned'[own] = 1
          /\ \A r \in Records \ {own} : learned'[r] = learned[r]
      BY <1>3, <2>1, <2>2 DEF Observe
    <2>4. \A r \in Records :
             learned'[r] <= 1 /\ (learned'[r] = 1 => \E c \in evidence' : c.record = r)
      BY <1>1, <2>2, <2>3 DEF LearnInv
    <2>5. \A n \in Notes' : n.state # "posting"
      BY <1>3, <2>1, <2>2 DEF LearnSucceeds, LearnFails, Keep, disk, Notes, Readings
    <2>. QED
      BY <2>4, <2>5, SettleStep DEF LearnInv
  <1>. QED
    BY <1>2, <1>3, StoreStep

\* Every step of the sink and of its environment preserves the invariant.
LEMMA SinkStep == ASSUME SinkInv, [Next]_vars PROVE SinkInv'
  BY TypeStep, ControlStep, BoundInvStep, EvidenceInvStep, LearnInvStep DEF SinkInv

\* Every reachable state satisfies the inductive invariant: what the sink
\* remembers of a record agrees with what the run and the store hold of it.
THEOREM SinkInvariant == Spec => []SinkInv
  <1>1. SinkInv /\ [Next]_vars => SinkInv'
    BY SinkStep
  <1>. QED
    BY InitInv, <1>1, PTL DEF Spec

\* Type correctness of the sink, its journal and the run it feeds.
THEOREM TypeCorrect == Spec => []TypeOK
  <1>1. SinkInv => TypeOK
    BY DEF SinkInv
  <1>. QED
    BY <1>1, SinkInvariant, PTL

\* No record is learned from twice, whatever crashes, losses and journal
\* failures happen (the promise of LearnFunc).
THEOREM LearnsAtMostOnce == Spec => []LearnedAtMostOnce
  <1>1. SinkInv => LearnedAtMostOnce
    BY DEF SinkInv, LearnInv, LearnedAtMostOnce
  <1>. QED
    BY <1>1, SinkInvariant, PTL

\* Nothing is learned from a record that no run holds.
THEOREM LearnsOnlyEvidence == Spec => []LearnedIsEvidence
  <1>1. SinkInv => LearnedIsEvidence
    <2>1. ASSUME SinkInv, NEW r \in Records, learned[r] > 0
          PROVE  \E c \in evidence : c.record = r
      <3>1. learned[r] \in Nat /\ learned[r] <= 1
        BY <2>1 DEF SinkInv, TypeOK, LearnInv
      <3>2. learned[r] = 1
        BY <2>1, <3>1
      <3>. QED
        BY <2>1, <3>2 DEF SinkInv, LearnInv
    <2>. QED
      BY <2>1 DEF LearnedIsEvidence
  <1>. QED
    BY <1>1, SinkInvariant, PTL

\* A posting entry, in any reading a crash can leave, proves its record was not
\* learned from: the fact recovery completes a record on.
THEOREM PostingProvesUnlearned == Spec => []PostingNotLearned
  <1>1. SinkInv => PostingNotLearned
    BY DEF SinkInv, LearnInv, PostingNotLearned, Notes
  <1>. QED
    BY <1>1, SinkInvariant, PTL

\* A run never holds a record twice, two records at one sequence, or records
\* out of the order Record was called in.
THEOREM RunsHoldRecordsInOrder == Spec => []EvidenceInCallOrder
  <1>1. ASSUME SinkInv PROVE EvidenceInCallOrder
    <2>1. \A c \in evidence : c.record \in Nat /\ c.sequence \in Nat
      BY <1>1, BoundsAssumption DEF SinkInv, TypeOK, Claims, Records, Foreign
    <2>. QED
      BY <1>1, <2>1 DEF SinkInv, EvidenceInv, EvidenceInCallOrder
  <1>. QED
    BY <1>1, SinkInvariant, PTL

\* What the run checks as one property: learning happens at most once, from
\* evidence only, never behind a posting entry, and in the order of the calls,
\* with or without late deliveries and half-failed recoveries.
THEOREM LearningSafe == Spec => []LearningIsSafe
  BY LearnsAtMostOnce, LearnsOnlyEvidence, PostingProvesUnlearned, RunsHoldRecordsInOrder, PTL
     DEF LearningIsSafe

-----------------------------------------------------------------------------
(* Giving up, and the refinement of RecordDelivery: both hold under either  *)
(* setting of the fault switches.                                           *)

\* What the sink still remembers as posting was never given up, nothing later
\* than a remembered record was learned from, and a confirmed record is in
\* its run.
DeliveryInv ==
    /\ \A r \in indeterminate \cup discarded : r <= calls /\ (arg # 0 => r < arg)
    /\ \A n \in Notes :
          /\ n.state = "posting" => n.claim.record \notin indeterminate \cup discarded
          /\ n.state = "confirmed" => n.claim \in evidence
          /\ \A q \in Records : learned[q] = 1 => q <= n.claim.record
    /\ pc = "learn" => pending.claim.record \notin indeterminate \cup discarded

\* The initial state: nothing given up, remembered or learned from.
LEMMA InitDelivery == Init => DeliveryInv
  BY NoneAssumption DEF Init, DeliveryInv, Notes, Readings

\* A note is an old one, the intent of the call in progress, or the pending
\* record now marked confirmed.
LEMMA NoteStep ==
  ASSUME SinkInv, [Next]_vars, NEW n \in Notes', n \notin Notes
  PROVE  \/ /\ WriteIntent
            /\ n = [claim |-> [run |-> runID, sequence |-> next, record |-> arg],
                    state |-> "posting"]
         \/ /\ ConfirmEntry
            /\ pending \in Notes
            /\ n = [claim |-> pending.claim, state |-> "confirmed"]
  <1> USE NoneAssumption DEF Notes, Readings
  <1>1. CASE UNCHANGED vars
    BY <1>1 DEF vars, disk, memory
  <1>2. ASSUME NEW r \in Runs, Transition(r) \/ ForeignWrite(r) \/ Start(r)
        PROVE  n \in Notes
    BY <1>2 DEF Transition, ForeignWrite, Start, disk, memory
  <1>3. CASE LateArrival \/ Record \/ SeedCursor
    BY <1>3 DEF LateArrival, Record, SeedCursor, Ready, disk, memory
  <1>4. CASE CrashProcess \/ CrashHost \/ InitializeFails
    BY <1>4 DEF CrashProcess, CrashHost, InitializeFails, Stop, disk
  <1>5. CASE RecoverIndeterminate
    BY <1>5 DEF RecoverIndeterminate, Ready, Stop, PutDurable, PutFails, NotPut, PutUnsynced, disk
  <1>6. CASE RecoverDiscard
    BY <1>6 DEF RecoverDiscard, Ready, Stop, PutDurable, PutFails, NotPut, PutUnsynced, disk
  <1>7. CASE RecoverRepresent \/ AttemptAccepted \/ LearnSucceeds
    BY <1>7 DEF RecoverRepresent, AttemptAccepted, LearnSucceeds, disk
  <1>8. CASE AttemptDeclined
    BY <1>8 DEF AttemptDeclined, PutDurable, PutFails, NotPut, PutUnsynced, disk
  <1>9. CASE AttemptUnknown \/ ReconcileFails \/ LearnFails
    BY <1>9 DEF AttemptUnknown, ReconcileFails, LearnFails, Fail, Keep, disk
  <1>10. CASE WriteIntent
    BY <1>10 DEF WriteIntent, PutDurable, PutFails, NotPut, PutUnsynced, disk
  <1>11. CASE ConfirmEntry
    <2>1. /\ pending \in Notes
          /\ [pending EXCEPT !.state = "confirmed"]
               = [claim |-> pending.claim, state |-> "confirmed"]
      BY <1>11 DEF ConfirmEntry, SinkInv, ControlInv, TypeOK, Entries
    <2>. QED
      BY <1>11, <2>1 DEF ConfirmEntry, Fail, Keep, PutDurable, PutFails, NotPut, PutUnsynced, disk
  <1>12. CASE Release
    BY <1>12 DEF Release, Fail, PutDurable, PutFails, NotPut, PutUnsynced, disk
  <1>. QED
    BY <1>1, <1>2, <1>3, <1>4, <1>5, <1>6, <1>7, <1>8, <1>9, <1>10, <1>11, <1>12
    DEF Next, Environment, Sink

\* A record is given up only by a step that leaves no posting note behind, and
\* that note was the sink's.
LEMMA GiveUpStep ==
  ASSUME SinkInv, [Next]_vars
  PROVE  \/ UNCHANGED <<indeterminate, discarded>>
         \/ /\ \A n \in Notes' : n.state # "posting"
            /\ pc' # "learn"
            /\ UNCHANGED <<calls, evidence>>
            /\ arg' = 0
            /\ \E n \in Notes :
                  \/ /\ n.state = "confirmed"
                     /\ indeterminate' = indeterminate \cup {n.claim.record}
                     /\ UNCHANGED discarded
                     /\ UNCHANGED learned \/ LearnFails
                  \/ /\ RecoverDiscard
                     /\ discarded' = discarded \cup {n.claim.record}
                     /\ n = entry
                     /\ UNCHANGED <<indeterminate, learned>>
  <1> USE NoneAssumption
  <1>1. ASSUME NEW r \in Runs, Transition(r) \/ ForeignWrite(r) \/ Start(r)
        PROVE  UNCHANGED <<indeterminate, discarded>>
    BY <1>1 DEF Transition, ForeignWrite, Start, history
  <1>2. CASE \/ UNCHANGED vars \/ LateArrival \/ Record \/ CrashProcess \/ CrashHost
             \/ SeedCursor \/ RecoverRepresent \/ InitializeFails \/ WriteIntent
             \/ AttemptAccepted \/ AttemptDeclined \/ AttemptUnknown \/ ReconcileFails
             \/ ConfirmEntry \/ LearnSucceeds \/ Release
    BY <1>2 DEF vars, LateArrival, Record, CrashProcess, CrashHost, SeedCursor,
       RecoverRepresent, InitializeFails, WriteIntent, AttemptAccepted, AttemptDeclined,
       AttemptUnknown, ReconcileFails, ConfirmEntry, LearnSucceeds, Release, history
  <1>3. CASE RecoverIndeterminate
    <2>1. entry \in Notes /\ entry.state = "confirmed" /\ arg = 0 /\ pending = None
      BY <1>3 DEF RecoverIndeterminate, Notes, Readings, SinkInv, ControlInv
    <2>2. CASE UNCHANGED indeterminate
      BY <1>3, <2>2 DEF RecoverIndeterminate
    <2>3. CASE /\ PutDurable(None) /\ Ready(cursor[runID])
               /\ indeterminate' = indeterminate \cup {entry.claim.record}
      <3>1. Notes' = {} /\ pc' = "idle" /\ arg' = 0
        BY <2>1, <2>3 DEF PutDurable, Ready, Notes, Readings
      <3>. QED
        BY <1>3, <2>1, <2>3, <3>1 DEF RecoverIndeterminate, plane
    <2>. QED
      BY <1>3, <2>2, <2>3 DEF RecoverIndeterminate
  <1>4. CASE RecoverDiscard
    <2>1. entry \in Notes /\ arg = 0 /\ pending = None
      BY <1>4 DEF RecoverDiscard, Notes, Readings, SinkInv, ControlInv
    <2>2. CASE UNCHANGED discarded
      BY <1>4, <2>2 DEF RecoverDiscard
    <2>3. CASE /\ PutDurable(None) /\ Ready(cursor[runID])
               /\ discarded' = discarded \cup {entry.claim.record}
      <3>1. Notes' = {} /\ pc' = "idle" /\ arg' = 0
        BY <2>1, <2>3 DEF PutDurable, Ready, Notes, Readings
      <3>. QED
        BY <1>4, <2>1, <2>3, <3>1 DEF RecoverDiscard, plane
    <2>. QED
      BY <1>4, <2>2, <2>3 DEF RecoverDiscard
  <1>5. CASE LearnFails
    <2>1. pending \in Notes /\ pending.state = "confirmed" /\ Readings = {pending}
      BY <1>5 DEF LearnFails, Notes, SinkInv, ControlInv, LearnInv
    <2>2. \A n \in Notes' : n = pending
      BY <1>5, <2>1 DEF LearnFails, Keep, Notes, Readings, disk
    <2>3. pc' # "learn" /\ arg' = 0
      BY <1>5 DEF LearnFails, Fail
    <2>. QED
      BY <1>5, <2>1, <2>2, <2>3 DEF LearnFails, plane
  <1>. QED
    BY <1>1, <1>2, <1>3, <1>4, <1>5 DEF Next, Environment, Sink

\* A goroutine reaches "learn" from the confirmation of a posting record.
LEMMA LearnEntry ==
  ASSUME SinkInv, [Next]_vars, pc' = "learn"
  PROVE  \/ pc = "learn" /\ pending' = pending
         \/ /\ ConfirmEntry /\ pending \in Notes
            /\ pending.state = "posting" /\ pending'.claim = pending.claim
  <1>1. ASSUME NEW r \in Runs, Transition(r) \/ ForeignWrite(r) \/ Start(r)
        PROVE  pc = "learn" /\ pending' = pending
    BY <1>1 DEF Transition, ForeignWrite, Start, memory
  <1>2. CASE UNCHANGED vars \/ LateArrival
    BY <1>2 DEF vars, LateArrival, memory
  <1>3. CASE ConfirmEntry
    BY <1>3, NoneAssumption DEF ConfirmEntry, Fail, SinkInv, ControlInv, TypeOK, Entries, Notes
  <1>4. CASE \/ Record \/ CrashProcess \/ CrashHost \/ SeedCursor \/ RecoverIndeterminate
             \/ RecoverDiscard \/ RecoverRepresent \/ InitializeFails \/ WriteIntent
    BY <1>4 DEF Record, CrashProcess, CrashHost, SeedCursor, RecoverIndeterminate,
       RecoverDiscard, RecoverRepresent, InitializeFails, WriteIntent, Ready, Stop
  <1>5. CASE \/ AttemptAccepted \/ AttemptDeclined \/ AttemptUnknown \/ ReconcileFails
             \/ LearnSucceeds \/ LearnFails \/ Release
    BY <1>5 DEF AttemptAccepted, AttemptDeclined, AttemptUnknown, ReconcileFails, LearnSucceeds,
       LearnFails, Release, Fail
  <1>. QED
    BY <1>1, <1>2, <1>3, <1>4, <1>5 DEF Next, Environment, Sink

\* Every step keeps what was given up out of reach, and the order of learning.
LEMMA DeliveryStep == ASSUME SinkInv, DeliveryInv, [Next]_vars PROVE DeliveryInv'
  <1> DEFINE Given == indeterminate \cup discarded
  <1>1. /\ arg \in Nat /\ calls \in Nat /\ (arg # 0 => arg = calls)
        /\ indeterminate \subseteq Records /\ discarded \subseteq Records
        /\ \A r \in Records : r \in Nat /\ learned[r] \in Nat
    BY BoundsAssumption DEF SinkInv, TypeOK, ControlInv, Records
  <1>2. \A n \in Notes : /\ n \in Entries /\ n.claim.record \in Records
                         /\ n.claim.record <= calls /\ (arg # 0 => n.claim.record < arg)
    BY NotesAreOwn DEF SinkInv, BoundInv
  <1>3. evidence \subseteq evidence'
    BY EvidenceStep
  <1>4. WriteIntent \/ ConfirmEntry => UNCHANGED <<indeterminate, discarded, learned, evidence>>
    BY DEF WriteIntent, ConfirmEntry, history, plane
  <1>5. \A r \in Given' : r <= calls' /\ (arg' # 0 => r < arg')
    <2>1. CASE UNCHANGED <<indeterminate, discarded>>
      BY <1>1, <2>1, CallStep DEF DeliveryInv
    <2>2. CASE ~UNCHANGED <<indeterminate, discarded>>
      BY <1>1, <1>2, <2>2, GiveUpStep DEF DeliveryInv
    <2>. QED
      BY <2>1, <2>2
  <1>6. ASSUME NEW n \in Notes', n.state = "posting" PROVE n.claim.record \notin Given'
    <2>1. UNCHANGED <<indeterminate, discarded>>
      BY <1>6, GiveUpStep
    <2>2. CASE n \in Notes
      BY <1>6, <2>1, <2>2 DEF DeliveryInv
    <2>3. CASE n \notin Notes
      <3>1. WriteIntent /\ n.claim.record = arg /\ arg # 0
        BY <1>6, <2>3, NoteStep DEF SinkInv, ControlInv, WriteIntent
      <3>. QED
        BY <1>1, <2>1, <3>1 DEF DeliveryInv
    <2>. QED
      BY <2>2, <2>3
  <1>7. ASSUME NEW n \in Notes', n.state = "confirmed" PROVE n.claim \in evidence'
    <2>1. CASE n \in Notes
      BY <1>3, <1>7, <2>1 DEF DeliveryInv
    <2>2. CASE n \notin Notes
      <3>1. ConfirmEntry /\ n.claim = pending.claim
        BY <1>7, <2>2, NoteStep
      <3>2. pending.claim \in evidence
        BY <3>1 DEF ConfirmEntry, SinkInv, LearnInv
      <3>. QED
        BY <1>3, <3>1, <3>2
    <2>. QED
      BY <2>1, <2>2
  <1>8. ASSUME NEW n \in Notes', NEW q \in Records, learned'[q] = 1
        PROVE  q <= n.claim.record
    <2>1. CASE UNCHANGED learned
      <3>1. CASE n \in Notes
        BY <1>8, <2>1, <3>1 DEF DeliveryInv
      <3>2. CASE n \notin Notes /\ ConfirmEntry
        <4>1. pending \in Notes /\ n.claim = pending.claim
          BY <1>8, <3>2, NoteStep DEF WriteIntent, ConfirmEntry
        <4>. QED
          BY <1>8, <2>1, <4>1 DEF DeliveryInv
      <3>3. CASE n \notin Notes /\ ~ConfirmEntry
        <4>1. WriteIntent /\ n.claim.record = arg /\ arg # 0
          BY <1>8, <3>3, NoteStep DEF SinkInv, ControlInv, WriteIntent
        <4>2. PICK c \in evidence : c.record = q
          BY <1>8, <2>1 DEF SinkInv, LearnInv
        <4>3. q < arg
          BY <4>1, <4>2 DEF SinkInv, EvidenceInv
        <4>. QED
          BY <1>1, <1>8, <4>1, <4>3
      <3>. QED
        BY <3>1, <3>2, <3>3
    <2>2. CASE ~UNCHANGED learned
      <3>1. /\ LearnSucceeds \/ LearnFails
            /\ pc = "learn"
            /\ Observe(pending.claim.record)
        BY <2>2, StoreStep
      <3>2. pending \in Notes /\ Readings = {pending}
        BY <3>1, NoneAssumption DEF SinkInv, ControlInv, LearnInv, Notes
      <3>3. n = pending
        BY <3>1, <3>2, NoneAssumption DEF LearnSucceeds, LearnFails, Keep, Notes, Readings, disk
      <3>4. q = pending.claim.record \/ learned[q] = 1
        BY <1>1, <1>2, <1>8, <3>1, <3>2 DEF Observe, SinkInv, TypeOK
      <3>. QED
        BY <1>1, <1>2, <1>8, <3>2, <3>3, <3>4 DEF DeliveryInv
    <2>. QED
      BY <2>1, <2>2
  <1>9. pc' = "learn" => pending'.claim.record \notin Given'
    <2> SUFFICES ASSUME pc' = "learn" PROVE pending'.claim.record \notin Given'
      OBVIOUS
    <2>1. UNCHANGED <<indeterminate, discarded>>
      BY GiveUpStep
    <2>. QED
      BY <2>1, LearnEntry DEF DeliveryInv
  <1>. QED
    BY <1>5, <1>6, <1>7, <1>8, <1>9 DEF DeliveryInv

\* Every reachable state satisfies both invariants.
LEMMA DeliveryInvariant == Spec => [](SinkInv /\ DeliveryInv)
  <1>1. SinkInv /\ [Next]_vars => SinkInv'
    BY TypeStep, ControlStep, BoundInvStep, EvidenceInvStep, LearnInvStep DEF SinkInv
  <1>2. SinkInv /\ DeliveryInv /\ [Next]_vars => DeliveryInv'
    BY DeliveryStep
  <1>. QED
    BY InitInv, InitDelivery, <1>1, <1>2, PTL DEF Spec

\* Learning that was given up is never applied afterwards: no step observes a
\* record reported as indeterminate or as discarded (settle, recover).
THEOREM GivenUpNeverLearned == Spec => GivenUpStaysUnlearned
  <1> DEFINE Kept == \A r \in indeterminate \cup discarded : learned'[r] = learned[r]
  <1>1. ASSUME SinkInv, DeliveryInv, [Next]_vars PROVE [Kept]_vars
    <2>1. CASE UNCHANGED learned
      BY <2>1
    <2>2. CASE pc = "learn" /\ Observe(pending.claim.record)
      <3>1. pending.claim.record \notin indeterminate \cup discarded
        BY <1>1, <2>2 DEF DeliveryInv
      <3>2. indeterminate \cup discarded \subseteq Records /\ learned \in [Records -> Nat]
        BY <1>1 DEF SinkInv, TypeOK
      <3>. QED
        BY <2>2, <3>1, <3>2 DEF Observe
    <2>. QED
      BY <1>1, <2>1, <2>2, StoreStep
  <1>. QED
    BY <1>1, DeliveryInvariant, PTL DEF Spec, GivenUpStaysUnlearned

\* The records of the run's evidence, as RecordDelivery sees them.
Held == {c.record : c \in evidence} \ {Foreign}

\* The initial states are initial states of RecordDelivery.
LEMMA DeliveryInit == Init => Delivery!DInit
  BY DEF Init, Delivery!DInit

\* The record a goroutine at "learn" holds is one RecordDelivery lets it
\* observe.
LEMMA LearnIsAllowed ==
  ASSUME SinkInv, DeliveryInv, pc = "learn"
  PROVE  pending.claim.record \in Records /\ Delivery!MayObserve(pending.claim.record)
  <1> DEFINE own == pending.claim.record
  <1>1. pending \in Notes /\ pending.claim \in evidence /\ learned[own] = 0
    BY NoneAssumption DEF SinkInv, ControlInv, LearnInv, Notes
  <1>2. own \in Records /\ own # Foreign
    BY <1>1, NotesAreOwn DEF SinkInv, BoundInv
  <1>3. own \notin indeterminate
    BY DEF DeliveryInv
  <1>4. ASSUME NEW q \in Records, q >= own PROVE learned[q] = 0
    <2>1. q \in Nat /\ own \in Nat
      BY <1>2, BoundsAssumption DEF Records
    <2>2. learned[q] \in Nat /\ learned[q] <= 1
      BY DEF SinkInv, TypeOK, LearnInv
    <2>3. CASE learned[q] = 1
      <3>1. q <= own
        BY <1>1, <2>3 DEF DeliveryInv
      <3>2. q = own
        BY <1>4, <2>1, <3>1
      <3>. QED
        BY <1>1, <2>3, <3>2
    <2>. QED
      BY <2>2, <2>3
  <1>. QED
    BY <1>1, <1>2, <1>3, <1>4 DEF Delivery!MayObserve

\* Every step of the sink is a step of RecordDelivery or leaves its state alone.
LEMMA DeliverySteps ==
  ASSUME SinkInv, DeliveryInv, [Next]_vars
  PROVE  [Delivery!DNext]_(Delivery!dvars)
  <1> USE DEF Delivery!dvars
  <1>1. CASE evidence' # evidence
    <2>1. PICK c \in Claims :
                /\ c \in Bound \/ c.record = Foreign
                /\ cursor[c.run] = c.sequence
                /\ evidence' = evidence \cup {c}
      BY <1>1, EvidenceStep
    <2>2. UNCHANGED <<indeterminate, learned>>
      <3>1. UNCHANGED indeterminate
        BY <1>1, GiveUpStep
      <3>2. LearnSucceeds \/ LearnFails => UNCHANGED evidence
        BY DEF LearnSucceeds, LearnFails, plane
      <3>. QED
        BY <1>1, <3>1, <3>2, StoreStep
    <2>3. CASE c.record = Foreign
      <3>1. Held' = Held
        BY <2>1, <2>3 DEF Held
      <3>. QED
        BY <2>2, <3>1 DEF Held
    <2>4. CASE c.record # Foreign
      <3>1. c \in Bound /\ c.record \in Records
        BY <2>1, <2>4, NotesAreOwn
      <3>2. ASSUME NEW d \in evidence PROVE d.record # c.record
        <4>1. d.record = c.record => d = c
          BY <3>1 DEF SinkInv, BoundInv
        <4>2. d.sequence < cursor[d.run] /\ d.sequence \in Nat
          BY DEF SinkInv, EvidenceInv, TypeOK, Claims
        <4>. QED
          BY <2>1, <4>1, <4>2
      <3>3. c.record \notin Held /\ Held' = Held \cup {c.record}
        BY <2>1, <2>4, <3>2 DEF Held
      <3>4. Delivery!Commit(c.record)
        BY <2>2, <3>3 DEF Delivery!Commit, Held
      <3>. QED
        BY <3>1, <3>4 DEF Delivery!DNext
    <2>. QED
      BY <2>3, <2>4
  <1>2. CASE evidence' = evidence /\ indeterminate' = indeterminate
    <2>1. CASE UNCHANGED learned
      BY <1>2, <2>1
    <2>2. CASE pc = "learn" /\ Observe(pending.claim.record)
      <3> DEFINE own == pending.claim.record
      <3>1. own \in Records /\ Delivery!MayObserve(own)
        BY <2>2, LearnIsAllowed
      <3>2. learned' = [learned EXCEPT ![own] = 1]
        <4>1. learned[own] = 0
          BY <2>2 DEF SinkInv, LearnInv
        <4>. QED
          BY <2>2, <4>1 DEF Observe
      <3>3. Delivery!Learn(own)
        BY <1>2, <3>1, <3>2 DEF Delivery!Learn
      <3>. QED
        BY <3>1, <3>3 DEF Delivery!DNext
    <2>. QED
      BY <2>1, <2>2, StoreStep
  <1>3. CASE indeterminate' # indeterminate
    <2>1. /\ UNCHANGED evidence
          /\ \E n \in Notes :
                /\ n.state = "confirmed"
                /\ indeterminate' = indeterminate \cup {n.claim.record}
                /\ UNCHANGED learned \/ LearnFails
      BY <1>3, GiveUpStep
    <2>2. PICK n \in Notes :
                /\ n.state = "confirmed"
                /\ indeterminate' = indeterminate \cup {n.claim.record}
                /\ UNCHANGED learned \/ LearnFails
      BY <2>1
    <2>3. n.claim \in evidence /\ n.claim.record \in Records /\ n.claim.record # Foreign
      BY <2>2, NotesAreOwn DEF DeliveryInv, SinkInv, BoundInv
    <2>4. n.claim.record \in Held
      BY <2>3 DEF Held
    <2>5. CASE UNCHANGED learned
      <3>1. Delivery!GiveUp(n.claim.record)
        BY <2>1, <2>2, <2>4, <2>5 DEF Delivery!GiveUp, Held
      <3>. QED
        BY <2>3, <3>1 DEF Delivery!DNext
    <2>6. CASE LearnFails /\ ~UNCHANGED learned
      <3> DEFINE own == pending.claim.record
      <3>1. pc = "learn" /\ Observe(own)
        BY <2>6, StoreStep
      <3>2. n.claim.record = own
        BY <3>1, NoneAssumption, <1>3, <2>2, <2>6
        DEF LearnFails
      <3>3. own \in Records /\ Delivery!MayObserve(own)
        BY <3>1, LearnIsAllowed
      <3>4. learned' = [learned EXCEPT ![own] = 1]
        <4>1. learned[own] = 0
          BY <3>1 DEF SinkInv, LearnInv
        <4>. QED
          BY <3>1, <4>1 DEF Observe
      <3>5. Delivery!GiveUp(own)
        BY <2>1, <2>2, <2>4, <3>2, <3>3, <3>4 DEF Delivery!GiveUp, Held
      <3>. QED
        BY <3>3, <3>5 DEF Delivery!DNext
    <2>. QED
      BY <2>2, <2>5, <2>6
  <1>. QED
    BY <1>1, <1>2, <1>3

\* The sink implements RecordDelivery: with the journal, the network and the
\* crashes taken away, every record is committed, then learned from once and in
\* order, or given up for good.
THEOREM SinkRefinesDelivery == Spec => ImplementsDelivery
  <1>1. SinkInv /\ DeliveryInv /\ [Next]_vars => [Delivery!DNext]_(Delivery!dvars)
    BY DeliverySteps
  <1>. QED
    BY DeliveryInit, <1>1, DeliveryInvariant, PTL DEF Spec, ImplementsDelivery, Delivery!DSpec

-----------------------------------------------------------------------------
(* Nothing is lost silently, when a request dies with the process that sent *)
(* it and recovery does not fail halfway.                                   *)

\* A claim its run would still apply; evidence nobody has accounted for; and
\* the journal naming one claim in every reading.
Live(c)    == cursor[c.run] = c.sequence
InDoubt(c) == /\ c \in evidence
              /\ c.record # Foreign
              /\ learned[c.record] # 1
              /\ c.record \notin indeterminate
Named(c)   == None \notin Readings /\ \A e \in Readings : e.claim = c

\* Before the call that holds a record ends, the journal names it alone; once
\* no record is pending nothing is live or in doubt.
NamedInv ==
    /\ \A c \in inflight : Live(c) => Named(c)
    /\ \A c \in evidence : InDoubt(c) => Named(c)
    /\ pending # None => entry # None /\ entry.claim = pending.claim
    /\ pending # None /\ Live(pending.claim) => Named(pending.claim)
    /\ pc = "post" => Named(pending.claim) /\ pending.claim \notin inflight \cup evidence
    /\ pc = "release" => Named(pending.claim) /\ learned[pending.claim.record] = 1
    /\ stage = "ready" /\ pending = None =>
          (\A c \in inflight : ~Live(c)) /\ (\A c \in evidence : ~InDoubt(c))

LossInv ==
    /\ pc \in {"down", "resume"} => inflight = {}
    /\ NamedInv
    /\ \A c \in Bound \cup evidence : c.record \notin discarded

\* The switches of the two faults the code does not survive (see the runs that
\* exhibit them).
NoLateFaults == ~LateDelivery /\ ~RecoverySyncFails

\* Nothing is in flight, held or pending at first.
LEMMA InitLoss == Init => LossInv
  BY NoneAssumption DEF Init, LossInv, NamedInv, Bound, Notes, Readings

\* Claims are typed, bound ones are not ahead of their run, and those in the
\* run's evidence are behind it.
LEMMA ClaimsOrdered ==
  ASSUME SinkInv
  PROVE  /\ \A r \in Runs : cursor[r] \in Nat
         /\ \A c \in Bound \cup evidence :
               /\ c \in Claims /\ c.run \in Runs
               /\ c.sequence \in Nat /\ c.record \in Nat
         /\ \A c \in Bound : c.sequence <= cursor[c.run] /\ c.record # Foreign
         /\ \A c \in evidence : ~Live(c)
         /\ inflight \subseteq Bound
         /\ pending # None => pending.claim \in Bound
         /\ \A e \in Readings : e # None => e.claim \in Bound
  <1>1. \A c \in Bound \cup evidence : c \in Claims
    BY NotesAreOwn DEF SinkInv, TypeOK
  <1>2. \A c \in Bound \cup evidence :
           c.run \in Runs /\ c.sequence \in Nat /\ c.record \in Nat
    BY <1>1, BoundsAssumption DEF Claims, Records, Foreign
  <1>3. \A r \in Runs : cursor[r] \in Nat
    BY DEF SinkInv, TypeOK
  <1>4. \A c \in evidence : ~Live(c)
    BY <1>2, <1>3 DEF SinkInv, EvidenceInv, Live
  <1>. QED
    BY <1>1, <1>2, <1>3, <1>4 DEF SinkInv, BoundInv, Bound, Notes, Readings

\* A claim the run has moved past stays passed.
LEMMA LiveStep ==
  ASSUME SinkInv, [Next]_vars, NEW c \in Bound \cup evidence, Live(c)'
  PROVE  Live(c)
  <1>1. c.run \in Runs /\ c.sequence \in Nat /\ cursor[c.run] \in Nat
    BY ClaimsOrdered
  <1>2. c.sequence <= cursor[c.run]
    BY <1>1, ClaimsOrdered DEF SinkInv, EvidenceInv
  <1>3. CASE UNCHANGED cursor
    BY <1>3 DEF Live
  <1>4. ASSUME NEW d \in Claims, cursor[d.run] = d.sequence,
               cursor' = [cursor EXCEPT ![d.run] = d.sequence + 1]
        PROVE  Live(c)
    <2>1. d.run \in Runs /\ d.sequence \in Nat /\ cursor \in [Runs -> Nat \ {0}]
      BY DEF Claims, SinkInv, TypeOK
    <2>. QED
      BY <1>1, <1>2, <1>4, <2>1 DEF Live
  <1>. QED
    BY <1>3, <1>4, EvidenceStep

\* A process that is down or starting has nothing in flight.
LEMMA QuietStep ==
  ASSUME NoLateFaults, SinkInv, LossInv, [Next]_vars
  PROVE  pc' \in {"down", "resume"} => inflight' = {}
  <1> USE DEF NoLateFaults, Abandoned
  <1>1. ASSUME NEW r \in Runs, Transition(r) \/ ForeignWrite(r) \/ Start(r),
               pc' \in {"down", "resume"}
        PROVE  inflight' = {}
    BY <1>1 DEF Transition, ForeignWrite, Start, memory, LossInv
  <1>2. CASE UNCHANGED vars \/ LateArrival \/ Record \/ CrashProcess \/ CrashHost
    BY <1>2 DEF vars, LateArrival, Record, CrashProcess, CrashHost, memory, LossInv
  <1>3. CASE \/ SeedCursor \/ RecoverIndeterminate \/ RecoverDiscard \/ RecoverRepresent
             \/ InitializeFails \/ WriteIntent
    BY <1>3 DEF SeedCursor, RecoverIndeterminate, RecoverDiscard, RecoverRepresent,
       InitializeFails, WriteIntent, Ready, Stop
  <1>4. CASE \/ AttemptAccepted \/ AttemptDeclined \/ AttemptUnknown \/ ReconcileFails
             \/ ConfirmEntry \/ LearnSucceeds \/ LearnFails \/ Release
    BY <1>4 DEF AttemptAccepted, AttemptDeclined, AttemptUnknown, ReconcileFails, ConfirmEntry,
       LearnSucceeds, LearnFails, Release, Fail
  <1>. QED
    BY <1>1, <1>2, <1>3, <1>4 DEF Next, Environment, Sink

\* A discarded record stays out of the run and out of the sink's memory.
LEMMA DiscardStep ==
  ASSUME NoLateFaults, SinkInv, DeliveryInv, LossInv, [Next]_vars
  PROVE  \A c \in Bound' \cup evidence' : c.record \notin discarded'
  <1>1. CASE UNCHANGED discarded
    <2>1. \A c \in Bound' : c.record \notin discarded
      <3>1. ASSUME WriteIntent PROVE arg \notin discarded
        <4>1. arg # 0 /\ arg \in Nat /\ discarded \subseteq Nat
          BY <3>1, BoundsAssumption DEF WriteIntent, SinkInv, ControlInv, TypeOK, Records
        <4>. QED
          BY <4>1 DEF DeliveryInv
      <3>. QED
        BY <3>1, BoundStep DEF LossInv
    <2>2. \A c \in evidence' : c.record \notin discarded
      <3>1. Foreign \notin discarded
        BY BoundsAssumption DEF SinkInv, TypeOK, Records, Foreign
      <3>. QED
        BY <3>1, EvidenceStep DEF LossInv
    <2>. QED
      BY <1>1, <2>1, <2>2
  <1>2. CASE discarded' # discarded
    <2>1. /\ RecoverDiscard /\ evidence' = evidence
          /\ discarded' = discarded \cup {entry.claim.record}
      BY <1>2, GiveUpStep
    <2>2. /\ inflight = {} /\ pending = None /\ entry # None
          /\ cursor[entry.claim.run] = entry.claim.sequence
      BY <2>1 DEF RecoverDiscard, LossInv, SinkInv, ControlInv
    <2>3. Bound' = {}
      BY <1>2, <2>1, <2>2 DEF RecoverDiscard, PutDurable, Ready, Bound, Notes, Readings
    <2>4. entry.claim \in Bound /\ Live(entry.claim)
      BY <2>2, ClaimsOrdered DEF Readings, Live
    <2>5. \A c \in evidence : c.record # entry.claim.record
      BY <2>4, ClaimsOrdered DEF SinkInv, BoundInv
    <2>. QED
      BY <2>1, <2>3, <2>5 DEF LossInv
  <1>. QED
    BY <1>1, <1>2

\* The journal keeps naming what live and doubtful claims need it to name.
LEMMA NamedStep ==
  ASSUME NoLateFaults, SinkInv, LossInv, [Next]_vars
  PROVE  NamedInv'
  <1> USE NoneAssumption
  <1>1. CASE UNCHANGED vars
    BY <1>1 DEF vars, plane, disk, memory, history, LossInv, NamedInv, Live, InDoubt, Named,
       Readings
  <1>2. ASSUME NEW r \in Runs, Transition(r) PROVE NamedInv'
    BY <1>2 DEF Transition, disk, memory, history, LossInv, NamedInv, Live, InDoubt, Named,
       Readings
  <1>3. ASSUME NEW r \in Runs, Start(r) PROVE NamedInv'
    BY <1>3 DEF Start, plane, disk, history, LossInv, NamedInv, Live, InDoubt, Named, Readings,
       SinkInv, ControlInv
  <1>4. ASSUME NEW c \in Claims, Live(c),
               evidence' = evidence \cup {c},
               c.record = Foreign \/ c \in inflight,
               inflight' \subseteq inflight,
               UNCHANGED <<disk, memory, learned, history>>
        PROVE  NamedInv'
    <2>1. /\ \A d : Named(d)' <=> Named(d)
          /\ UNCHANGED <<pc, pending, stage>>
      BY <1>4 DEF Named, Readings, disk, memory
    <2>2. \A d \in inflight' : Live(d)' => Live(d)
      BY <1>4, LiveStep, ClaimsOrdered
    <2>3. \A d \in evidence' : InDoubt(d)' => InDoubt(d) \/ (d = c /\ c \in inflight)
      BY <1>4 DEF InDoubt, history
    <2>4. pending # None /\ Live(pending.claim)' => Live(pending.claim)
      BY <2>1, LiveStep, ClaimsOrdered DEF Live
    <2>5. pc = "post" => pending.claim # c
      <3> SUFFICES ASSUME pc = "post", pending.claim = c PROVE FALSE
        OBVIOUS
      <3>1. pending # None
        BY DEF SinkInv, ControlInv
      <3>. QED
        BY <1>4, <3>1, ClaimsOrdered DEF LossInv, NamedInv
    <2>6. \A d \in inflight' : Live(d)' => Named(d)'
      BY <1>4, <2>1, <2>2 DEF LossInv, NamedInv
    <2>7. \A d \in evidence' : InDoubt(d)' => Named(d)'
      BY <1>4, <2>1, <2>3 DEF LossInv, NamedInv, InDoubt
    <2>8. \A d \in evidence' : stage = "ready" /\ pending = None => ~InDoubt(d)'
      BY <1>4, <2>3 DEF LossInv, NamedInv, InDoubt
    <2>9. pending # None /\ Live(pending.claim)' => Named(pending.claim)'
      BY <2>1, <2>4 DEF LossInv, NamedInv
    <2>10. pc' = "post" => Named(pending.claim)' /\ pending'.claim \notin inflight' \cup evidence'
      BY <1>4, <2>1, <2>5 DEF LossInv, NamedInv
    <2>11. pc' = "release" => Named(pending.claim)' /\ learned'[pending'.claim.record] = 1
      BY <1>4, <2>1 DEF LossInv, NamedInv
    <2>. QED
      BY <1>4, <2>1, <2>2, <2>6, <2>7, <2>8, <2>9, <2>10, <2>11 DEF LossInv, NamedInv, disk
  <1>5. ASSUME NEW r \in Runs, ForeignWrite(r) PROVE NamedInv'
    <2> DEFINE c == [run |-> r, sequence |-> cursor[r], record |-> Foreign]
    <2>1. c \in Claims /\ Live(c) /\ c.record = Foreign /\ evidence' = evidence \cup {c}
      BY <1>5 DEF ForeignWrite, Applied, Claims, Live, SinkInv, TypeOK
    <2>. HIDE DEF c
    <2>. QED
      BY <1>4, <1>5, <2>1 DEF ForeignWrite
  <1>6. CASE LateArrival
    <2>1. PICK c \in inflight :
                /\ Applied(c) /\ inflight' = inflight \ {c}
                /\ UNCHANGED <<disk, memory, learned, history>>
      BY <1>6 DEF LateArrival
    <2>2. c \in Claims /\ Live(c) /\ evidence' = evidence \cup {c}
      BY <2>1 DEF Applied, Live, SinkInv, TypeOK
    <2>. QED
      BY <1>4, <2>1, <2>2
  <1>7. ASSUME UNCHANGED <<plane, learned, indeterminate>>, inflight' \subseteq inflight,
               pending' = None, pc' \notin {"post", "release"},
               stage' = "starting", Readings' \subseteq Readings
        PROVE  NamedInv'
    <2>1. \A d : Named(d) => Named(d)'
      BY <1>7 DEF Named
    <2>2. UNCHANGED <<cursor, evidence>>
      BY <1>7 DEF plane
    <2>. QED
      BY <1>7, <2>1, <2>2 DEF LossInv, NamedInv, Live, InDoubt
  <1>8. CASE CrashProcess \/ CrashHost \/ InitializeFails
    <2>1. Readings' \subseteq Readings
      BY <1>8 DEF CrashProcess, CrashHost, InitializeFails, Readings, disk
    <2>. QED
      BY <1>7, <1>8, <2>1
      DEF CrashProcess, CrashHost, InitializeFails, Stop, Abandoned, NoLateFaults, history
  <1>9. CASE Record
    BY <1>9 DEF Record, plane, disk, LossInv, NamedInv, Live, InDoubt, Named, Readings
  <1>10. CASE SeedCursor
    BY <1>10 DEF SeedCursor, Ready, plane, disk, history, LossInv, NamedInv, Live, InDoubt, Named,
       Readings, SinkInv, ControlInv
  <1>11. CASE RecoverIndeterminate
    <2>1. /\ inflight = {} /\ pending = None /\ stage = "starting"
          /\ UNCHANGED <<plane, learned>>
      BY <1>11 DEF RecoverIndeterminate, LossInv, SinkInv, ControlInv
    <2>2. CASE UNCHANGED disk /\ Stop /\ inflight' = {} /\ UNCHANGED indeterminate
      BY <1>7, <2>1, <2>2 DEF Stop, disk, Readings
    <2>3. CASE /\ PutDurable(None) /\ Ready(cursor[runID]) /\ UNCHANGED inflight
               /\ indeterminate' = indeterminate \cup {entry.claim.record}
      <3>1. ASSUME NEW d \in evidence PROVE ~InDoubt(d)'
        <4>1. InDoubt(d)' => InDoubt(d) /\ d.record # entry.claim.record
          BY <2>1, <2>3 DEF InDoubt, plane
        <4>2. InDoubt(d) => d = entry.claim
          BY DEF LossInv, NamedInv, Named, Readings
        <4>. QED
          BY <4>1, <4>2
      <3>. QED
        BY <2>1, <2>3, <3>1 DEF Ready, NamedInv, plane
    <2>. QED
      BY <1>11, <2>1, <2>2, <2>3 DEF RecoverIndeterminate, NotPut, NoLateFaults, Abandoned
  <1>12. CASE RecoverDiscard
    <2>1. /\ inflight = {} /\ pending = None /\ stage = "starting" /\ entry # None
          /\ UNCHANGED <<plane, learned, indeterminate>>
          /\ entry.claim.run = runID /\ Live(entry.claim)
      BY <1>12 DEF RecoverDiscard, LossInv, SinkInv, ControlInv, Live
    <2>2. \A d \in evidence : ~InDoubt(d)
      BY <2>1, ClaimsOrdered DEF LossInv, NamedInv, Named, Readings
    <2>3. inflight' = {} /\ pending' = None /\ pc' \notin {"post", "release"}
      BY <1>12, <2>1 DEF RecoverDiscard, Ready, Stop, Abandoned
    <2>. QED
      BY <2>1, <2>2, <2>3 DEF NamedInv, InDoubt, plane
  <1>13. CASE RecoverRepresent
    <2>1. /\ inflight = {} /\ pending = None /\ stage = "starting" /\ entry # None
          /\ UNCHANGED <<plane, inflight, disk, learned, history, stage>>
          /\ pc' = "reconcile" /\ pending' = entry
          /\ cursor[entry.claim.run] = entry.claim.sequence + 1
      BY <1>13 DEF RecoverRepresent, LossInv, SinkInv, ControlInv
    <2>2. entry.claim.sequence \in Nat
      BY <2>1, ClaimsOrdered DEF Readings
    <2>. QED
      BY <2>1, <2>2 DEF LossInv, NamedInv, Live, InDoubt, Named, Readings, plane, disk, history
  <1>14. CASE WriteIntent
    <2> DEFINE c == [run |-> runID, sequence |-> next, record |-> arg]
               e == [claim |-> c, state |-> "posting"]
    <2>1. /\ pending = None /\ stage = "ready" /\ arg # 0 /\ stage' = "ready"
          /\ UNCHANGED <<plane, inflight, learned, history>>
      BY <1>14 DEF WriteIntent, SinkInv, ControlInv
    <2>2. /\ \A d \in inflight' : ~Live(d)'
          /\ \A d \in evidence' : ~InDoubt(d)'
      BY <2>1 DEF LossInv, NamedInv, Live, InDoubt, plane, history
    <2>3. c \notin inflight \cup evidence
      <3>1. \A d \in Bound \cup evidence : d.record < arg /\ d.record \in Nat
        BY <2>1, ClaimsOrdered DEF SinkInv, BoundInv, EvidenceInv
      <3>2. arg \in Nat
        BY BoundsAssumption DEF SinkInv, TypeOK
      <3>. QED
        BY <3>1, <3>2, ClaimsOrdered
    <2>4. CASE PutDurable(e) /\ pending' = e /\ pc' = "post"
      <3>1. Named(pending.claim)' /\ pending'.claim = c
        <4>1. e \in Entries
          BY <2>1, <1>14, BoundsAssumption DEF WriteIntent, SinkInv, ControlInv, TypeOK, Entries,
             Claims, Records
        <4>. QED
          BY <2>4, <4>1 DEF PutDurable, Named, Readings
      <3>2. pending' # None
        BY <2>4, <3>1 DEF Named, Readings, PutDurable
      <3>. QED
        BY <2>1, <2>2, <2>3, <2>4, <3>1, <3>2 DEF NamedInv, plane, PutDurable
    <2>5. CASE pc' = "idle" /\ UNCHANGED pending
      BY <2>1, <2>2, <2>5 DEF NamedInv
    <2>. QED
      BY <1>14, <2>4, <2>5 DEF WriteIntent
  <1>15. CASE AttemptAccepted
    <2>1. /\ pending # None /\ pc' = "confirm" /\ pending.claim \in Bound
          /\ UNCHANGED <<inflight, disk, learned, history, pending, stage>>
      BY <1>15, ClaimsOrdered DEF AttemptAccepted, SinkInv, ControlInv
    <2>2. /\ \A d : Named(d)' <=> Named(d)
          /\ \A d \in inflight : Live(d)' => Live(d)
          /\ Live(pending.claim)' => Live(pending.claim)
      BY <1>15, <2>1, LiveStep, ClaimsOrdered DEF Named, Readings, disk, Live
    <2>3. \A d \in evidence' : InDoubt(d)' => InDoubt(d) \/ (d = pending.claim /\ Live(d))
      BY <1>15, <2>1 DEF AttemptAccepted, Applied, Replayed, InDoubt, Live, history
    <2>4. Live(pending.claim) => Named(pending.claim)
      BY <2>1 DEF LossInv, NamedInv
    <2>5. \A d \in evidence' : InDoubt(d)' => Named(d)'
      BY <2>2, <2>3, <2>4 DEF LossInv, NamedInv, InDoubt
    <2>. QED
      BY <2>1, <2>2, <2>4, <2>5 DEF LossInv, NamedInv, disk
  <1>16. CASE AttemptDeclined
    <2>1. /\ pc = "post" /\ pc' = "idle" /\ pending # None /\ pending' = None
          /\ UNCHANGED <<plane, inflight, learned, history, stage>>
      BY <1>16 DEF AttemptDeclined, SinkInv, ControlInv
    <2>2. /\ \A d \in inflight : ~Live(d)
          /\ \A d \in evidence : ~InDoubt(d)
      BY <2>1 DEF LossInv, NamedInv, Named, Readings
    <2>. QED
      BY <2>1, <2>2 DEF NamedInv, Live, InDoubt, plane, history
  <1>17. ASSUME pending # None, pending' = pending, pc' \notin {"post", "release"},
                inflight' \subseteq inflight \cup {pending.claim},
                UNCHANGED <<plane, disk, learned, history>>
         PROVE  NamedInv'
    BY <1>17 DEF LossInv, NamedInv, Live, InDoubt, Named, Readings, plane, disk, history
  <1>18. CASE AttemptUnknown
    BY <1>17, <1>18 DEF AttemptUnknown, SinkInv, ControlInv
  <1>19. CASE ReconcileFails
    <2>1. pending # None /\ UNCHANGED <<plane, disk, learned, history>>
      BY <1>19 DEF ReconcileFails, SinkInv, ControlInv
    <2>2. CASE stage = "ready"
      BY <1>17, <1>19, <2>1, <2>2 DEF ReconcileFails, Fail, Keep
    <2>3. CASE stage # "ready"
      <3>1. pending' = None /\ pc' = "down" /\ stage' = "starting" /\ inflight' = {}
        BY <1>19, <2>3 DEF ReconcileFails, Fail, Keep, Abandoned, NoLateFaults
      <3>. QED
        BY <1>7, <2>1, <3>1 DEF disk, Readings, history
    <2>. QED
      BY <2>2, <2>3
  <1>20. CASE ConfirmEntry
    <2> DEFINE e == [pending EXCEPT !.state = "confirmed"]
    <2>1. /\ pending # None /\ e.claim = pending.claim /\ e # None
          /\ pending.claim \in evidence /\ ~Live(pending.claim)
          /\ UNCHANGED <<plane, learned, history>>
      BY <1>20, ClaimsOrdered DEF ConfirmEntry, SinkInv, ControlInv, LearnInv, TypeOK, Entries
    <2>2. pc' \notin {"post", "release"} /\ inflight' \subseteq inflight
      BY <1>20 DEF ConfirmEntry, Fail, Abandoned
    <2>3. Readings' \subseteq Readings \cup {e}
      BY <1>20 DEF ConfirmEntry, PutDurable, PutFails, NotPut, PutUnsynced, Readings, disk
    <2>4. \A d : Named(d) => d = pending.claim
      BY <2>1 DEF LossInv, NamedInv, Named, Readings
    <2>5. \A d : Named(d) => Named(d)'
      BY <2>1, <2>3, <2>4 DEF Named
    <2>6. /\ \A d \in inflight' : Live(d)' => Named(d)'
          /\ \A d \in evidence' : InDoubt(d)' => Named(d)'
      BY <2>1, <2>2, <2>5 DEF LossInv, NamedInv, Live, InDoubt, plane, history
    <2>7. /\ entry' # None /\ entry'.claim = pending.claim
          /\ pending' = None \/ pending'.claim = pending.claim
      BY <1>20, <2>1 DEF ConfirmEntry, PutDurable, PutFails, NotPut, PutUnsynced, disk, Keep,
         LossInv, NamedInv
    <2>8. stage' = "ready" => pending' # None
      BY <1>20, <2>1 DEF ConfirmEntry, Fail, Keep
    <2>. QED
      BY <2>1, <2>2, <2>6, <2>7, <2>8 DEF NamedInv, Live, plane
  <1>21. ASSUME pc = "learn", pending' = pending \/ (stage' = "starting" /\ pending' = None),
                pc' # "post",
                pc' = "release" => pending' = pending /\ learned'[pending.claim.record] = 1,
                inflight' \subseteq inflight,
                UNCHANGED <<plane, disk>>, indeterminate \subseteq indeterminate',
                \A r \in Records : learned[r] = 1 => learned'[r] = 1,
                \/ learned'[pending.claim.record] = 1
                \/ pending.claim.record \in indeterminate'
         PROVE  NamedInv'
    <2>1. /\ pending # None /\ pending.claim \in evidence /\ ~Live(pending.claim)
          /\ Readings = {pending}
      BY <1>21, ClaimsOrdered DEF SinkInv, ControlInv, LearnInv
    <2>2. /\ Named(pending.claim) /\ \A d : Named(d)' <=> Named(d)
          /\ \A d : Named(d) => d = pending.claim
      BY <1>21, <2>1 DEF Named, Readings, disk
    <2>3. ASSUME NEW d \in evidence PROVE ~InDoubt(d)'
      <3> SUFFICES ASSUME InDoubt(d)' PROVE FALSE
        OBVIOUS
      <3>1. d.record \in Records /\ d.record # Foreign
        BY DEF InDoubt, SinkInv, TypeOK, Claims
      <3>2. InDoubt(d)
        BY <1>21, <3>1 DEF InDoubt, plane
      <3>3. d = pending.claim
        BY <2>2, <3>2 DEF LossInv, NamedInv
      <3>. QED
        BY <1>21, <3>3 DEF InDoubt
    <2>4. \A d \in inflight' : ~Live(d)'
      BY <1>21, <2>1, <2>2 DEF LossInv, NamedInv, Live, plane
    <2>. QED
      BY <1>21, <2>1, <2>2, <2>3, <2>4 DEF LossInv, NamedInv, Live, plane, disk
  <1>22. ASSUME pc = "learn", Observe(pending.claim.record)
         PROVE  /\ learned'[pending.claim.record] = 1
                /\ \A r \in Records : learned[r] = 1 => learned'[r] = 1
    <2>1. pending \in Notes /\ learned[pending.claim.record] = 0
      BY <1>22 DEF SinkInv, ControlInv, LearnInv, Notes
    <2>2. pending.claim.record \in Records /\ learned \in [Records -> Nat]
      BY <2>1, NotesAreOwn DEF SinkInv, TypeOK
    <2>. QED
      BY <1>22, <2>1, <2>2 DEF Observe
  <1>23. CASE LearnSucceeds
    BY <1>21, <1>22, <1>23 DEF LearnSucceeds, history
  <1>24. CASE LearnFails
    BY <1>21, <1>22, <1>24 DEF LearnFails, Fail, Keep, Abandoned, NoLateFaults
  <1>25. CASE Release
    <2>1. /\ pc = "release" /\ pending # None /\ pending' = None
          /\ pending.claim \in evidence /\ ~Live(pending.claim)
          /\ UNCHANGED <<plane, learned, history>>
      BY <1>25, ClaimsOrdered DEF Release, SinkInv, ControlInv, LearnInv
    <2>2. pc' \notin {"post", "release"} /\ inflight' \subseteq inflight
      BY <1>25 DEF Release, Fail, Abandoned
    <2>3. \A d : Named(d) => d = pending.claim
      BY <2>1 DEF LossInv, NamedInv, Named, Readings
    <2>4. /\ \A d \in inflight : ~Live(d)
          /\ \A d \in evidence : ~InDoubt(d)
      BY <2>1, <2>3 DEF LossInv, NamedInv, InDoubt
    <2>. QED
      BY <2>1, <2>2, <2>4 DEF NamedInv, Live, InDoubt, plane, history
  <1>. QED
    BY <1>1, <1>2, <1>3, <1>5, <1>6, <1>8, <1>9, <1>10, <1>11, <1>12, <1>13, <1>14, <1>15, <1>16,
       <1>18, <1>19, <1>20, <1>23, <1>24, <1>25
    DEF Next, Environment, Sink

\* With the two faults off, every reachable state satisfies the three
\* invariants.
LEMMA LossInvariant == NoLateFaults /\ Spec => [](SinkInv /\ DeliveryInv /\ LossInv)
  <1>1. SinkInv /\ [Next]_vars => SinkInv'
    BY TypeStep, ControlStep, BoundInvStep, EvidenceInvStep, LearnInvStep DEF SinkInv
  <1>2. SinkInv /\ DeliveryInv /\ [Next]_vars => DeliveryInv'
    BY DeliveryStep
  <1>3. ASSUME NoLateFaults
        PROVE  SinkInv /\ DeliveryInv /\ LossInv /\ [Next]_vars => LossInv'
    BY <1>3, QuietStep, NamedStep, DiscardStep DEF LossInv
  <1>4. ASSUME NoLateFaults PROVE Spec => [](SinkInv /\ DeliveryInv /\ LossInv)
    <2>1. SinkInv /\ DeliveryInv /\ LossInv /\ [Next]_vars => LossInv'
      BY <1>3, <1>4
    <2>. QED
      BY InitInv, InitDelivery, InitLoss, <1>1, <1>2, <2>1, PTL DEF Spec
  <1>. QED
    BY <1>4

\* Nothing is lost silently: when a request dies with its process and recovery
\* does not fail halfway, a request in flight is journalled, a record the run
\* holds is learned from or reported, and a discarded one is not in the run.
\* The two runs that expect a violation show that either fault refutes it.
THEOREM NothingLost ==
  ASSUME ~LateDelivery, ~RecoverySyncFails
  PROVE  Spec => []NothingIsLostSilently
  <1>1. SinkInv /\ DeliveryInv /\ LossInv => NothingIsLostSilently
    <2> SUFFICES ASSUME SinkInv, DeliveryInv, LossInv
                 PROVE  WriteAhead /\ NoSilentDivergence /\ DiscardedNeverInRun
      BY DEF NothingIsLostSilently
    <2>1. WriteAhead
      BY DEF LossInv, NamedInv, Live, Named, WriteAhead
    <2>2. NoSilentDivergence
      BY DEF LossInv, NamedInv, InDoubt, Named, NoSilentDivergence
    <2>3. DiscardedNeverInRun
      BY DEF LossInv, DiscardedNeverInRun
    <2>. QED
      BY <2>1, <2>2, <2>3
  <1>2. NoLateFaults
    BY DEF NoLateFaults
  <1>. QED
    BY <1>1, <1>2, LossInvariant, PTL

=============================================================================
