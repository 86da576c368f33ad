--------------------------- MODULE BaselineFileStore ---------------------------
(***************************************************************************)
(* The engine's in-memory and file stores (internal/store): concurrent     *)
(* Observe calls over a map of shards that is created on demand, the       *)
(* snapshot-and-rename that follows each of them, freezing of a key, and a *)
(* process that dies between any two steps and opens the file again.       *)
(*                                                                         *)
(* What a baseline holds is abstracted to the set of calls learned into    *)
(* it (BehaviorEngine models the learning itself). A shard is an object:   *)
(* two of them for one key would be two baselines.                         *)
(***************************************************************************)
EXTENDS Integers, FiniteSets

CONSTANTS Keys, Calls,  \* baseline keys; Observe calls
          KeyOf,        \* the key each call is for
          Shards,       \* identities of shard objects
          None, MaxCrashes, MaxFailures, MaxFreezes

ASSUME CallsAssumption == KeyOf \in [Calls -> Keys] /\ None \notin Shards /\ None \notin Calls

\* Allocation gives a new object: there are shards enough for every key.
ASSUME ShardsAssumption ==
    /\ IsFiniteSet(Keys)
    /\ \E f \in [Keys -> Shards] : \A k, l \in Keys : k # l => f[k] # f[l]

VARIABLES
    shards,     \* InMemory.shards: key -> shard or None
    learned,    \* shard -> the calls learned into its baseline
    frozen,     \* shard -> whether it is frozen
    pc,         \* call -> where its goroutine is
    at,         \* call -> the shard it holds a pointer to
    flushMu,    \* the call that holds flushMu, or None
    todo,       \* call -> the keys its flush has still to read
    snap,       \* call -> what its flush has read
    file,       \* key -> the calls in the file's baseline
    returned,   \* ghost: calls that returned learned = true and no error
    up, crashes, failures, freezes
vars == <<shards, learned, frozen, pc, at, flushMu, todo, snap, file, returned, up, crashes, failures, freezes>>

memory == <<shards, learned, frozen>>
flushing == <<flushMu, todo, snap>>
counters == <<up, crashes, failures, freezes>>

Nothing == [k \in Keys |-> {}]
Used == {shards[k] : k \in Keys} \ {None}
Fresh == Shards \ (Used \cup {s \in Shards : learned[s] # {} \/ frozen[s]} \cup {at[c] : c \in Calls})

Init ==
    /\ shards = [k \in Keys |-> None] /\ learned = [s \in Shards |-> {}] /\ frozen = [s \in Shards |-> FALSE]
    /\ pc = [c \in Calls |-> "start"] /\ at = [c \in Calls |-> None]
    /\ flushMu = None /\ todo = [c \in Calls |-> {}] /\ snap = [c \in Calls |-> Nothing]
    /\ file = Nothing /\ returned = {}
    /\ up = TRUE /\ crashes = 0 /\ failures = 0 /\ freezes = 0

-----------------------------------------------------------------------------
\* lookup under the read lock.
lookup(c) ==
    /\ pc[c] = "start"
    /\ at' = [at EXCEPT ![c] = shards[KeyOf[c]]]
    /\ pc' = [pc EXCEPT ![c] = IF shards[KeyOf[c]] = None THEN "create" ELSE "observe"]
    /\ UNCHANGED <<memory, flushing, file, returned, counters>>

\* Faulty variant: the map is not looked at again under the write lock.
CreateUnchecked(c) ==
    /\ pc[c] = "create"
    /\ \E s \in Fresh : shards' = [shards EXCEPT ![KeyOf[c]] = s] /\ at' = [at EXCEPT ![c] = s]
    /\ pc' = [pc EXCEPT ![c] = "observe"]
    /\ UNCHANGED <<learned, frozen, flushing, file, returned, counters>>

\* The rest of getOrCreate, under the write lock: look again, then create.
getOrCreate(c) ==
    /\ pc[c] = "create"
    /\ \/ /\ shards[KeyOf[c]] # None
          /\ at' = [at EXCEPT ![c] = shards[KeyOf[c]]]
          /\ UNCHANGED shards
       \/ /\ shards[KeyOf[c]] = None
          /\ LET s == CHOOSE s \in Fresh : TRUE
             IN shards' = [shards EXCEPT ![KeyOf[c]] = s] /\ at' = [at EXCEPT ![c] = s]
    /\ pc' = [pc EXCEPT ![c] = "observe"]
    /\ UNCHANGED <<learned, frozen, flushing, file, returned, counters>>

\* InMemory.Observe under the shard's lock; a frozen shard learns nothing.
InMemoryObserve(c) ==
    /\ pc[c] = "observe"
    /\ learned' = [learned EXCEPT ![at[c]] = IF frozen[at[c]] THEN @ ELSE @ \cup {c}]
    /\ pc' = [pc EXCEPT ![c] = IF frozen[at[c]] THEN "refused" ELSE "learned"]
    /\ UNCHANGED <<shards, frozen, at, flushing, file, returned, counters>>

\* flush: take flushMu and copy the map of shards ...
beginFlush(c) ==
    /\ pc[c] \in {"refused", "learned"}
    /\ flushMu = None
    /\ flushMu' = c
    /\ todo' = [todo EXCEPT ![c] = {k \in Keys : shards[k] # None}]
    /\ pc' = [pc EXCEPT ![c] = IF @ = "learned" THEN "flush" ELSE "flushOnly"]
    /\ UNCHANGED <<memory, at, snap, file, returned, counters>>

\* ... read each shard under its own lock, while others go on learning ...
readShard(c) ==
    /\ \E k \in todo[c] :
         /\ snap' = [snap EXCEPT ![c][k] = learned[shards[k]]]
         /\ todo' = [todo EXCEPT ![c] = @ \ {k}]
    /\ UNCHANGED <<memory, pc, at, flushMu, file, returned, counters>>

\* ... write a temporary file and rename it over the old one. The rename is the
\* step that counts, so the writes before it need none of their own.
Read(c) == pc[c] \in {"flush", "flushOnly"} /\ todo[c] = {}
writeFileSnapshotAtomic(c) ==
    /\ Read(c)
    /\ file' = snap[c]
    /\ flushMu' = None /\ snap' = [snap EXCEPT ![c] = Nothing]
    /\ returned' = IF pc[c] = "flush" THEN returned \cup {c} ELSE returned
    /\ pc' = [pc EXCEPT ![c] = "done"]
    /\ UNCHANGED <<memory, at, todo, counters>>

\* Any step of the write may fail: the file is left as it was and Observe
\* returns the error, though memory has learned.
writeFails(c) ==
    /\ Read(c) /\ failures < MaxFailures
    /\ flushMu' = None /\ snap' = [snap EXCEPT ![c] = Nothing]
    /\ pc' = [pc EXCEPT ![c] = "failed"]
    /\ failures' = failures + 1
    /\ UNCHANGED <<memory, at, todo, file, returned, up, crashes, freezes>>

\* Freeze creates the shard of a key not seen yet.
Freeze(k) ==
    /\ up /\ freezes < MaxFreezes
    /\ LET s == IF shards[k] = None THEN CHOOSE s \in Fresh : TRUE ELSE shards[k]
       IN shards' = [shards EXCEPT ![k] = s] /\ frozen' = [frozen EXCEPT ![s] = TRUE]
    /\ freezes' = freezes + 1
    /\ UNCHANGED <<learned, pc, at, flushing, file, returned, up, crashes, failures>>
Unfreeze(k) ==
    /\ up /\ shards[k] # None /\ frozen[shards[k]]
    /\ frozen' = [frozen EXCEPT ![shards[k]] = FALSE]
    /\ UNCHANGED <<shards, learned, pc, at, flushing, file, returned, counters>>

\* The process dies: the calls under way are never answered.
Crash ==
    /\ up /\ crashes < MaxCrashes
    /\ up' = FALSE /\ crashes' = crashes + 1
    /\ shards' = [k \in Keys |-> None] /\ learned' = [s \in Shards |-> {}] /\ frozen' = [s \in Shards |-> FALSE]
    /\ pc' = [c \in Calls |-> IF pc[c] = "start" THEN "start" ELSE IF pc[c] = "done" THEN "done" ELSE "failed"]
    /\ at' = [c \in Calls |-> None] /\ flushMu' = None /\ todo' = [c \in Calls |-> {}] /\ snap' = [c \in Calls |-> Nothing]
    /\ UNCHANGED <<file, returned, failures, freezes>>

\* The keys the file has a baseline for.
loadFileSnapshot == {k \in Keys : file[k] # {}}

\* NewFileStore loads the file and restore gives every key in it a shard, none
\* of them frozen.
NewFileStore ==
    /\ ~up
    /\ up' = TRUE
    /\ LET held == loadFileSnapshot
           new == CHOOSE f \in [held -> Shards] : \A k, l \in held : k # l => f[k] # f[l]
       IN /\ shards' = [k \in Keys |-> IF k \in held THEN new[k] ELSE None]
          /\ learned' = [s \in Shards |-> UNION {file[k] : k \in {k \in held : new[k] = s}}]
    /\ UNCHANGED <<frozen, pc, at, flushing, file, returned, crashes, failures, freezes>>

Step(c) ==
    /\ up
    /\ \/ lookup(c) \/ getOrCreate(c) \/ InMemoryObserve(c)
       \/ beginFlush(c) \/ readShard(c) \/ writeFileSnapshotAtomic(c) \/ writeFails(c)
Next ==
    \/ \E c \in Calls : Step(c)
    \/ \E k \in Keys : Freeze(k) \/ Unfreeze(k)
    \/ Crash \/ NewFileStore

\* Go runs every goroutine that can run, and the process is started again.
Fairness == WF_vars(NewFileStore) /\ \A c \in Calls : WF_vars(Step(c))
Spec == Init /\ [][Next]_vars /\ Fairness

-----------------------------------------------------------------------------
\* FileStore's durability guarantee: every Observe that returned success is in
\* the file, under its own key, so it survives a crash at any later step; and
\* while the process is up everything in the file is also in memory, so no
\* later flush can lose it. Two shards for one key, or a snapshot that is not
\* taken under flushMu, would break it.
AcknowledgedIsDurable ==
    /\ \A c \in returned : c \in file[KeyOf[c]]
    /\ up => \A k \in Keys : file[k] \subseteq (IF shards[k] = None THEN {} ELSE learned[shards[k]])

\* Every Observe returns: nobody waits for flushMu for ever, whatever failed
\* while it was held.
CallsEnd == \A c \in Calls : <>(pc[c] \in {"done", "failed"})

\* The file store implements LearnedStore: whatever the file gains it keeps,
\* under its own key, and only what it has is acknowledged.
Store == INSTANCE LearnedStore WITH durable <- file, acknowledged <- returned

ImplementsStore == Store!SSpec
=============================================================================
