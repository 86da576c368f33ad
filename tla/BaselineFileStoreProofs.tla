------------------------ MODULE BaselineFileStoreProofs ------------------------
(***************************************************************************)
(* Proofs about the file store, for every set of keys and of Observe       *)
(* calls, and every number of crashes, failed writes and freezes; and      *)
(* about two parts MCProgress runs beside it: the local runtime and the    *)
(* development session.                                                    *)
(***************************************************************************)
EXTENDS MCProgress, FiniteSetTheorems, TLAPS

Labels == {"start", "create", "observe", "refused", "learned", "flush", "flushOnly", "done",
           "failed"}

TypeOK ==
    /\ shards \in [Keys -> Shards \cup {None}]
    /\ learned \in [Shards -> SUBSET Calls]
    /\ frozen \in [Shards -> BOOLEAN]
    /\ pc \in [Calls -> Labels]
    /\ at \in [Calls -> Shards \cup {None}]
    /\ flushMu \in Calls \cup {None}
    /\ todo \in [Calls -> SUBSET Keys]
    /\ snap \in [Calls -> [Keys -> SUBSET Calls]]
    /\ file \in [Keys -> SUBSET Calls]
    /\ returned \in SUBSET Calls
    /\ up \in BOOLEAN

\* What memory holds for a key.
Held(k) == IF shards[k] = None THEN {} ELSE learned[shards[k]]

\* Where a call is: it points to its key's only shard, and once it has learned
\* it is in that shard.
CallInv(c) ==
    /\ at[c] # None => at[c] = shards[KeyOf[c]]
    /\ pc[c] \in {"observe", "refused", "learned", "flush", "flushOnly"} => at[c] # None
    /\ pc[c] \in {"learned", "flush"} => c \in Held(KeyOf[c])

\* A flush holds flushMu.  What it has read of a key is in memory and covers
\* what the file has, and its own call once it has read its own key.
FlushInv(c) ==
    /\ pc[c] \in {"flush", "flushOnly"} <=> flushMu = c
    /\ flushMu # c => todo[c] = {} /\ snap[c] = Nothing
    /\ \A k \in todo[c] : shards[k] # None
    /\ \A k \in Keys : snap[c][k] \subseteq Held(k)
    /\ flushMu = c => \A k \in Keys \ todo[c] : file[k] \subseteq snap[c][k]
    /\ pc[c] = "flush" /\ KeyOf[c] \notin todo[c] => c \in snap[c][KeyOf[c]]

\* Objects of this process: only a key's shard was touched, and a process that
\* is down has none.
ObjectInv ==
    /\ \A s \in Shards : learned[s] # {} \/ frozen[s] => s \in Used
    /\ ~up => /\ \A k \in Keys : shards[k] = None
              /\ \A c \in Calls : pc[c] \in {"start", "done", "failed"}

\* The inductive invariant.
FileInv ==
    /\ TypeOK
    /\ \A c \in Calls : CallInv(c) /\ FlushInv(c)
    /\ ObjectInv
    /\ AcknowledgedIsDurable

-----------------------------------------------------------------------------
(* Shards. *)

\* A key without a shard can be given one: at most one shard of each other key
\* is in use, and no other was touched in this process.
LEMMA FreshExists ==
  ASSUME FileInv, NEW k \in Keys, shards[k] = None
  PROVE  Fresh # {}
  <1> SUFFICES ASSUME Fresh = {} PROVE FALSE
    OBVIOUS
  <1>1. ASSUME NEW s \in Shards PROVE \E l \in Keys \ {k} : shards[l] = s
    <2> SUFFICES ASSUME \A l \in Keys \ {k} : shards[l] # s PROVE FALSE
      OBVIOUS
    <2>1. s # None /\ s \notin Used
      BY CallsAssumption DEF Used
    <2>2. learned[s] = {} /\ ~frozen[s]
      BY <2>1 DEF FileInv, ObjectInv
    <2>3. \A c \in Calls : at[c] # s
      BY <2>1, CallsAssumption DEF FileInv, CallInv, Used
    <2>. QED
      BY <2>1, <2>2, <2>3 DEF Fresh
  <1> DEFINE h == [s \in Shards |-> CHOOSE l \in Keys \ {k} : shards[l] = s]
  <1>2. \A s \in Shards : h[s] \in Keys \ {k} /\ shards[h[s]] = s
    BY <1>1
  <1>3. PICK f \in [Keys -> Shards] : \A i, j \in Keys : i # j => f[i] # f[j]
    BY ShardsAssumption
  <1> DEFINE g == [i \in Keys |-> h[f[i]]]
  <1> HIDE DEF h
  <1>4. g \in [Keys -> Keys \ {k}]
    BY <1>2, <1>3
  <1>5. \A i, j \in Keys : i # j => g[i] # g[j]
    BY <1>2, <1>3
  <1>6. /\ IsFiniteSet(Keys) /\ IsFiniteSet(Keys \ {k})
        /\ Cardinality(Keys \ {k}) = Cardinality(Keys) - 1 /\ Cardinality(Keys) \in Nat
    BY ShardsAssumption, FS_RemoveElement, FS_CardinalityType
  <1>7. Cardinality(Keys \ {k}) < Cardinality(Keys)
    BY <1>6
  <1> HIDE DEF g
  <1>. QED
    BY <1>4, <1>5, <1>6, <1>7, FS_PigeonHole

\* The shard a key is given is one, and empty.
LEMMA FreshShard ==
  ASSUME FileInv, NEW k \in Keys, shards[k] = None
  PROVE  LET s == CHOOSE s \in Fresh : TRUE
         IN s \in Shards /\ s # None /\ learned[s] = {}
  <1> DEFINE s == CHOOSE s \in Fresh : TRUE
  <1>1. s \in Fresh
    BY FreshExists
  <1>. QED
    BY <1>1, CallsAssumption DEF Fresh

\* Memory only grows: no key loses its shard or a call it learned.
Grows ==
    \A k \in Keys :
        /\ Held(k) \subseteq Held(k)'
        /\ shards[k] # None => shards'[k] = shards[k]

\* A key that is given its first shard has still learned nothing.
LEMMA CreateGrows ==
  ASSUME FileInv, NEW k \in Keys, NEW s \in Shards,
         (shards[k] = None /\ learned[s] = {}) \/ shards[k] = s,
         shards' = [shards EXCEPT ![k] = s], learned' = learned
  PROVE  /\ Grows
         /\ \A i \in Shards : i \in Used \/ i = s => i \in Used'
         /\ shards' \in [Keys -> Shards \cup {None}]
         /\ shards'[k] = s
  <1>1. shards \in [Keys -> Shards \cup {None}] /\ s # None
    BY CallsAssumption DEF FileInv, TypeOK
  <1>2. shards'[k] = s /\ \A l \in Keys \ {k} : shards'[l] = shards[l]
    BY <1>1
  <1>3. Grows
    BY <1>1, <1>2 DEF Grows, Held
  <1>4. ASSUME NEW i \in Shards, i \in Used \/ i = s PROVE i \in Used'
    BY <1>1, <1>2, <1>4, CallsAssumption DEF Used
  <1>. QED
    BY <1>1, <1>2, <1>3, <1>4

\* A call that a step does not concern keeps what is known of it while memory
\* grows and nobody else writes the file under its flush.
LEMMA OthersKeep ==
  ASSUME FileInv, Grows, NEW c \in Calls, pc'[c] = pc[c], at'[c] = at[c], todo'[c] = todo[c],
         snap'[c] = snap[c], flushMu' = c <=> flushMu = c, flushMu = c => file' = file
  PROVE  CallInv(c)' /\ FlushInv(c)'
  <1>1. CallInv(c) /\ FlushInv(c) /\ KeyOf[c] \in Keys /\ todo[c] \subseteq Keys
    BY CallsAssumption DEF FileInv, TypeOK
  <1>2. CallInv(c)'
    BY <1>1 DEF CallInv, Grows
  <1>3. FlushInv(c)'
    BY <1>1 DEF FlushInv, Grows, Nothing
  <1>. QED
    BY <1>2, <1>3

\* Durability is kept while the file stays and memory grows.
LEMMA DurableKeeps ==
  ASSUME FileInv, Grows, UNCHANGED <<file, returned, up>>
  PROVE  AcknowledgedIsDurable'
  BY DEF FileInv, AcknowledgedIsDurable, Grows, Held

-----------------------------------------------------------------------------
(* The steps. *)

\* lookup and getOrCreate: the call comes to point to its key's shard.
LEMMA PointStep ==
  ASSUME FileInv, up, NEW c \in Calls, lookup(c) \/ getOrCreate(c)
  PROVE  FileInv'
  <1> DEFINE k == KeyOf[c]
  <1>1. TypeOK /\ k \in Keys /\ pc[c] \in {"start", "create"} /\ CallInv(c) /\ FlushInv(c)
    BY CallsAssumption DEF FileInv, lookup, getOrCreate
  <1>2. /\ Grows /\ shards' \in [Keys -> Shards \cup {None}]
        /\ \A i \in Shards : i \in Used => i \in Used'
        /\ at' = [at EXCEPT ![c] = shards'[k]]
        /\ pc'[c] = "create" \/ (pc'[c] = "observe" /\ shards'[k] # None)
    <2>1. CASE UNCHANGED shards
      <3>1. at' = [at EXCEPT ![c] = shards[k]]
        BY <1>1, <2>1, FreshShard, CallsAssumption DEF lookup, getOrCreate, TypeOK
      <3>2. pc'[c] = "create" \/ (pc'[c] = "observe" /\ shards[k] # None)
        BY <1>1, <2>1, FreshShard, CallsAssumption, ZenonT(30) DEF lookup, getOrCreate, TypeOK
      <3>. QED
        BY <1>1, <2>1, <3>1, <3>2 DEF lookup, getOrCreate, Grows, Held, memory, Used, TypeOK
    <2>2. CASE getOrCreate(c) /\ shards[k] = None
      <3> DEFINE s == CHOOSE s \in Fresh : TRUE
      <3>1. s \in Shards /\ s # None /\ learned[s] = {}
        BY <1>1, <2>2, FreshShard
      <3>2. /\ shards' = [shards EXCEPT ![k] = s] /\ at' = [at EXCEPT ![c] = s]
            /\ pc'[c] = "observe" /\ learned' = learned
        BY <1>1, <2>2 DEF getOrCreate, TypeOK
      <3> HIDE DEF s
      <3>. QED
        BY <1>1, <2>2, <3>1, <3>2, CreateGrows
    <2>. QED
      BY <1>1, <2>1, <2>2 DEF lookup, getOrCreate, memory
  <1>3. /\ UNCHANGED <<learned, frozen, flushMu, todo, snap, file, returned, up>>
        /\ \A d \in Calls \ {c} : pc'[d] = pc[d] /\ at'[d] = at[d]
        /\ pc' \in [Calls -> Labels] /\ at' \in [Calls -> Shards \cup {None}]
        /\ at'[c] = shards'[k]
    BY <1>1, <1>2 DEF lookup, getOrCreate, memory, flushing, counters, TypeOK, Labels
  <1>4. TypeOK'
    BY <1>1, <1>2, <1>3 DEF TypeOK
  <1>5. CallInv(c)' /\ FlushInv(c)'
    <2>1. CallInv(c)'
      BY <1>2, <1>3 DEF CallInv
    <2>2. FlushInv(c)'
      BY <1>1, <1>2, <1>3 DEF FlushInv, Grows, Nothing
    <2>. QED
      BY <2>1, <2>2
  <1>6. \A d \in Calls \ {c} : CallInv(d)' /\ FlushInv(d)'
    BY <1>2, <1>3, OthersKeep
  <1>7. ObjectInv'
    BY <1>2, <1>3 DEF FileInv, ObjectInv
  <1>8. AcknowledgedIsDurable'
    BY <1>2, <1>3, DurableKeeps
  <1>. QED
    BY <1>4, <1>5, <1>6, <1>7, <1>8 DEF FileInv

\* InMemory.Observe: the call is learned into its key's shard, or refused.
LEMMA ObserveStep ==
  ASSUME FileInv, up, NEW c \in Calls, InMemoryObserve(c)
  PROVE  FileInv'
  <1> DEFINE k == KeyOf[c]
             s == shards[k]
  <1>1. /\ TypeOK /\ k \in Keys /\ pc[c] = "observe" /\ CallInv(c) /\ FlushInv(c)
        /\ at[c] = s /\ s \in Shards /\ s # None
    BY CallsAssumption DEF FileInv, InMemoryObserve, CallInv, TypeOK
  <1>2. /\ learned' = [learned EXCEPT ![s] = IF frozen[s] THEN @ ELSE @ \cup {c}]
        /\ pc' = [pc EXCEPT ![c] = IF frozen[s] THEN "refused" ELSE "learned"]
        /\ UNCHANGED <<shards, frozen, at, flushMu, todo, snap, file, returned, up>>
    BY <1>1 DEF InMemoryObserve, flushing, counters
  <1>3. /\ learned' \in [Shards -> SUBSET Calls] /\ pc' \in [Calls -> Labels]
        /\ \A i \in Shards : learned[i] \subseteq learned'[i]
        /\ \A i \in Shards \ {s} : learned'[i] = learned[i]
        /\ pc'[c] = "refused" \/ (pc'[c] = "learned" /\ c \in learned'[s])
        /\ \A d \in Calls \ {c} : pc'[d] = pc[d]
    BY <1>1, <1>2 DEF TypeOK, Labels
  <1>4. Grows
    BY <1>1, <1>2, <1>3 DEF Grows, Held, TypeOK
  <1>5. TypeOK'
    BY <1>1, <1>2, <1>3 DEF TypeOK
  <1>6. CallInv(c)' /\ FlushInv(c)'
    <2>1. CallInv(c)'
      BY <1>1, <1>2, <1>3 DEF CallInv, Held
    <2>2. FlushInv(c)'
      BY <1>1, <1>2, <1>3, <1>4 DEF FlushInv, Grows, Nothing
    <2>. QED
      BY <2>1, <2>2
  <1>7. \A d \in Calls \ {c} : CallInv(d)' /\ FlushInv(d)'
    BY <1>2, <1>3, <1>4, OthersKeep
  <1>8. ObjectInv'
    BY <1>1, <1>2, <1>3 DEF FileInv, ObjectInv, Used, TypeOK
  <1>9. AcknowledgedIsDurable'
    BY <1>2, <1>4, DurableKeeps
  <1>. QED
    BY <1>5, <1>6, <1>7, <1>8, <1>9 DEF FileInv

\* A flush begins: a key it will not read has no shard, so nothing in the file.
LEMMA BeginStep ==
  ASSUME FileInv, up, NEW c \in Calls, beginFlush(c)
  PROVE  FileInv'
  <1>1. /\ TypeOK /\ KeyOf[c] \in Keys /\ pc[c] \in {"refused", "learned"} /\ flushMu = None
        /\ c # None /\ CallInv(c) /\ FlushInv(c) /\ AcknowledgedIsDurable
    BY CallsAssumption DEF FileInv, beginFlush
  <1>2. /\ flushMu' = c /\ todo' = [todo EXCEPT ![c] = {k \in Keys : shards[k] # None}]
        /\ pc' = [pc EXCEPT ![c] = IF @ = "learned" THEN "flush" ELSE "flushOnly"]
        /\ UNCHANGED <<shards, learned, frozen, at, snap, file, returned, up>>
    BY DEF beginFlush, memory, counters
  <1>3. /\ todo' \in [Calls -> SUBSET Keys] /\ pc' \in [Calls -> Labels]
        /\ todo'[c] = {k \in Keys : shards[k] # None}
        /\ \/ pc[c] = "learned" /\ pc'[c] = "flush"
           \/ pc[c] = "refused" /\ pc'[c] = "flushOnly"
        /\ \A d \in Calls \ {c} : pc'[d] = pc[d] /\ todo'[d] = todo[d]
    BY <1>1, <1>2 DEF TypeOK, Labels
  <1>4. Grows
    BY <1>2 DEF Grows, Held
  <1>5. TypeOK'
    BY <1>1, <1>2, <1>3 DEF TypeOK
  <1>6. CallInv(c)' /\ FlushInv(c)'
    <2>1. CallInv(c)'
      BY <1>1, <1>2, <1>3 DEF CallInv, Held
    <2>2. \A k \in Keys \ todo'[c] : file[k] = {}
      BY <1>1, <1>3 DEF AcknowledgedIsDurable
    <2>3. KeyOf[c] \in todo'[c]
      BY <1>1, <1>3 DEF CallInv
    <2>4. \A k \in Keys : snap'[c][k] \subseteq Held(k)'
      BY <1>1, <1>2 DEF FlushInv, Held
    <2>5. FlushInv(c)'
      BY <1>2, <1>3, <2>2, <2>3, <2>4 DEF FlushInv
    <2>. QED
      BY <2>1, <2>5
  <1>7. \A d \in Calls \ {c} : CallInv(d)' /\ FlushInv(d)'
    BY <1>1, <1>2, <1>3, <1>4, OthersKeep, CallsAssumption
  <1>8. ObjectInv'
    BY <1>2 DEF FileInv, ObjectInv, Used
  <1>9. AcknowledgedIsDurable'
    BY <1>2, <1>4, DurableKeeps
  <1>. QED
    BY <1>5, <1>6, <1>7, <1>8, <1>9 DEF FileInv

\* A flush reads one shard: what the file has of its key is in it.
LEMMA ReadStep ==
  ASSUME FileInv, up, NEW c \in Calls, readShard(c)
  PROVE  FileInv'
  <1>1. PICK k \in todo[c] :
           /\ snap' = [snap EXCEPT ![c][k] = learned[shards[k]]]
           /\ todo' = [todo EXCEPT ![c] = @ \ {k}]
    BY DEF readShard
  <1>2. /\ TypeOK /\ KeyOf[c] \in Keys /\ k \in Keys /\ flushMu = c /\ CallInv(c) /\ FlushInv(c)
        /\ shards[k] # None /\ shards[k] \in Shards /\ AcknowledgedIsDurable
    <2>1. TypeOK /\ KeyOf[c] \in Keys /\ CallInv(c) /\ FlushInv(c) /\ AcknowledgedIsDurable
      BY CallsAssumption DEF FileInv
    <2>2. k \in Keys /\ flushMu = c /\ shards[k] # None
      BY <1>1, <2>1 DEF FlushInv, TypeOK
    <2>. QED
      BY <2>1, <2>2 DEF TypeOK
  <1>3. UNCHANGED <<shards, learned, frozen, pc, at, flushMu, file, returned, up>>
    BY DEF readShard, memory, counters
  <1>4. /\ snap' \in [Calls -> [Keys -> SUBSET Calls]] /\ todo' \in [Calls -> SUBSET Keys]
        /\ snap'[c][k] = learned[shards[k]] /\ todo'[c] = todo[c] \ {k}
        /\ \A l \in Keys \ {k} : snap'[c][l] = snap[c][l]
        /\ \A d \in Calls \ {c} : snap'[d] = snap[d] /\ todo'[d] = todo[d]
    BY <1>1, <1>2 DEF TypeOK
  <1>5. Grows
    BY <1>3 DEF Grows, Held
  <1>6. TypeOK'
    BY <1>2, <1>3, <1>4 DEF TypeOK
  <1>7. CallInv(c)' /\ FlushInv(c)'
    <2>1. CallInv(c)'
      BY <1>2, <1>3 DEF CallInv, Held
    <2>2. Held(k)' = snap'[c][k] /\ file[k] \subseteq snap'[c][k]
      BY <1>2, <1>3, <1>4 DEF Held, AcknowledgedIsDurable
    <2>3. \A l \in Keys : snap'[c][l] \subseteq Held(l)'
      BY <1>2, <1>3, <1>4, <2>2 DEF FlushInv, Held
    <2>4. \A l \in Keys \ todo'[c] : file[l] \subseteq snap'[c][l]
      BY <1>2, <1>4, <2>2 DEF FlushInv
    <2>5. pc[c] = "flush" /\ KeyOf[c] \notin todo'[c] => c \in snap'[c][KeyOf[c]]
      <3>1. CASE KeyOf[c] = k
        BY <1>2, <1>4, <3>1 DEF CallInv, Held
      <3>2. CASE KeyOf[c] # k
        BY <1>2, <1>4, <3>2 DEF FlushInv
      <3>. QED
        BY <3>1, <3>2
    <2>6. FlushInv(c)'
      BY <1>2, <1>3, <1>4, <2>3, <2>4, <2>5 DEF FlushInv
    <2>. QED
      BY <2>1, <2>6
  <1>8. \A d \in Calls \ {c} : CallInv(d)' /\ FlushInv(d)'
    BY <1>2, <1>3, <1>4, <1>5, OthersKeep
  <1>9. ObjectInv'
    BY <1>3 DEF FileInv, ObjectInv, Used
  <1>10. AcknowledgedIsDurable'
    BY <1>3, <1>5, DurableKeeps
  <1>. QED
    BY <1>6, <1>7, <1>8, <1>9, <1>10 DEF FileInv

\* A flush ends, with the rename or without it: the new file covers the old one
\* and, of a call that returns success, the call itself.
LEMMA EndStep ==
  ASSUME FileInv, up, NEW c \in Calls, writeFileSnapshotAtomic(c) \/ writeFails(c)
  PROVE  FileInv'
  <1>1. /\ TypeOK /\ KeyOf[c] \in Keys /\ CallInv(c) /\ FlushInv(c) /\ AcknowledgedIsDurable
        /\ pc[c] \in {"flush", "flushOnly"} /\ todo[c] = {} /\ flushMu = c /\ c # None
    BY CallsAssumption DEF FileInv, FlushInv, writeFileSnapshotAtomic, writeFails, Read
  <1>2. /\ flushMu' = None /\ snap' = [snap EXCEPT ![c] = Nothing]
        /\ UNCHANGED <<shards, learned, frozen, at, todo, up>>
        /\ \/ /\ pc' = [pc EXCEPT ![c] = "done"] /\ file' = snap[c]
              /\ returned' = IF pc[c] = "flush" THEN returned \cup {c} ELSE returned
           \/ pc' = [pc EXCEPT ![c] = "failed"] /\ UNCHANGED <<file, returned>>
    BY DEF writeFileSnapshotAtomic, writeFails, memory, counters
  <1>3. /\ snap' \in [Calls -> [Keys -> SUBSET Calls]] /\ pc' \in [Calls -> Labels]
        /\ snap'[c] = Nothing /\ pc'[c] \in {"done", "failed"}
        /\ \A d \in Calls \ {c} : snap'[d] = snap[d] /\ pc'[d] = pc[d]
        /\ file' \in [Keys -> SUBSET Calls] /\ returned' \in SUBSET Calls
    <2>1. Nothing \in [Keys -> SUBSET Calls]
      BY DEF Nothing
    <2>2. /\ snap' \in [Calls -> [Keys -> SUBSET Calls]] /\ snap'[c] = Nothing
          /\ \A d \in Calls \ {c} : snap'[d] = snap[d]
      BY <1>1, <1>2, <2>1 DEF TypeOK
    <2>3. /\ pc' \in [Calls -> Labels] /\ pc'[c] \in {"done", "failed"}
          /\ \A d \in Calls \ {c} : pc'[d] = pc[d]
      BY <1>1, <1>2 DEF TypeOK, Labels
    <2>4. file' \in [Keys -> SUBSET Calls] /\ returned' \in SUBSET Calls
      BY <1>1, <1>2 DEF TypeOK
    <2>. QED
      BY <2>2, <2>3, <2>4
  <1>4. Grows
    BY <1>2 DEF Grows, Held
  <1>5. TypeOK'
    BY <1>1, <1>2, <1>3 DEF TypeOK
  <1>6. CallInv(c)' /\ FlushInv(c)'
    <2>1. CallInv(c)'
      BY <1>1, <1>2, <1>3 DEF CallInv
    <2>2. FlushInv(c)'
      BY <1>1, <1>2, <1>3 DEF FlushInv, Nothing
    <2>. QED
      BY <2>1, <2>2
  <1>7. \A d \in Calls \ {c} : CallInv(d)' /\ FlushInv(d)'
    BY <1>1, <1>2, <1>3, <1>4, OthersKeep, CallsAssumption
  <1>8. ObjectInv'
    BY <1>1, <1>2, <1>3 DEF FileInv, ObjectInv, Used
  <1>9. AcknowledgedIsDurable'
    <2>1. CASE UNCHANGED <<file, returned>>
      BY <1>2, <1>4, <2>1, DurableKeeps
    <2>2. CASE /\ file' = snap[c]
               /\ returned' = IF pc[c] = "flush" THEN returned \cup {c} ELSE returned
      <3>1. \A k \in Keys : file[k] \subseteq file'[k] /\ file'[k] \subseteq Held(k)
        BY <1>1, <2>2 DEF FlushInv
      <3>2. \A d \in returned : d \in Calls /\ KeyOf[d] \in Keys
        BY <1>1, CallsAssumption DEF TypeOK
      <3>3. pc[c] = "flush" => c \in file'[KeyOf[c]]
        BY <1>1, <2>2 DEF FlushInv
      <3>. QED
        BY <1>1, <1>2, <2>2, <3>1, <3>2, <3>3 DEF AcknowledgedIsDurable, Held
    <2>. QED
      BY <1>2, <2>1, <2>2
  <1>. QED
    BY <1>5, <1>6, <1>7, <1>8, <1>9 DEF FileInv

\* Freezing and unfreezing: a key not seen yet is given an empty shard.
LEMMA FreezeStep ==
  ASSUME FileInv, NEW k \in Keys, Freeze(k) \/ Unfreeze(k)
  PROVE  FileInv'
  <1>1. TypeOK /\ up
    BY DEF FileInv, Freeze, Unfreeze
  <1>2. UNCHANGED <<learned, pc, at, flushMu, todo, snap, file, returned, up>>
    BY DEF Freeze, Unfreeze, flushing, counters
  <1>3. /\ Grows /\ shards' \in [Keys -> Shards \cup {None}] /\ frozen' \in [Shards -> BOOLEAN]
        /\ \A i \in Shards : i \in Used => i \in Used'
        /\ \A i \in Shards : frozen'[i] => frozen[i] \/ i \in Used'
    <2>1. CASE Unfreeze(k)
      <3>1. shards[k] \in Shards
        BY <1>1, <2>1 DEF Unfreeze, TypeOK
      <3>2. frozen' = [frozen EXCEPT ![shards[k]] = FALSE] /\ UNCHANGED shards
        BY <2>1 DEF Unfreeze
      <3>. QED
        BY <1>1, <1>2, <3>1, <3>2 DEF Grows, Held, Used, TypeOK
    <2>2. CASE Freeze(k)
      <3> DEFINE s == IF shards[k] = None THEN CHOOSE s \in Fresh : TRUE ELSE shards[k]
      <3>1. s \in Shards /\ ((shards[k] = None /\ learned[s] = {}) \/ shards[k] = s)
        BY <1>1, FreshShard DEF TypeOK
      <3>2. shards' = [shards EXCEPT ![k] = s] /\ frozen' = [frozen EXCEPT ![s] = TRUE]
        BY <2>2 DEF Freeze
      <3> HIDE DEF s
      <3>3. /\ Grows /\ shards' \in [Keys -> Shards \cup {None}]
            /\ \A i \in Shards : i \in Used \/ i = s => i \in Used'
        BY <1>2, <3>1, <3>2, CreateGrows
      <3>. QED
        BY <1>1, <3>1, <3>2, <3>3 DEF TypeOK
    <2>. QED
      BY <2>1, <2>2
  <1>4. TypeOK'
    BY <1>1, <1>2, <1>3 DEF TypeOK
  <1>5. \A d \in Calls : CallInv(d)' /\ FlushInv(d)'
    BY <1>2, <1>3, OthersKeep
  <1>6. ObjectInv'
    BY <1>1, <1>2, <1>3 DEF FileInv, ObjectInv
  <1>7. AcknowledgedIsDurable'
    BY <1>2, <1>3, DurableKeeps
  <1>. QED
    BY <1>4, <1>5, <1>6, <1>7 DEF FileInv

\* The process dies, and with it everything but the file.
LEMMA CrashStep == ASSUME FileInv, Crash PROVE FileInv'
  <1>1. /\ TypeOK /\ up' = FALSE /\ UNCHANGED <<file, returned>> /\ flushMu' = None
        /\ shards' = [k \in Keys |-> None] /\ learned' = [s \in Shards |-> {}]
        /\ frozen' = [s \in Shards |-> FALSE] /\ at' = [c \in Calls |-> None]
        /\ todo' = [c \in Calls |-> {}] /\ snap' = [c \in Calls |-> Nothing]
    BY DEF FileInv, Crash
  <1>2. pc' \in [Calls -> {"start", "done", "failed"}]
    BY DEF Crash
  <1>3. TypeOK'
    BY <1>1, <1>2 DEF TypeOK, Labels, Nothing
  <1>4. ASSUME NEW c \in Calls PROVE CallInv(c)' /\ FlushInv(c)'
    <2>1. /\ at'[c] = None /\ todo'[c] = {} /\ snap'[c] = Nothing /\ c # None
          /\ pc'[c] \in {"start", "done", "failed"}
      BY <1>1, <1>2, CallsAssumption
    <2>. QED
      BY <1>1, <2>1 DEF CallInv, FlushInv, Nothing
  <1>5. ObjectInv' /\ AcknowledgedIsDurable'
    BY <1>1, <1>2 DEF FileInv, ObjectInv, AcknowledgedIsDurable
  <1>. QED
    BY <1>3, <1>4, <1>5 DEF FileInv

\* The process is back: every baseline of the file is in memory again.
LEMMA RestoreStep == ASSUME FileInv, NewFileStore PROVE FileInv'
  <1> DEFINE held == loadFileSnapshot
             new  == CHOOSE f \in [held -> Shards] : \A k, l \in held : k # l => f[k] # f[l]
  <1>1. new \in [held -> Shards]
    <2>1. PICK f \in [Keys -> Shards] : \A i, j \in Keys : i # j => f[i] # f[j]
      BY ShardsAssumption
    <2>2. held \subseteq Keys
      BY DEF loadFileSnapshot
    <2> DEFINE g == [k \in held |-> f[k]]
    <2>3. g \in [held -> Shards] /\ \A k, l \in held : k # l => g[k] # g[l]
      BY <2>1, <2>2
    <2>. QED
      BY <2>3
  <1>2. /\ TypeOK /\ ~up /\ up' = TRUE
        /\ shards' = [k \in Keys |-> IF k \in held THEN new[k] ELSE None]
        /\ learned' = [s \in Shards |-> UNION {file[k] : k \in {k \in held : new[k] = s}}]
        /\ UNCHANGED <<frozen, pc, at, flushMu, todo, snap, file, returned>>
    BY DEF FileInv, NewFileStore, flushing
  <1>3. held = {k \in Keys : file[k] # {}}
    BY DEF loadFileSnapshot
  <1> HIDE DEF held, new
  <1>4. /\ shards' \in [Keys -> Shards \cup {None}] /\ learned' \in [Shards -> SUBSET Calls]
    BY <1>1, <1>2, <1>3 DEF TypeOK
  <1>5. TypeOK'
    BY <1>2, <1>4 DEF TypeOK
  <1>6. ASSUME NEW c \in Calls PROVE CallInv(c)' /\ FlushInv(c)'
    <2>1. /\ pc[c] \in {"start", "done", "failed"} /\ CallInv(c) /\ FlushInv(c) /\ KeyOf[c] \in Keys
          /\ \A k \in Keys : shards[k] = None
      BY <1>2, CallsAssumption DEF FileInv, ObjectInv
    <2>2. at[c] = None /\ flushMu # c /\ todo[c] = {} /\ snap[c] = Nothing
      BY <2>1 DEF CallInv, FlushInv
    <2>. QED
      BY <1>2, <2>1, <2>2 DEF CallInv, FlushInv, Nothing
  <1>7. ObjectInv'
    <2>1. ASSUME NEW s \in Shards, learned'[s] # {} PROVE s \in Used'
      <3>1. PICK k \in held : new[k] = s
        BY <1>2, <2>1
      <3>2. k \in Keys /\ shards'[k] = s /\ s # None
        BY <1>2, <1>3, <3>1, CallsAssumption
      <3>. QED
        BY <3>2 DEF Used
    <2>2. \A s \in Shards : ~frozen[s]
      BY <1>2 DEF FileInv, ObjectInv, Used
    <2>. QED
      BY <1>2, <2>1, <2>2 DEF ObjectInv
  <1>8. AcknowledgedIsDurable'
    <2>1. ASSUME NEW k \in Keys, k \in held
          PROVE  shards'[k] # None /\ file[k] \subseteq learned'[shards'[k]]
      BY <1>1, <1>2, <2>1, CallsAssumption
    <2>. QED
      BY <1>2, <1>3, <2>1 DEF FileInv, AcknowledgedIsDurable
  <1>. QED
    BY <1>5, <1>6, <1>7, <1>8 DEF FileInv

-----------------------------------------------------------------------------

\* The file store starts with no shard, no call under way and an empty file.
LEMMA FileInit == Init => FileInv
  <1> SUFFICES ASSUME Init PROVE FileInv
    OBVIOUS
  <1>1. TypeOK
    BY DEF Init, TypeOK, Labels, Nothing
  <1>2. ASSUME NEW c \in Calls PROVE CallInv(c) /\ FlushInv(c)
    <2>1. at[c] = None /\ pc[c] = "start" /\ flushMu # c /\ todo[c] = {} /\ snap[c] = Nothing
      BY CallsAssumption DEF Init
    <2>. QED
      BY <2>1 DEF CallInv, FlushInv, Nothing
  <1>3. ObjectInv /\ AcknowledgedIsDurable
    BY DEF Init, ObjectInv, AcknowledgedIsDurable, Nothing
  <1>. QED
    BY <1>1, <1>2, <1>3 DEF FileInv

\* Every step of the file store keeps the invariant.
LEMMA FileStep == ASSUME FileInv, [Next]_vars PROVE FileInv'
  <1>1. CASE UNCHANGED vars
    BY <1>1 DEF vars, FileInv, TypeOK, CallInv, FlushInv, ObjectInv, AcknowledgedIsDurable, Held,
       Used
  <1>2. ASSUME NEW c \in Calls, Step(c) PROVE FileInv'
    BY <1>2, PointStep, ObserveStep, BeginStep, ReadStep, EndStep DEF Step
  <1>. QED
    BY <1>1, <1>2, FreezeStep, CrashStep, RestoreStep DEF Next

\* The invariant of the file store: a flush holds flushMu from its first read to
\* its rename, and what it is about to write covers what the file already has.
THEOREM FileInvariant == Spec => []FileInv
  <1>1. FileInv /\ [Next]_vars => FileInv'
    BY FileStep
  <1>. QED
    BY FileInit, <1>1, PTL DEF Spec

\* FileStore's durability guarantee, whatever calls interleave, however often
\* the process dies and whichever writes fail: an Observe that returned success
\* is in the file, and everything in the file is in memory.
THEOREM FileIsDurable == Spec => []AcknowledgedIsDurable
  <1>1. FileInv => AcknowledgedIsDurable
    BY DEF FileInv
  <1>. QED
    BY <1>1, FileInvariant, PTL

-----------------------------------------------------------------------------
(* What is promised of any store. *)

\* No two keys share a shard, so a baseline holds calls of its own key alone,
\* in memory and in the file.
Own(k) == {c \in Calls : KeyOf[c] = k}
KeyInv ==
    /\ \A k, l \in Keys : shards[k] # None /\ shards[k] = shards[l] => k = l
    /\ \A k \in Keys : Held(k) \subseteq Own(k) /\ file[k] \subseteq Own(k)

\* A key is given a shard that no other key has.
LEMMA NewShard ==
  ASSUME FileInv, KeyInv, NEW k \in Keys, NEW s, learned' = learned, file' = file,
         shards' = [shards EXCEPT ![k] = s],
         \/ shards[k] = s
         \/ shards[k] = None /\ s = CHOOSE x \in Fresh : TRUE
  PROVE  KeyInv'
  <1>1. /\ shards'[k] = s /\ \A l \in Keys \ {k} : shards'[l] = shards[l]
    BY DEF FileInv, TypeOK
  <1>2. CASE shards[k] = s
    <2>1. \A l \in Keys : shards'[l] = shards[l]
      BY <1>1, <1>2
    <2>2. \A l \in Keys : Held(l)' = Held(l)
      BY <2>1 DEF Held
    <2>. QED
      BY <2>1, <2>2 DEF KeyInv
  <1>3. CASE shards[k] = None /\ s = CHOOSE x \in Fresh : TRUE
    <2>1. s \in Fresh
      BY <1>3, FreshExists
    <2>2. s \notin Used /\ learned[s] = {} /\ s # None
      BY <2>1, CallsAssumption DEF Fresh
    <2>3. \A l \in Keys : shards[l] # s
      BY <2>2 DEF Used
    <2>4. \A l \in Keys : Held(l)' \subseteq Own(l)
      BY <1>1, <2>2 DEF Held, KeyInv
    <2>5. \A i, j \in Keys : shards'[i] # None /\ shards'[i] = shards'[j] => i = j
      BY <1>1, <2>3 DEF KeyInv
    <2>. QED
      BY <2>4, <2>5 DEF KeyInv
  <1>. QED
    BY <1>2, <1>3

\* Every step of the file store keeps a key's calls to itself.
LEMMA KeyStep == ASSUME FileInv, KeyInv, [Next]_vars PROVE KeyInv'
  <1>1. ASSUME UNCHANGED <<shards, learned, file>> PROVE KeyInv'
    BY <1>1 DEF KeyInv, Held
  <1>2. CASE UNCHANGED vars
    BY <1>1, <1>2 DEF vars
  <1>3. ASSUME NEW c \in Calls, lookup(c) \/ beginFlush(c) \/ readShard(c) \/ writeFails(c)
        PROVE  KeyInv'
    BY <1>1, <1>3 DEF lookup, beginFlush, readShard, writeFails, memory
  <1>4. ASSUME NEW c \in Calls, getOrCreate(c) PROVE KeyInv'
    <2>1. KeyOf[c] \in Keys /\ UNCHANGED <<learned, file>>
      BY <1>4, CallsAssumption DEF getOrCreate
    <2>2. CASE UNCHANGED shards
      BY <1>1, <2>1, <2>2
    <2>3. CASE shards[KeyOf[c]] = None /\ ~UNCHANGED shards
      <3>1. shards' = [shards EXCEPT ![KeyOf[c]] = CHOOSE s \in Fresh : TRUE]
        BY <1>4, <2>3 DEF getOrCreate
      <3>. QED
        BY <2>1, <2>3, <3>1, NewShard
    <2>. QED
      BY <1>4, <2>2, <2>3 DEF getOrCreate
  <1>5. ASSUME NEW c \in Calls, InMemoryObserve(c) PROVE KeyInv'
    <2> DEFINE s == shards[KeyOf[c]]
    <2>1. /\ at[c] = s /\ s \in Shards /\ s # None /\ KeyOf[c] \in Keys
          /\ UNCHANGED <<shards, file>> /\ learned \in [Shards -> SUBSET Calls]
      <3>1. CallInv(c) /\ KeyOf[c] \in Keys /\ TypeOK /\ pc[c] = "observe"
        BY <1>5, CallsAssumption DEF FileInv, InMemoryObserve
      <3>2. at[c] # None /\ at[c] = s
        BY <3>1 DEF CallInv
      <3>. QED
        BY <1>5, <3>1, <3>2 DEF InMemoryObserve, TypeOK
    <2>2. \A i \in Shards : learned'[i] = learned[i] \/ (i = s /\ learned'[i] = learned[i] \cup {c})
      BY <1>5, <2>1 DEF InMemoryObserve
    <2> HIDE DEF s
    <2>3. ASSUME NEW k \in Keys PROVE Held(k)' \subseteq Own(k)
      <3>1. Held(k) \subseteq Own(k) /\ shards'[k] = shards[k] /\ shards[k] \in Shards \cup {None}
        BY <2>1 DEF KeyInv, FileInv, TypeOK
      <3>2. CASE shards[k] # s \/ shards[k] = None
        BY <2>1, <2>2, <3>1, <3>2 DEF Held
      <3>3. CASE shards[k] = s /\ shards[k] # None
        <4>1. k = KeyOf[c]
          BY <2>1, <3>3 DEF KeyInv, s
        <4>. QED
          BY <2>1, <2>2, <3>1, <3>3, <4>1 DEF Held, Own
      <3>. QED
        BY <3>2, <3>3
    <2>. QED
      BY <2>1, <2>3 DEF KeyInv
  <1>6. ASSUME NEW c \in Calls, writeFileSnapshotAtomic(c) PROVE KeyInv'
    <2>1. UNCHANGED <<shards, learned>> /\ file' = snap[c] /\ FlushInv(c)
      BY <1>6 DEF writeFileSnapshotAtomic, memory, FileInv
    <2>2. \A k \in Keys : file'[k] \subseteq Held(k)
      BY <2>1 DEF FlushInv
    <2>. QED
      BY <2>1, <2>2 DEF KeyInv, Held
  <1>7. ASSUME NEW k \in Keys, Freeze(k) PROVE KeyInv'
    <2> DEFINE s == IF shards[k] = None THEN CHOOSE x \in Fresh : TRUE ELSE shards[k]
    <2>1. shards' = [shards EXCEPT ![k] = s] /\ UNCHANGED <<learned, file>>
      BY <1>7 DEF Freeze
    <2>. QED
      BY <2>1, NewShard
  <1>8. ASSUME NEW k \in Keys, Unfreeze(k) PROVE KeyInv'
    BY <1>1, <1>8 DEF Unfreeze
  <1>9. CASE Crash
    <2>1. /\ \A k \in Keys : shards'[k] = None
          /\ file' = file
      BY <1>9 DEF Crash
    <2>. QED
      BY <2>1 DEF KeyInv, Held
  <1>10. CASE NewFileStore
    <2> DEFINE held == loadFileSnapshot
               new  == CHOOSE f \in [held -> Shards] : \A k, l \in held : k # l => f[k] # f[l]
    <2>1. new \in [held -> Shards] /\ \A k, l \in held : k # l => new[k] # new[l]
      <3>1. PICK f \in [Keys -> Shards] : \A i, j \in Keys : i # j => f[i] # f[j]
        BY ShardsAssumption
      <3>2. held \subseteq Keys
        BY DEF loadFileSnapshot
      <3> DEFINE g == [k \in held |-> f[k]]
      <3>3. g \in [held -> Shards] /\ \A k, l \in held : k # l => g[k] # g[l]
        BY <3>1, <3>2
      <3>. QED
        BY <3>3
    <2>2. /\ shards' = [k \in Keys |-> IF k \in held THEN new[k] ELSE None]
          /\ learned' = [s \in Shards |-> UNION {file[k] : k \in {k \in held : new[k] = s}}]
          /\ file' = file
      BY <1>10 DEF NewFileStore
    <2> HIDE DEF held, new
    <2>3. \A k, l \in Keys : shards'[k] # None /\ shards'[k] = shards'[l] => k = l
      BY <2>1, <2>2
    <2>4. ASSUME NEW k \in Keys, k \in held PROVE learned'[shards'[k]] = file[k]
      <3>1. shards'[k] = new[k] /\ new[k] \in Shards
        BY <2>1, <2>2, <2>4
      <3>2. {j \in held : new[j] = new[k]} = {k}
        BY <2>1, <2>4
      <3>3. learned'[new[k]] = UNION {file[j] : j \in {k}}
        BY <2>2, <3>1, <3>2
      <3>. QED
        BY <3>1, <3>3
    <2>5. \A k \in Keys : Held(k)' \subseteq file[k]
      BY <2>2, <2>4 DEF Held
    <2>. QED
      BY <2>2, <2>3, <2>5 DEF KeyInv
  <1>. QED
    BY <1>2, <1>3, <1>4, <1>5, <1>6, <1>7, <1>8, <1>9, <1>10 DEF Next, Step

\* Only the rename changes the file or answers a call: it keeps what the file
\* had, and has the call it answers.
LEMMA StoreSteps == ASSUME FileInv, KeyInv, [Next]_vars PROVE [Store!Save]_(Store!svars)
  <1>1. FileInv' /\ KeyInv'
    BY FileStep, KeyStep
  <1>2. ASSUME UNCHANGED <<file, returned>> PROVE UNCHANGED Store!svars
    BY <1>2 DEF Store!svars
  <1>3. ASSUME NEW c \in Calls, writeFileSnapshotAtomic(c) PROVE Store!Save
    <2>1. /\ file' = snap[c] /\ todo[c] = {} /\ pc[c] \in {"flush", "flushOnly"} /\ FlushInv(c)
          /\ returned' = IF pc[c] = "flush" THEN returned \cup {c} ELSE returned
      BY <1>3 DEF writeFileSnapshotAtomic, Read, FileInv
    <2>2. \A k \in Keys : file[k] \subseteq file'[k]
      BY <2>1 DEF FlushInv
    <2>3. pc[c] = "flush" => c \in file'[KeyOf[c]]
      BY <2>1 DEF FlushInv
    <2>4. file' \in [Keys -> SUBSET Calls] /\ \A k \in Keys : \A d \in file'[k] : KeyOf[d] = k
      BY <1>1 DEF FileInv, TypeOK, KeyInv, Own
    <2>. QED
      BY <2>1, <2>2, <2>3, <2>4 DEF Store!Save
  <1>4. ASSUME NEW c \in Calls, Step(c), ~writeFileSnapshotAtomic(c) PROVE UNCHANGED <<file, returned>>
    BY <1>4 DEF Step, lookup, getOrCreate, InMemoryObserve, beginFlush, readShard, writeFails
  <1>5. ASSUME NEW k \in Keys, Freeze(k) \/ Unfreeze(k) PROVE UNCHANGED <<file, returned>>
    BY <1>5 DEF Freeze, Unfreeze
  <1>6. CASE Crash \/ NewFileStore \/ UNCHANGED vars
    <2>1. UNCHANGED <<file, returned>>
      BY <1>6 DEF Crash, NewFileStore, vars
    <2>. QED
      BY <1>2, <2>1
  <1>. QED
    BY <1>2, <1>3, <1>4, <1>5, <1>6 DEF Next

\* A key's baseline is made of its own calls alone: two keys never share a shard
\* (getOrCreate, restore).
THEOREM KeysApart == Spec => []KeyInv
  <1>1. Init => KeyInv
    BY DEF Init, KeyInv, Held, Nothing
  <1>2. FileInv /\ KeyInv /\ [Next]_vars => KeyInv'
    BY KeyStep
  <1>. QED
    BY <1>1, <1>2, FileInvariant, PTL DEF Spec

\* The file store implements LearnedStore, whatever calls interleave and however
\* often the process dies (FileStore.Observe, NewFileStore).
THEOREM FileIsAStore == Spec => ImplementsStore
  <1>1. Init => Store!SInit
    BY DEF Init, Store!SInit, Nothing
  <1>2. FileInv /\ KeyInv /\ [Next]_vars => [Store!Save]_(Store!svars)
    BY StoreSteps
  <1>. QED
    BY <1>1, <1>2, FileInvariant, KeysApart, PTL DEF Spec, ImplementsStore, Store!SSpec

(***************************************************************************)
(* The local runtime, for any processes of one state directory and any     *)
(* ports, starting, stopping and dying at any moment.                      *)
(***************************************************************************)

LocalSteps == {"idle", "probe", "dial", "open", "bind", "publish", "serving", "stop", "drain",
               "join", "compare", "remove", "done", "killed"}

LocalTypes ==
    /\ localPc \in [LocalProcs -> LocalSteps]
    /\ port \in [LocalProcs -> LocalPorts \cup {"none"}]
    /\ bound \in [LocalProcs -> BOOLEAN]
    /\ store \in [LocalProcs -> {"none", "open", "closed"}]
    /\ bus \in [LocalProcs -> {"none", "open", "closed"}]
    /\ requests \in [LocalProcs -> BOOLEAN]
    /\ streams \in [LocalProcs -> BOOLEAN]
    /\ timedOut \in [LocalProcs -> BOOLEAN]
    /\ discovery \in [url : LocalPorts \cup {"none", "junk", "foreign"},
                      by : LocalProcs \cup {"nobody"}]
    /\ seen \in [LocalProcs -> LocalPorts \cup {"none"}]
    /\ raced \in [LocalProcs -> BOOLEAN]

\* Two listeners have two ports. While x serves unchallenged nobody else is
\* about to publish or to remove; who dials, dials x; and who stops has another
\* port, so it will leave the file alone.
Unchallenged(x) == localPc[x] = "serving" /\ ~raced[x]
Apart(x, y) ==
    x # y =>
        /\ bound[x] /\ bound[y] => port[x] # port[y]
        /\ Unchallenged(x) =>
            /\ localPc[y] \notin {"open", "bind", "publish", "remove"}
            /\ localPc[y] = "dial" => seen[y] = port[x]
            /\ localPc[y] \in {"stop", "drain", "join", "compare"} => port[y] # port[x]

\* What a process has open, and what the discovery file can say of it, at each step.
NotOpened(x) == store[x] = "none" /\ bus[x] = "none"
Opened(x) == store[x] = "open" /\ bus[x] = "open"
Drained(x) == requests[x] \/ streams[x] => timedOut[x]
StepInv(x) ==
    /\ localPc[x] \in {"idle", "probe", "dial", "open"} => NotOpened(x)
    /\ localPc[x] \in {"bind", "publish", "serving", "stop"} => Opened(x)
    /\ localPc[x] \in {"drain", "join"} => store[x] = "open" /\ bus[x] = "closed"
    /\ localPc[x] \in {"compare", "remove", "killed"} => store[x] = "closed" /\ bus[x] = "closed"
    /\ localPc[x] = "done" => store[x] # "open" /\ bus[x] # "open"
    /\ localPc[x] \in {"publish", "serving"} => bound[x]
    /\ localPc[x] \notin {"publish", "serving", "stop"} => ~bound[x]
    /\ localPc[x] \in {"publish", "serving", "stop", "drain", "join", "compare", "remove"}
         => port[x] \in LocalPorts
    /\ localPc[x] \in {"idle", "probe", "dial", "open", "bind", "publish", "done"}
         => discovery.by # x
    /\ Unchallenged(x) => discovery = [url |-> port[x], by |-> x]
    /\ localPc[x] # "killed" /\ discovery.by = x => discovery.url = port[x]
    /\ localPc[x] \in {"idle", "probe", "dial", "open", "bind"} => ~requests[x] /\ ~streams[x]
    /\ timedOut[x] => bus[x] = "closed"
    /\ localPc[x] \in {"join", "compare", "remove", "done", "killed"} => Drained(x)

RuntimeInv ==
    /\ LocalTypes
    /\ \A x, y \in LocalProcs : Apart(x, y)
    /\ \A x \in LocalProcs : StepInv(x)

\* A process begins, or refuses its flags.
LEMMA LocalStart ==
  ASSUME Local!NamesAssumption, RuntimeInv, NEW p \in LocalProcs, Local!Start(p)
  PROVE  RuntimeInv'
  <1>1. LocalTypes'
    BY DEF Local!Start, Local!Goto, Local!listener, Local!handlers, Local!looks,
           RuntimeInv, LocalTypes, LocalSteps, Local!NamesAssumption, Local!Foreign
  <1>2. ASSUME NEW x \in LocalProcs, NEW y \in LocalProcs PROVE Apart(x, y)'
    BY DEF Local!Start, Local!Goto, Local!listener, Local!handlers, Local!looks,
           RuntimeInv, LocalTypes, LocalSteps, Apart, Unchallenged, StepInv,
           Local!NamesAssumption, Local!Foreign
  <1>3. ASSUME NEW x \in LocalProcs PROVE StepInv(x)'
    BY DEF Local!Start, Local!Goto, Local!listener, Local!handlers, Local!looks,
           RuntimeInv, LocalTypes, LocalSteps, Apart, Unchallenged, StepInv, NotOpened,
           Opened, Drained, Local!NamesAssumption, Local!Foreign
  <1>. QED
    BY <1>1, <1>2, <1>3 DEF RuntimeInv

\* What the file names is dialled: who serves unchallenged is in it and listens.
LEMMA LocalRefuseIfRuntimeIsLive ==
  ASSUME Local!NamesAssumption, RuntimeInv, NEW p \in LocalProcs, Local!refuseIfRuntimeIsLive(p)
  PROVE  RuntimeInv'
  <1>1. LocalTypes'
    BY DEF Local!refuseIfRuntimeIsLive, Local!Goto, Local!ReadDiscovery,
           Local!Listening, Local!Foreign, Local!listener, Local!handlers, RuntimeInv,
           LocalTypes, LocalSteps, Local!NamesAssumption
  <1>2. ASSUME NEW x \in LocalProcs, NEW y \in LocalProcs PROVE Apart(x, y)'
    BY DEF Local!refuseIfRuntimeIsLive, Local!Goto, Local!ReadDiscovery,
           Local!Listening, Local!Foreign, Local!listener, Local!handlers, RuntimeInv,
           LocalTypes, LocalSteps, Apart, Unchallenged, StepInv, Local!NamesAssumption
  <1>3. ASSUME NEW x \in LocalProcs PROVE StepInv(x)'
    BY DEF Local!refuseIfRuntimeIsLive, Local!Goto, Local!ReadDiscovery,
           Local!Listening, Local!Foreign, Local!listener, Local!handlers, RuntimeInv,
           LocalTypes, LocalSteps, Apart, Unchallenged, StepInv, NotOpened, Opened, Drained,
           Local!NamesAssumption
  <1>. QED
    BY <1>1, <1>2, <1>3 DEF RuntimeInv

\* The store and the bus are opened, or the process ends.
LEMMA LocalOpenBackend ==
  ASSUME Local!NamesAssumption, RuntimeInv, NEW p \in LocalProcs, Local!openBackend(p)
  PROVE  RuntimeInv'
  <1>1. LocalTypes'
    BY DEF Local!openBackend, Local!Goto, Local!listener, Local!handlers,
           Local!looks, RuntimeInv, LocalTypes, LocalSteps, Local!NamesAssumption,
           Local!Foreign
  <1>2. ASSUME NEW x \in LocalProcs, NEW y \in LocalProcs PROVE Apart(x, y)'
    BY DEF Local!openBackend, Local!Goto, Local!listener, Local!handlers,
           Local!looks, RuntimeInv, LocalTypes, LocalSteps, Apart, Unchallenged, StepInv,
           Local!NamesAssumption, Local!Foreign
  <1>3. ASSUME NEW x \in LocalProcs PROVE StepInv(x)'
    BY DEF Local!openBackend, Local!Goto, Local!listener, Local!handlers,
           Local!looks, RuntimeInv, LocalTypes, LocalSteps, Apart, Unchallenged, StepInv,
           NotOpened, Opened, Drained, Local!NamesAssumption, Local!Foreign
  <1>. QED
    BY <1>1, <1>2, <1>3 DEF RuntimeInv

\* What was opened is closed again.
LEMMA LocalCannotListen ==
  ASSUME Local!NamesAssumption, RuntimeInv, NEW p \in LocalProcs, Local!CannotListen(p)
  PROVE  RuntimeInv'
  <1>1. LocalTypes'
    BY DEF Local!CannotListen, Local!Goto, Local!listener, Local!handlers,
           Local!looks, RuntimeInv, LocalTypes, LocalSteps, Local!NamesAssumption,
           Local!Foreign
  <1>2. ASSUME NEW x \in LocalProcs, NEW y \in LocalProcs PROVE Apart(x, y)'
    BY DEF Local!CannotListen, Local!Goto, Local!listener, Local!handlers,
           Local!looks, RuntimeInv, LocalTypes, LocalSteps, Apart, Unchallenged, StepInv,
           Local!NamesAssumption, Local!Foreign
  <1>3. ASSUME NEW x \in LocalProcs PROVE StepInv(x)'
    BY DEF Local!CannotListen, Local!Goto, Local!listener, Local!handlers,
           Local!looks, RuntimeInv, LocalTypes, LocalSteps, Apart, Unchallenged, StepInv,
           NotOpened, Opened, Drained, Local!NamesAssumption, Local!Foreign
  <1>. QED
    BY <1>1, <1>2, <1>3 DEF RuntimeInv

\* A free port is bound.
LEMMA LocalListen ==
  ASSUME Local!NamesAssumption, RuntimeInv, NEW p \in LocalProcs, Local!Listen(p)
  PROVE  RuntimeInv'
  <1>1. LocalTypes'
    BY DEF Local!Listen, Local!Goto, Local!Listening, Local!handlers, Local!looks,
           RuntimeInv, LocalTypes, LocalSteps, Local!NamesAssumption, Local!Foreign
  <1>2. ASSUME NEW x \in LocalProcs, NEW y \in LocalProcs PROVE Apart(x, y)'
    BY DEF Local!Listen, Local!Goto, Local!Listening, Local!handlers, Local!looks,
           RuntimeInv, LocalTypes, LocalSteps, Apart, Unchallenged, StepInv,
           Local!NamesAssumption, Local!Foreign
  <1>3. ASSUME NEW x \in LocalProcs PROVE StepInv(x)'
    BY DEF Local!Listen, Local!Goto, Local!Listening, Local!handlers, Local!looks,
           RuntimeInv, LocalTypes, LocalSteps, Apart, Unchallenged, StepInv, NotOpened,
           Opened, Drained, Local!NamesAssumption, Local!Foreign
  <1>. QED
    BY <1>1, <1>2, <1>3 DEF RuntimeInv

\* The file names the runtime that now serves; it is unchallenged if it has no rival.
LEMMA LocalWriteDiscovery ==
  ASSUME Local!NamesAssumption, RuntimeInv, NEW p \in LocalProcs, Local!writeDiscovery(p)
  PROVE  RuntimeInv'
  <1>1. LocalTypes'
    <2>1. raced' \in [LocalProcs -> BOOLEAN]
      BY DEF Local!writeDiscovery, RuntimeInv, LocalTypes
    <2>. QED
      BY <2>1 DEF Local!writeDiscovery, Local!Goto, Local!listener, Local!handlers, RuntimeInv,
                  LocalTypes, LocalSteps, Local!NamesAssumption, Local!Foreign
  <1>2. ASSUME NEW x \in LocalProcs, NEW y \in LocalProcs PROVE Apart(x, y)'
    BY DEF Local!writeDiscovery, Local!Goto, Local!Rivals, Local!listener, Local!handlers,
           RuntimeInv, LocalTypes, LocalSteps, Apart, Unchallenged, StepInv,
           Local!NamesAssumption, Local!Foreign
  <1>3. ASSUME NEW x \in LocalProcs PROVE StepInv(x)'
    BY DEF Local!writeDiscovery, Local!Goto, Local!Rivals, Local!listener, Local!handlers,
           RuntimeInv, LocalTypes, LocalSteps, Apart, Unchallenged, StepInv, NotOpened,
           Opened, Drained, Local!NamesAssumption, Local!Foreign
  <1>. QED
    BY <1>1, <1>2, <1>3 DEF RuntimeInv

\* Handlers begin only behind an open listener.
LEMMA LocalArrive ==
  ASSUME Local!NamesAssumption, RuntimeInv, NEW p \in LocalProcs, Local!Arrive(p)
  PROVE  RuntimeInv'
  <1>1. LocalTypes'
    BY DEF Local!Arrive, Local!listener, Local!looks, RuntimeInv, LocalTypes, LocalSteps,
           Local!NamesAssumption, Local!Foreign
  <1>2. ASSUME NEW x \in LocalProcs, NEW y \in LocalProcs PROVE Apart(x, y)'
    BY DEF Local!Arrive, Local!listener, Local!looks, RuntimeInv, LocalTypes, LocalSteps,
           Apart, Unchallenged, StepInv, Local!NamesAssumption, Local!Foreign
  <1>3. ASSUME NEW x \in LocalProcs PROVE StepInv(x)'
    BY DEF Local!Arrive, Local!listener, Local!looks, RuntimeInv, LocalTypes, LocalSteps,
           Apart, Unchallenged, StepInv, NotOpened, Opened, Drained, Local!NamesAssumption,
           Local!Foreign
  <1>. QED
    BY <1>1, <1>2, <1>3 DEF RuntimeInv

\* A handler returns.
LEMMA LocalReturn ==
  ASSUME Local!NamesAssumption, RuntimeInv, NEW p \in LocalProcs, Local!Return(p)
  PROVE  RuntimeInv'
  <1>1. LocalTypes'
    BY DEF Local!Return, Local!listener, Local!looks, RuntimeInv, LocalTypes, LocalSteps,
           Local!NamesAssumption, Local!Foreign
  <1>2. ASSUME NEW x \in LocalProcs, NEW y \in LocalProcs PROVE Apart(x, y)'
    BY DEF Local!Return, Local!listener, Local!looks, RuntimeInv, LocalTypes, LocalSteps,
           Apart, Unchallenged, StepInv, Local!NamesAssumption, Local!Foreign
  <1>3. ASSUME NEW x \in LocalProcs PROVE StepInv(x)'
    BY DEF Local!Return, Local!listener, Local!looks, RuntimeInv, LocalTypes, LocalSteps,
           Apart, Unchallenged, StepInv, NotOpened, Opened, Drained, Local!NamesAssumption,
           Local!Foreign
  <1>. QED
    BY <1>1, <1>2, <1>3 DEF RuntimeInv

\* One that serves begins to stop, with a port that no other has bound.
LEMMA LocalInterrupted ==
  ASSUME Local!NamesAssumption, RuntimeInv, NEW p \in LocalProcs, Local!Interrupted(p)
  PROVE  RuntimeInv'
  <1>1. LocalTypes'
    BY DEF Local!Interrupted, Local!Goto, Local!handlers, Local!looks, RuntimeInv,
           LocalTypes, LocalSteps, Local!NamesAssumption, Local!Foreign
  <1>2. ASSUME NEW x \in LocalProcs, NEW y \in LocalProcs PROVE Apart(x, y)'
    BY DEF Local!Interrupted, Local!Goto, Local!handlers, Local!looks, RuntimeInv,
           LocalTypes, LocalSteps, Apart, Unchallenged, StepInv, Local!NamesAssumption,
           Local!Foreign
  <1>3. ASSUME NEW x \in LocalProcs PROVE StepInv(x)'
    BY DEF Local!Interrupted, Local!Goto, Local!handlers, Local!looks, RuntimeInv,
           LocalTypes, LocalSteps, Apart, Unchallenged, StepInv, NotOpened, Opened, Drained,
           Local!NamesAssumption, Local!Foreign
  <1>. QED
    BY <1>1, <1>2, <1>3 DEF RuntimeInv

\* The bus and the listener are closed.
LEMMA LocalCloseBus ==
  ASSUME Local!NamesAssumption, RuntimeInv, NEW p \in LocalProcs, Local!CloseBus(p)
  PROVE  RuntimeInv'
  <1>1. LocalTypes'
    BY DEF Local!CloseBus, Local!Goto, Local!handlers, Local!looks, RuntimeInv, LocalTypes,
           LocalSteps, Local!NamesAssumption, Local!Foreign
  <1>2. ASSUME NEW x \in LocalProcs, NEW y \in LocalProcs PROVE Apart(x, y)'
    BY DEF Local!CloseBus, Local!Goto, Local!handlers, Local!looks, RuntimeInv, LocalTypes,
           LocalSteps, Apart, Unchallenged, StepInv, Local!NamesAssumption, Local!Foreign
  <1>3. ASSUME NEW x \in LocalProcs PROVE StepInv(x)'
    BY DEF Local!CloseBus, Local!Goto, Local!handlers, Local!looks, RuntimeInv, LocalTypes,
           LocalSteps, Apart, Unchallenged, StepInv, NotOpened, Opened, Drained,
           Local!NamesAssumption, Local!Foreign
  <1>. QED
    BY <1>1, <1>2, <1>3 DEF RuntimeInv

\* Handlers have returned, or their time is up.
LEMMA LocalShutdown ==
  ASSUME Local!NamesAssumption, RuntimeInv, NEW p \in LocalProcs, Local!Shutdown(p)
  PROVE  RuntimeInv'
  <1>1. LocalTypes'
    BY DEF Local!Shutdown, Local!Goto, Local!listener, Local!handlers, Local!looks,
           RuntimeInv, LocalTypes, LocalSteps, Local!NamesAssumption, Local!Foreign
  <1>2. ASSUME NEW x \in LocalProcs, NEW y \in LocalProcs PROVE Apart(x, y)'
    BY DEF Local!Shutdown, Local!Goto, Local!listener, Local!handlers, Local!looks,
           RuntimeInv, LocalTypes, LocalSteps, Apart, Unchallenged, StepInv,
           Local!NamesAssumption, Local!Foreign
  <1>3. ASSUME NEW x \in LocalProcs PROVE StepInv(x)'
    BY DEF Local!Shutdown, Local!Goto, Local!listener, Local!handlers, Local!looks,
           RuntimeInv, LocalTypes, LocalSteps, Apart, Unchallenged, StepInv, NotOpened,
           Opened, Drained, Local!NamesAssumption, Local!Foreign
  <1>. QED
    BY <1>1, <1>2, <1>3 DEF RuntimeInv

\* The waiter sees the end of Serve.
LEMMA LocalWait ==
  ASSUME Local!NamesAssumption, RuntimeInv, NEW p \in LocalProcs, Local!Wait(p)
  PROVE  RuntimeInv'
  <1>1. LocalTypes'
    BY DEF Local!Wait, Local!serveDone, Local!listener, Local!handlers, Local!looks,
           RuntimeInv, LocalTypes, LocalSteps, Local!NamesAssumption, Local!Foreign
  <1>2. ASSUME NEW x \in LocalProcs, NEW y \in LocalProcs PROVE Apart(x, y)'
    BY DEF Local!Wait, Local!serveDone, Local!listener, Local!handlers, Local!looks,
           RuntimeInv, LocalTypes, LocalSteps, Apart, Unchallenged, StepInv,
           Local!NamesAssumption, Local!Foreign
  <1>3. ASSUME NEW x \in LocalProcs PROVE StepInv(x)'
    BY DEF Local!Wait, Local!serveDone, Local!listener, Local!handlers, Local!looks,
           RuntimeInv, LocalTypes, LocalSteps, Apart, Unchallenged, StepInv, NotOpened,
           Opened, Drained, Local!NamesAssumption, Local!Foreign
  <1>. QED
    BY <1>1, <1>2, <1>3 DEF RuntimeInv

\* The store is closed.
LEMMA LocalCloseStore ==
  ASSUME Local!NamesAssumption, RuntimeInv, NEW p \in LocalProcs, Local!CloseStore(p)
  PROVE  RuntimeInv'
  <1>1. LocalTypes'
    BY DEF Local!CloseStore, Local!Goto, Local!serveDone, Local!listener, Local!handlers,
           Local!looks, RuntimeInv, LocalTypes, LocalSteps, Local!NamesAssumption,
           Local!Foreign
  <1>2. ASSUME NEW x \in LocalProcs, NEW y \in LocalProcs PROVE Apart(x, y)'
    BY DEF Local!CloseStore, Local!Goto, Local!serveDone, Local!listener, Local!handlers,
           Local!looks, RuntimeInv, LocalTypes, LocalSteps, Apart, Unchallenged, StepInv,
           Local!NamesAssumption, Local!Foreign
  <1>3. ASSUME NEW x \in LocalProcs PROVE StepInv(x)'
    BY DEF Local!CloseStore, Local!Goto, Local!serveDone, Local!listener, Local!handlers,
           Local!looks, RuntimeInv, LocalTypes, LocalSteps, Apart, Unchallenged, StepInv,
           NotOpened, Opened, Drained, Local!NamesAssumption, Local!Foreign
  <1>. QED
    BY <1>1, <1>2, <1>3 DEF RuntimeInv

\* What is gone with a process is of its type, and nobody else's.
LEMMA LocalGone ==
  ASSUME LocalTypes, NEW p \in LocalProcs, Local!Gone(p)
  PROVE  /\ port' \in [LocalProcs -> LocalPorts \cup {"none"}]
         /\ requests' \in [LocalProcs -> BOOLEAN] /\ streams' \in [LocalProcs -> BOOLEAN]
         /\ timedOut' \in [LocalProcs -> BOOLEAN] /\ raced' \in [LocalProcs -> BOOLEAN]
         /\ seen' \in [LocalProcs -> LocalPorts \cup {"none"}]
         /\ \A x \in LocalProcs : x # p => port'[x] = port[x] /\ raced'[x] = raced[x] /\ seen'[x] = seen[x]
  BY DEF Local!Gone, LocalTypes

\* The file goes if it names the own port, or named it when it was read.
LEMMA LocalRemoveOwnedDiscovery ==
  ASSUME Local!NamesAssumption, RuntimeInv, NEW p \in LocalProcs, Local!removeOwnedDiscovery(p)
  PROVE  RuntimeInv'
  <1>0. CASE Local!handlers' = Local!handlers /\ Local!looks' = Local!looks /\ port' = port
             /\ timedOut' = timedOut /\ discovery' = discovery /\ localPc[p] = "compare"
             /\ localPc' = [localPc EXCEPT ![p] = "remove"] /\ Local!ReadDiscovery = {port[p]}
    <2>1. LocalTypes' /\ UNCHANGED <<bound, store, bus>>
      BY <1>0 DEF Local!removeOwnedDiscovery, Local!handlers, Local!looks, RuntimeInv, LocalTypes,
                  LocalSteps
    <2>0. discovery.url = port[p]
      BY <1>0, port[p] \in Local!ReadDiscovery DEF Local!ReadDiscovery
    <2>2. ASSUME NEW x \in LocalProcs, NEW y \in LocalProcs PROVE Apart(x, y)'
      <3>1. Unchallenged(x) => port[x] = port[p]
        BY <2>0 DEF RuntimeInv, StepInv
      <3>2. Unchallenged(x)' => Unchallenged(x)
        BY <1>0 DEF Unchallenged, Local!looks, RuntimeInv, LocalTypes
      <3>3. Apart(x, y)
        BY DEF RuntimeInv
      <3>. QED
        BY <1>0, <2>1, <3>1, <3>2, <3>3 DEF Local!looks, RuntimeInv, LocalTypes, Apart, Unchallenged
    <2>3. ASSUME NEW x \in LocalProcs PROVE StepInv(x)'
      BY <1>0, <2>1 DEF Local!handlers, Local!looks, RuntimeInv, LocalTypes, StepInv, Unchallenged,
                        NotOpened, Opened, Drained
    <2>. QED
      BY <2>1, <2>2, <2>3 DEF RuntimeInv
  <1>1. CASE Local!Gone(p) /\ localPc' = [localPc EXCEPT ![p] = "done"]
    <2>0. localPc'[p] = "done" /\ [localPc EXCEPT ![p] = "remove"][p] = "remove"
      BY <1>1 DEF RuntimeInv, LocalTypes
    <2>1. /\ UNCHANGED <<bound, store, bus>>
          /\ \/ localPc[p] = "compare" /\ discovery' = discovery /\ Local!ReadDiscovery # {port[p]}
             \/ localPc[p] = "remove" /\ discovery' = Local!NoFile
      BY <1>1, <2>0 DEF Local!removeOwnedDiscovery, Local!Goto
    <2>2. LocalTypes'
      BY <1>1, <2>1, LocalGone DEF RuntimeInv, LocalTypes, LocalSteps, Local!NoFile
    <2>3. ASSUME NEW x \in LocalProcs, NEW y \in LocalProcs PROVE Apart(x, y)'
      BY <1>1, <2>1, LocalGone DEF RuntimeInv, LocalTypes, Apart, Unchallenged, StepInv
    <2>4. ASSUME NEW x \in LocalProcs PROVE StepInv(x)'
      BY <1>1, <2>1 DEF Local!Gone, Local!ReadDiscovery, Local!Foreign, Local!NoFile, RuntimeInv,
             LocalTypes, Apart, Unchallenged, StepInv, NotOpened, Opened, Drained,
             Local!NamesAssumption
    <2>. QED
      BY <2>2, <2>3, <2>4 DEF RuntimeInv
  <1>. QED
    BY <1>0, <1>1 DEF Local!removeOwnedDiscovery, Local!Goto, Local!handlers, Local!looks

\* A process is killed.
LEMMA LocalKilled ==
  ASSUME Local!NamesAssumption, RuntimeInv, NEW p \in LocalProcs, Local!Killed(p)
  PROVE  RuntimeInv'
  <1>1. LocalTypes'
    BY DEF Local!Killed, Local!Goto, Local!Gone, RuntimeInv, LocalTypes, LocalSteps,
           Local!NamesAssumption, Local!Foreign
  <1>2. ASSUME NEW x \in LocalProcs, NEW y \in LocalProcs PROVE Apart(x, y)'
    BY DEF Local!Killed, Local!Goto, Local!Gone, RuntimeInv, LocalTypes, LocalSteps, Apart,
           Unchallenged, StepInv, Local!NamesAssumption, Local!Foreign
  <1>3. ASSUME NEW x \in LocalProcs PROVE StepInv(x)'
    BY DEF Local!Killed, Local!Goto, Local!Gone, RuntimeInv, LocalTypes, LocalSteps, Apart,
           Unchallenged, StepInv, NotOpened, Opened, Drained, Local!NamesAssumption,
           Local!Foreign
  <1>. QED
    BY <1>1, <1>2, <1>3 DEF RuntimeInv

\* A process directory as the first process finds it.
LEMMA LocalInit == ASSUME Local!NamesAssumption, Local!Init PROVE RuntimeInv
  BY DEF Local!NamesAssumption, Local!Foreign, Local!Init, Local!NoFile, RuntimeInv, LocalTypes,
         LocalSteps, Apart, Unchallenged, StepInv, NotOpened, Opened, Drained

\* Every step of every process keeps the invariant.
LEMMA LocalStep ==
  ASSUME Local!NamesAssumption, RuntimeInv, [Local!Next]_localVars
  PROVE  RuntimeInv'
  <1>1. CASE UNCHANGED localVars
    BY <1>1 DEF localVars, RuntimeInv, LocalTypes, Apart, Unchallenged, StepInv, NotOpened,
                Opened, Drained
  <1>2. CASE Local!Next
    BY <1>2, LocalStart, LocalRefuseIfRuntimeIsLive, LocalOpenBackend, LocalCannotListen,
       LocalListen, LocalWriteDiscovery, LocalArrive, LocalReturn, LocalInterrupted,
       LocalCloseBus, LocalShutdown, LocalWait, LocalCloseStore, LocalRemoveOwnedDiscovery,
       LocalKilled
    DEF Local!Next, Local!Step, Local!Stop
  <1>. QED
    BY <1>1, <1>2

\* A behaviour stays with the component its initial state chose.
LEMMA PartStays == ASSUME [ProgressNext]_all PROVE part' = part
  BY DEF ProgressNext, all, BusOnly, TuiOnly, FileOnly, SessionOnly, LocalOnly

(* Starts and stops of any processes overlap in any order: a runtime that     *)
(* published beside no rival is found for as long as it serves, so a later    *)
(* start is refused and a late stop leaves its file alone, and two that serve *)
(* at once were rivals. A clean end leaves nothing open and no file of its    *)
(* own, streams are told to end before shutdown can give up, the store is     *)
(* closed under a handler only when it did, and nothing off this machine is   *)
(* contacted (localruntime/runtime.go, Start, Stop, refuseIfRuntimeIsLive and *)
(* removeOwnedDiscovery).                                                     *)
THEOREM RuntimeSound == ProgressSpec => []RuntimeIsSound
  <1> DEFINE PartInv == part = "local" => RuntimeInv
  <1>1. ProgressInit => PartInv
    BY LocalInit, PartsAssumption DEF ProgressInit
  <1>2. PartInv /\ [ProgressNext]_all => PartInv'
    <2> SUFFICES ASSUME PartInv, [ProgressNext]_all, part = "local" PROVE RuntimeInv'
      BY PartStays
    <2>1. [Local!Next]_localVars
      BY DEF ProgressNext, all
    <2>. QED
      BY <2>1, LocalStep, PartsAssumption
  <1>3. PartInv => RuntimeIsSound
    <2> SUFFICES ASSUME RuntimeInv PROVE Local!RuntimeIsSound
      BY DEF RuntimeIsSound
    <2>1. ASSUME NEW x \in LocalProcs
          PROVE  /\ localPc[x] = "serving" /\ ~raced[x] => discovery = [url |-> port[x], by |-> x]
                 /\ localPc[x] = "done" =>
                       ~bound[x] /\ store[x] # "open" /\ bus[x] # "open" /\ discovery.by # x
                 /\ timedOut[x] => bus[x] = "closed"
                 /\ store[x] = "closed" /\ (requests[x] \/ streams[x]) => timedOut[x]
      BY DEF RuntimeInv, LocalTypes, LocalSteps, StepInv, Unchallenged, NotOpened, Opened, Drained
    <2>2. ASSUME NEW x \in LocalProcs, NEW y \in LocalProcs,
                 localPc[x] = "serving", localPc[y] = "serving", x # y
          PROVE  raced[x] \/ raced[y]
      BY <2>1, <2>2
    <2>3. \A x \in LocalProcs : seen[x] # Local!Foreign
      BY PartsAssumption DEF RuntimeInv, LocalTypes, Local!Foreign, Local!NamesAssumption
    <2>. QED
      BY <2>1, <2>2, <2>3, Zenon DEF Local!RuntimeIsSound
  <1>. QED
    BY <1>1, <1>2, <1>3, PTL DEF ProgressSpec

(***************************************************************************)
(* A development session, whatever signals, deadlines and failures arrive  *)
(* while it composes, supervises and takes down.                           *)
(***************************************************************************)

Composing == {"start", "runtime", "awaitDiscovery", "provision", "create", "start_run"}
WithCollector == {"awaitReady", "report", "exec", "setTarget", "wait", "clearTarget", "stopCollector"}
Supervising == {"exec", "setTarget", "wait", "clearTarget", "stopCollector", "finish"}
Leaving == {"teardown", "done"}
SessionSteps ==
    Composing \cup WithCollector \cup Supervising \cup Leaving \cup {"launch", "finalized"}
Relays == [received : BOOLEAN, forwarded : BOOLEAN, expired : BOOLEAN, target : BOOLEAN,
           escalation : BOOLEAN, termed : BOOLEAN]

SessionTypes ==
    /\ mode \in {"dev", "suite", "check"} /\ handover \in BOOLEAN
    /\ sessionPc \in SessionSteps
    /\ lock \in {"none", "up", "down"} /\ runtime \in {"none", "up", "down"}
    /\ collector \in {"none", "up", "down"}
    /\ workload \in {"none", "running", "ok", "error", "crashed", "interrupted", "killed", "reaped"}
    /\ outcome \in {"none", "startFailed", "ok", "error", "crashed", "interrupted", "killed"}
    /\ stragglers \in BOOLEAN /\ deadlineDone \in BOOLEAN
RunStates == {"none", "pending", "running", "completed", "failed"}
RunTypes ==
    /\ runStarted \in BOOLEAN /\ runCompleted \in BOOLEAN
    /\ run \in RunStates
    /\ sessionFailures \in Nat
RelayTypes == relay \in Relays

\* What is up at each step.
HelpersInv ==
    /\ sessionPc = "start" => lock = "none" /\ runtime = "none"
    /\ sessionPc \in Composing => collector = "none"
    /\ sessionPc = "launch" => collector # "up"
    /\ sessionPc \in WithCollector => collector = "up"
    /\ sessionPc \in {"finish", "finalized"} => collector = "down"
    /\ sessionPc = "done" => "up" \notin {lock, runtime, collector}

\* Where the child process is, and what the relay may still do to it.
ChildInv ==
    /\ sessionPc \in Composing \cup {"launch", "awaitReady", "report", "exec"}
         => workload = "none" /\ outcome = "none"
    /\ sessionPc \in {"setTarget", "wait"} => workload \notin {"none", "reaped"} /\ outcome = "none"
    /\ sessionPc = "clearTarget" => workload = "reaped"
    /\ sessionPc \in {"stopCollector", "finish", "finalized"} \cup Leaving
         => workload \in {"none", "reaped"}
    /\ workload # "reaped" => outcome \in {"none", "startFailed"}
    /\ relay.target => sessionPc \in {"wait", "clearTarget"}
    /\ relay.termed => relay.expired
    /\ relay.forwarded => relay.received
    /\ sessionPc \notin {"setTarget", "wait", "clearTarget"} => ~(relay.termed /\ stragglers)

\* What the session knows of the run, and what the control plane holds.
RunInv ==
    /\ mode = "check" => /\ sessionPc \notin {"create", "start_run", "finalized"} \cup Supervising
                         /\ run = "none" /\ ~runStarted
    /\ mode # "check" => sessionPc # "report"
    /\ sessionPc \in Composing \ {"start_run"} => run = "none" /\ ~runStarted
    /\ sessionPc = "start_run" => run = "pending" /\ ~runStarted
    /\ mode # "check" /\ sessionPc \in {"launch", "awaitReady"} \cup Supervising
         => run = "running" /\ runStarted
    /\ sessionPc = "finalized" /\ sessionFailures = 0 => run = "completed"
    /\ sessionPc = "finalized" => mode = "suite" /\ outcome = "ok"
    /\ sessionPc \in Leaving /\ sessionFailures = 0 /\ collector # "none"
         => run \notin {"pending", "running"}

\* A completed run and an exit of 0 have been earned: from the moment a check
\* has read who reported last, the control plane holds that or a later report.
EarnedInv ==
    /\ Session!CompletedIsEvidence
    /\ mode = "check" /\ sessionPc \in {"launch", "awaitReady", "report"}
         => reported = previous \/ reported \in heard
    /\ code = "ok" =>
        /\ sessionPc \in Leaving
        /\ mode = "dev" => outcome = "ok"
        /\ mode = "suite" => outcome = "ok" /\ runCompleted
        /\ mode = "check" => \E i \in heard : i # previous

SessionInv ==
    /\ SessionTypes /\ RunTypes /\ RelayTypes
    /\ HelpersInv /\ ChildInv /\ RunInv /\ EarnedInv

\* A call leaves the run in one of its states, and failures are counted.
LEMMA CallTypes ==
  ASSUME RunTypes, NEW from, NEW to \in RunStates, NEW ok, Session!Call(from, to, ok)
  PROVE  run' \in RunStates /\ sessionFailures' \in Nat
  <1>1. run' \in RunStates
    BY DEF RunTypes, Session!Call, Session!Apply
  <1>2. sessionFailures' \in {sessionFailures, sessionFailures + 1}
    BY DEF Session!Call
  <1>. QED
    BY <1>1, <1>2 DEF RunTypes

\* So does failing it.
LEMMA FailRunTypes ==
  ASSUME RunTypes, Session!failRun
  PROVE  run' \in RunStates /\ sessionFailures' \in Nat /\ runStarted' \in BOOLEAN
  <1>1. CASE runStarted
    <2>1. PICK ok \in BOOLEAN : Session!Call({"pending", "running"}, "failed", ok)
      BY <1>1 DEF Session!failRun
    <2>2. run' \in RunStates /\ sessionFailures' \in Nat
      BY <2>1, CallTypes DEF RunStates
    <2>. QED
      BY <2>2 DEF Session!failRun
  <1>2. CASE ~runStarted
    BY <1>2 DEF Session!failRun, RunTypes
  <1>. QED
    BY <1>1, <1>2

\* A signal reaches the process.
LEMMA SessionSignalArrives == ASSUME SessionInv, Session!SignalArrives PROVE SessionInv'
  <1>1. SessionTypes'
    BY DEF Session!SignalArrives, Session!fixed, Session!reports, Session!helpers,
           Session!child, Session!server, SessionInv, SessionTypes, RelayTypes, Relays,
           SessionSteps, Composing, WithCollector, Supervising, Leaving
  <1>6. RunTypes'
    BY DEF Session!SignalArrives, Session!fixed, Session!reports, Session!helpers,
           Session!child, Session!server, SessionInv, RunTypes
  <1>7. RelayTypes'
    BY DEF Session!SignalArrives, Session!fixed, Session!reports, Session!helpers,
           Session!child, Session!server, SessionInv, RelayTypes, Relays
  <1>2. HelpersInv'
    BY DEF Session!SignalArrives, Session!fixed, Session!reports, Session!helpers,
           Session!child, Session!server, SessionInv, SessionTypes, RunTypes, RelayTypes,
           HelpersInv, SessionSteps, Composing, WithCollector, Supervising, Leaving
  <1>3. ChildInv'
    BY DEF Session!SignalArrives, Session!fixed, Session!reports, Session!helpers,
           Session!child, Session!server, SessionInv, SessionTypes, RunTypes, RelayTypes,
           ChildInv, RunInv, Relays, SessionSteps, Composing, WithCollector, Supervising,
           Leaving
  <1>4. RunInv'
    BY DEF Session!SignalArrives, Session!fixed, Session!reports, Session!helpers,
           Session!child, Session!server, SessionInv, SessionTypes, RunTypes, RelayTypes,
           HelpersInv, ChildInv, RunInv, SessionSteps, Composing, WithCollector, Supervising,
           Leaving
  <1>5. EarnedInv'
    BY DEF Session!SignalArrives, Session!fixed, Session!reports, Session!helpers,
           Session!child, Session!server, SessionInv, SessionTypes, RunTypes, RelayTypes,
           HelpersInv, ChildInv, RunInv, EarnedInv, Session!CompletedIsEvidence, Relays,
           SessionSteps, Composing, WithCollector, Supervising, Leaving
  <1>. QED
    BY <1>1, <1>2, <1>3, <1>4, <1>5, <1>6, <1>7 DEF SessionInv

\* The relay takes a signal.
LEMMA SessionRunTake == ASSUME SessionInv, Session!run_take PROVE SessionInv'
  <1>1. SessionTypes'
    BY DEF Session!run_take, Session!fixed, Session!reports, Session!helpers, Session!child,
           Session!server, SessionInv, SessionTypes, RelayTypes, Relays, SessionSteps,
           Composing, WithCollector, Supervising, Leaving
  <1>6. RunTypes'
    BY DEF Session!run_take, Session!fixed, Session!reports, Session!helpers, Session!child,
           Session!server, SessionInv, RunTypes
  <1>7. RelayTypes'
    BY DEF Session!run_take, Session!fixed, Session!reports, Session!helpers, Session!child,
           Session!server, SessionInv, RelayTypes, Relays
  <1>2. HelpersInv'
    BY DEF Session!run_take, Session!fixed, Session!reports, Session!helpers, Session!child,
           Session!server, SessionInv, SessionTypes, RunTypes, RelayTypes, HelpersInv,
           SessionSteps, Composing, WithCollector, Supervising, Leaving
  <1>3. ChildInv'
    BY DEF Session!run_take, Session!fixed, Session!reports, Session!helpers, Session!child,
           Session!server, SessionInv, SessionTypes, RunTypes, RelayTypes, ChildInv, RunInv,
           Relays, SessionSteps, Composing, WithCollector, Supervising, Leaving
  <1>4. RunInv'
    BY DEF Session!run_take, Session!fixed, Session!reports, Session!helpers, Session!child,
           Session!server, SessionInv, SessionTypes, RunTypes, RelayTypes, HelpersInv,
           ChildInv, RunInv, SessionSteps, Composing, WithCollector, Supervising, Leaving
  <1>5. EarnedInv'
    BY DEF Session!run_take, Session!fixed, Session!reports, Session!helpers, Session!child,
           Session!server, SessionInv, SessionTypes, RunTypes, RelayTypes, HelpersInv,
           ChildInv, RunInv, EarnedInv, Session!CompletedIsEvidence, Relays, SessionSteps,
           Composing, WithCollector, Supervising, Leaving
  <1>. QED
    BY <1>1, <1>2, <1>3, <1>4, <1>5, <1>6, <1>7 DEF SessionInv

\* The relay forwards it to the workload.
LEMMA SessionRunForward == ASSUME SessionInv, Session!run_forward PROVE SessionInv'
  <1>1. SessionTypes'
    BY DEF Session!run_forward, Session!Deliver, Session!fixed, Session!reports,
           Session!helpers, Session!server, SessionInv, SessionTypes, RelayTypes, Relays,
           SessionSteps, Composing, WithCollector, Supervising, Leaving
  <1>6. RunTypes'
    BY DEF Session!run_forward, Session!Deliver, Session!fixed, Session!reports,
           Session!helpers, Session!server, SessionInv, RunTypes
  <1>7. RelayTypes'
    BY DEF Session!run_forward, Session!Deliver, Session!fixed, Session!reports,
           Session!helpers, Session!server, SessionInv, RelayTypes, Relays
  <1>2. HelpersInv'
    BY DEF Session!run_forward, Session!Deliver, Session!fixed, Session!reports,
           Session!helpers, Session!server, SessionInv, SessionTypes, RunTypes, RelayTypes,
           HelpersInv, SessionSteps, Composing, WithCollector, Supervising, Leaving
  <1>3. ChildInv'
    BY DEF Session!run_forward, Session!Deliver, Session!fixed, Session!reports,
           Session!helpers, Session!server, SessionInv, SessionTypes, RunTypes, RelayTypes,
           ChildInv, RunInv, Relays, SessionSteps, Composing, WithCollector, Supervising,
           Leaving
  <1>4. RunInv'
    BY DEF Session!run_forward, Session!Deliver, Session!fixed, Session!reports,
           Session!helpers, Session!server, SessionInv, SessionTypes, RunTypes, RelayTypes,
           HelpersInv, ChildInv, RunInv, SessionSteps, Composing, WithCollector, Supervising,
           Leaving
  <1>5. EarnedInv'
    BY DEF Session!run_forward, Session!Deliver, Session!fixed, Session!reports,
           Session!helpers, Session!server, SessionInv, SessionTypes, RunTypes, RelayTypes,
           HelpersInv, ChildInv, RunInv, EarnedInv, Session!CompletedIsEvidence, Relays,
           SessionSteps, Composing, WithCollector, Supervising, Leaving
  <1>. QED
    BY <1>1, <1>2, <1>3, <1>4, <1>5, <1>6, <1>7 DEF SessionInv

\* The deadline passes.
LEMMA SessionDeadline == ASSUME SessionInv, Session!Deadline PROVE SessionInv'
  <1>1. SessionTypes'
    BY DEF Session!Deadline, Session!fixed, Session!reports, Session!helpers, Session!child,
           Session!server, SessionInv, SessionTypes, RelayTypes, Relays, SessionSteps,
           Composing, WithCollector, Supervising, Leaving
  <1>6. RunTypes'
    BY DEF Session!Deadline, Session!fixed, Session!reports, Session!helpers, Session!child,
           Session!server, SessionInv, RunTypes
  <1>7. RelayTypes'
    BY DEF Session!Deadline, Session!fixed, Session!reports, Session!helpers, Session!child,
           Session!server, SessionInv, RelayTypes, Relays
  <1>2. HelpersInv'
    BY DEF Session!Deadline, Session!fixed, Session!reports, Session!helpers, Session!child,
           Session!server, SessionInv, SessionTypes, RunTypes, RelayTypes, HelpersInv,
           SessionSteps, Composing, WithCollector, Supervising, Leaving
  <1>3. ChildInv'
    BY DEF Session!Deadline, Session!fixed, Session!reports, Session!helpers, Session!child,
           Session!server, SessionInv, SessionTypes, RunTypes, RelayTypes, ChildInv, RunInv,
           Relays, SessionSteps, Composing, WithCollector, Supervising, Leaving
  <1>4. RunInv'
    BY DEF Session!Deadline, Session!fixed, Session!reports, Session!helpers, Session!child,
           Session!server, SessionInv, SessionTypes, RunTypes, RelayTypes, HelpersInv,
           ChildInv, RunInv, SessionSteps, Composing, WithCollector, Supervising, Leaving
  <1>5. EarnedInv'
    BY DEF Session!Deadline, Session!fixed, Session!reports, Session!helpers, Session!child,
           Session!server, SessionInv, SessionTypes, RunTypes, RelayTypes, HelpersInv,
           ChildInv, RunInv, EarnedInv, Session!CompletedIsEvidence, Relays, SessionSteps,
           Composing, WithCollector, Supervising, Leaving
  <1>. QED
    BY <1>1, <1>2, <1>3, <1>4, <1>5, <1>6, <1>7 DEF SessionInv

\* The deadline reaches the workload while there is one.
LEMMA SessionExpire == ASSUME SessionInv, Session!expire PROVE SessionInv'
  <1>1. SessionTypes'
    BY DEF Session!expire, Session!Deliver, Session!fixed, Session!reports, Session!helpers,
           Session!server, SessionInv, SessionTypes, RelayTypes, Relays, SessionSteps,
           Composing, WithCollector, Supervising, Leaving
  <1>6. RunTypes'
    BY DEF Session!expire, Session!Deliver, Session!fixed, Session!reports, Session!helpers,
           Session!server, SessionInv, RunTypes
  <1>7. RelayTypes'
    BY DEF Session!expire, Session!Deliver, Session!fixed, Session!reports, Session!helpers,
           Session!server, SessionInv, RelayTypes, Relays
  <1>2. HelpersInv'
    BY DEF Session!expire, Session!Deliver, Session!fixed, Session!reports, Session!helpers,
           Session!server, SessionInv, SessionTypes, RunTypes, RelayTypes, HelpersInv,
           SessionSteps, Composing, WithCollector, Supervising, Leaving
  <1>3. ChildInv'
    BY DEF Session!expire, Session!Deliver, Session!fixed, Session!reports, Session!helpers,
           Session!server, SessionInv, SessionTypes, RunTypes, RelayTypes, ChildInv, RunInv,
           Relays, SessionSteps, Composing, WithCollector, Supervising, Leaving
  <1>4. RunInv'
    BY DEF Session!expire, Session!Deliver, Session!fixed, Session!reports, Session!helpers,
           Session!server, SessionInv, SessionTypes, RunTypes, RelayTypes, HelpersInv,
           ChildInv, RunInv, SessionSteps, Composing, WithCollector, Supervising, Leaving
  <1>5. EarnedInv'
    BY DEF Session!expire, Session!Deliver, Session!fixed, Session!reports, Session!helpers,
           Session!server, SessionInv, SessionTypes, RunTypes, RelayTypes, HelpersInv,
           ChildInv, RunInv, EarnedInv, Session!CompletedIsEvidence, Relays, SessionSteps,
           Composing, WithCollector, Supervising, Leaving
  <1>. QED
    BY <1>1, <1>2, <1>3, <1>4, <1>5, <1>6, <1>7 DEF SessionInv

\* The escalation kills the group while it is the target.
LEMMA SessionTerminate == ASSUME SessionInv, Session!terminate PROVE SessionInv'
  <1>1. SessionTypes'
    <2>1. /\ workload' = IF workload = "running" THEN "killed" ELSE workload
          /\ stragglers' = FALSE
      BY DEF Session!terminate
    <2>2. UNCHANGED <<mode, handover, sessionPc, lock, runtime, collector, outcome, deadlineDone>>
      BY DEF Session!terminate, Session!fixed, Session!reports, Session!helpers
    <2>3. workload' \in {"none", "running", "ok", "error", "crashed", "interrupted", "killed", "reaped"}
      BY <2>1 DEF SessionInv, SessionTypes
    <2>. QED
      BY <2>1, <2>2, <2>3 DEF SessionInv, SessionTypes
  <1>6. RunTypes'
    BY DEF Session!terminate, Session!fixed, Session!reports, Session!helpers, Session!server,
           SessionInv, RunTypes
  <1>7. RelayTypes'
    BY DEF Session!terminate, Session!fixed, Session!reports, Session!helpers, Session!server,
           SessionInv, RelayTypes, Relays
  <1>2. HelpersInv'
    BY DEF Session!terminate, Session!fixed, Session!reports, Session!helpers, Session!server,
           SessionInv, SessionTypes, RunTypes, RelayTypes, HelpersInv, SessionSteps,
           Composing, WithCollector, Supervising, Leaving
  <1>3. ChildInv'
    BY DEF Session!terminate, Session!fixed, Session!reports, Session!helpers, Session!server,
           SessionInv, SessionTypes, RunTypes, RelayTypes, ChildInv, RunInv, Relays,
           SessionSteps, Composing, WithCollector, Supervising, Leaving
  <1>4. RunInv'
    BY DEF Session!terminate, Session!fixed, Session!reports, Session!helpers, Session!server,
           SessionInv, SessionTypes, RunTypes, RelayTypes, HelpersInv, ChildInv, RunInv,
           SessionSteps, Composing, WithCollector, Supervising, Leaving
  <1>5. EarnedInv'
    BY DEF Session!terminate, Session!fixed, Session!reports, Session!helpers, Session!server,
           SessionInv, SessionTypes, RunTypes, RelayTypes, HelpersInv, ChildInv, RunInv,
           EarnedInv, Session!CompletedIsEvidence, Relays, SessionSteps, Composing,
           WithCollector, Supervising, Leaving
  <1>. QED
    BY <1>1, <1>2, <1>3, <1>4, <1>5, <1>6, <1>7 DEF SessionInv

\* The workload ends by itself.
LEMMA SessionWorkloadEnds == ASSUME SessionInv, Session!WorkloadEnds PROVE SessionInv'
  <1>1. SessionTypes'
    BY DEF Session!WorkloadEnds, Session!fixed, Session!reports, Session!helpers,
           Session!server, Session!signals, SessionInv, SessionTypes, RelayTypes, Relays,
           SessionSteps, Composing, WithCollector, Supervising, Leaving
  <1>6. RunTypes'
    BY DEF Session!WorkloadEnds, Session!fixed, Session!reports, Session!helpers,
           Session!server, Session!signals, SessionInv, RunTypes
  <1>7. RelayTypes'
    BY DEF Session!WorkloadEnds, Session!fixed, Session!reports, Session!helpers,
           Session!server, Session!signals, SessionInv, RelayTypes, Relays
  <1>2. HelpersInv'
    BY DEF Session!WorkloadEnds, Session!fixed, Session!reports, Session!helpers,
           Session!server, Session!signals, SessionInv, SessionTypes, RunTypes, RelayTypes,
           HelpersInv, SessionSteps, Composing, WithCollector, Supervising, Leaving
  <1>3. ChildInv'
    BY DEF Session!WorkloadEnds, Session!fixed, Session!reports, Session!helpers,
           Session!server, Session!signals, SessionInv, SessionTypes, RunTypes, RelayTypes,
           ChildInv, RunInv, Relays, SessionSteps, Composing, WithCollector, Supervising,
           Leaving
  <1>4. RunInv'
    BY DEF Session!WorkloadEnds, Session!fixed, Session!reports, Session!helpers,
           Session!server, Session!signals, SessionInv, SessionTypes, RunTypes, RelayTypes,
           HelpersInv, ChildInv, RunInv, SessionSteps, Composing, WithCollector, Supervising,
           Leaving
  <1>5. EarnedInv'
    BY DEF Session!WorkloadEnds, Session!fixed, Session!reports, Session!helpers,
           Session!server, Session!signals, SessionInv, SessionTypes, RunTypes, RelayTypes,
           HelpersInv, ChildInv, RunInv, EarnedInv, Session!CompletedIsEvidence, Relays,
           SessionSteps, Composing, WithCollector, Supervising, Leaving
  <1>. QED
    BY <1>1, <1>2, <1>3, <1>4, <1>5, <1>6, <1>7 DEF SessionInv

\* A Collector reports to the control plane.
LEMMA SessionCollectorReports == ASSUME SessionInv, Session!CollectorReports PROVE SessionInv'
  <1>1. SessionTypes'
    BY DEF Session!CollectorReports, Session!fixed, Session!reports, Session!helpers,
           Session!child, Session!signals, SessionInv, SessionTypes, RelayTypes, Relays,
           SessionSteps, Composing, WithCollector, Supervising, Leaving
  <1>6. RunTypes'
    BY DEF Session!CollectorReports, Session!fixed, Session!reports, Session!helpers,
           Session!child, Session!signals, SessionInv, RunTypes
  <1>7. RelayTypes'
    BY DEF Session!CollectorReports, Session!fixed, Session!reports, Session!helpers,
           Session!child, Session!signals, SessionInv, RelayTypes, Relays
  <1>2. HelpersInv'
    BY DEF Session!CollectorReports, Session!fixed, Session!reports, Session!helpers,
           Session!child, Session!signals, SessionInv, SessionTypes, RunTypes, RelayTypes,
           HelpersInv, SessionSteps, Composing, WithCollector, Supervising, Leaving
  <1>3. ChildInv'
    BY DEF Session!CollectorReports, Session!fixed, Session!reports, Session!helpers,
           Session!child, Session!signals, SessionInv, SessionTypes, RunTypes, RelayTypes,
           ChildInv, RunInv, Relays, SessionSteps, Composing, WithCollector, Supervising,
           Leaving
  <1>4. RunInv'
    BY DEF Session!CollectorReports, Session!fixed, Session!reports, Session!helpers,
           Session!child, Session!signals, SessionInv, SessionTypes, RunTypes, RelayTypes,
           HelpersInv, ChildInv, RunInv, SessionSteps, Composing, WithCollector, Supervising,
           Leaving
  <1>5. EarnedInv'
    BY DEF Session!CollectorReports, Session!fixed, Session!reports, Session!helpers,
           Session!child, Session!signals, SessionInv, SessionTypes, RunTypes, RelayTypes,
           HelpersInv, ChildInv, RunInv, EarnedInv, Session!CompletedIsEvidence, Relays,
           SessionSteps, Composing, WithCollector, Supervising, Leaving
  <1>. QED
    BY <1>1, <1>2, <1>3, <1>4, <1>5, <1>6, <1>7 DEF SessionInv

\* Nothing runs yet, and anything may refuse.
LEMMA SessionPrepare == ASSUME SessionInv, Session!Prepare PROVE SessionInv'
  <1>1. SessionTypes'
    BY DEF Session!Prepare, Session!Fails, Session!fixed, Session!reports, Session!child,
           Session!server, Session!signals, SessionInv, SessionTypes, RelayTypes, Relays,
           SessionSteps, Composing, WithCollector, Supervising, Leaving
  <1>6. RunTypes'
    BY DEF Session!Prepare, Session!Fails, Session!fixed, Session!reports, Session!child,
           Session!server, Session!signals, SessionInv, RunTypes
  <1>7. RelayTypes'
    BY DEF Session!Prepare, Session!Fails, Session!fixed, Session!reports, Session!child,
           Session!server, Session!signals, SessionInv, RelayTypes, Relays
  <1>2. HelpersInv'
    BY DEF Session!Prepare, Session!Fails, Session!fixed, Session!reports, Session!child,
           Session!server, Session!signals, SessionInv, SessionTypes, RunTypes, RelayTypes,
           HelpersInv, SessionSteps, Composing, WithCollector, Supervising, Leaving
  <1>3. ChildInv'
    BY DEF Session!Prepare, Session!Fails, Session!fixed, Session!reports, Session!child,
           Session!server, Session!signals, SessionInv, SessionTypes, RunTypes, RelayTypes,
           ChildInv, RunInv, Relays, SessionSteps, Composing, WithCollector, Supervising,
           Leaving
  <1>4. RunInv'
    BY DEF Session!Prepare, Session!Fails, Session!fixed, Session!reports, Session!child,
           Session!server, Session!signals, SessionInv, SessionTypes, RunTypes, RelayTypes,
           HelpersInv, ChildInv, RunInv, SessionSteps, Composing, WithCollector, Supervising,
           Leaving
  <1>5. EarnedInv'
    BY DEF Session!Prepare, Session!Fails, Session!fixed, Session!reports, Session!child,
           Session!server, Session!signals, SessionInv, SessionTypes, RunTypes, RelayTypes,
           HelpersInv, ChildInv, RunInv, EarnedInv, Session!CompletedIsEvidence, Relays,
           SessionSteps, Composing, WithCollector, Supervising, Leaving
  <1>. QED
    BY <1>1, <1>2, <1>3, <1>4, <1>5, <1>6, <1>7 DEF SessionInv

\* The control plane is started.
LEMMA SessionStartLocalRuntime == ASSUME SessionInv, Session!startLocalRuntime PROVE SessionInv'
  <1>1. SessionTypes'
    BY DEF Session!startLocalRuntime, Session!interrupted, Session!Cancelled, Session!Abort,
           Session!failRun, Session!ExitCode, Session!Call, Session!Apply, Session!Fails,
           Session!fixed, Session!child, Session!server, Session!signals, SessionInv,
           SessionTypes, RelayTypes, Relays, SessionSteps, Composing, WithCollector,
           Supervising, Leaving
  <1>6. RunTypes'
    BY CallTypes, FailRunTypes
    DEF Session!startLocalRuntime, Session!interrupted, Session!Cancelled, Session!Abort,
        Session!ExitCode, Session!fixed, Session!child, Session!server, Session!signals,
        SessionInv, RunTypes, RunStates
  <1>7. RelayTypes'
    BY DEF Session!startLocalRuntime, Session!interrupted, Session!Cancelled, Session!Abort,
           Session!failRun, Session!ExitCode, Session!Call, Session!Apply, Session!Fails,
           Session!fixed, Session!child, Session!server, Session!signals, SessionInv,
           RelayTypes, Relays
  <1>2. HelpersInv'
    BY DEF Session!startLocalRuntime, Session!interrupted, Session!Cancelled, Session!Abort,
           Session!failRun, Session!ExitCode, Session!Call, Session!Apply, Session!Fails,
           Session!fixed, Session!child, Session!server, Session!signals, SessionInv,
           SessionTypes, RunTypes, RelayTypes, HelpersInv, SessionSteps, Composing,
           WithCollector, Supervising, Leaving
  <1>3. ChildInv'
    BY DEF Session!startLocalRuntime, Session!interrupted, Session!Cancelled, Session!Abort,
           Session!failRun, Session!ExitCode, Session!Call, Session!Apply, Session!Fails,
           Session!fixed, Session!child, Session!server, Session!signals, SessionInv,
           SessionTypes, RunTypes, RelayTypes, ChildInv, RunInv, Relays, SessionSteps,
           Composing, WithCollector, Supervising, Leaving
  <1>4. RunInv'
    BY DEF Session!startLocalRuntime, Session!interrupted, Session!Cancelled, Session!Abort,
           Session!failRun, Session!ExitCode, Session!Call, Session!Apply, Session!Fails,
           Session!fixed, Session!child, Session!server, Session!signals, SessionInv,
           SessionTypes, RunTypes, RelayTypes, HelpersInv, ChildInv, RunInv, SessionSteps,
           Composing, WithCollector, Supervising, Leaving
  <1>5. EarnedInv'
    BY DEF Session!startLocalRuntime, Session!interrupted, Session!Cancelled, Session!Abort,
           Session!failRun, Session!ExitCode, Session!Call, Session!Apply, Session!Fails,
           Session!fixed, Session!child, Session!server, Session!signals, SessionInv,
           SessionTypes, RunTypes, RelayTypes, HelpersInv, ChildInv, RunInv, EarnedInv,
           Session!CompletedIsEvidence, Relays, SessionSteps, Composing, WithCollector,
           Supervising, Leaving
  <1>. QED
    BY <1>1, <1>2, <1>3, <1>4, <1>5, <1>6, <1>7 DEF SessionInv

\* It is found, or stopped.
LEMMA SessionAwaitDiscovery == ASSUME SessionInv, Session!awaitDiscovery PROVE SessionInv'
  <1>1. SessionTypes'
    BY DEF Session!awaitDiscovery, Session!Cancelled, Session!ExitCode, Session!Fails,
           Session!fixed, Session!child, Session!server, Session!signals, SessionInv,
           SessionTypes, RelayTypes, Relays, SessionSteps, Composing, WithCollector,
           Supervising, Leaving
  <1>6. RunTypes'
    BY DEF Session!awaitDiscovery, Session!Cancelled, Session!ExitCode, Session!Fails,
           Session!fixed, Session!child, Session!server, Session!signals, SessionInv, RunTypes
  <1>7. RelayTypes'
    BY DEF Session!awaitDiscovery, Session!Cancelled, Session!ExitCode, Session!Fails,
           Session!fixed, Session!child, Session!server, Session!signals, SessionInv,
           RelayTypes, Relays
  <1>2. HelpersInv'
    BY DEF Session!awaitDiscovery, Session!Cancelled, Session!ExitCode, Session!Fails,
           Session!fixed, Session!child, Session!server, Session!signals, SessionInv,
           SessionTypes, RunTypes, RelayTypes, HelpersInv, SessionSteps, Composing,
           WithCollector, Supervising, Leaving
  <1>3. ChildInv'
    BY DEF Session!awaitDiscovery, Session!Cancelled, Session!ExitCode, Session!Fails,
           Session!fixed, Session!child, Session!server, Session!signals, SessionInv,
           SessionTypes, RunTypes, RelayTypes, ChildInv, RunInv, Relays, SessionSteps,
           Composing, WithCollector, Supervising, Leaving
  <1>4. RunInv'
    BY DEF Session!awaitDiscovery, Session!Cancelled, Session!ExitCode, Session!Fails,
           Session!fixed, Session!child, Session!server, Session!signals, SessionInv,
           SessionTypes, RunTypes, RelayTypes, HelpersInv, ChildInv, RunInv, SessionSteps,
           Composing, WithCollector, Supervising, Leaving
  <1>5. EarnedInv'
    BY DEF Session!awaitDiscovery, Session!Cancelled, Session!ExitCode, Session!Fails,
           Session!fixed, Session!child, Session!server, Session!signals, SessionInv,
           SessionTypes, RunTypes, RelayTypes, HelpersInv, ChildInv, RunInv, EarnedInv,
           Session!CompletedIsEvidence, Relays, SessionSteps, Composing, WithCollector,
           Supervising, Leaving
  <1>. QED
    BY <1>1, <1>2, <1>3, <1>4, <1>5, <1>6, <1>7 DEF SessionInv

\* The hierarchy is there, or the session gives up.
LEMMA SessionEnsureHierarchy == ASSUME SessionInv, Session!ensureHierarchy PROVE SessionInv'
  <1>1. SessionTypes'
    BY DEF Session!ensureHierarchy, Session!interrupted, Session!Cancelled, Session!Abort,
           Session!failRun, Session!ExitCode, Session!Call, Session!Apply, Session!Fails,
           Session!fixed, Session!helpers, Session!child, Session!server, Session!signals,
           SessionInv, SessionTypes, RelayTypes, Relays, SessionSteps, Composing,
           WithCollector, Supervising, Leaving
  <1>6. RunTypes'
    BY CallTypes, FailRunTypes
    DEF Session!ensureHierarchy, Session!interrupted, Session!Cancelled, Session!Abort,
        Session!ExitCode, Session!fixed, Session!helpers, Session!child, Session!server,
        Session!signals, SessionInv, RunTypes, RunStates
  <1>7. RelayTypes'
    BY DEF Session!ensureHierarchy, Session!interrupted, Session!Cancelled, Session!Abort,
           Session!failRun, Session!ExitCode, Session!Call, Session!Apply, Session!Fails,
           Session!fixed, Session!helpers, Session!child, Session!server, Session!signals,
           SessionInv, RelayTypes, Relays
  <1>2. HelpersInv'
    BY DEF Session!ensureHierarchy, Session!interrupted, Session!Cancelled, Session!Abort,
           Session!failRun, Session!ExitCode, Session!Call, Session!Apply, Session!Fails,
           Session!fixed, Session!helpers, Session!child, Session!server, Session!signals,
           SessionInv, SessionTypes, RunTypes, RelayTypes, HelpersInv, SessionSteps,
           Composing, WithCollector, Supervising, Leaving
  <1>3. ChildInv'
    BY DEF Session!ensureHierarchy, Session!interrupted, Session!Cancelled, Session!Abort,
           Session!failRun, Session!ExitCode, Session!Call, Session!Apply, Session!Fails,
           Session!fixed, Session!helpers, Session!child, Session!server, Session!signals,
           SessionInv, SessionTypes, RunTypes, RelayTypes, ChildInv, RunInv, Relays,
           SessionSteps, Composing, WithCollector, Supervising, Leaving
  <1>4. RunInv'
    BY DEF Session!ensureHierarchy, Session!interrupted, Session!Cancelled, Session!Abort,
           Session!failRun, Session!ExitCode, Session!Call, Session!Apply, Session!Fails,
           Session!fixed, Session!helpers, Session!child, Session!server, Session!signals,
           SessionInv, SessionTypes, RunTypes, RelayTypes, HelpersInv, ChildInv, RunInv,
           SessionSteps, Composing, WithCollector, Supervising, Leaving
  <1>5. EarnedInv'
    BY DEF Session!ensureHierarchy, Session!interrupted, Session!Cancelled, Session!Abort,
           Session!failRun, Session!ExitCode, Session!Call, Session!Apply, Session!Fails,
           Session!fixed, Session!helpers, Session!child, Session!server, Session!signals,
           SessionInv, SessionTypes, RunTypes, RelayTypes, HelpersInv, ChildInv, RunInv,
           EarnedInv, Session!CompletedIsEvidence, Relays, SessionSteps, Composing,
           WithCollector, Supervising, Leaving
  <1>. QED
    BY <1>1, <1>2, <1>3, <1>4, <1>5, <1>6, <1>7 DEF SessionInv

\* The run is created.
LEMMA SessionCreateRun == ASSUME SessionInv, Session!createRun PROVE SessionInv'
  <1>1. SessionTypes'
    BY DEF Session!createRun, Session!startRun, Session!Cancelled, Session!CancelledCall,
           Session!ExitCode, Session!Call, Session!Apply, Session!Fails, Session!fixed,
           Session!helpers, Session!child, Session!signals, SessionInv, SessionTypes,
           RelayTypes, Relays, SessionSteps, Composing, WithCollector, Supervising, Leaving
  <1>6. RunTypes'
    BY CallTypes
    DEF Session!createRun, Session!startRun, Session!Cancelled, Session!CancelledCall,
        Session!ExitCode, Session!fixed, Session!helpers, Session!child, Session!signals,
        Session!Apply, SessionInv, RunTypes, RunStates
  <1>7. RelayTypes'
    BY DEF Session!createRun, Session!startRun, Session!Cancelled, Session!CancelledCall,
           Session!ExitCode, Session!Call, Session!Apply, Session!Fails, Session!fixed,
           Session!helpers, Session!child, Session!signals, SessionInv, RelayTypes, Relays
  <1>2. HelpersInv'
    BY DEF Session!createRun, Session!startRun, Session!Cancelled, Session!CancelledCall,
           Session!ExitCode, Session!Call, Session!Apply, Session!Fails, Session!fixed,
           Session!helpers, Session!child, Session!signals, SessionInv, SessionTypes,
           RunTypes, RelayTypes, HelpersInv, SessionSteps, Composing, WithCollector,
           Supervising, Leaving
  <1>3. ChildInv'
    BY DEF Session!createRun, Session!startRun, Session!Cancelled, Session!CancelledCall,
           Session!ExitCode, Session!Call, Session!Apply, Session!Fails, Session!fixed,
           Session!helpers, Session!child, Session!signals, SessionInv, SessionTypes,
           RunTypes, RelayTypes, ChildInv, RunInv, Relays, SessionSteps, Composing,
           WithCollector, Supervising, Leaving
  <1>4. RunInv'
    BY DEF Session!createRun, Session!startRun, Session!Cancelled, Session!CancelledCall,
           Session!ExitCode, Session!Call, Session!Apply, Session!Fails, Session!fixed,
           Session!helpers, Session!child, Session!signals, SessionInv, SessionTypes,
           RunTypes, RelayTypes, HelpersInv, ChildInv, RunInv, SessionSteps, Composing,
           WithCollector, Supervising, Leaving
  <1>5. EarnedInv'
    BY DEF Session!createRun, Session!startRun, Session!Cancelled, Session!CancelledCall,
           Session!ExitCode, Session!Call, Session!Apply, Session!Fails, Session!fixed,
           Session!helpers, Session!child, Session!signals, SessionInv, SessionTypes,
           RunTypes, RelayTypes, HelpersInv, ChildInv, RunInv, EarnedInv,
           Session!CompletedIsEvidence, Relays, SessionSteps, Composing, WithCollector,
           Supervising, Leaving
  <1>. QED
    BY <1>1, <1>2, <1>3, <1>4, <1>5, <1>6, <1>7 DEF SessionInv

\* The run is started, and only an answered start is remembered.
LEMMA SessionBeginRun == ASSUME SessionInv, Session!beginRun PROVE SessionInv'
  <1>1. SessionTypes'
    BY DEF Session!beginRun, Session!startRun, Session!Cancelled, Session!CancelledCall,
           Session!ExitCode, Session!Call, Session!Apply, Session!Fails, Session!fixed,
           Session!helpers, Session!child, Session!signals, SessionInv, SessionTypes,
           RelayTypes, Relays, SessionSteps, Composing, WithCollector, Supervising, Leaving
  <1>6. RunTypes'
    BY CallTypes
    DEF Session!beginRun, Session!startRun, Session!Cancelled, Session!CancelledCall,
        Session!ExitCode, Session!fixed, Session!helpers, Session!child, Session!signals,
        Session!Apply, SessionInv, RunTypes, RunStates
  <1>7. RelayTypes'
    BY DEF Session!beginRun, Session!startRun, Session!Cancelled, Session!CancelledCall,
           Session!ExitCode, Session!Call, Session!Apply, Session!Fails, Session!fixed,
           Session!helpers, Session!child, Session!signals, SessionInv, RelayTypes, Relays
  <1>2. HelpersInv'
    BY DEF Session!beginRun, Session!startRun, Session!Cancelled, Session!CancelledCall,
           Session!ExitCode, Session!Call, Session!Apply, Session!Fails, Session!fixed,
           Session!helpers, Session!child, Session!signals, SessionInv, SessionTypes,
           RunTypes, RelayTypes, HelpersInv, SessionSteps, Composing, WithCollector,
           Supervising, Leaving
  <1>3. ChildInv'
    BY DEF Session!beginRun, Session!startRun, Session!Cancelled, Session!CancelledCall,
           Session!ExitCode, Session!Call, Session!Apply, Session!Fails, Session!fixed,
           Session!helpers, Session!child, Session!signals, SessionInv, SessionTypes,
           RunTypes, RelayTypes, ChildInv, RunInv, Relays, SessionSteps, Composing,
           WithCollector, Supervising, Leaving
  <1>4. RunInv'
    BY DEF Session!beginRun, Session!startRun, Session!Cancelled, Session!CancelledCall,
           Session!ExitCode, Session!Call, Session!Apply, Session!Fails, Session!fixed,
           Session!helpers, Session!child, Session!signals, SessionInv, SessionTypes,
           RunTypes, RelayTypes, HelpersInv, ChildInv, RunInv, SessionSteps, Composing,
           WithCollector, Supervising, Leaving
  <1>5. EarnedInv'
    BY DEF Session!beginRun, Session!startRun, Session!Cancelled, Session!CancelledCall,
           Session!ExitCode, Session!Call, Session!Apply, Session!Fails, Session!fixed,
           Session!helpers, Session!child, Session!signals, SessionInv, SessionTypes,
           RunTypes, RelayTypes, HelpersInv, ChildInv, RunInv, EarnedInv,
           Session!CompletedIsEvidence, Relays, SessionSteps, Composing, WithCollector,
           Supervising, Leaving
  <1>. QED
    BY <1>1, <1>2, <1>3, <1>4, <1>5, <1>6, <1>7 DEF SessionInv

\* A Collector is started, or a run the session knows is failed.
LEMMA SessionLaunchCollector == ASSUME SessionInv, Session!launchCollector PROVE SessionInv'
  <1>1. SessionTypes'
    BY DEF Session!launchCollector, Session!interrupted, Session!Cancelled, Session!Abort,
           Session!failRun, Session!ExitCode, Session!Call, Session!Apply, Session!Fails,
           Session!fixed, Session!child, Session!server, Session!signals, SessionInv,
           SessionTypes, RelayTypes, Relays, SessionSteps, Composing, WithCollector,
           Supervising, Leaving
  <1>6. RunTypes'
    BY CallTypes, FailRunTypes
    DEF Session!launchCollector, Session!interrupted, Session!Cancelled, Session!Abort,
        Session!ExitCode, Session!fixed, Session!child, Session!server, Session!signals,
        SessionInv, RunTypes, RunStates
  <1>7. RelayTypes'
    BY DEF Session!launchCollector, Session!interrupted, Session!Cancelled, Session!Abort,
           Session!failRun, Session!ExitCode, Session!Call, Session!Apply, Session!Fails,
           Session!fixed, Session!child, Session!server, Session!signals, SessionInv,
           RelayTypes, Relays
  <1>2. HelpersInv'
    BY DEF Session!launchCollector, Session!interrupted, Session!Cancelled, Session!Abort,
           Session!failRun, Session!ExitCode, Session!Call, Session!Apply, Session!Fails,
           Session!fixed, Session!child, Session!server, Session!signals, SessionInv,
           SessionTypes, RunTypes, RelayTypes, HelpersInv, SessionSteps, Composing,
           WithCollector, Supervising, Leaving
  <1>3. ChildInv'
    BY DEF Session!launchCollector, Session!interrupted, Session!Cancelled, Session!Abort,
           Session!failRun, Session!ExitCode, Session!Call, Session!Apply, Session!Fails,
           Session!fixed, Session!child, Session!server, Session!signals, SessionInv,
           SessionTypes, RunTypes, RelayTypes, ChildInv, RunInv, Relays, SessionSteps,
           Composing, WithCollector, Supervising, Leaving
  <1>4. RunInv'
    BY DEF Session!launchCollector, Session!interrupted, Session!Cancelled, Session!Abort,
           Session!failRun, Session!ExitCode, Session!Call, Session!Apply, Session!Fails,
           Session!fixed, Session!child, Session!server, Session!signals, SessionInv,
           SessionTypes, RunTypes, RelayTypes, HelpersInv, ChildInv, RunInv, SessionSteps,
           Composing, WithCollector, Supervising, Leaving
  <1>5. EarnedInv'
    BY DEF Session!launchCollector, Session!interrupted, Session!Cancelled, Session!Abort,
           Session!failRun, Session!ExitCode, Session!Call, Session!Apply, Session!Fails,
           Session!fixed, Session!reports, Session!child, Session!server, Session!signals,
           SessionInv, SessionTypes, RunTypes, RelayTypes, HelpersInv, ChildInv, RunInv,
           EarnedInv, Session!CompletedIsEvidence, Relays, SessionSteps, Composing,
           WithCollector, Supervising, Leaving
  <1>. QED
    BY <1>1, <1>2, <1>3, <1>4, <1>5, <1>6, <1>7 DEF SessionInv

\* The Collector is live, or stopped.
LEMMA SessionAwaitReady == ASSUME SessionInv, Session!awaitReady PROVE SessionInv'
  <1>1. SessionTypes'
    BY DEF Session!awaitReady, Session!Cancelled, Session!Abort, Session!failRun,
           Session!ExitCode, Session!Call, Session!Apply, Session!Fails, Session!fixed,
           Session!child, Session!server, Session!signals, SessionInv, SessionTypes,
           RelayTypes, Relays, SessionSteps, Composing, WithCollector, Supervising, Leaving
  <1>6. RunTypes'
    <2>1. CASE Session!Abort
      BY <2>1, FailRunTypes DEF Session!Abort, SessionInv, RunTypes
    <2>2. CASE UNCHANGED <<run, runStarted, runCompleted, sessionFailures>>
      BY <2>2 DEF SessionInv, RunTypes
    <2>3. CASE /\ sessionFailures' = sessionFailures + 1 /\ runStarted' = FALSE
               /\ run' = (IF run = "running" THEN "failed" ELSE run) /\ UNCHANGED runCompleted
      <3>1. sessionFailures' \in Nat
        BY <2>3 DEF SessionInv, RunTypes
      <3>2. run' \in RunStates
        BY <2>3 DEF SessionInv, RunTypes, RunStates
      <3>3. runStarted' \in BOOLEAN /\ runCompleted' \in BOOLEAN
        BY <2>3, Zenon DEF SessionInv, RunTypes
      <3>. QED
        BY <3>1, <3>2, <3>3 DEF RunTypes
    <2>. QED
      BY <2>1, <2>2, <2>3 DEF Session!awaitReady, Session!server
  <1>7. RelayTypes'
    BY DEF Session!awaitReady, Session!Cancelled, Session!Abort, Session!failRun,
           Session!ExitCode, Session!Call, Session!Apply, Session!Fails, Session!fixed,
           Session!child, Session!server, Session!signals, SessionInv, RelayTypes, Relays
  <1>2. HelpersInv'
    BY DEF Session!awaitReady, Session!Cancelled, Session!Abort, Session!failRun,
           Session!ExitCode, Session!Call, Session!Apply, Session!Fails, Session!fixed,
           Session!child, Session!server, Session!signals, SessionInv, SessionTypes, RunTypes,
           RelayTypes, HelpersInv, SessionSteps, Composing, WithCollector, Supervising,
           Leaving
  <1>3. ChildInv'
    BY DEF Session!awaitReady, Session!Cancelled, Session!Abort, Session!failRun,
           Session!ExitCode, Session!Call, Session!Apply, Session!Fails, Session!fixed,
           Session!child, Session!server, Session!signals, SessionInv, SessionTypes, RunTypes,
           RelayTypes, ChildInv, RunInv, Relays, SessionSteps, Composing, WithCollector,
           Supervising, Leaving
  <1>4. RunInv'
    BY DEF Session!awaitReady, Session!Cancelled, Session!Abort, Session!failRun,
           Session!ExitCode, Session!Call, Session!Apply, Session!Fails, Session!fixed,
           Session!child, Session!server, Session!signals, SessionInv, SessionTypes, RunTypes,
           RelayTypes, HelpersInv, ChildInv, RunInv, SessionSteps, Composing, WithCollector,
           Supervising, Leaving
  <1>5. EarnedInv'
    BY DEF Session!awaitReady, Session!Cancelled, Session!Abort, Session!failRun,
           Session!ExitCode, Session!Call, Session!Apply, Session!Fails, Session!fixed,
           Session!reports, Session!child, Session!server, Session!signals, SessionInv,
           SessionTypes, RunTypes, RelayTypes, HelpersInv, ChildInv, RunInv, EarnedInv,
           Session!CompletedIsEvidence, Relays, SessionSteps, Composing, WithCollector,
           Supervising, Leaving
  <1>. QED
    BY <1>1, <1>2, <1>3, <1>4, <1>5, <1>6, <1>7 DEF SessionInv

\* Everything is taken down.
LEMMA SessionTeardown == ASSUME SessionInv, Session!teardown PROVE SessionInv'
  <1>1. SessionTypes'
    BY DEF Session!teardown, Session!StoppedRuntime, Session!fixed, Session!reports,
           Session!child, Session!server, Session!signals, SessionInv, SessionTypes,
           RelayTypes, Relays, SessionSteps, Composing, WithCollector, Supervising, Leaving
  <1>6. RunTypes'
    BY DEF Session!teardown, Session!StoppedRuntime, Session!fixed, Session!reports,
           Session!child, Session!server, Session!signals, SessionInv, RunTypes
  <1>7. RelayTypes'
    BY DEF Session!teardown, Session!StoppedRuntime, Session!fixed, Session!reports,
           Session!child, Session!server, Session!signals, SessionInv, RelayTypes, Relays
  <1>2. HelpersInv'
    BY DEF Session!teardown, Session!StoppedRuntime, Session!fixed, Session!reports,
           Session!child, Session!server, Session!signals, SessionInv, SessionTypes, RunTypes,
           RelayTypes, HelpersInv, SessionSteps, Composing, WithCollector, Supervising,
           Leaving
  <1>3. ChildInv'
    BY DEF Session!teardown, Session!StoppedRuntime, Session!fixed, Session!reports,
           Session!child, Session!server, Session!signals, SessionInv, SessionTypes, RunTypes,
           RelayTypes, ChildInv, RunInv, Relays, SessionSteps, Composing, WithCollector,
           Supervising, Leaving
  <1>4. RunInv'
    BY DEF Session!teardown, Session!StoppedRuntime, Session!fixed, Session!reports,
           Session!child, Session!server, Session!signals, SessionInv, SessionTypes, RunTypes,
           RelayTypes, HelpersInv, ChildInv, RunInv, SessionSteps, Composing, WithCollector,
           Supervising, Leaving
  <1>5. EarnedInv'
    BY DEF Session!teardown, Session!StoppedRuntime, Session!fixed, Session!reports,
           Session!child, Session!server, Session!signals, SessionInv, SessionTypes, RunTypes,
           RelayTypes, HelpersInv, ChildInv, RunInv, EarnedInv, Session!CompletedIsEvidence,
           Relays, SessionSteps, Composing, WithCollector, Supervising, Leaving
  <1>. QED
    BY <1>1, <1>2, <1>3, <1>4, <1>5, <1>6, <1>7 DEF SessionInv

\* Only a report of the own Collector counts.
LEMMA SessionAwaitDevCheckReport == ASSUME SessionInv, Session!awaitDevCheckReport PROVE SessionInv'
  <1>1. SessionTypes'
    BY DEF Session!awaitDevCheckReport, Session!NewReport, Session!Cancelled, Session!fixed,
           Session!reports, Session!helpers, Session!child, Session!server, Session!signals,
           SessionInv, SessionTypes, RelayTypes, Relays, SessionSteps, Composing,
           WithCollector, Supervising, Leaving
  <1>6. RunTypes'
    BY DEF Session!awaitDevCheckReport, Session!NewReport, Session!Cancelled, Session!fixed,
           Session!reports, Session!helpers, Session!child, Session!server, Session!signals,
           SessionInv, RunTypes
  <1>7. RelayTypes'
    BY DEF Session!awaitDevCheckReport, Session!NewReport, Session!Cancelled, Session!fixed,
           Session!reports, Session!helpers, Session!child, Session!server, Session!signals,
           SessionInv, RelayTypes, Relays
  <1>2. HelpersInv'
    BY DEF Session!awaitDevCheckReport, Session!NewReport, Session!Cancelled, Session!fixed,
           Session!reports, Session!helpers, Session!child, Session!server, Session!signals,
           SessionInv, SessionTypes, RunTypes, RelayTypes, HelpersInv, SessionSteps,
           Composing, WithCollector, Supervising, Leaving
  <1>3. ChildInv'
    BY DEF Session!awaitDevCheckReport, Session!NewReport, Session!Cancelled, Session!fixed,
           Session!reports, Session!helpers, Session!child, Session!server, Session!signals,
           SessionInv, SessionTypes, RunTypes, RelayTypes, ChildInv, RunInv, Relays,
           SessionSteps, Composing, WithCollector, Supervising, Leaving
  <1>4. RunInv'
    BY DEF Session!awaitDevCheckReport, Session!NewReport, Session!Cancelled, Session!fixed,
           Session!reports, Session!helpers, Session!child, Session!server, Session!signals,
           SessionInv, SessionTypes, RunTypes, RelayTypes, HelpersInv, ChildInv, RunInv,
           SessionSteps, Composing, WithCollector, Supervising, Leaving
  <1>5. EarnedInv'
    BY DEF Session!awaitDevCheckReport, Session!NewReport, Session!Cancelled, Session!fixed,
           Session!reports, Session!helpers, Session!child, Session!server, Session!signals,
           SessionInv, SessionTypes, RunTypes, RelayTypes, HelpersInv, ChildInv, RunInv,
           EarnedInv, Session!CompletedIsEvidence, Relays, SessionSteps, Composing,
           WithCollector, Supervising, Leaving
  <1>. QED
    BY <1>1, <1>2, <1>3, <1>4, <1>5, <1>6, <1>7 DEF SessionInv

\* The workload is started.
LEMMA SessionStartChild == ASSUME SessionInv, Session!startChild PROVE SessionInv'
  <1>1. SessionTypes'
    BY DEF Session!startChild, Session!interrupted, Session!Cancelled, Session!Abort,
           Session!failRun, Session!ExitCode, Session!Call, Session!Apply, Session!Fails,
           Session!fixed, Session!helpers, Session!server, Session!signals, SessionInv,
           SessionTypes, RelayTypes, Relays, SessionSteps, Composing, WithCollector,
           Supervising, Leaving
  <1>6. RunTypes'
    BY CallTypes, FailRunTypes
    DEF Session!startChild, Session!interrupted, Session!Cancelled, Session!Abort,
        Session!ExitCode, Session!fixed, Session!helpers, Session!server, Session!signals,
        SessionInv, RunTypes, RunStates
  <1>7. RelayTypes'
    BY DEF Session!startChild, Session!interrupted, Session!Cancelled, Session!Abort,
           Session!failRun, Session!ExitCode, Session!Call, Session!Apply, Session!Fails,
           Session!fixed, Session!helpers, Session!server, Session!signals, SessionInv,
           RelayTypes, Relays
  <1>2. HelpersInv'
    BY DEF Session!startChild, Session!interrupted, Session!Cancelled, Session!Abort,
           Session!failRun, Session!ExitCode, Session!Call, Session!Apply, Session!Fails,
           Session!fixed, Session!helpers, Session!server, Session!signals, SessionInv,
           SessionTypes, RunTypes, RelayTypes, HelpersInv, SessionSteps, Composing,
           WithCollector, Supervising, Leaving
  <1>3. ChildInv'
    BY DEF Session!startChild, Session!interrupted, Session!Cancelled, Session!Abort,
           Session!failRun, Session!ExitCode, Session!Call, Session!Apply, Session!Fails,
           Session!fixed, Session!helpers, Session!server, Session!signals, SessionInv,
           SessionTypes, RunTypes, RelayTypes, ChildInv, RunInv, Relays, SessionSteps,
           Composing, WithCollector, Supervising, Leaving
  <1>4. RunInv'
    BY DEF Session!startChild, Session!interrupted, Session!Cancelled, Session!Abort,
           Session!failRun, Session!ExitCode, Session!Call, Session!Apply, Session!Fails,
           Session!fixed, Session!helpers, Session!server, Session!signals, SessionInv,
           SessionTypes, RunTypes, RelayTypes, HelpersInv, ChildInv, RunInv, SessionSteps,
           Composing, WithCollector, Supervising, Leaving
  <1>5. EarnedInv'
    BY DEF Session!startChild, Session!interrupted, Session!Cancelled, Session!Abort,
           Session!failRun, Session!ExitCode, Session!Call, Session!Apply, Session!Fails,
           Session!fixed, Session!helpers, Session!server, Session!signals, SessionInv,
           SessionTypes, RunTypes, RelayTypes, HelpersInv, ChildInv, RunInv, EarnedInv,
           Session!CompletedIsEvidence, Relays, SessionSteps, Composing, WithCollector,
           Supervising, Leaving
  <1>. QED
    BY <1>1, <1>2, <1>3, <1>4, <1>5, <1>6, <1>7 DEF SessionInv

\* What arrived while it started is delivered.
LEMMA SessionSetTarget == ASSUME SessionInv, Session!setTarget PROVE SessionInv'
  <1>1. SessionTypes'
    BY DEF Session!setTarget, Session!Deliver, Session!Cancelled, Session!fixed,
           Session!reports, Session!helpers, Session!server, SessionInv, SessionTypes,
           RelayTypes, Relays, SessionSteps, Composing, WithCollector, Supervising, Leaving
  <1>6. RunTypes'
    BY DEF Session!setTarget, Session!Deliver, Session!Cancelled, Session!fixed,
           Session!reports, Session!helpers, Session!server, SessionInv, RunTypes
  <1>7. RelayTypes'
    BY DEF Session!setTarget, Session!Deliver, Session!Cancelled, Session!fixed,
           Session!reports, Session!helpers, Session!server, SessionInv, RelayTypes, Relays
  <1>2. HelpersInv'
    BY DEF Session!setTarget, Session!Deliver, Session!Cancelled, Session!fixed,
           Session!reports, Session!helpers, Session!server, SessionInv, SessionTypes,
           RunTypes, RelayTypes, HelpersInv, SessionSteps, Composing, WithCollector,
           Supervising, Leaving
  <1>3. ChildInv'
    BY DEF Session!setTarget, Session!Deliver, Session!Cancelled, Session!fixed,
           Session!reports, Session!helpers, Session!server, SessionInv, SessionTypes,
           RunTypes, RelayTypes, ChildInv, RunInv, Relays, SessionSteps, Composing,
           WithCollector, Supervising, Leaving
  <1>4. RunInv'
    BY DEF Session!setTarget, Session!Deliver, Session!Cancelled, Session!fixed,
           Session!reports, Session!helpers, Session!server, SessionInv, SessionTypes,
           RunTypes, RelayTypes, HelpersInv, ChildInv, RunInv, SessionSteps, Composing,
           WithCollector, Supervising, Leaving
  <1>5. EarnedInv'
    BY DEF Session!setTarget, Session!Deliver, Session!Cancelled, Session!fixed,
           Session!reports, Session!helpers, Session!server, SessionInv, SessionTypes,
           RunTypes, RelayTypes, HelpersInv, ChildInv, RunInv, EarnedInv,
           Session!CompletedIsEvidence, Relays, SessionSteps, Composing, WithCollector,
           Supervising, Leaving
  <1>. QED
    BY <1>1, <1>2, <1>3, <1>4, <1>5, <1>6, <1>7 DEF SessionInv

\* The workload is reaped.
LEMMA SessionWait == ASSUME SessionInv, Session!Wait PROVE SessionInv'
  <1>1. SessionTypes'
    BY DEF Session!Wait, Session!fixed, Session!reports, Session!helpers, Session!server,
           Session!signals, SessionInv, SessionTypes, RelayTypes, Relays, SessionSteps,
           Composing, WithCollector, Supervising, Leaving
  <1>6. RunTypes'
    BY DEF Session!Wait, Session!fixed, Session!reports, Session!helpers, Session!server,
           Session!signals, SessionInv, RunTypes
  <1>7. RelayTypes'
    BY DEF Session!Wait, Session!fixed, Session!reports, Session!helpers, Session!server,
           Session!signals, SessionInv, RelayTypes, Relays
  <1>2. HelpersInv'
    BY DEF Session!Wait, Session!fixed, Session!reports, Session!helpers, Session!server,
           Session!signals, SessionInv, SessionTypes, RunTypes, RelayTypes, HelpersInv,
           SessionSteps, Composing, WithCollector, Supervising, Leaving
  <1>3. ChildInv'
    BY DEF Session!Wait, Session!fixed, Session!reports, Session!helpers, Session!server,
           Session!signals, SessionInv, SessionTypes, RunTypes, RelayTypes, ChildInv, RunInv,
           Relays, SessionSteps, Composing, WithCollector, Supervising, Leaving
  <1>4. RunInv'
    BY DEF Session!Wait, Session!fixed, Session!reports, Session!helpers, Session!server,
           Session!signals, SessionInv, SessionTypes, RunTypes, RelayTypes, HelpersInv,
           ChildInv, RunInv, SessionSteps, Composing, WithCollector, Supervising, Leaving
  <1>5. EarnedInv'
    BY DEF Session!Wait, Session!fixed, Session!reports, Session!helpers, Session!server,
           Session!signals, SessionInv, SessionTypes, RunTypes, RelayTypes, HelpersInv,
           ChildInv, RunInv, EarnedInv, Session!CompletedIsEvidence, Relays, SessionSteps,
           Composing, WithCollector, Supervising, Leaving
  <1>. QED
    BY <1>1, <1>2, <1>3, <1>4, <1>5, <1>6, <1>7 DEF SessionInv

\* No more forwarding; what a deadline left is killed.
LEMMA SessionClearTarget == ASSUME SessionInv, Session!clearTarget PROVE SessionInv'
  <1>1. SessionTypes'
    BY DEF Session!clearTarget, Session!fixed, Session!reports, Session!helpers,
           Session!server, SessionInv, SessionTypes, RelayTypes, Relays, SessionSteps,
           Composing, WithCollector, Supervising, Leaving
  <1>6. RunTypes'
    BY DEF Session!clearTarget, Session!fixed, Session!reports, Session!helpers,
           Session!server, SessionInv, RunTypes
  <1>7. RelayTypes'
    BY DEF Session!clearTarget, Session!fixed, Session!reports, Session!helpers,
           Session!server, SessionInv, RelayTypes, Relays
  <1>2. HelpersInv'
    BY DEF Session!clearTarget, Session!fixed, Session!reports, Session!helpers,
           Session!server, SessionInv, SessionTypes, RunTypes, RelayTypes, HelpersInv,
           SessionSteps, Composing, WithCollector, Supervising, Leaving
  <1>3. ChildInv'
    BY DEF Session!clearTarget, Session!fixed, Session!reports, Session!helpers,
           Session!server, SessionInv, SessionTypes, RunTypes, RelayTypes, ChildInv, RunInv,
           Relays, SessionSteps, Composing, WithCollector, Supervising, Leaving
  <1>4. RunInv'
    BY DEF Session!clearTarget, Session!fixed, Session!reports, Session!helpers,
           Session!server, SessionInv, SessionTypes, RunTypes, RelayTypes, HelpersInv,
           ChildInv, RunInv, SessionSteps, Composing, WithCollector, Supervising, Leaving
  <1>5. EarnedInv'
    BY DEF Session!clearTarget, Session!fixed, Session!reports, Session!helpers,
           Session!server, SessionInv, SessionTypes, RunTypes, RelayTypes, HelpersInv,
           ChildInv, RunInv, EarnedInv, Session!CompletedIsEvidence, Relays, SessionSteps,
           Composing, WithCollector, Supervising, Leaving
  <1>. QED
    BY <1>1, <1>2, <1>3, <1>4, <1>5, <1>6, <1>7 DEF SessionInv

\* The Collector is flushed into the run.
LEMMA SessionStopCollector == ASSUME SessionInv, Session!StopCollector PROVE SessionInv'
  <1>1. SessionTypes'
    BY DEF Session!StopCollector, Session!fixed, Session!reports, Session!child,
           Session!server, Session!signals, SessionInv, SessionTypes, RelayTypes, Relays,
           SessionSteps, Composing, WithCollector, Supervising, Leaving
  <1>6. RunTypes'
    BY DEF Session!StopCollector, Session!fixed, Session!reports, Session!child,
           Session!server, Session!signals, SessionInv, RunTypes
  <1>7. RelayTypes'
    BY DEF Session!StopCollector, Session!fixed, Session!reports, Session!child,
           Session!server, Session!signals, SessionInv, RelayTypes, Relays
  <1>2. HelpersInv'
    BY DEF Session!StopCollector, Session!fixed, Session!reports, Session!child,
           Session!server, Session!signals, SessionInv, SessionTypes, RunTypes, RelayTypes,
           HelpersInv, SessionSteps, Composing, WithCollector, Supervising, Leaving
  <1>3. ChildInv'
    BY DEF Session!StopCollector, Session!fixed, Session!reports, Session!child,
           Session!server, Session!signals, SessionInv, SessionTypes, RunTypes, RelayTypes,
           ChildInv, RunInv, Relays, SessionSteps, Composing, WithCollector, Supervising,
           Leaving
  <1>4. RunInv'
    BY DEF Session!StopCollector, Session!fixed, Session!reports, Session!child,
           Session!server, Session!signals, SessionInv, SessionTypes, RunTypes, RelayTypes,
           HelpersInv, ChildInv, RunInv, SessionSteps, Composing, WithCollector, Supervising,
           Leaving
  <1>5. EarnedInv'
    BY DEF Session!StopCollector, Session!fixed, Session!reports, Session!child,
           Session!server, Session!signals, SessionInv, SessionTypes, RunTypes, RelayTypes,
           HelpersInv, ChildInv, RunInv, EarnedInv, Session!CompletedIsEvidence, Relays,
           SessionSteps, Composing, WithCollector, Supervising, Leaving
  <1>. QED
    BY <1>1, <1>2, <1>3, <1>4, <1>5, <1>6, <1>7 DEF SessionInv

\* The run is failed.
LEMMA SessionFinishFailed == ASSUME SessionInv, Session!FinishFailed PROVE SessionInv'
  <1>1. SessionTypes'
    BY DEF Session!FinishFailed, Session!deadlinePassed, Session!Finished,
           Session!stoppedByDeveloper, Session!failRun, Session!Call, Session!Apply,
           Session!Fails, Session!OutcomeCode, Session!fixed, Session!helpers, Session!child,
           Session!signals, SessionInv, SessionTypes, RelayTypes, Relays, SessionSteps,
           Composing, WithCollector, Supervising, Leaving
  <1>6. RunTypes'
    BY CallTypes, FailRunTypes
    DEF Session!FinishFailed, Session!deadlinePassed, Session!Finished,
        Session!stoppedByDeveloper, Session!OutcomeCode, Session!fixed, Session!helpers,
        Session!child, Session!signals, SessionInv, RunTypes, RunStates
  <1>7. RelayTypes'
    BY DEF Session!FinishFailed, Session!deadlinePassed, Session!Finished,
           Session!stoppedByDeveloper, Session!failRun, Session!Call, Session!Apply,
           Session!Fails, Session!OutcomeCode, Session!fixed, Session!helpers, Session!child,
           Session!signals, SessionInv, RelayTypes, Relays
  <1>2. HelpersInv'
    BY DEF Session!FinishFailed, Session!deadlinePassed, Session!Finished,
           Session!stoppedByDeveloper, Session!failRun, Session!Call, Session!Apply,
           Session!Fails, Session!OutcomeCode, Session!fixed, Session!helpers, Session!child,
           Session!signals, SessionInv, SessionTypes, RunTypes, RelayTypes, HelpersInv,
           SessionSteps, Composing, WithCollector, Supervising, Leaving
  <1>3. ChildInv'
    BY DEF Session!FinishFailed, Session!deadlinePassed, Session!Finished,
           Session!stoppedByDeveloper, Session!failRun, Session!Call, Session!Apply,
           Session!Fails, Session!OutcomeCode, Session!fixed, Session!helpers, Session!child,
           Session!signals, SessionInv, SessionTypes, RunTypes, RelayTypes, ChildInv, RunInv,
           Relays, SessionSteps, Composing, WithCollector, Supervising, Leaving
  <1>4. RunInv'
    BY DEF Session!FinishFailed, Session!deadlinePassed, Session!Finished,
           Session!stoppedByDeveloper, Session!failRun, Session!Call, Session!Apply,
           Session!Fails, Session!OutcomeCode, Session!fixed, Session!helpers, Session!child,
           Session!signals, SessionInv, SessionTypes, RunTypes, RelayTypes, HelpersInv,
           ChildInv, RunInv, SessionSteps, Composing, WithCollector, Supervising, Leaving
  <1>5. EarnedInv'
    BY DEF Session!FinishFailed, Session!deadlinePassed, Session!Finished,
           Session!stoppedByDeveloper, Session!failRun, Session!Call, Session!Apply,
           Session!Fails, Session!OutcomeCode, Session!fixed, Session!helpers, Session!child,
           Session!signals, SessionInv, SessionTypes, RunTypes, RelayTypes, HelpersInv,
           ChildInv, RunInv, EarnedInv, Session!CompletedIsEvidence, Relays, SessionSteps,
           Composing, WithCollector, Supervising, Leaving
  <1>. QED
    BY <1>1, <1>2, <1>3, <1>4, <1>5, <1>6, <1>7 DEF SessionInv

\* The run is completed, and known as completed when the control plane said so.
LEMMA SessionFinishCompleted == ASSUME SessionInv, Session!FinishCompleted PROVE SessionInv'
  <1>1. SessionTypes'
    BY DEF Session!FinishCompleted, Session!deadlinePassed, Session!Finished,
           Session!stoppedByDeveloper, Session!completeRun, Session!Call, Session!Apply,
           Session!Fails, Session!OutcomeCode, Session!fixed, Session!helpers, Session!child,
           Session!signals, SessionInv, SessionTypes, RelayTypes, Relays, SessionSteps,
           Composing, WithCollector, Supervising, Leaving
  <1>6. RunTypes'
    BY CallTypes
    DEF Session!FinishCompleted, Session!deadlinePassed, Session!Finished,
        Session!stoppedByDeveloper, Session!completeRun, Session!OutcomeCode, Session!fixed,
        Session!helpers, Session!child, Session!signals, SessionInv, RunTypes, RunStates
  <1>7. RelayTypes'
    BY DEF Session!FinishCompleted, Session!deadlinePassed, Session!Finished,
           Session!stoppedByDeveloper, Session!completeRun, Session!Call, Session!Apply,
           Session!Fails, Session!OutcomeCode, Session!fixed, Session!helpers, Session!child,
           Session!signals, SessionInv, RelayTypes, Relays
  <1>2. HelpersInv'
    BY DEF Session!FinishCompleted, Session!deadlinePassed, Session!Finished,
           Session!stoppedByDeveloper, Session!completeRun, Session!Call, Session!Apply,
           Session!Fails, Session!OutcomeCode, Session!fixed, Session!helpers, Session!child,
           Session!signals, SessionInv, SessionTypes, RunTypes, RelayTypes, HelpersInv,
           SessionSteps, Composing, WithCollector, Supervising, Leaving
  <1>3. ChildInv'
    BY DEF Session!FinishCompleted, Session!deadlinePassed, Session!Finished,
           Session!stoppedByDeveloper, Session!completeRun, Session!Call, Session!Apply,
           Session!Fails, Session!OutcomeCode, Session!fixed, Session!helpers, Session!child,
           Session!signals, SessionInv, SessionTypes, RunTypes, RelayTypes, ChildInv, RunInv,
           Relays, SessionSteps, Composing, WithCollector, Supervising, Leaving
  <1>4. RunInv'
    BY DEF Session!FinishCompleted, Session!deadlinePassed, Session!Finished,
           Session!stoppedByDeveloper, Session!completeRun, Session!Call, Session!Apply,
           Session!Fails, Session!OutcomeCode, Session!fixed, Session!helpers, Session!child,
           Session!signals, SessionInv, SessionTypes, RunTypes, RelayTypes, HelpersInv,
           ChildInv, RunInv, SessionSteps, Composing, WithCollector, Supervising, Leaving
  <1>5. EarnedInv'
    BY DEF Session!FinishCompleted, Session!deadlinePassed, Session!Finished,
           Session!stoppedByDeveloper, Session!completeRun, Session!Call, Session!Apply,
           Session!Fails, Session!OutcomeCode, Session!fixed, Session!helpers, Session!child,
           Session!signals, SessionInv, SessionTypes, RunTypes, RelayTypes, HelpersInv,
           ChildInv, RunInv, EarnedInv, Session!CompletedIsEvidence, Relays, SessionSteps,
           Composing, WithCollector, Supervising, Leaving
  <1>. QED
    BY <1>1, <1>2, <1>3, <1>4, <1>5, <1>6, <1>7 DEF SessionInv

\* Completed in time, or not at all.
LEMMA SessionFinalizeWithinDeadline == ASSUME SessionInv, Session!finalizeWithinDeadline PROVE SessionInv'
  <1>1. SessionTypes'
    BY DEF Session!finalizeWithinDeadline, Session!Call, Session!Apply, Session!Fails,
           Session!fixed, Session!helpers, Session!child, Session!signals, SessionInv,
           SessionTypes, RelayTypes, Relays, SessionSteps, Composing, WithCollector,
           Supervising, Leaving
  <1>6. RunTypes'
    BY CallTypes
    DEF Session!finalizeWithinDeadline, Session!fixed, Session!reports, Session!helpers,
        Session!child, Session!signals, SessionInv, RunTypes, RunStates
  <1>7. RelayTypes'
    BY DEF Session!finalizeWithinDeadline, Session!Call, Session!Apply, Session!Fails,
           Session!fixed, Session!helpers, Session!child, Session!signals, SessionInv,
           RelayTypes, Relays
  <1>2. HelpersInv'
    BY DEF Session!finalizeWithinDeadline, Session!Call, Session!Apply, Session!Fails,
           Session!fixed, Session!helpers, Session!child, Session!signals, SessionInv,
           SessionTypes, RunTypes, RelayTypes, HelpersInv, SessionSteps, Composing,
           WithCollector, Supervising, Leaving
  <1>3. ChildInv'
    BY DEF Session!finalizeWithinDeadline, Session!Call, Session!Apply, Session!Fails,
           Session!fixed, Session!helpers, Session!child, Session!signals, SessionInv,
           SessionTypes, RunTypes, RelayTypes, ChildInv, RunInv, Relays, SessionSteps,
           Composing, WithCollector, Supervising, Leaving
  <1>4. RunInv'
    BY DEF Session!finalizeWithinDeadline, Session!Call, Session!Apply, Session!Fails,
           Session!fixed, Session!helpers, Session!child, Session!signals, SessionInv,
           SessionTypes, RunTypes, RelayTypes, HelpersInv, ChildInv, RunInv, SessionSteps,
           Composing, WithCollector, Supervising, Leaving
  <1>5. EarnedInv'
    BY DEF Session!finalizeWithinDeadline, Session!Call, Session!Apply, Session!Fails,
           Session!fixed, Session!helpers, Session!child, Session!signals, SessionInv,
           SessionTypes, RunTypes, RelayTypes, HelpersInv, ChildInv, RunInv, EarnedInv,
           Session!CompletedIsEvidence, Relays, SessionSteps, Composing, WithCollector,
           Supervising, Leaving
  <1>. QED
    BY <1>1, <1>2, <1>3, <1>4, <1>5, <1>6, <1>7 DEF SessionInv

\* A session at its beginning.
LEMMA SessionInit == ASSUME Session!SessionAssumption, Session!Init PROVE SessionInv
  <1>1. SessionTypes
    BY DEF Session!SessionAssumption, Session!Init, SessionTypes, SessionSteps, Composing
  <1>2. RunTypes /\ RelayTypes
    BY DEF Session!Init, RunTypes, RunStates, RelayTypes, Relays
  <1>3. HelpersInv /\ ChildInv /\ RunInv /\ EarnedInv
    BY DEF Session!Init, HelpersInv, ChildInv, RunInv, EarnedInv, Session!CompletedIsEvidence,
           Composing, WithCollector, Supervising, Leaving
  <1>. QED
    BY <1>1, <1>2, <1>3 DEF SessionInv

\* Every step of the session, of the relay, the timers and the workload keeps
\* the invariant.
LEMMA SessionStep == ASSUME SessionInv, [Session!Next]_sessionVars PROVE SessionInv'
  <1>1. CASE UNCHANGED sessionVars
    BY <1>1 DEF sessionVars, SessionInv, SessionTypes, RunTypes, RelayTypes, HelpersInv,
                ChildInv, RunInv, EarnedInv, Session!CompletedIsEvidence
  <1>2. CASE Session!Composition
    BY <1>2, SessionPrepare, SessionStartLocalRuntime, SessionAwaitDiscovery,
       SessionEnsureHierarchy, SessionLaunchCollector, SessionAwaitReady, SessionTeardown
    DEF Session!Composition
  <1>3. CASE Session!Session
    BY <1>2, <1>3, SessionAwaitDevCheckReport, SessionCreateRun, SessionBeginRun,
       SessionStartChild, SessionSetTarget, SessionWait, SessionClearTarget,
       SessionStopCollector, SessionFinishFailed, SessionFinishCompleted,
       SessionFinalizeWithinDeadline
    DEF Session!Session, Session!runDevCheck, Session!composeAndRun
  <1>. QED
    BY <1>1, <1>3, SessionSignalArrives, SessionRunTake, SessionRunForward, SessionDeadline,
       SessionExpire, SessionTerminate, SessionWorkloadEnds, SessionCollectorReports
    DEF Session!Next

(* A development session leaves nothing running whichever step gave up, a run *)
(* is completed only with its evidence, an exit of 0 is true (of --check: an  *)
(* instance other than the one held before has reported since), and a run the *)
(* session knew as running does not stay open without a failed call (dev.go,  *)
(* devSession and finish; dev_signals.go, signalRelay; dev_check.go,          *)
(* awaitDevCheckReport).                                                      *)
THEOREM SessionSound == ProgressSpec => []SessionIsSound
  <1> DEFINE PartInv == part = "session" => SessionInv
  <1>1. ProgressInit => PartInv
    BY SessionInit, PartsAssumption DEF ProgressInit
  <1>2. PartInv /\ [ProgressNext]_all => PartInv'
    <2> SUFFICES ASSUME PartInv, [ProgressNext]_all, part = "session" PROVE SessionInv'
      BY PartStays
    <2>1. [Session!Next]_sessionVars
      BY DEF ProgressNext, all
    <2>. QED
      BY <2>1, SessionStep
  <1>3. PartInv => SessionIsSound
    <2> SUFFICES ASSUME SessionInv PROVE Session!SessionIsSound
      BY DEF SessionIsSound
    <2>1. Session!NothingIsLeft
      BY DEF Session!NothingIsLeft, Session!Ended, SessionInv, HelpersInv, ChildInv, Leaving
    <2>2. Session!CompletedIsEvidence
      BY DEF SessionInv, EarnedInv
    <2>3. Session!ExitIsTrue
      BY <2>2 DEF Session!ExitIsTrue, Session!CompletedIsEvidence, Session!Ended, SessionInv,
                  SessionTypes, EarnedInv
    <2>4. Session!KnownRunsEnd
      BY DEF Session!KnownRunsEnd, Session!Ended, SessionInv, RunInv, Leaving
    <2>. QED
      BY <2>1, <2>2, <2>3, <2>4 DEF Session!SessionIsSound
  <1>. QED
    BY <1>1, <1>2, <1>3, PTL DEF ProgressSpec
=============================================================================
